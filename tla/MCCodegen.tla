------------------------------- MODULE MCCodegen -------------------------------
(***************************************************************************)
(* Instances of Codegen: what its constants are in each run.               *)
(***************************************************************************)
EXTENDS Codegen

Sig(name, params, names, ret) ==
  [name |-> name, params |-> params, names |-> names, ret |-> ret]
Literal(signed, bits) == [signed |-> signed, bits |-> bits]

\* One function that calls itself, whose conditions, results and arguments are as
\* rich as the bounds allow
ExprHints      == {"u64", "f32"}
ExprLiterals   == {Literal(TRUE, 8), Literal(FALSE, 9)}
ExprOperators  == {"as", "plus", "bitshift_left_", "pow", "booland", "comparison"}
ExprCallees    == {"f"}
ExprSignatures == {Sig("f", <<"i64">>, {}, "i8")}

\* Functions that share their name with each other, with a variable and with a builtin
\* type; one with the name of a builtin function; an unknown and an ill-formed signature
DeclVars       == {"x", "i8"}
DeclHints      == {"i64", "i8", "unknown"}
DeclLiterals   == {Literal(TRUE, 8)}
DeclCallees    == {"i8", "put_i64"}
DeclSignatures ==
  {Sig("i8", <<>>, {}, ""), Sig("i8", <<"i64">>, {"x"}, "i8"),
   Sig("put_i64", <<>>, {}, "i64"),
   Sig("f", <<"unknown">>, {"x"}, ""), Sig("f", <<"void">>, {"x"}, "")}

\* Branches and returns, in functions with and without a result
FlowHints      == {"bool"}
FlowLiterals   == {Literal(TRUE, 8)}
FlowCallees    == {"put_i64", "f"}
FlowSignatures == {Sig("main", <<>>, {}, ""), Sig("f", <<>>, {}, "i8")}

\* Two literals of one sign and different widths
SameSignLiterals == {Literal(TRUE, 8), Literal(TRUE, 16)}

\* examples/fib.by: a function that reads its parameter
FibSignatures == {Sig("fibonacci", <<"u64">>, {"n"}, "u64")}
================================================================================
