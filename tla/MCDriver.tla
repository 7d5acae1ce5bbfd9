-------------------------------- MODULE MCDriver --------------------------------
(***************************************************************************)
(* Driver on programs of branches, returns and calls of builtin functions, *)
(* in functions with and without a result or a parameter.                  *)
(***************************************************************************)
EXTENDS Driver

MCSig(name, params, names, ret) ==
  [name |-> name, params |-> params, names |-> names, ret |-> ret]

MCHints      == {"bool"}
MCLiterals   == {[signed |-> TRUE, bits |-> 8]}
MCCallees    == {"put_i64", "put_f64"}
MCSignatures == {MCSig("main", <<>>, {}, ""), MCSig("main", <<"i8">>, {"n"}, ""),
                 MCSig("f", <<>>, {}, "i8")}
================================================================================
