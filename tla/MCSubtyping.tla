------------------------------ MODULE MCSubtyping ------------------------------
(***************************************************************************)
(* Subtyping over every scalar type the language registers and some        *)
(* function types.                                                         *)
(***************************************************************************)
EXTENDS Subtyping

MCWidths == {8, 16, 32, 64}
MCTypes == ScalarTypes(MCWidths)
           \cup {FunctionSignature(<<SInt(64)>>, Void),
                 FunctionSignature(<<SInt(64)>>, SInt(64)),
                 FunctionSignature(<<>>, Void)}
================================================================================
