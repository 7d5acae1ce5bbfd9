------------------------------ MODULE MCEvaluation ------------------------------
(***************************************************************************)
(* Evaluation with words of 3, 4, 5 and 6 bits, and literals around the    *)
(* limits of their types.                                                  *)
(***************************************************************************)
EXTENDS Evaluation

MCBitWidth == [w \in Widths |-> CASE w = 8 -> 3 [] w = 16 -> 4 [] w = 32 -> 5 [] w = 64 -> 6]
MCHalf     == [w \in Widths |-> PowerOf2[MCBitWidth[w] - 1]]

MCInfix == {"as", "pow", "multiply", "divide", "modulo", "plus", "minus",
            "bitshift_right_", "bitshift_left_", "bitand_", "bitor_", "bitxor_",
            "booland", "boolor", "lsr", "leq", "geq", "grt", "eq", "neq"}
MCUnsigned == {0, 2, 7, 8, 63}
MCSigned   == {-1, -4, -5}
================================================================================
