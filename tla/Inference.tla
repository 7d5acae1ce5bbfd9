------------------------------- MODULE Inference -------------------------------
(***************************************************************************)
(* The type an operation has, from the types of its operands, in an        *)
(* environment whose type names are `types` (type_system/inference.cpp).   *)
(***************************************************************************)
EXTENDS Environment

\* The larger of two integer types; of two equally wide ones, `first`
LargerOr(first, second) == IF first.width >= second.width THEN first ELSE second

\* + - * / % & ^ | on two integers: the larger one; of an unsigned and a signed
\* one of the same width, the unsigned one
InferArithmetic(lhs, rhs) ==
  CASE IsInteger(lhs) /\ lhs.tag = rhs.tag  -> LargerOr(lhs, rhs)
    [] lhs.tag = "uint" /\ rhs.tag = "sint" -> LargerOr(lhs, rhs)
    [] lhs.tag = "sint" /\ rhs.tag = "uint" -> LargerOr(rhs, lhs)
    [] OTHER                                -> Nullopt

InferShift(lhs, rhs) == IF rhs.tag = "uint" THEN lhs ELSE Nullopt

ArithmeticOps == {"multiply", "divide", "modulo", "plus", "minus",
                  "bitand_", "bitxor_", "bitor_"}
ShiftOps      == {"bitshift_right_", "bitshift_left_"}
BooleanOps    == {"booland", "boolor"}
BinaryOps     == {"pow"} \cup ArithmeticOps \cup ShiftOps \cup BooleanOps

\* Every binary operation but `as`, whose right-hand side is not inferred
InferBinary(types, op, lhs, rhs) ==
  IF lhs = Nullopt \/ rhs = Nullopt
  THEN Nullopt
  ELSE CASE op = "pow"           -> LookupType(types, "f32")
         [] op \in ArithmeticOps -> InferArithmetic(lhs, rhs)
         [] op \in ShiftOps      -> InferShift(lhs, rhs)
         [] op \in BooleanOps    -> LookupType(types, "bool")

\* (mutant) a comparison has the type of its operands
InferComparisonOfOperands(types, lhs, rhs) ==
  IF lhs # Nullopt /\ rhs # Nullopt THEN lhs ELSE Nullopt

InferComparison(types, lhs, rhs) ==
  IF /\ lhs # Nullopt /\ rhs # Nullopt
     /\ TrySubtype(lhs, rhs) # NoRule \/ TrySubtype(rhs, lhs) # NoRule
  THEN LookupType(types, "bool")
  ELSE Nullopt

\* An integer literal is known by its sign and the bits its value needs; its
\* type is the narrowest of its sign that holds it
InferLiteral(types, signed, bits) ==
  LookupType(types,
             CASE bits <= 8                -> IF signed THEN "i8" ELSE "u8"
               [] bits > 8 /\ bits <= 16   -> IF signed THEN "i16" ELSE "u16"
               [] bits > 16 /\ bits <= 32  -> IF signed THEN "i32" ELSE "u32"
               [] bits > 32                -> IF signed THEN "i64" ELSE "u64")

\* A call whose callee is bound to no function dereferences a null pointer; its
\* callers test for that case themselves
InferCall(symbols, callee) ==
  IF callee \in DOMAIN symbols THEN symbols[callee].rettype ELSE Nullopt
================================================================================
