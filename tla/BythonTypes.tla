------------------------------ MODULE BythonTypes ------------------------------
(***************************************************************************)
(* The types of the language (type_system/builtin.hpp), the subtyping      *)
(* rules (type_system/subtyping.cpp), the LLVM type of each type           *)
(* (backend/builtin.cpp), and what the conversion a rule selects does to   *)
(* an LLVM value (backend/typing.cpp).                                     *)
(***************************************************************************)
EXTENDS Naturals, Sequences

(*************************** Types of the language *************************)

Void     == [tag |-> "void"]
Bool     == [tag |-> "boolean"]
UInt(w)  == [tag |-> "uint", width |-> w]
SInt(w)  == [tag |-> "sint", width |-> w]
SingleFp == [tag |-> "single_fp"]
DoubleFp == [tag |-> "double_fp"]
FunctionSignature(params, ret) ==
  [tag |-> "function", parameters |-> params, rettype |-> ret]

\* std::nullopt where an optional type is expected
Nullopt  == [tag |-> "nullopt"]

IntegerTypes(W) == {UInt(w) : w \in W} \cup {SInt(w) : w \in W}
NumericTypes(W) == IntegerTypes(W) \cup {SingleFp, DoubleFp}
ScalarTypes(W)  == NumericTypes(W) \cup {Void, Bool}

IsFunction(t) == t.tag = "function"
IsInteger(t)  == t.tag \in {"uint", "sint"}

(***************************** Subtyping rules *****************************)

\* What a rule answers when it does not apply
NoRule == "nullopt"

SubtypingRule ==
  {"identity", "uint_promotion", "sint_promotion", "uint_to_single",
   "uint_to_double", "sint_to_single", "sint_to_double", "single_to_double",
   "bool_int_prom", "bool_fp_prom", "numeric_to_bool"}

IdentityRule(tau, alpha) == IF tau = alpha THEN "identity" ELSE NoRule

IntegerPromotionRule(tau, alpha) ==
  IF IsInteger(tau) /\ tau.tag = alpha.tag
  THEN IF tau.width < alpha.width
       THEN IF tau.tag = "sint" THEN "sint_promotion" ELSE "uint_promotion"
       ELSE NoRule
  ELSE NoRule

\* (mutant) any two floating-point types, whichever is wider
AnyFpRule(tau, alpha) ==
  IF {tau, alpha} = {SingleFp, DoubleFp} THEN "single_to_double" ELSE NoRule

FpPromotionRule(tau, alpha) ==
  IF tau = SingleFp /\ alpha = DoubleFp THEN "single_to_double" ELSE NoRule

\* (mutant) the targets of double precision are forgotten
IntegerToSingleRule(tau, alpha) ==
  CASE tau.tag = "uint" /\ alpha = SingleFp -> "uint_to_single"
    [] tau.tag = "sint" /\ alpha = SingleFp -> "sint_to_single"
    [] OTHER -> NoRule

IntegerToFloatingPointRule(tau, alpha) ==
  CASE tau.tag = "uint" /\ alpha = SingleFp -> "uint_to_single"
    [] tau.tag = "uint" /\ alpha = DoubleFp -> "uint_to_double"
    [] tau.tag = "sint" /\ alpha = SingleFp -> "sint_to_single"
    [] tau.tag = "sint" /\ alpha = DoubleFp -> "sint_to_double"
    [] OTHER -> NoRule

\* Any type but void, function types included
NumericToBoolRule(tau, alpha) ==
  IF alpha = Bool /\ tau # Void THEN "numeric_to_bool" ELSE NoRule

BoolToIntRule(tau, alpha) ==
  IF tau = Bool /\ IsInteger(alpha) THEN "bool_int_prom" ELSE NoRule

BoolToFpRule(tau, alpha) ==
  IF tau = Bool /\ alpha \in {SingleFp, DoubleFp} THEN "bool_fp_prom" ELSE NoRule

RuleCount == 7

\* (mutant) number2bool is asked before identity
RuleAnswersBoolFirst(tau, alpha) ==
  << NumericToBoolRule(tau, alpha),
     IdentityRule(tau, alpha),
     IntegerPromotionRule(tau, alpha),
     FpPromotionRule(tau, alpha),
     IntegerToFloatingPointRule(tau, alpha),
     BoolToIntRule(tau, alpha),
     BoolToFpRule(tau, alpha) >>

\* The array `rules`: the order in which the rules are asked
RuleAnswers(tau, alpha) ==
  << IdentityRule(tau, alpha),
     IntegerPromotionRule(tau, alpha),
     FpPromotionRule(tau, alpha),
     IntegerToFloatingPointRule(tau, alpha),
     NumericToBoolRule(tau, alpha),
     BoolToIntRule(tau, alpha),
     BoolToFpRule(tau, alpha) >>

\* The loop's answer: the first rule that applies
FirstAnswer(answers) ==
  LET applies == {i \in 1..RuleCount : answers[i] # NoRule}
  IN  IF applies = {} THEN NoRule
      ELSE answers[CHOOSE i \in applies : \A j \in applies : i <= j]

TrySubtype(tau, alpha) == FirstAnswer(RuleAnswers(tau, alpha))

\* The relation the comments above the rules write down: t is a subtype of a by
\* the conversion `rule` (the code lets function types convert to bool as well)
Allows(rule, t, a) ==
  CASE rule = "identity"         -> t = a
    [] rule = "uint_promotion"   -> t.tag = "uint" /\ a.tag = "uint" /\ t.width < a.width
    [] rule = "sint_promotion"   -> t.tag = "sint" /\ a.tag = "sint" /\ t.width < a.width
    [] rule = "uint_to_single"   -> t.tag = "uint" /\ a = SingleFp
    [] rule = "uint_to_double"   -> t.tag = "uint" /\ a = DoubleFp
    [] rule = "sint_to_single"   -> t.tag = "sint" /\ a = SingleFp
    [] rule = "sint_to_double"   -> t.tag = "sint" /\ a = DoubleFp
    [] rule = "single_to_double" -> t = SingleFp /\ a = DoubleFp
    [] rule = "bool_int_prom"    -> t = Bool /\ a.tag \in {"uint", "sint"}
    [] rule = "bool_fp_prom"     -> t = Bool /\ a \in {SingleFp, DoubleFp}
    [] rule = "numeric_to_bool"  -> t \notin {Void, Bool} /\ a = Bool

(**************************** Types of LLVM values *************************)

IntTy(n)   == [kind |-> "integer", bits |-> n]
FloatTy    == [kind |-> "float"]
DoubleTy   == [kind |-> "double"]
VoidTy     == [kind |-> "void"]
FunctionTy(params, ret) == [kind |-> "function", params |-> params, ret |-> ret]

ScalarLlvmType(t) ==
  CASE t.tag = "void"      -> VoidTy
    [] t.tag = "boolean"   -> IntTy(1)
    [] IsInteger(t)        -> IntTy(t.width)
    [] t.tag = "single_fp" -> FloatTy
    [] t.tag = "double_fp" -> DoubleTy

\* Parameters and return type of a function type are scalars: a function type
\* made of function types is no type of LLVM's (see IllFormed)
LlvmType(t) ==
  IF IsFunction(t)
  THEN FunctionTy([i \in DOMAIN t.parameters |-> ScalarLlvmType(t.parameters[i])],
                  ScalarLlvmType(t.rettype))
  ELSE ScalarLlvmType(t)

\* llvm::FunctionType::get takes no void and no function as a parameter, and
\* no function as a result
IllFormed(t) ==
  \/ \E i \in DOMAIN t.parameters :
        t.parameters[i] = Void \/ IsFunction(t.parameters[i])
  \/ IsFunction(t.rettype)

(********************************* Conversions *****************************)

\* An LLVM value: its type, and whether IRBuilder folds operations on it
\* instead of emitting an instruction
Value(ty, const) == [ty |-> ty, const |-> const]
NullValue == [ty |-> [kind |-> "nullptr"], const |-> TRUE]

\* What the converter chosen by backend::subtype_conversion needs of its operand
Convertible(rule, v, dest) ==
  CASE rule = "identity" -> TRUE
    [] rule \in {"bool_int_prom", "uint_promotion", "sint_promotion"} ->
         v.ty.kind = "integer" /\ dest.kind = "integer"
    [] rule \in {"bool_fp_prom", "uint_to_single", "uint_to_double",
                 "sint_to_single", "sint_to_double"} ->
         v.ty.kind = "integer" /\ dest.kind \in {"float", "double"}
    [] rule = "single_to_double" -> v.ty = FloatTy /\ dest = DoubleTy
    [] rule = "numeric_to_bool"  -> v.ty.kind \in {"integer", "float", "double"}

\* (mutant) the conversion to bool casts to the target of another rule
ConvertWithoutTest(rule, v, dest) ==
  IF rule \in {"identity", "numeric_to_bool"} THEN v ELSE Value(dest, v.const)

Convert(rule, v, dest) ==
  CASE rule = "identity"        -> v
    [] rule = "numeric_to_bool" -> Value(IntTy(1), v.const)
    [] OTHER                    -> Value(dest, v.const)
================================================================================
