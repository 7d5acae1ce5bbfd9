--------------------------- MODULE BythonTypesProofs ---------------------------
(***************************************************************************)
(* Lemmas about the subtyping rules and the conversions they select.       *)
(***************************************************************************)
EXTENDS BythonTypes, TLAPS

\* Every answer of every rule is a rule, or none.
LEMMA AnswersAreRules ==
  ASSUME NEW t, NEW a, NEW i \in 1..RuleCount
  PROVE  RuleAnswers(t, a)[i] \in SubtypingRule \cup {NoRule}
<1>1. /\ IdentityRule(t, a) \in SubtypingRule \cup {NoRule}
      /\ IntegerPromotionRule(t, a) \in SubtypingRule \cup {NoRule}
      /\ FpPromotionRule(t, a) \in SubtypingRule \cup {NoRule}
      /\ IntegerToFloatingPointRule(t, a) \in SubtypingRule \cup {NoRule}
      /\ NumericToBoolRule(t, a) \in SubtypingRule \cup {NoRule}
      /\ BoolToIntRule(t, a) \in SubtypingRule \cup {NoRule}
      /\ BoolToFpRule(t, a) \in SubtypingRule \cup {NoRule}
  BY DEF SubtypingRule, NoRule, IdentityRule, IntegerPromotionRule, FpPromotionRule,
         IntegerToFloatingPointRule, NumericToBoolRule, BoolToIntRule, BoolToFpRule
<1>2. i \in {1, 2, 3, 4, 5, 6, 7}
  BY DEF RuleCount
<1> QED
  BY <1>1, <1>2 DEF RuleAnswers

\* The first rule that applies is one the relation allows: only the rule for
\* bool claims more than the relation, and identity is asked before it.
LEMMA FirstRuleIsAllowed ==
  ASSUME NEW t, NEW a, NEW i \in 1..RuleCount,
         RuleAnswers(t, a)[i] # NoRule,
         \A j \in 1..(i - 1) : RuleAnswers(t, a)[j] = NoRule
  PROVE  /\ RuleAnswers(t, a)[i] \in SubtypingRule
         /\ Allows(RuleAnswers(t, a)[i], t, a)
<1>1. RuleAnswers(t, a)[i] \in SubtypingRule
  BY AnswersAreRules
<1> USE DEF NoRule, Void, Bool, SingleFp, DoubleFp
<1>2. CASE i = 1
  <2>1. RuleAnswers(t, a)[i] = "identity" /\ t = a
    BY <1>2 DEF RuleAnswers, IdentityRule
  <2>2. Allows("identity", t, a)
    BY <2>1 DEF Allows
  <2> QED
    BY <1>1, <2>1, <2>2
<1>3. CASE i = 2
  <2>1. CASE t.tag = "sint"
    <3>1. /\ RuleAnswers(t, a)[i] = "sint_promotion"
          /\ Allows("sint_promotion", t, a)
      BY <1>3, <2>1 DEF RuleAnswers, IntegerPromotionRule, IsInteger, Allows
    <3> QED
      BY <1>1, <3>1
  <2>2. CASE t.tag # "sint"
    <3>1. /\ RuleAnswers(t, a)[i] = "uint_promotion"
          /\ Allows("uint_promotion", t, a)
      BY <1>3, <2>2 DEF RuleAnswers, IntegerPromotionRule, IsInteger, Allows
    <3> QED
      BY <1>1, <3>1
  <2> QED
    BY <2>1, <2>2
<1>4. CASE i = 3
  <2>1. RuleAnswers(t, a)[i] = "single_to_double" /\ t = SingleFp /\ a = DoubleFp
    BY <1>4 DEF RuleAnswers, FpPromotionRule
  <2>2. Allows("single_to_double", t, a)
    BY <2>1 DEF Allows
  <2> QED
    BY <1>1, <2>1, <2>2
<1>5. CASE i = 4
  <2>1. \/ /\ RuleAnswers(t, a)[i] = "uint_to_single"
           /\ t.tag = "uint" /\ a = SingleFp
        \/ /\ RuleAnswers(t, a)[i] = "uint_to_double"
           /\ t.tag = "uint" /\ a = DoubleFp
        \/ /\ RuleAnswers(t, a)[i] = "sint_to_single"
           /\ t.tag = "sint" /\ a = SingleFp
        \/ /\ RuleAnswers(t, a)[i] = "sint_to_double"
           /\ t.tag = "sint" /\ a = DoubleFp
    BY <1>5 DEF RuleAnswers, IntegerToFloatingPointRule
  <2>2. /\ t.tag = "uint" /\ a = SingleFp => Allows("uint_to_single", t, a)
        /\ t.tag = "uint" /\ a = DoubleFp => Allows("uint_to_double", t, a)
        /\ t.tag = "sint" /\ a = SingleFp => Allows("sint_to_single", t, a)
        /\ t.tag = "sint" /\ a = DoubleFp => Allows("sint_to_double", t, a)
    BY DEF Allows
  <2> QED
    BY <1>1, <2>1, <2>2
<1>6. CASE i = 5
  <2>1. t # a
    BY <1>6 DEF RuleAnswers, IdentityRule
  <2>2. RuleAnswers(t, a)[i] = "numeric_to_bool" /\ t # Void /\ a = Bool
    BY <1>6 DEF RuleAnswers, NumericToBoolRule
  <2>3. Allows("numeric_to_bool", t, a)
    BY <2>1, <2>2 DEF Allows
  <2> QED
    BY <1>1, <2>2, <2>3
<1>7. CASE i = 6
  <2>1. /\ RuleAnswers(t, a)[i] = "bool_int_prom"
        /\ Allows("bool_int_prom", t, a)
    BY <1>7 DEF RuleAnswers, BoolToIntRule, IsInteger, Allows
  <2> QED
    BY <1>1, <2>1
<1>8. CASE i = 7
  <2>1. /\ RuleAnswers(t, a)[i] = "bool_fp_prom"
        /\ Allows("bool_fp_prom", t, a)
    BY <1>8 DEF RuleAnswers, BoolToFpRule, Allows
  <2> QED
    BY <1>1, <2>1
<1>9. i \in {1, 2, 3, 4, 5, 6, 7}
  BY DEF RuleCount
<1> QED
  BY <1>1, <1>2, <1>3, <1>4, <1>5, <1>6, <1>7, <1>8, <1>9

\* Where no rule applies, the relation allows no conversion.
LEMMA NoRuleNothingAllowed ==
  ASSUME NEW t, NEW a,
         \A i \in 1..RuleCount : RuleAnswers(t, a)[i] = NoRule,
         NEW rule \in SubtypingRule
  PROVE  ~Allows(rule, t, a)
<1>1. /\ IdentityRule(t, a) = NoRule /\ IntegerPromotionRule(t, a) = NoRule
      /\ FpPromotionRule(t, a) = NoRule /\ IntegerToFloatingPointRule(t, a) = NoRule
      /\ NumericToBoolRule(t, a) = NoRule /\ BoolToIntRule(t, a) = NoRule
      /\ BoolToFpRule(t, a) = NoRule
  BY DEF RuleAnswers, RuleCount
<1>2. t # a
  BY <1>1 DEF IdentityRule, NoRule
<1>3. ~Allows("uint_promotion", t, a) /\ ~Allows("sint_promotion", t, a)
  BY <1>1 DEF IntegerPromotionRule, IsInteger, Allows, NoRule, Void, Bool, SingleFp, DoubleFp
<1>4. ~Allows("single_to_double", t, a)
  BY <1>1 DEF FpPromotionRule, Allows, NoRule, Void, Bool, SingleFp, DoubleFp
<1>5. /\ ~Allows("uint_to_single", t, a) /\ ~Allows("uint_to_double", t, a)
      /\ ~Allows("sint_to_single", t, a) /\ ~Allows("sint_to_double", t, a)
  BY <1>1 DEF IntegerToFloatingPointRule, Allows, NoRule, Void, Bool, SingleFp, DoubleFp
<1>6. ~Allows("numeric_to_bool", t, a)
  BY <1>1 DEF NumericToBoolRule, Allows, NoRule, Void, Bool, SingleFp, DoubleFp
<1>7. ~Allows("bool_int_prom", t, a)
  BY <1>1 DEF BoolToIntRule, IsInteger, Allows, NoRule, Void, Bool, SingleFp, DoubleFp
<1>8. ~Allows("bool_fp_prom", t, a)
  BY <1>1 DEF BoolToFpRule, Allows, NoRule, Void, Bool, SingleFp, DoubleFp
<1>9. ~Allows("identity", t, a)
  BY <1>2 DEF Allows
<1> QED
  BY <1>3, <1>4, <1>5, <1>6, <1>7, <1>8, <1>9 DEF SubtypingRule

\* What the types of the language become in LLVM.
LEMMA LlvmTypeOfScalars ==
  /\ LlvmType(Bool) = IntTy(1)
  /\ LlvmType(SingleFp) = FloatTy /\ LlvmType(DoubleFp) = DoubleTy
  /\ \A t : IsInteger(t) => LlvmType(t) = IntTy(t.width)
BY DEF LlvmType, ScalarLlvmType, IsFunction, IsInteger, Void, Bool, SingleFp, DoubleFp

\* A conversion the relation allows can be run on a value of the source's type
\* and gives one of the target's.
LEMMA AllowedConversionLands ==
  ASSUME NEW t, NEW a, NEW rule \in SubtypingRule, NEW const \in BOOLEAN,
         t \in ScalarTypes(Nat), Allows(rule, t, a)
  PROVE  LET v == Value(LlvmType(t), const)
         IN  /\ Convertible(rule, v, LlvmType(a))
             /\ Convert(rule, v, LlvmType(a)).ty = LlvmType(a)
<1> DEFINE v == Value(LlvmType(t), const)
<1>0. v.ty = LlvmType(t) /\ \A d : Value(d, v.const).ty = d
  BY DEF Value
<1>1. CASE rule = "identity"
  <2>1. t = a
    BY <1>1 DEF Allows
  <2>2. Convertible("identity", v, LlvmType(a)) /\ Convert("identity", v, LlvmType(a)) = v
    BY DEF Convertible, Convert
  <2> QED
    BY <1>0, <1>1, <2>1, <2>2
<1>2. CASE rule \in {"bool_int_prom", "uint_promotion", "sint_promotion"}
  <2>1. IsInteger(a) /\ (t = Bool \/ IsInteger(t))
    BY <1>2 DEF Allows, IsInteger, Bool
  <2>2. v.ty.kind = "integer" /\ LlvmType(a).kind = "integer"
    BY <1>0, <2>1, LlvmTypeOfScalars DEF IntTy
  <2>3. Convertible(rule, v, LlvmType(a))
    BY <1>2, <2>2 DEF Convertible
  <2>4. Convert(rule, v, LlvmType(a)) = Value(LlvmType(a), v.const)
    BY <1>2 DEF Convert
  <2> QED
    BY <1>0, <2>3, <2>4
<1>3. CASE rule \in {"bool_fp_prom", "uint_to_single", "uint_to_double",
                     "sint_to_single", "sint_to_double"}
  <2>1. a \in {SingleFp, DoubleFp} /\ (t = Bool \/ IsInteger(t))
    BY <1>3 DEF Allows, IsInteger, Bool, SingleFp, DoubleFp
  <2>2. v.ty.kind = "integer" /\ LlvmType(a).kind \in {"float", "double"}
    BY <1>0, <2>1, LlvmTypeOfScalars DEF IntTy, FloatTy, DoubleTy
  <2>3. Convertible(rule, v, LlvmType(a))
    BY <1>3, <2>2 DEF Convertible
  <2>4. Convert(rule, v, LlvmType(a)) = Value(LlvmType(a), v.const)
    BY <1>3 DEF Convert
  <2> QED
    BY <1>0, <2>3, <2>4
<1>4. CASE rule = "single_to_double"
  <2>1. t = SingleFp /\ a = DoubleFp
    BY <1>4 DEF Allows, SingleFp, DoubleFp
  <2>2. Convertible(rule, v, LlvmType(a))
    BY <1>0, <1>4, <2>1, LlvmTypeOfScalars DEF Convertible
  <2>3. Convert(rule, v, LlvmType(a)) = Value(LlvmType(a), v.const)
    BY <1>4 DEF Convert
  <2> QED
    BY <1>0, <2>2, <2>3
<1>5. CASE rule = "numeric_to_bool"
  <2>1. a = Bool /\ t # Void /\ t # Bool
    BY <1>5 DEF Allows, Void, Bool
  <2>2. IsInteger(t) \/ t = SingleFp \/ t = DoubleFp
    BY <2>1 DEF ScalarTypes, NumericTypes, IntegerTypes, UInt, SInt, IsInteger
  <2>3. v.ty.kind \in {"integer", "float", "double"}
    BY <1>0, <2>2, LlvmTypeOfScalars DEF IntTy, FloatTy, DoubleTy
  <2>4. Convertible(rule, v, LlvmType(a))
    BY <1>5, <2>3 DEF Convertible
  <2>5. Convert(rule, v, LlvmType(a)) = Value(IntTy(1), v.const)
    BY <1>5 DEF Convert
  <2> QED
    BY <1>0, <2>1, <2>4, <2>5, LlvmTypeOfScalars
<1> QED
  BY <1>1, <1>2, <1>3, <1>4, <1>5 DEF SubtypingRule

\* A set of some of the seven positions has a least one.
LEMMA LeastOfSeven ==
  ASSUME NEW S, S \subseteq {1, 2, 3, 4, 5, 6, 7}, S # {}
  PROVE  \E i \in S : \A j \in S : i <= j
<1>1. \A n \in {1, 2, 3, 4, 5, 6, 7} :
        n \in S /\ (\A m \in {1, 2, 3, 4, 5, 6, 7} : m < n => m \notin S)
          => \A j \in S : n <= j
  OBVIOUS
<1>2. CASE 1 \in S
  BY <1>1, <1>2
<1>3. CASE 1 \notin S /\ 2 \in S
  BY <1>1, <1>3
<1>4. CASE {1, 2} \cap S = {} /\ 3 \in S
  BY <1>1, <1>4
<1>5. CASE {1, 2, 3} \cap S = {} /\ 4 \in S
  BY <1>1, <1>5
<1>6. CASE {1, 2, 3, 4} \cap S = {} /\ 5 \in S
  BY <1>1, <1>6
<1>7. CASE {1, 2, 3, 4, 5} \cap S = {} /\ 6 \in S
  BY <1>1, <1>7
<1>8. CASE {1, 2, 3, 4, 5, 6} \cap S = {} /\ 7 \in S
  BY <1>1, <1>8
<1> QED
  BY <1>2, <1>3, <1>4, <1>5, <1>6, <1>7, <1>8

\* TrySubtype answers with a rule the relation allows, or with none where it
\* allows none.
LEMMA TrySubtypeAllowed ==
  ASSUME NEW t, NEW a
  PROVE  \/ TrySubtype(t, a) \in SubtypingRule /\ Allows(TrySubtype(t, a), t, a)
         \/ /\ TrySubtype(t, a) = NoRule
            /\ \A rule \in SubtypingRule : ~Allows(rule, t, a)
<1> DEFINE applies == {i \in 1..RuleCount : RuleAnswers(t, a)[i] # NoRule}
<1>1. CASE applies = {}
  <2>1. \A i \in 1..RuleCount : RuleAnswers(t, a)[i] = NoRule
    BY <1>1
  <2>2. TrySubtype(t, a) = NoRule
    BY <1>1 DEF TrySubtype, FirstAnswer
  <2> QED
    BY <2>1, <2>2, NoRuleNothingAllowed
<1>2. CASE applies # {}
  <2> DEFINE first == CHOOSE i \in applies : \A j \in applies : i <= j
  <2>1. \E i \in applies : \A j \in applies : i <= j
    <3>1. applies \subseteq {1, 2, 3, 4, 5, 6, 7}
      BY DEF RuleCount
    <3> HIDE DEF applies
    <3> QED
      BY <1>2, <3>1, LeastOfSeven
  <2>2. first \in applies /\ \A j \in applies : first <= j
    <3> HIDE DEF applies
    <3> QED
      BY <2>1
  <2>3. TrySubtype(t, a) = RuleAnswers(t, a)[first]
    BY <1>2 DEF TrySubtype, FirstAnswer
  <2>4. /\ first \in 1..RuleCount /\ RuleAnswers(t, a)[first] # NoRule
        /\ \A j \in 1..(first - 1) : RuleAnswers(t, a)[j] = NoRule
    <3> HIDE DEF first
    <3>1. first \in 1..7
      BY <2>2 DEF RuleCount
    <3>2. \A j \in 1..(first - 1) : j \in 1..7 /\ ~(first <= j)
      BY <3>1
    <3> QED
      BY <2>2, <3>1, <3>2 DEF RuleCount
  <2> HIDE DEF first
  <2> QED
    BY <2>3, <2>4, FirstRuleIsAllowed
<1> QED
  BY <1>1, <1>2

\* The relation without the names of its conversions.
Related(t, a) ==
  \/ t = a
  \/ t.tag = "uint" /\ a.tag = "uint" /\ t.width < a.width
  \/ t.tag = "sint" /\ a.tag = "sint" /\ t.width < a.width
  \/ t.tag \in {"uint", "sint"} /\ a \in {SingleFp, DoubleFp}
  \/ t = SingleFp /\ a = DoubleFp
  \/ t = Bool /\ (a.tag \in {"uint", "sint"} \/ a \in {SingleFp, DoubleFp})
  \/ t \notin {Void, Bool} /\ a = Bool

\* TrySubtype decides the relation.
LEMMA TrySubtypeDecides ==
  ASSUME NEW t, NEW a
  PROVE  TrySubtype(t, a) # NoRule <=> Related(t, a)
<1>1. \A rule \in SubtypingRule : Allows(rule, t, a) => Related(t, a)
  BY DEF SubtypingRule, Allows, Related
<1>2. Related(t, a) => \E rule \in SubtypingRule : Allows(rule, t, a)
  <2>1. {"identity", "uint_promotion", "sint_promotion", "uint_to_single",
         "uint_to_double", "sint_to_single", "sint_to_double", "single_to_double",
         "bool_int_prom", "bool_fp_prom", "numeric_to_bool"} \subseteq SubtypingRule
    BY DEF SubtypingRule
  <2>2. /\ Allows("identity", t, a) <=> t = a
        /\ Allows("uint_promotion", t, a)
             <=> t.tag = "uint" /\ a.tag = "uint" /\ t.width < a.width
        /\ Allows("sint_promotion", t, a)
             <=> t.tag = "sint" /\ a.tag = "sint" /\ t.width < a.width
        /\ Allows("uint_to_single", t, a) <=> t.tag = "uint" /\ a = SingleFp
        /\ Allows("uint_to_double", t, a) <=> t.tag = "uint" /\ a = DoubleFp
        /\ Allows("sint_to_single", t, a) <=> t.tag = "sint" /\ a = SingleFp
        /\ Allows("sint_to_double", t, a) <=> t.tag = "sint" /\ a = DoubleFp
        /\ Allows("single_to_double", t, a) <=> t = SingleFp /\ a = DoubleFp
        /\ Allows("bool_int_prom", t, a) <=> t = Bool /\ a.tag \in {"uint", "sint"}
        /\ Allows("bool_fp_prom", t, a) <=> t = Bool /\ a \in {SingleFp, DoubleFp}
        /\ Allows("numeric_to_bool", t, a) <=> t \notin {Void, Bool} /\ a = Bool
    BY DEF Allows
  <2> QED
    BY <2>1, <2>2 DEF Related
<1>3. \A rule \in SubtypingRule : rule # NoRule
  BY DEF SubtypingRule, NoRule
<1> QED
  BY <1>1, <1>2, <1>3, TrySubtypeAllowed

\* The types a query may be about.
QueryType(t) == t \in ScalarTypes(Nat) \/ IsFunction(t)

\* Conversions compose, unless through bool.
LEMMA RelatedTransitive ==
  ASSUME NEW t, NEW a, NEW b, QueryType(t), QueryType(a), QueryType(b),
         Related(t, a), Related(a, b), a # Bool
  PROVE  Related(t, b)
<1>1. \A q \in {t, a, b} :
        \/ q \in {Void, Bool, SingleFp, DoubleFp}
        \/ q.tag \in {"uint", "sint"} /\ q.width \in Nat
        \/ q.tag = "function"
  BY DEF QueryType, ScalarTypes, NumericTypes, IntegerTypes, UInt, SInt, IsFunction
<1>2. /\ Void.tag = "void" /\ Bool.tag = "boolean"
      /\ SingleFp.tag = "single_fp" /\ DoubleFp.tag = "double_fp"
  BY DEF Void, Bool, SingleFp, DoubleFp
<1> QED
  BY <1>1, <1>2 DEF Related

\* Two types that convert to each other are one, unless one of them is bool.
LEMMA RelatedAntisymmetric ==
  ASSUME NEW t, NEW a, QueryType(t), QueryType(a), Related(t, a), Related(a, t)
  PROVE  t = a \/ Bool \in {t, a}
<1>1. \A q \in {t, a} :
        \/ q \in {Void, Bool, SingleFp, DoubleFp}
        \/ q.tag \in {"uint", "sint"} /\ q.width \in Nat
        \/ q.tag = "function"
  BY DEF QueryType, ScalarTypes, NumericTypes, IntegerTypes, UInt, SInt, IsFunction
<1>2. /\ Void.tag = "void" /\ Bool.tag = "boolean"
      /\ SingleFp.tag = "single_fp" /\ DoubleFp.tag = "double_fp"
  BY DEF Void, Bool, SingleFp, DoubleFp
<1> QED
  BY <1>1, <1>2 DEF Related
================================================================================
