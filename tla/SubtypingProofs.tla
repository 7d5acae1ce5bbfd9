---------------------------- MODULE SubtypingProofs ----------------------------
(***************************************************************************)
(* Proofs about Subtyping, for any set of types: the loop implements the   *)
(* relation, and the conversion it selects lands on the type asked for.    *)
(***************************************************************************)
EXTENDS Subtyping, BythonTypesProofs, TLAPS

\* The types of queries are types of the language.
LEMMA QueryTypes == \A t \in Types : t \in ScalarTypes(Nat) \/ IsFunction(t)
BY TypesAssumption DEF ScalarTypes, NumericTypes, IntegerTypes

\* The loop keeps the types of its variables.
THEOREM TypeCorrect == Spec => []TypeOK
<1>1. Init => TypeOK
  <2> SUFFICES ASSUME Init PROVE TypeOK
    OBVIOUS
  <2>1. tau \in Types /\ alpha \in Types
    BY DEF Init
  <2>2. next \in 1..(RuleCount + 1)
    BY DEF Init, RuleCount
  <2>3. answer = NoRule /\ done = FALSE
    BY DEF Init
  <2> QED
    BY <2>1, <2>2, <2>3 DEF TypeOK
<1>2. TypeOK /\ [Next]_vars => TypeOK'
  <2> SUFFICES ASSUME TypeOK, [Next]_vars PROVE TypeOK'
    OBVIOUS
  <2>1. CASE AcceptRule
    <3>1. MatchingRule \in SubtypingRule \cup {NoRule}
      BY <2>1, AnswersAreRules DEF AcceptRule, TypeOK, MatchingRule
    <3> QED
      BY <2>1, <3>1 DEF AcceptRule, TypeOK
  <2>2. CASE SkipRule
    BY <2>2 DEF SkipRule, TypeOK, RuleCount
  <2>3. CASE GiveUp
    BY <2>3 DEF GiveUp, TypeOK
  <2>4. CASE UNCHANGED vars
    BY <2>4 DEF vars, TypeOK
  <2> QED
    BY <2>1, <2>2, <2>3, <2>4 DEF Next
<1> QED
  BY <1>1, <1>2, PTL DEF Spec

--------------------------------------------------------------------------------
\* What the loop knows: the rules it has asked do not apply, and its answer is
\* the first one that does.
Searched ==
  /\ \A i \in 1..(next - 1) : RuleAnswers(tau, alpha)[i] = NoRule
  /\ answer # NoRule =>
       next \in 1..RuleCount /\ answer = RuleAnswers(tau, alpha)[next]
  /\ done /\ answer = NoRule => next = RuleCount + 1

IInv == TypeOK /\ Searched

\* What the loop knows, and the types of its variables, are an inductive
\* invariant.
LEMMA Inductive == Spec => []IInv
<1>1. Init => Searched
  BY DEF Init, Searched
<1>2. TypeOK /\ Searched /\ [Next]_vars => Searched'
  <2> SUFFICES ASSUME TypeOK, Searched, [Next]_vars PROVE Searched'
    OBVIOUS
  <2>1. CASE AcceptRule
    BY <2>1 DEF AcceptRule, Searched, TypeOK, MatchingRule, RuleCount
  <2>2. CASE SkipRule
    BY <2>2 DEF SkipRule, Searched, TypeOK, MatchingRule, RuleCount
  <2>3. CASE GiveUp
    BY <2>3 DEF GiveUp, Searched, TypeOK, RuleCount
  <2>4. CASE UNCHANGED vars
    BY <2>4 DEF vars, Searched
  <2> QED
    BY <2>1, <2>2, <2>3, <2>4 DEF Next
<1> QED
  BY <1>1, <1>2, TypeCorrect, PTL DEF Spec, IInv

\* The relation of the abstract specification is the one the lemmas are about.
LEMMA SameRelation == \A rule, t, a : Relation!Allows(rule, t, a) = Allows(rule, t, a)
BY DEF Allows, Relation!Allows, Void, Bool, SingleFp, DoubleFp,
       Relation!Void, Relation!Bool, Relation!SingleFp, Relation!DoubleFp

\* The loop implements the relation: it answers with a conversion the relation
\* allows, and gives up only where it allows none.
THEOREM Implementation == Spec => ImplementsRelation
<1>1. Init => Relation!Init
  BY DEF Init, Relation!Init, NoRule, Relation!NoRule
<1>2. IInv /\ [Next]_vars => [Relation!Answer]_(Relation!absVars)
  <2> SUFFICES ASSUME IInv, [Next]_vars
               PROVE  Relation!Answer \/ UNCHANGED Relation!absVars
    OBVIOUS
  <2>1. CASE AcceptRule
    <3>1. /\ MatchingRule \in SubtypingRule
          /\ Allows(MatchingRule, tau, alpha)
      BY <2>1, FirstRuleIsAllowed DEF AcceptRule, MatchingRule, IInv, TypeOK, Searched
    <3> QED
      BY <2>1, <3>1, SameRelation DEF AcceptRule, Relation!Answer, SubtypingRule, Relation!SubtypingRule
  <2>2. CASE SkipRule
    BY <2>2 DEF SkipRule, Relation!absVars
  <2>3. CASE GiveUp
    <3>1. \A i \in 1..RuleCount : RuleAnswers(tau, alpha)[i] = NoRule
      BY <2>3 DEF GiveUp, IInv, TypeOK, Searched, RuleCount
    <3>2. \A rule \in SubtypingRule : ~Allows(rule, tau, alpha)
      BY <3>1, NoRuleNothingAllowed
    <3>3. answer = NoRule
      BY <2>3 DEF GiveUp, IInv, TypeOK
    <3> QED
      BY <2>3, <3>2, <3>3, SameRelation DEF GiveUp, Relation!Answer, SubtypingRule, Relation!SubtypingRule,
           NoRule, Relation!NoRule
  <2>4. CASE UNCHANGED vars
    BY <2>4 DEF vars, Relation!absVars
  <2> QED
    BY <2>1, <2>2, <2>3, <2>4 DEF Next
<1> QED
  BY <1>1, <1>2, Inductive, PTL DEF Spec, ImplementsRelation, Relation!Spec

--------------------------------------------------------------------------------
\* The conversion an answer selects lands on the LLVM type of the target.
THEOREM Conversions == Spec => []ConvertsToTarget
<1>1. IInv => ConvertsToTarget
  <2> SUFFICES ASSUME IInv, done, answer # NoRule, ~IsFunction(tau), NEW const \in BOOLEAN
               PROVE  LET v == Value(LlvmType(tau), const)
                      IN  /\ Convertible(answer, v, LlvmType(alpha))
                          /\ Convert(answer, v, LlvmType(alpha)).ty = LlvmType(alpha)
    BY DEF ConvertsToTarget
  <2>1. /\ answer = RuleAnswers(tau, alpha)[next] /\ next \in 1..RuleCount
        /\ \A i \in 1..(next - 1) : RuleAnswers(tau, alpha)[i] = NoRule
    BY DEF IInv, Searched
  <2>2. answer \in SubtypingRule /\ Allows(answer, tau, alpha)
    BY <2>1, FirstRuleIsAllowed
  <2>3. tau \in ScalarTypes(Nat)
    BY QueryTypes DEF IInv, TypeOK
  <2> QED
    BY <2>2, <2>3, AllowedConversionLands
<1> QED
  BY <1>1, Inductive, PTL

--------------------------------------------------------------------------------
\* An answer says that the relation holds.
LEMMA AnswerRelates ==
  ASSUME IInv, done, answer # NoRule
  PROVE  Related(tau, alpha) /\ QueryType(tau) /\ QueryType(alpha)
<1>1. answer = RuleAnswers(tau, alpha)[next] /\ next \in 1..RuleCount
      /\ \A i \in 1..(next - 1) : RuleAnswers(tau, alpha)[i] = NoRule
  BY DEF IInv, Searched
<1>2. answer \in SubtypingRule /\ Allows(answer, tau, alpha)
  BY <1>1, FirstRuleIsAllowed
<1>3. Related(tau, alpha)
  BY <1>2 DEF SubtypingRule, Allows, Related
<1> QED
  BY <1>3, QueryTypes DEF IInv, TypeOK, QueryType

\* A type converts to whatever the types it converts to convert to, bool apart:
\* the array's order makes no conversion of two steps impossible in one.
THEOREM Transitive == Spec => []TransitiveButForBool
<1>1. IInv => TransitiveButForBool
  <2> SUFFICES ASSUME IInv, done, answer # NoRule, alpha # Bool,
                      NEW beta \in Types, TrySubtype(alpha, beta) # NoRule
               PROVE  TrySubtype(tau, beta) # NoRule
    BY DEF TransitiveButForBool
  <2>1. Related(tau, alpha) /\ QueryType(tau) /\ QueryType(alpha)
    BY AnswerRelates
  <2>2. Related(alpha, beta) /\ QueryType(beta)
    BY TrySubtypeDecides, QueryTypes DEF QueryType
  <2> QED
    BY <2>1, <2>2, RelatedTransitive, TrySubtypeDecides
<1> QED
  BY <1>1, Inductive, PTL

\* No two types convert to each other, bool apart: which of two operands is
\* converted to the other's type never depends on their order.
THEOREM Antisymmetric == Spec => []AntisymmetricButForBool
<1>1. IInv => AntisymmetricButForBool
  <2> SUFFICES ASSUME IInv, done, answer # NoRule, TrySubtype(alpha, tau) # NoRule
               PROVE  tau = alpha \/ Bool \in {tau, alpha}
    BY DEF AntisymmetricButForBool
  <2>1. Related(tau, alpha) /\ QueryType(tau) /\ QueryType(alpha)
    BY AnswerRelates
  <2>2. Related(alpha, tau)
    BY TrySubtypeDecides
  <2> QED
    BY <2>1, <2>2, RelatedAntisymmetric
<1> QED
  BY <1>1, Inductive, PTL
================================================================================
