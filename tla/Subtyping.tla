------------------------------- MODULE Subtyping -------------------------------
(***************************************************************************)
(* try_subtype_impl of type_system/subtyping.cpp: the loop that asks the   *)
(* rules one after another and stops at the first that applies.            *)
(***************************************************************************)
EXTENDS BythonTypes

CONSTANTS Widths,      \* the widths of integer types
          Types        \* the types a query may be about

ASSUME TypesAssumption ==
  /\ Widths \subseteq Nat
  /\ \A t \in Types : t \in ScalarTypes(Widths) \/ IsFunction(t)

VARIABLES tau, alpha,  \* the query: is tau a subtype of alpha?
          next,        \* the position of the rule asked next
          answer,      \* the rule that applied, NoRule so far
          done         \* the function has returned

vars == <<tau, alpha, next, answer, done>>

Init == /\ tau \in Types /\ alpha \in Types
        /\ next = 1
        /\ answer = NoRule
        /\ done = FALSE

MatchingRule == RuleAnswers(tau, alpha)[next]

\* (mutants) the rule's answer does not end the loop; the loop does not advance
KeepAsking ==
  /\ ~done /\ next <= RuleCount /\ MatchingRule # NoRule
  /\ answer' = MatchingRule /\ next' = next + 1
  /\ UNCHANGED <<tau, alpha, done>>
AskAgain ==
  /\ ~done /\ next <= RuleCount /\ MatchingRule = NoRule
  /\ UNCHANGED vars

\* One turn of the loop: the rule applies, and its answer is returned
AcceptRule ==
  /\ ~done /\ next <= RuleCount /\ MatchingRule # NoRule
  /\ answer' = MatchingRule /\ done' = TRUE
  /\ UNCHANGED <<tau, alpha, next>>

\* One turn of the loop: the rule does not apply
SkipRule ==
  /\ ~done /\ next <= RuleCount /\ MatchingRule = NoRule
  /\ next' = next + 1
  /\ UNCHANGED <<tau, alpha, answer, done>>

\* No rule is left: return std::nullopt
GiveUp ==
  /\ ~done /\ next > RuleCount
  /\ done' = TRUE
  /\ UNCHANGED <<tau, alpha, next, answer>>

Next == AcceptRule \/ SkipRule \/ GiveUp

Spec == Init /\ [][Next]_vars /\ WF_vars(Next)
--------------------------------------------------------------------------------
TypeOK == /\ tau \in Types /\ alpha \in Types
          /\ next \in 1..(RuleCount + 1)
          /\ answer \in SubtypingRule \cup {NoRule}
          /\ done \in BOOLEAN
          /\ answer # NoRule => done

\* The loop's answer is one the relation allows, and it gives up only when no
\* rule of the relation applies, whatever the order of the array.
Relation == INSTANCE SubtypeRelation WITH
  Types <- Types, tau <- tau, alpha <- alpha, answer <- answer, done <- done
ImplementsRelation == Relation!Spec

\* The converter backend::subtype_conversion picks for the answer can be run on
\* a value of tau's LLVM type and lands on alpha's: what codegen's subtype()
\* returns has the type the target was declared with.  (Function types have no
\* values: see NumericToBoolIsNumeric.)
ConvertsToTarget ==
  done /\ answer # NoRule /\ ~IsFunction(tau) =>
    \A const \in BOOLEAN :
      LET v == Value(LlvmType(tau), const)
      IN  /\ Convertible(answer, v, LlvmType(alpha))
          /\ Convert(answer, v, LlvmType(alpha)).ty = LlvmType(alpha)

\* A type converts to whatever its supertypes convert to, unless the way leads
\* through bool: then an answer for alpha to beta is an answer for tau to beta.
TransitiveButForBool ==
  done /\ answer # NoRule /\ alpha # Bool =>
    \A beta \in Types :
      TrySubtype(alpha, beta) # NoRule => TrySubtype(tau, beta) # NoRule

\* Two different types are subtypes of each other only when one is bool, so the
\* order of operands does not matter to which side a conversion widens.
AntisymmetricButForBool ==
  done /\ answer # NoRule /\ TrySubtype(alpha, tau) # NoRule =>
    tau = alpha \/ Bool \in {tau, alpha}

\* Every query is answered.
Terminates == <>done

\* "{SInt, UInt, F32, F64} <: bool" (the comment on numeric_to_bool_rule): the
\* conversion to bool starts from a numeric type.
NumericToBoolIsNumeric ==
  answer = "numeric_to_bool" =>
    IsInteger(tau) \/ tau \in {SingleFp, DoubleFp}
================================================================================
