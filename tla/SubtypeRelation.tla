---------------------------- MODULE SubtypeRelation ----------------------------
(***************************************************************************)
(* What environment::try_subtype promises, whatever way it looks for its   *)
(* answer: one conversion that the relation allows, and none only when the *)
(* relation allows none.  The relation (Allows) is the one the comments    *)
(* above the rules of type_system/subtyping.cpp write down, except that    *)
(* the code takes function types for convertible to bool as well.          *)
(***************************************************************************)
EXTENDS BythonTypes

CONSTANT Types

VARIABLES tau, alpha, answer, done

absVars == <<tau, alpha, answer, done>>

Init == /\ tau \in Types /\ alpha \in Types
        /\ answer = NoRule /\ done = FALSE

Answer == /\ ~done /\ done' = TRUE
          /\ \/ \E rule \in SubtypingRule :
                  Allows(rule, tau, alpha) /\ answer' = rule
             \/ /\ \A rule \in SubtypingRule : ~Allows(rule, tau, alpha)
                /\ answer' = NoRule
          /\ UNCHANGED <<tau, alpha>>

Spec == Init /\ [][Answer]_absVars
================================================================================
