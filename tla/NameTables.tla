------------------------------- MODULE NameTables -------------------------------
(***************************************************************************)
(* What a compilation promises of the names of a program, whatever it      *)
(* emits.  A name means one thing from its first binding on.  A name that  *)
(* becomes a function becomes one of the LLVM module in the same step, of  *)
(* the same type; one that becomes a variable gets storage in the same     *)
(* step.  Storage is taken over only by the function being compiled, the   *)
(* names of types only grow, and nothing changes once a walk has ended.    *)
(***************************************************************************)
EXTENDS Naturals

CONSTANTS BuiltinTypes,      \* the meaning of the names of types at the start
          BuiltinSymbols,    \* the meaning of the other names at the start
          BuiltinFunction,   \* the functions a call may declare in the module
          VariableTypes,     \* the types variables have
          FunctionTypes,     \* the types functions have
          LlvmType(_)        \* the type in the module of a function of a type

VARIABLES types,    \* the meaning of every name of a type
          meaning,  \* the type of every other name: a variable's, or a function's
          owner,    \* the function whose storage each variable has
          module,   \* the functions of the LLVM module: their types
          current,  \* the function being compiled
          ended     \* the walk has ended

tableVars == <<types, meaning, owner, module, current, ended>>

Adds(table, key, value) ==
  IF key \in DOMAIN table
  THEN table
  ELSE [k \in DOMAIN table \cup {key} |-> IF k = key THEN value ELSE table[k]]

Init ==
  /\ types = BuiltinTypes /\ meaning = BuiltinSymbols
  /\ owner = << >> /\ module = << >> /\ current = 0 /\ ended = FALSE

Bind ==
  /\ ~ended /\ current > 0
  /\ \E x \in DOMAIN owner' :
       /\ owner' = [y \in DOMAIN owner \cup {x} |-> IF y = x THEN current ELSE owner[y]]
       /\ \/ x \in DOMAIN meaning /\ meaning' = meaning
          \/ /\ x \notin DOMAIN meaning
             /\ \E t \in VariableTypes : meaning' = Adds(meaning, x, t)
  /\ UNCHANGED <<types, module, current, ended>>

Declare ==
  /\ ~ended /\ current > 0
  /\ \E b \in DOMAIN BuiltinFunction :
       module' = Adds(module, BuiltinFunction[b].name, BuiltinFunction[b].signature)
  /\ UNCHANGED <<types, meaning, owner, current, ended>>

\* A new name: the meaning and the module's function are of one type
DefineNew ==
  \E f \in DOMAIN meaning' \ DOMAIN meaning :
    /\ meaning'[f] \in FunctionTypes /\ f \notin DOMAIN module
    /\ meaning' = Adds(meaning, f, meaning'[f])
    /\ types' = Adds(types, f, meaning'[f])
    /\ module' = Adds(module, f, LlvmType(meaning'[f]))

\* A name that means something already keeps its meaning
DefineAgain ==
  \E f \in DOMAIN meaning :
    /\ meaning' = meaning
    /\ f \in DOMAIN types' /\ types' = Adds(types, f, types'[f])
    /\ f \in DOMAIN types \/ types'[f] \in FunctionTypes
    /\ f \in DOMAIN module' /\ module' = Adds(module, f, module'[f])

Define ==
  /\ ~ended /\ current' = current + 1
  /\ DefineNew \/ DefineAgain
  /\ UNCHANGED <<owner, ended>>

\* A definition whose type the module has no function for: its name has a meaning
\* by then, and nothing follows
DefineHalf ==
  /\ ~ended /\ ended' = TRUE
  /\ \E f \in DOMAIN types' \cap DOMAIN meaning' :
       types' = Adds(types, f, types'[f]) /\ meaning' = Adds(meaning, f, meaning'[f])
  /\ UNCHANGED <<owner, module, current>>

End == ~ended /\ ended' = TRUE /\ UNCHANGED <<types, meaning, owner, module, current>>

Next == Bind \/ Declare \/ Define \/ DefineHalf \/ End

Spec == Init /\ [][Next]_tableVars
================================================================================
