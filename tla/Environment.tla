------------------------------ MODULE Environment ------------------------------
(***************************************************************************)
(* The tables of one compilation: type names and symbols                   *)
(* (type_system/environment.cpp) and the scopes of storage                 *)
(* (backend/stack.cpp), as operators the module Codegen applies to its     *)
(* variables.  A table is a function whose domain is the set of its keys.  *)
(***************************************************************************)
EXTENDS BythonTypes

\* std::unordered_map::insert_or_assign: the last binding of a key wins
InsertOrAssign(table, key, value) ==
  [k \in DOMAIN table \cup {key} |-> IF k = key THEN value ELSE table[k]]

\* std::unordered_map::emplace: the first binding of a key wins
Emplace(table, key, value) ==
  IF key \in DOMAIN table THEN table ELSE InsertOrAssign(table, key, value)

EmptyTable == << >>

(****************************** The environment ****************************)

BuiltinTypes ==
  [void |-> Void, bool |-> Bool,
   u8 |-> UInt(8), u16 |-> UInt(16), u32 |-> UInt(32), u64 |-> UInt(64),
   i8 |-> SInt(8), i16 |-> SInt(16), i32 |-> SInt(32), i64 |-> SInt(64),
   f32 |-> SingleFp, f64 |-> DoubleFp]

\* put_f64 takes an f32
BuiltinSymbols ==
  [put_i64 |-> FunctionSignature(<<SInt(64)>>, Void),
   put_u64 |-> FunctionSignature(<<UInt(64)>>, Void),
   put_f32 |-> FunctionSignature(<<SingleFp>>, Void),
   put_f64 |-> FunctionSignature(<<SingleFp>>, Void)]

LookupType(types, name) == IF name \in DOMAIN types THEN types[name] ELSE Nullopt

LookupSymbol(symbols, name) ==
  IF name \in DOMAIN symbols THEN symbols[name] ELSE Nullopt

\* (mutants) the last binding of a name wins
ReplaceNamedType(types, name, type) == InsertOrAssign(types, name, type)
ReplaceSymbol(symbols, name, type) == InsertOrAssign(symbols, name, type)

AddNewNamedType(types, name, type) == Emplace(types, name, type)

AddNewSymbol(symbols, name, type) == Emplace(symbols, name, type)

\* A signature of the source: the hints of its parameters and of its result
\* ("" where the result is left out)
FunctionTypeOf(types, params, ret) ==
  LET hints == [i \in DOMAIN params |-> LookupType(types, params[i])]
      rettype == IF ret = "" THEN types["void"] ELSE LookupType(types, ret)
  IN  IF rettype = Nullopt \/ \E i \in DOMAIN hints : hints[i] = Nullopt
      THEN Nullopt
      ELSE FunctionSignature(hints, rettype)

(*************************** The scopes of storage *************************)

NoStorage == [home |-> 0]

\* stack::get asks the scopes from the innermost one out
StackGet(scopes, name) ==
  LET holding == {i \in DOMAIN scopes : name \in DOMAIN scopes[i]}
  IN  IF holding = {} THEN NoStorage
      ELSE scopes[CHOOSE i \in holding : \A j \in holding : j <= i][name]

\* (mutants) the first storage of a name stays; the scope written to is a copy
StackKeepFirst(scopes, name, storage) ==
  [scopes EXCEPT ![Len(scopes)] = Emplace(@, name, storage)]
StackPutIntoCopy(scopes, name, storage) == scopes

StackPut(scopes, name, storage) ==
  [scopes EXCEPT ![Len(scopes)] = InsertOrAssign(@, name, storage)]
================================================================================
