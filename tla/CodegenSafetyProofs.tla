-------------------------- MODULE CodegenSafetyProofs --------------------------
(***************************************************************************)
(* Proofs about Codegen, for every program, that rest on its invariant:    *)
(* it implements NameTables; it emits behind a branch only while an `elif` *)
(* is open; and the two walks over an expression agree.                    *)
(***************************************************************************)
EXTENDS CodegenProofs

(***************************************************************************)
(* Codegen implements NameTables.                                          *)
(***************************************************************************)

\* The names of the module's functions and of the builtin ones have a symbol.
NamesKnown ==
  /\ DOMAIN functions \subseteq DOMAIN symbols
  /\ DOMAIN BuiltinFunction \subseteq DOMAIN symbols

\* Nothing enters the module without a symbol, and no symbol is taken away.
LEMMA NamesKnownInvariant == Spec => [](((IInv /\ InFunction) \/ HalfEnded) /\ NamesKnown)
<1>1. Init => NamesKnown
  <2>1. DOMAIN BuiltinSymbols = DOMAIN BuiltinFunction /\ DOMAIN EmptyTable = {}
    BY DEF BuiltinSymbols, BuiltinFunction, EmptyTable
  <2> QED
    BY <2>1 DEF Init, NamesKnown
<1>2. IInv /\ NamesKnown /\ [Next]_vars => NamesKnown'
  <2> SUFFICES ASSUME IInv, NamesKnown, [Next]_vars PROVE NamesKnown'
    OBVIOUS
  <2>1. CASE UNCHANGED <<symbols, functions>>
    BY <2>1 DEF NamesKnown
  <2>2. CASE Bound
    BY <2>2 DEF Bound, NamesKnown, AddNewSymbol, Emplace, InsertOrAssign
  <2>3. CASE Called
    <3>1. PICK name \in DOMAIN BuiltinFunction \cup DOMAIN functions :
            functions' = Emplace(functions, CalledFunction(name).name, CalledFunction(name).signature)
      BY <2>3 DEF Called
    <3>2. symbols' = symbols
      BY <2>3 DEF Called, envVars
    <3>3. CalledFunction(name).name \in DOMAIN symbols
      BY CalledNames DEF NamesKnown
    <3> QED
      BY <3>1, <3>2, <3>3 DEF Emplace, InsertOrAssign, NamesKnown
  <2>4. CASE Defined
    BY <2>4 DEF Defined, NamesKnown, AddNewSymbol, Emplace, InsertOrAssign
  <2>5. CASE HalfDefines
    <3>1. DOMAIN symbols \subseteq DOMAIN symbols' /\ functions' = functions
      BY <2>5 DEF HalfDefines, AddNewSymbol, Emplace, InsertOrAssign, irVars
    <3> QED
      BY <3>1 DEF NamesKnown
  <2> QED
    BY <2>1, <2>2, <2>3, <2>4, <2>5, Steps DEF Ended, Local, envVars, irVars
<1>3. HalfEnded /\ NamesKnown /\ [Next]_vars => NamesKnown'
  BY NothingFollows DEF HalfEnded, NamesKnown, vars, envVars, irVars
<1> QED
  BY <1>1, <1>2, <1>3, Invariance, PTL DEF Spec

\* The tables of the specification are the ones std::map keeps.
LEMMA SameTable == \A table, key, value : Names!Adds(table, key, value) = Emplace(table, key, value)
BY DEF Names!Adds, Emplace, InsertOrAssign

\* Bindings and calls are steps of a walk that goes on.
LEMMA ChangingSteps ==
  ASSUME FinishLet \/ CompleteCall
  PROVE  Running /\ (Ended \/ outcome' = outcome)
<1>1. CASE FinishLet
  BY <1>1, Stopping DEF FinishLet, Returned
<1>2. CASE CompleteCall
  BY <1>2, Stopping DEF CompleteCall
<1> QED
  BY <1>1, <1>2

\* The owners of the storage in the one scope there is.
Owners == [x \in DOMAIN scopes[1] |-> scopes[1][x].home]

\* A binding is one of the specification.
LEMMA BoundBinds ==
  ASSUME IInv, InFunction, Running, frames # <<>>, Bound, outcome' = outcome
  PROVE  Names!Bind
<1>1. PICK type \in Scalars, ty \in LlvmScalars :
        /\ scopes' = StackPut(scopes, Top.name, [home |-> fn.home, ty |-> ty])
        /\ symbols' = AddNewSymbol(symbols, Top.name, type)
  BY DEF Bound
<1> DEFINE x == Top.name
           storage == [home |-> fn.home, ty |-> ty]
<1>2. scopes'[1] = InsertOrAssign(scopes[1], x, storage)
  <2>1. scopes = <<scopes[1]>>
    BY DEF IInv, IrOK
  <2> QED
    BY <1>1, <2>1, PutIntoOneScope
<1>3. Owners' = [y \in DOMAIN Owners \cup {x} |-> IF y = x THEN fn.home ELSE Owners[y]]
  BY <1>2 DEF Owners, InsertOrAssign
<1>4. x \in DOMAIN Owners'
  BY <1>3
<1>5. \/ x \in DOMAIN symbols /\ symbols' = symbols
      \/ x \notin DOMAIN symbols /\ symbols' = Names!Adds(symbols, x, type)
  BY <1>1, SameTable DEF AddNewSymbol, Emplace
<1>6. fn.home > 0
  BY CodegenAssumption DEF IInv, IrOK, InFunction
<1>7. UNCHANGED <<typenames, functions, fn.home, ~Running>>
  BY DEF Bound, Running
<1> HIDE DEF x
<1> QED
  BY <1>3, <1>4, <1>5, <1>6, <1>7 DEF Names!Bind, Owners

\* A call declares what it calls, or nothing.
LEMMA CalledDeclares ==
  ASSUME IInv, InFunction, NamesKnown, Running, frames # <<>>, Called, outcome' = outcome
  PROVE  Names!Declare \/ UNCHANGED Names!tableVars
<1>1. PICK name \in DOMAIN BuiltinFunction \cup DOMAIN functions :
        functions' = Emplace(functions, CalledFunction(name).name, CalledFunction(name).signature)
  BY DEF Called
<1>2. UNCHANGED <<typenames, symbols, scopes, fn, Running>>
  BY DEF Called, envVars, Running
<1>3. CASE name \in DOMAIN BuiltinFunction
  <2>1. functions' = Names!Adds(functions, BuiltinFunction[name].name, BuiltinFunction[name].signature)
    BY <1>1, <1>3, SameTable DEF CalledFunction
  <2>2. fn.home > 0
    BY CodegenAssumption DEF IInv, IrOK, InFunction
  <2> QED
    BY <1>2, <1>3, <2>1, <2>2 DEF Names!Declare
<1>4. CASE name \notin DOMAIN BuiltinFunction
  <2>1. functions' = functions
    BY <1>1, <1>4 DEF CalledFunction, Emplace
  <2> QED
    BY <1>2, <2>1 DEF Names!tableVars
<1> QED
  BY <1>3, <1>4

\* A definition is one of a new name, or of one that means something already.
LEMMA DefinedDefines ==
  ASSUME IInv, NamesKnown, Running, Defined, outcome' = outcome
  PROVE  Names!Define
<1>1. PICK s \in Signatures, type \in FunctionTypes :
        /\ typenames' = AddNewNamedType(typenames, s.name, type)
        /\ symbols' = AddNewSymbol(symbols, s.name, type)
        /\ functions' = Emplace(functions, s.name, LlvmType(type))
        /\ fn' = [home |-> fn.home + 1, ret |-> LlvmType(type).ret, params |-> s.names]
        /\ scopes' = scopes
  BY DEF Defined
<1> DEFINE f == s.name
<1>2. /\ symbols' = Names!Adds(symbols, f, type)
      /\ typenames' = Names!Adds(typenames, f, type)
      /\ functions' = Names!Adds(functions, f, LlvmType(type))
  BY <1>1, SameTable DEF AddNewSymbol, AddNewNamedType
<1> HIDE DEF f
<1>3. ASSUME f \notin DOMAIN symbols PROVE Names!DefineNew
  <2>1. f \in DOMAIN symbols' /\ symbols'[f] = type
    BY <1>2, <1>3 DEF Names!Adds
  <2>2. f \notin DOMAIN functions
    BY <1>3 DEF NamesKnown
  <2> QED
    BY <1>2, <1>3, <2>1, <2>2 DEF Names!DefineNew
<1>4. ASSUME f \in DOMAIN symbols PROVE Names!DefineAgain
  <2>1. symbols' = symbols
    BY <1>2, <1>4 DEF Names!Adds
  <2>2. /\ f \in DOMAIN typenames' /\ typenames' = Names!Adds(typenames, f, typenames'[f])
        /\ f \in DOMAIN typenames \/ typenames'[f] \in FunctionTypes
    BY <1>2 DEF Names!Adds
  <2>3. f \in DOMAIN functions' /\ functions' = Names!Adds(functions, f, functions'[f])
    BY <1>2 DEF Names!Adds
  <2> QED
    BY <1>4, <2>1, <2>2, <2>3 DEF Names!DefineAgain
<1>5. Names!DefineNew \/ Names!DefineAgain
  BY <1>3, <1>4
<1>6. fn'.home = fn.home + 1 /\ UNCHANGED <<scopes, Running>>
  BY <1>1 DEF Running
<1> QED
  BY <1>5, <1>6 DEF Names!Define

\* So is a definition that ends halfway.
LEMMA HalfDefinesHalf ==
  ASSUME HalfDefines PROVE Names!DefineHalf
<1> PICK s \in Signatures : \E type \in {FunctionTypeOf(typenames, s.params, s.ret)} :
      /\ typenames' = AddNewNamedType(typenames, s.name, type)
      /\ symbols' = AddNewSymbol(symbols, s.name, type)
      /\ outcome = "running" /\ outcome' = "undefined" /\ UNCHANGED irVars
  BY DEF HalfDefines
<1>1. PICK type \in {FunctionTypeOf(typenames, s.params, s.ret)} :
      /\ typenames' = AddNewNamedType(typenames, s.name, type)
      /\ symbols' = AddNewSymbol(symbols, s.name, type)
      /\ outcome = "running" /\ outcome' = "undefined" /\ UNCHANGED irVars
  OBVIOUS
<1> DEFINE f == s.name
<1>2. typenames' = Names!Adds(typenames, f, type) /\ symbols' = Names!Adds(symbols, f, type)
  BY <1>1, SameTable DEF AddNewSymbol, AddNewNamedType
<1> HIDE DEF f
<1>3. /\ f \in DOMAIN typenames' \cap DOMAIN symbols'
      /\ typenames' = Names!Adds(typenames, f, typenames'[f])
      /\ symbols' = Names!Adds(symbols, f, symbols'[f])
  BY <1>2 DEF Names!Adds
<1>4. Running /\ ~Running' /\ UNCHANGED <<scopes, functions, fn>>
  BY <1>1 DEF Running, irVars
<1> QED
  BY <1>3, <1>4 DEF Names!DefineHalf

\* The tables of a compilation keep what NameTables promises of them: the three
\* visits that change them, and every way a walk ends, are steps of it.
THEOREM TablesImplemented == Spec => ImplementsNameTables
<1>1. Init => Names!Init
  <2>1. NoFunction.home = 0 /\ <<EmptyTable>>[1] = EmptyTable /\ DOMAIN EmptyTable = {}
    BY DEF NoFunction, EmptyTable
  <2> QED
    BY <2>1 DEF Init, Names!Init, Running, EmptyTable
<1>2. IInv /\ InFunction /\ NamesKnown /\ [Next]_vars => [Names!Next]_(Names!tableVars)
  <2> SUFFICES ASSUME IInv, InFunction, NamesKnown, [Next]_vars
               PROVE  Names!Next \/ UNCHANGED Names!tableVars
    OBVIOUS
  <2>1. CASE Ended
    <3>1. UNCHANGED <<typenames, symbols, scopes, functions, fn>> /\ ~Running'
      BY <2>1 DEF Ended, envVars, irVars, Running
    <3> QED
      BY <3>1 DEF Names!Next, Names!End, Names!tableVars
  <2>2. CASE Local
    <3>1. UNCHANGED <<typenames, symbols, scopes, functions, fn>>
      BY <2>2 DEF Local, envVars, irVars
    <3>2. UNCHANGED Running \/ (Running /\ ~Running')
      BY <2>2 DEF Local, Quiet, Running
    <3> QED
      BY <3>1, <3>2 DEF Names!Next, Names!End, Names!tableVars
  <2>3. CASE FinishLet /\ ~Ended
    <3>1. Running /\ outcome' = outcome
      BY <2>3, ChangingSteps
    <3>2. frames # <<>> /\ Bound
      BY <2>3, FinishLetSteps
    <3> QED
      BY <3>1, <3>2, BoundBinds DEF Names!Next
  <2>4. CASE CompleteCall /\ ~Ended
    <3>1. Running /\ outcome' = outcome
      BY <2>4, ChangingSteps
    <3>2. frames # <<>> /\ Called
      BY <2>4, CompleteCallSteps
    <3> QED
      BY <3>1, <3>2, CalledDeclares DEF Names!Next
  <2>5. ASSUME NEW s \in Signatures, DefineFunction(s), ~Ended
        PROVE  Names!Next
    <3>1. Running
      BY <2>5 DEF DefineFunction, AtModule
    <3>2. CASE HalfDefines
      BY <3>2, HalfDefinesHalf DEF Names!Next
    <3>3. CASE Quiet /\ Defined
      BY <3>1, <3>3, DefinedDefines DEF Defined, Names!Next
    <3>4. HalfDefines \/ (Quiet /\ Defined)
      BY <2>5, DefineFunctionSteps
    <3> QED
      BY <3>2, <3>3, <3>4
  <2> QED
    BY <2>1, <2>2, <2>3, <2>4, <2>5, StepKinds
<1>3. HalfEnded /\ [Next]_vars => [Names!Next]_(Names!tableVars)
  BY NothingFollows DEF HalfEnded, Names!tableVars, vars, envVars, irVars, Running
<1> QED
  BY <1>1, <1>2, <1>3, NamesKnownInvariant, PTL DEF Spec, ImplementsNameTables, Names!Spec

--------------------------------------------------------------------------------
(***************************************************************************)
(* Where code generation emits.                                            *)
(***************************************************************************)

\* The outermost node is the function, and no other node is one.
OneFunction ==
  /\ frames # <<>> => frames[1].kind = "function"
  /\ \A i \in 1..Len(frames) : frames[i].kind = "function" => i = 1

FlowInv == OneFunction /\ BranchOnlyBeforeElif

--------------------------------------------------------------------------------
(* What a step does to the nodes being visited and to the last instruction. *)

\* No branch is emitted.
NoBranch == last' # "br" \/ last' = last

\* The walk goes down, goes up, stays, or takes a node to its next part.
Down == \E f : f.kind # "function" /\ frames' = Append(frames, f) /\ last' = last
Up   == /\ frames' = Below /\ Top.kind # "function"
        /\ last' # "br" \/ (last' = last /\ Top.kind # "orelse")
Along == /\ Top.kind \notin {"function", "orelse"} /\ NoBranch
         /\ \E f : f.kind # "function" /\ frames' = [frames EXCEPT ![Len(frames)] = f]

\* A body ends, and an `elif` comes next.
OpensElif ==
  /\ Top.kind = "body"
  /\ \E e, f : /\ e.kind = "orelse" /\ f.kind # "function"
               /\ frames' = Append([frames EXCEPT ![Len(frames)] = e], f)

\* A step within a function
Goes == /\ frames # <<>> /\ Running
        /\ (frames' = frames /\ NoBranch) \/ Down \/ Up \/ Along \/ OpensElif

\* A step that emits nothing, and may end the module
Still == /\ UNCHANGED <<frames, last, fn>>
         /\ outcome' = "running" => Running

Begins == frames' = <<Frame("function", "", "")>> /\ last' = "empty"

\* What is emitted is no branch.
LEMMA EmitsNoBranch ==
  \A folded, found : /\ Emit("instruction", folded, found) => NoBranch
                     /\ Emit("ret", folded, found) => NoBranch
BY DEF Emit, NoBranch

\* Entering a node that is no function goes down.
LEMMA EntersDown ==
  ASSUME NEW kind, NEW name, NEW hint, kind # "function",
         Visit(Frame(kind, name, hint)), last' = last
  PROVE  Down
<1> DEFINE f == Frame(kind, name, hint)
<1>1. f.kind = kind
  BY DEF Frame
<1>2. frames' = Append(frames, f)
  BY DEF Visit
<1> HIDE DEF f
<1> QED
  BY <1>1, <1>2 DEF Down

\* A node that keeps a part stays the node it is.
LEMMA KeepsAlong ==
  ASSUME IInv, frames # <<>>, Top.kind \in {"binary", "call"}, NoBranch, NEW d,
         frames' = [frames EXCEPT ![Len(frames)].done = d]
  PROVE  Along
<1> DEFINE f == [Top EXCEPT !.done = d]
<1>1. Top \in Frames
  BY InnermostFrame DEF IInv, WalkOK
<1>2. f.kind = Top.kind
  BY <1>1 DEF Frames
<1>3. frames' = [frames EXCEPT ![Len(frames)] = f]
  BY DEF Top
<1> HIDE DEF f
<1> QED
  BY <1>2, <1>3 DEF Along

\* The steps of expressions are steps within a function.
LEMMA ExpressionsGo ==
  ASSUME IInv
  PROVE  /\ \A l \in Literals : VisitLiteral(l) => Goes
         /\ \A x \in VarNames : VisitVariable(x) => Ended \/ Goes
         /\ VisitUnary => Goes
         /\ \A op \in Operators : EnterBinary(op) => Goes
         /\ KeepLeft => Ended \/ Goes
         /\ CastAs => Ended \/ Goes
         /\ EmitArithmetic \/ EmitPower \/ EmitBoolean \/ EmitComparison => Ended \/ Goes
<1>1. \A l \in Literals : VisitLiteral(l) => Goes
  BY DEF VisitLiteral, AtExpression, Goes, NoBranch, emitVars
<1>2. \A x \in VarNames : VisitVariable(x) => Ended \/ Goes
  BY Stopping, EmitsNoBranch DEF VisitVariable, AtExpression, Goes
<1>3. VisitUnary => Goes
  BY DEF VisitUnary, AtExpression, Goes, NoBranch, emitVars
<1>4. \A op \in Operators : EnterBinary(op) => Goes
  BY EntersDown DEF EnterBinary, AtExpression, Goes, emitVars
<1>5. ASSUME KeepLeft PROVE Ended \/ Goes
  <2>1. CASE result.type = Nullopt /\ Top.name # "comparison"
    BY <1>5, <2>1, Stopping DEF KeepLeft
  <2>2. CASE ~(result.type = Nullopt /\ Top.name # "comparison")
    <3>1. /\ frames # <<>> /\ Running /\ Top.kind = "binary" /\ NoBranch
          /\ frames' = [frames EXCEPT ![Len(frames)].done = <<result>>]
      BY <1>5, <2>2 DEF KeepLeft, Returned, NoBranch, emitVars
    <3> QED
      BY <3>1, KeepsAlong DEF Goes
  <2> QED
    BY <2>1, <2>2
<1>6. CastAs => Ended \/ Goes
  BY Stopping, EmitsNoBranch DEF CastAs, Returned, Goes, Up, NoBranch
<1>7. \A type, folded, found :
        frames # <<>> /\ Running /\ Top.kind = "binary" /\ EmitBinary(type, folded, found)
          => Ended \/ Goes
  BY EmitsNoBranch, Stopping DEF EmitBinary, Goes, Up, NoBranch
<1>8. EmitArithmetic => Ended \/ Goes
  BY <1>7, Stopping DEF EmitArithmetic, ReturnedRight, Returned
<1>9. EmitPower => Ended \/ Goes
  BY <1>7, Stopping DEF EmitPower, ReturnedRight, Returned, Goes, Up, emitVars
<1>10. EmitBoolean => Ended \/ Goes
  BY <1>7, Stopping DEF EmitBoolean, ReturnedRight, Returned
<1>11. EmitComparison => Ended \/ Goes
  BY <1>7, Stopping DEF EmitComparison, ReturnedRight, Returned
<1> QED
  BY <1>1, <1>2, <1>3, <1>4, <1>5, <1>6, <1>8, <1>9, <1>10, <1>11

\* So are the steps of calls and of statements, but for the end of a function.
LEMMA StatementsGo ==
  ASSUME IInv
  PROVE  /\ \A callee \in Callees : EnterCall(callee) => Ended \/ Goes
         /\ PassArgument \/ CompleteCall => Ended \/ Goes
         /\ \A kind \in Statements : EnterStatement(kind) => Goes
         /\ FinishLet => Ended \/ Goes
         /\ FinishDiscard \/ FinishReturn => Goes
         /\ BranchOn => Ended \/ Goes
         /\ CloseBody \/ JoinElif => Goes
<1>1. \A callee \in Callees : EnterCall(callee) => Ended \/ Goes
  BY Stopping, EntersDown DEF EnterCall, AtExpression, Goes, emitVars
<1>2. ASSUME PassArgument PROVE Ended \/ Goes
  <2> DEFINE target == symbols[Top.name].parameters[Len(Top.done) + 1]
  <2>1. CASE result.type = Nullopt \/ Conversion(result, target) # "running"
    BY <1>2, <2>1, Stopping DEF PassArgument
  <2>2. CASE ~(result.type = Nullopt \/ Conversion(result, target) # "running")
    <3>1. /\ frames # <<>> /\ Running /\ Top.kind = "call"
          /\ Emit("instruction", ConversionFolded(result, target), {})
          /\ frames' = [frames EXCEPT ![Len(frames)].done =
                           Append(@, Result(Converted(result, target), target))]
      BY <1>2, <2>2 DEF PassArgument, Returned
    <3>2. NoBranch
      BY <3>1, EmitsNoBranch
    <3>3. PICK d : frames' = [frames EXCEPT ![Len(frames)].done = d]
      BY <3>1
    <3> QED
      BY <3>1, <3>2, <3>3, KeepsAlong DEF Goes
  <2> QED
    BY <2>1, <2>2
<1>3. CompleteCall => Ended \/ Goes
  BY Stopping, EmitsNoBranch DEF CompleteCall, Goes, Up, NoBranch
<1>4. ASSUME NEW kind \in Statements, EnterStatement(kind) PROVE Goes
  <2>1. kind # "function"
    BY CodegenAssumption
  <2>2. frames # <<>> /\ Running /\ last' = last
    BY <1>4 DEF EnterStatement, AtStatement, emitVars
  <2>3. PICK name, hint : Visit(Frame(kind, name, hint))
    BY <1>4 DEF EnterStatement
  <2> QED
    BY <2>1, <2>2, <2>3, EntersDown DEF Goes
<1>5. FinishLet => Ended \/ Goes
  BY Stopping, EmitsNoBranch DEF FinishLet, Returned, Goes, Up, NoBranch
<1>6. FinishDiscard \/ FinishReturn => Goes
  BY EmitsNoBranch DEF FinishDiscard, FinishReturn, Returned, Goes, Up, NoBranch, emitVars
<1>7. ASSUME BranchOn PROVE Ended \/ Goes
  <2>1. CASE Undefined
    BY <2>1, Stopping
  <2>2. CASE ~Undefined
    <3>1. /\ frames # <<>> /\ Running /\ Top.kind = "if" /\ last' = "empty"
          /\ frames' = [frames EXCEPT ![Len(frames)].kind = "body"]
      BY <1>7, <2>2 DEF BranchOn, Returned
    <3>2. Top \in Frames
      BY <3>1, InnermostFrame DEF IInv, WalkOK
    <3>3. frames' = [frames EXCEPT ![Len(frames)] = [Top EXCEPT !.kind = "body"]]
      BY <3>1 DEF Top
    <3>4. [Top EXCEPT !.kind = "body"].kind = "body"
      BY <3>2 DEF Frames
    <3> QED
      BY <3>1, <3>3, <3>4 DEF Goes, Along, NoBranch
  <2> QED
    BY <2>1, <2>2
<1>8. ASSUME CloseBody PROVE Goes
  <2>1. frames # <<>> /\ Running /\ Top.kind = "body"
    BY <1>8 DEF CloseBody, AtStatement
  <2>2. CASE last' = InMerge /\ frames' = Below
    BY <2>1, <2>2 DEF InMerge, Goes, Up
  <2>3. CASE frames' = Append([frames EXCEPT ![Len(frames)].kind = "orelse"], Frame("if", "", ""))
    <3>1. Top \in Frames
      BY <2>1, InnermostFrame DEF IInv, WalkOK
    <3>2. frames' = Append([frames EXCEPT ![Len(frames)] = [Top EXCEPT !.kind = "orelse"]],
                           Frame("if", "", ""))
      BY <2>3 DEF Top
    <3>3. [Top EXCEPT !.kind = "orelse"].kind = "orelse" /\ Frame("if", "", "").kind = "if"
      BY <3>1 DEF Frames, Frame
    <3>4. OpensElif
      BY <2>1, <3>2, <3>3 DEF OpensElif
    <3> QED
      BY <2>1, <3>4 DEF Goes
  <2> QED
    BY <1>8, <2>2, <2>3 DEF CloseBody
<1>9. JoinElif => Goes
  BY DEF JoinElif, InMerge, Goes, Up
<1> QED
  BY <1>1, <1>2, <1>3, <1>4, <1>5, <1>6, <1>7, <1>8, <1>9

\* Every step ends the walk, is one within a function, or begins or ends one.
LEMMA FlowKinds ==
  ASSUME IInv, [Next]_vars
  PROVE  Ended \/ Goes \/ Still \/ Begins \/ CloseFunction
<1>1. \A s \in Signatures : DefineFunction(s) => Ended \/ Still \/ Begins
  BY Stopping DEF DefineFunction, AtModule, irVars, Still, Begins
<1>2. VisitStruct \/ EndModule \/ Stopped \/ UNCHANGED vars => Still
  BY DEF VisitStruct, EndModule, AtModule, Running, Stopped, vars, irVars, emitVars, Still
<1> QED
  BY <1>1, <1>2, ExpressionsGo, StatementsGo DEF Next

--------------------------------------------------------------------------------
(* Every kind of step keeps the invariant. *)

\* The walk goes down into a node.
LEMMA DownKeeps ==
  ASSUME IInv, FlowInv, frames # <<>>, Running, Down PROVE FlowInv'
<1>1. PICK f : f.kind # "function" /\ frames' = Append(frames, f) /\ last' = last
  BY DEF Down
<1>2. /\ Len(frames) \in Nat \ {0} /\ Len(frames') = Len(frames) + 1
      /\ DOMAIN frames = 1..Len(frames) /\ DOMAIN frames' = 1..Len(frames')
      /\ \A i \in 1..Len(frames) : frames'[i] = frames[i]
      /\ frames'[Len(frames) + 1] = f
  BY <1>1 DEF IInv, WalkOK
<1>3. OneFunction'
  BY <1>1, <1>2 DEF FlowInv, OneFunction
<1>4. BranchOnlyBeforeElif'
  <2> SUFFICES ASSUME last = "br" PROVE \E i \in DOMAIN frames' : frames'[i].kind = "orelse"
    BY <1>1 DEF BranchOnlyBeforeElif
  <2>1. PICK i \in 1..Len(frames) : frames[i].kind = "orelse"
    BY <1>2 DEF FlowInv, BranchOnlyBeforeElif
  <2> QED
    BY <1>2, <2>1
<1> QED
  BY <1>3, <1>4 DEF FlowInv

\* The walk goes up from a node that is no function, so one is left; and a branch
\* stays the last instruction only when the node is not the one whose `elif` it
\* precedes.
LEMMA UpKeeps ==
  ASSUME IInv, FlowInv, frames # <<>>, Running, Up PROVE FlowInv'
<1>1. /\ Len(frames) \in Nat \ {0} /\ Top = frames[Len(frames)]
      /\ frames' = Below /\ Below \in Seq(Frames) /\ Len(frames') = Len(frames) - 1
      /\ \A i \in 1..(Len(frames) - 1) : frames'[i] = frames[i]
  BY InnermostFrame DEF IInv, WalkOK, Up
<1>2. DOMAIN frames = 1..Len(frames) /\ DOMAIN frames' = 1..Len(frames')
  BY <1>1 DEF IInv, WalkOK
<1>3. Len(frames) # 1
  BY <1>1 DEF Up, FlowInv, OneFunction
<1>4. OneFunction'
  BY <1>1, <1>3 DEF FlowInv, OneFunction
<1>5. BranchOnlyBeforeElif'
  <2> SUFFICES ASSUME last' = "br" PROVE \E i \in DOMAIN frames' : frames'[i].kind = "orelse"
    BY DEF BranchOnlyBeforeElif
  <2>1. last = "br" /\ Top.kind # "orelse"
    BY DEF Up
  <2>2. PICK i \in 1..Len(frames) : frames[i].kind = "orelse"
    BY <1>2, <2>1 DEF FlowInv, BranchOnlyBeforeElif
  <2>3. i \in 1..(Len(frames) - 1)
    BY <1>1, <2>1, <2>2
  <2> QED
    BY <1>1, <1>2, <2>2, <2>3
<1> QED
  BY <1>4, <1>5 DEF FlowInv

\* A node that is neither a function nor waiting for its `elif` becomes one that
\* is no function.
LEMMA AlongKeeps ==
  ASSUME IInv, FlowInv, frames # <<>>, Running, Along PROVE FlowInv'
<1>1. PICK f : f.kind # "function" /\ frames' = [frames EXCEPT ![Len(frames)] = f]
  BY DEF Along
<1>2. /\ Len(frames) \in Nat \ {0} /\ Top = frames[Len(frames)]
      /\ DOMAIN frames = 1..Len(frames) /\ DOMAIN frames' = 1..Len(frames)
      /\ Len(frames') = Len(frames)
      /\ \A i \in 1..(Len(frames) - 1) : frames'[i] = frames[i]
      /\ frames'[Len(frames)] = f
  <2>1. Len(frames) \in Nat \ {0} /\ Top = frames[Len(frames)] /\ frames \in Seq(Frames)
    BY InnermostFrame DEF IInv, WalkOK
  <2> QED
    BY <1>1, <2>1
<1>3. Len(frames) # 1
  BY <1>2 DEF Along, FlowInv, OneFunction
<1>4. OneFunction'
  <2>1. frames' # <<>> /\ frames'[1] = frames[1] /\ frames[1].kind = "function"
    BY <1>2, <1>3 DEF FlowInv, OneFunction
  <2>2. ASSUME NEW i \in 1..Len(frames'), frames'[i].kind = "function" PROVE i = 1
    <3>1. i # Len(frames)
      BY <1>1, <1>2, <2>2
    <3>2. Len(frames) \in Nat /\ i \in 1..Len(frames)
      BY <1>2
    <3>3. i \in 1..(Len(frames) - 1)
      BY <3>1, <3>2
    <3>4. frames'[i] = frames[i]
      BY <1>2, <3>3
    <3> QED
      BY <2>2, <3>2, <3>4 DEF FlowInv, OneFunction
  <2> QED
    BY <2>1, <2>2 DEF OneFunction
<1>5. BranchOnlyBeforeElif'
  <2> SUFFICES ASSUME last' = "br" PROVE \E i \in DOMAIN frames' : frames'[i].kind = "orelse"
    BY DEF BranchOnlyBeforeElif
  <2>1. last = "br" /\ Top.kind # "orelse"
    BY DEF Along, NoBranch
  <2>2. PICK i \in 1..Len(frames) : frames[i].kind = "orelse"
    BY <1>2, <2>1 DEF FlowInv, BranchOnlyBeforeElif
  <2>3. i \in 1..(Len(frames) - 1)
    BY <1>2, <2>1, <2>2
  <2> QED
    BY <1>2, <2>2, <2>3
<1> QED
  BY <1>4, <1>5 DEF FlowInv

\* A body waits for its `elif`, which is visited behind the branch of the body.
LEMMA OpensElifKeeps ==
  ASSUME IInv, FlowInv, frames # <<>>, Running, OpensElif PROVE FlowInv'
<1>1. PICK e, f : /\ e.kind = "orelse" /\ f.kind # "function"
                  /\ frames' = Append([frames EXCEPT ![Len(frames)] = e], f)
  BY DEF OpensElif
<1>2. Len(frames) \in Nat \ {0} /\ Top = frames[Len(frames)] /\ frames \in Seq(Frames)
  BY InnermostFrame DEF IInv, WalkOK
<1> DEFINE g == [frames EXCEPT ![Len(frames)] = e]
<1>3. /\ DOMAIN g = 1..Len(frames) /\ Len(g) = Len(frames) /\ g[Len(frames)] = e
      /\ \A i \in 1..(Len(frames) - 1) : g[i] = frames[i]
  BY <1>2
<1> DEFINE S == Frames \cup {e, f}
<1>4. g \in Seq(S) /\ frames' = Append(g, f) /\ f \in S
  BY <1>1, <1>2
<1> HIDE DEF g, S
<1>5. /\ Len(frames') = Len(frames) + 1 /\ DOMAIN frames' = 1..Len(frames')
      /\ frames'[Len(frames)] = e /\ frames'[Len(frames) + 1] = f
      /\ \A i \in 1..(Len(frames) - 1) : frames'[i] = frames[i]
  <2>1. /\ Len(frames') = Len(g) + 1 /\ DOMAIN frames' = 1..(Len(g) + 1)
        /\ \A i \in 1..Len(g) : frames'[i] = g[i]
        /\ frames'[Len(g) + 1] = f
    BY <1>4
  <2>2. Len(frames) \in 1..Len(g) /\ \A i \in 1..(Len(frames) - 1) : i \in 1..Len(g)
    BY <1>2, <1>3
  <2> QED
    BY <1>3, <2>1, <2>2
<1>6. Len(frames) # 1
  BY <1>2 DEF OpensElif, FlowInv, OneFunction
<1>7. OneFunction'
  <2>1. frames' # <<>> /\ frames'[1] = frames[1] /\ frames[1].kind = "function"
    <3>1. 1 \in 1..(Len(frames) - 1)
      <4>1. \A n \in Nat \ {0} : n # 1 => 1 \in 1..(n - 1)
        OBVIOUS
      <4> QED
        BY <1>2, <1>6, <4>1
    <3>2. DOMAIN frames' # {}
      BY <1>2, <1>5
    <3>3. frames' # <<>>
      BY <3>2
    <3> QED
      BY <1>5, <3>1, <3>3 DEF FlowInv, OneFunction
  <2>2. ASSUME NEW i \in 1..Len(frames'), frames'[i].kind = "function" PROVE i = 1
    <3>1. i # Len(frames) /\ i # Len(frames) + 1
      BY <1>1, <1>5, <2>2
    <3>2. i \in 1..Len(frames) /\ i \in 1..(Len(frames) - 1)
      BY <1>2, <1>5, <3>1
    <3> QED
      BY <1>5, <2>2, <3>2 DEF FlowInv, OneFunction
  <2> QED
    BY <2>1, <2>2 DEF OneFunction
<1>8. BranchOnlyBeforeElif'
  <2>1. Len(frames) \in DOMAIN frames' /\ frames'[Len(frames)].kind = "orelse"
    BY <1>1, <1>2, <1>5
  <2> QED
    BY <2>1 DEF BranchOnlyBeforeElif
<1> QED
  BY <1>7, <1>8 DEF FlowInv

\* The visit of an expression without parts keeps the invariant.
LEMMA AnswerKeepsFlow ==
  ASSUME FlowInv, frames # <<>>, Running, frames' = frames, NoBranch PROVE FlowInv'
<1>1. OneFunction'
  BY DEF FlowInv, OneFunction
<1>2. BranchOnlyBeforeElif'
  BY DEF FlowInv, BranchOnlyBeforeElif, NoBranch
<1> QED
  BY <1>1, <1>2 DEF FlowInv

\* A function ends: it is the outermost node and the innermost one, so no `elif`
\* is open, and no branch is the last instruction.
LEMMA CloseFunctionKeepsFlow ==
  ASSUME IInv, FlowInv, CloseFunction PROVE FlowInv'
<1>1. /\ frames # <<>> /\ Running /\ Top.kind = "function" /\ frames' = <<>> /\ fn' = fn
      /\ last' = IF ImplicitReturn THEN "ret" ELSE last
  BY DEF CloseFunction, AtStatement, irVars
<1>2. Len(frames) = 1 /\ frames[1].kind = "function" /\ DOMAIN frames = {1}
  <2>1. /\ Len(frames) \in Nat \ {0} /\ Top = frames[Len(frames)]
        /\ DOMAIN frames = 1..Len(frames)
    BY <1>1, InnermostFrame DEF IInv, WalkOK
  <2> QED
    BY <1>1, <2>1 DEF FlowInv, OneFunction
<1>3. last # "br"
  BY <1>1, <1>2 DEF FlowInv, BranchOnlyBeforeElif
<1>4. OneFunction' /\ BranchOnlyBeforeElif'
  BY <1>1, <1>3 DEF OneFunction, BranchOnlyBeforeElif
<1> QED
  BY <1>4 DEF FlowInv

\* Every step keeps the invariant.
LEMMA FlowKeeps ==
  ASSUME IInv, FlowInv, [Next]_vars PROVE FlowInv'
<1>1. CASE Ended
  BY <1>1 DEF Ended, FlowInv, OneFunction, BranchOnlyBeforeElif, Running
<1>2. CASE Goes
  BY <1>2, DownKeeps, UpKeeps, AlongKeeps, OpensElifKeeps, AnswerKeepsFlow DEF Goes
<1>3. CASE Still
  BY <1>3 DEF Still, FlowInv, OneFunction, BranchOnlyBeforeElif, Running
<1>4. CASE Begins
  <2>1. Len(frames') = 1 /\ frames'[1].kind = "function"
    BY <1>4 DEF Begins, Frame
  <2>2. frames' # <<>> /\ last' = "empty"
    BY <1>4 DEF Begins
  <2>3. OneFunction'
    BY <2>1 DEF OneFunction
  <2>4. BranchOnlyBeforeElif'
    BY <2>2 DEF BranchOnlyBeforeElif
  <2> QED
    BY <2>3, <2>4 DEF FlowInv
<1> QED
  BY <1>1, <1>2, <1>3, <1>4, CloseFunctionKeepsFlow, FlowKinds

\* The invariant holds in every reachable state.
LEMMA FlowInvariance == Spec => []FlowInv
<1>1. Init => FlowInv
  BY DEF Init, FlowInv, OneFunction, BranchOnlyBeforeElif
<1>2. IInv /\ FlowInv /\ [Next]_vars => FlowInv'
  BY FlowKeeps
<1>3. HalfEnded /\ FlowInv /\ [Next]_vars => FlowInv'
  BY NothingFollows DEF HalfEnded, FlowInv, OneFunction, BranchOnlyBeforeElif, vars, emitVars,
     Running
<1> QED
  BY <1>1, <1>2, <1>3, Invariance, PTL DEF Spec

--------------------------------------------------------------------------------
(* Theorems. *)

\* No program makes emission go on behind a branch, but for the `elif` of the
\* conditional that branched: no body, no expression and no function after it.
THEOREM BranchOnlyBeforeElifKept == Spec => []BranchOnlyBeforeElif
BY FlowInvariance, PTL DEF FlowInv

--------------------------------------------------------------------------------
(***************************************************************************)
(* The two walks over an expression agree: the value code generation emits *)
(* for it has the LLVM type of the type inference gives it, and so has     *)
(* what is stored under a name or passed to a call.                        *)
(***************************************************************************)

(* The inductive invariant. *)

\* A result whose value has the LLVM type of its type, if it has both.
Agrees(r) == r.val # NullValue /\ r.type # Nullopt => r.val.ty = LlvmType(r.type)

\* The parts of a node agree, and the arguments of a call have the types of the
\* parameters.
NodeTyped(f) ==
  /\ OperandsFit => \A j \in DOMAIN f.done : Agrees(f.done[j])
  /\ f.kind = "call" =>
       \A j \in DOMAIN f.done : f.done[j].type = symbols[f.name].parameters[j]

NodesTyped == \A i \in 1..Len(frames) : NodeTyped(frames[i])

ResultAgrees == OperandsFit => Agrees(result)

\* The symbols of the builtin functions are what they were at the start.
BuiltinsKept ==
  \A b \in DOMAIN BuiltinSymbols : b \in DOMAIN symbols /\ symbols[b] = BuiltinSymbols[b]

\* What is stored under a name bound once has the LLVM type of its symbol.
StorageAgrees ==
  OperandsFit =>
    \A x \in DOMAIN scopes[1] \ rebound :
      x \in DOMAIN symbols /\ scopes[1][x].ty = LlvmType(symbols[x])

Typed == NodesTyped /\ ResultAgrees /\ BuiltinsKept /\ StorageAgrees /\ CallsWellTyped

--------------------------------------------------------------------------------
(* How steps change it. *)

\* A walk that stops.
Unwound == frames' = <<>> /\ result' = NoResult /\ UNCHANGED <<envVars, irVars, emitVars>>

\* Defects stay, and no bad call is added to them.
DefectsGrow ==
  /\ defects \subseteq defects'
  /\ OperandsFit' /\ "put_f64" \notin Callees /\ "badCall" \in defects' => "badCall" \in defects

\* The nodes of the next state are nodes of this one, or have no parts yet.
NodesFollow ==
  \A i \in 1..Len(frames') :
    \/ frames'[i].done = <<>>
    \/ /\ i \in 1..Len(frames) /\ frames'[i].done = frames[i].done
       /\ frames'[i].name = frames[i].name
       /\ frames'[i].kind = "call" => frames[i].kind = "call"

\* A step that answers with a result that agrees, or with none.
Answered ==
  /\ NodesFollow /\ DefectsGrow /\ UNCHANGED <<envVars, scopes>>
  /\ OperandsFit' => Agrees(result')

\* Every way a walk stops unwinds it.
LEMMA Unwinding ==
  /\ \A how, causes : Stop(how, causes) => Unwound
  /\ Throw => Unwound
  /\ Undefined => Unwound
  /\ \A how : StopConversion(how) => Unwound
<1>1. \A how, causes : Stop(how, causes) => Unwound
  BY DEF Stop, Unwound
<1> QED
  BY <1>1 DEF Throw, Undefined, StopConversion

\* No result agrees.
LEMMA NothingAgrees ==
  /\ Agrees(NoResult)
  /\ \A type : Agrees(Result(NullValue, type))
BY DEF Agrees, NoResult, Result

\* A value of the LLVM type of its type agrees.
LEMMA ValueAgrees ==
  ASSUME NEW type, NEW const PROVE Agrees(Result(Value(LlvmType(type), const), type))
BY DEF Agrees, Result, Value

\* What this->subtype() makes of a result that agrees, agrees.
LEMMA ConvertedAgrees ==
  ASSUME NEW r \in Results, NEW t, r.type # Nullopt, Agrees(r), Conversion(r, t) = "running"
  PROVE  Agrees(Result(Converted(r, t), t))
<1> DEFINE rule == TrySubtype(r.type, t)
<1>1. rule # NoRule /\ (rule # "identity" => r.val # NullValue)
  BY DEF Conversion
<1>2. rule \in SubtypingRule /\ Allows(rule, r.type, t)
  BY <1>1, TrySubtypeAllowed
<1>3. CASE rule = "identity"
  <2>1. r.type = t
    BY <1>2, <1>3 DEF Allows
  <2>2. Converted(r, t) = r.val
    BY <1>3 DEF Converted, Convert
  <2> QED
    BY <2>1, <2>2 DEF Agrees, Result
<1>4. CASE rule = "numeric_to_bool"
  <2>1. t = Bool
    BY <1>2, <1>4 DEF Allows
  <2>2. Converted(r, t) = Value(IntTy(1), r.val.const)
    BY <1>4 DEF Converted, Convert
  <2>3. LlvmType(t) = IntTy(1)
    BY <2>1, LlvmTypeOfScalars
  <2> QED
    BY <2>2, <2>3, ValueAgrees
<1>5. CASE rule \notin {"identity", "numeric_to_bool"}
  <2>1. Converted(r, t) = Value(LlvmType(t), r.val.const)
    BY <1>5 DEF Converted, Convert
  <2> QED
    BY <2>1, ValueAgrees
<1> QED
  BY <1>3, <1>4, <1>5

\* An instruction adds what was found to the defects, and what follows a return.
LEMMA Emitted ==
  ASSUME NEW instruction, NEW folded, NEW found, Emit(instruction, folded, found)
  PROVE  /\ defects \subseteq defects' /\ found \subseteq defects'
         /\ "badCall" \in defects' => "badCall" \in defects \cup found
BY DEF Emit

\* The nodes below the innermost one follow.
LEMMA BelowFollows ==
  ASSUME WalkOK, frames # <<>>, frames' = Below PROVE NodesFollow
<1>1. /\ Len(frames) \in Nat \ {0} /\ Len(frames') = Len(frames) - 1
      /\ \A i \in 1..(Len(frames) - 1) : frames'[i] = frames[i]
  BY InnermostFrame DEF WalkOK
<1> QED
  BY <1>1 DEF NodesFollow

\* So do all of them, and a node that is entered has no parts.
LEMMA SameFollow ==
  ASSUME frames' = frames PROVE NodesFollow
BY DEF NodesFollow

\* A node that is entered has no parts.
LEMMA EnteredFollows ==
  ASSUME WalkOK, NEW kind, NEW name, NEW hint, Visit(Frame(kind, name, hint))
  PROVE  NodesFollow
<1> DEFINE f == Frame(kind, name, hint)
<1>1. f.done = <<>>
  BY DEF Frame
<1> HIDE DEF f
<1>2. /\ Len(frames) \in Nat /\ Len(frames') = Len(frames) + 1
      /\ \A i \in 1..Len(frames) : frames'[i] = frames[i]
      /\ frames'[Len(frames) + 1] = f
  BY DEF WalkOK, Visit, f
<1> QED
  BY <1>1, <1>2 DEF NodesFollow

--------------------------------------------------------------------------------
(* Expressions. *)

\* A literal has its type.
LEMMA VisitLiteralAnswers ==
  ASSUME NEW l \in Literals, VisitLiteral(l) PROVE Answered
<1>1. Agrees(result')
  BY ValueAgrees DEF VisitLiteral, Return
<1> QED
  BY <1>1, SameFollow DEF VisitLiteral, Answered, irVars, DefectsGrow, emitVars

\* A variable is loaded with its symbol's type.
LEMMA VisitVariableAnswers ==
  ASSUME NEW x \in VarNames, VisitVariable(x) PROVE Unwound \/ Answered
<1> DEFINE storage == StackGet(scopes, x)
           type    == LookupSymbol(symbols, x)
           found   == IF storage.home = fn.home THEN {} ELSE {"foreignValue"}
<1>1. CASE type = Nullopt \/ storage = NoStorage \/ IsFunction(type)
  BY <1>1, Unwinding DEF VisitVariable
<1>2. CASE ~(type = Nullopt \/ storage = NoStorage \/ IsFunction(type))
  <2>1. /\ Emit("instruction", FALSE, found)
        /\ Return(Value(LlvmType(type), FALSE), type)
        /\ UNCHANGED <<envVars, irVars, frames, reports, outcome>>
    BY <1>2 DEF VisitVariable
  <2>2. Agrees(result')
    BY <2>1, ValueAgrees DEF Return
  <2>3. DefectsGrow
    <3>1. "badCall" \notin found
      OBVIOUS
    <3> QED
      BY <2>1, <3>1, Emitted DEF DefectsGrow
  <2> QED
    BY <2>1, <2>2, <2>3, SameFollow DEF Answered, irVars
<1> QED
  BY <1>1, <1>2

\* A unary operation has no value.
LEMMA VisitUnaryAnswers ==
  ASSUME VisitUnary PROVE Answered
<1>1. Agrees(result')
  BY NothingAgrees DEF VisitUnary, Return
<1> QED
  BY <1>1, SameFollow DEF VisitUnary, Answered, irVars, DefectsGrow, emitVars

\* Entering a node answers nothing.
LEMMA EnteringAnswers ==
  ASSUME WalkOK, NEW kind, NEW name, NEW hint, Visit(Frame(kind, name, hint)),
         UNCHANGED <<envVars, irVars, emitVars>>
  PROVE  Answered
<1>1. NodesFollow
  BY EnteredFollows
<1>2. Agrees(result')
  BY NothingAgrees DEF Visit
<1> QED
  BY <1>1, <1>2 DEF Answered, irVars, DefectsGrow, emitVars

\* A binary operation, a call and a statement are entered.
LEMMA EnterAnswers ==
  ASSUME WalkOK
  PROVE  /\ \A op \in Operators : EnterBinary(op) => Answered
         /\ \A callee \in Callees : EnterCall(callee) => Unwound \/ Answered
         /\ \A kind \in Statements : EnterStatement(kind) => Answered
<1>1. ASSUME NEW op \in Operators, EnterBinary(op) PROVE Answered
  BY <1>1, EnteringAnswers DEF EnterBinary
<1>2. ASSUME NEW callee \in Callees, EnterCall(callee) PROVE Unwound \/ Answered
  BY <1>2, EnteringAnswers, Unwinding DEF EnterCall
<1>3. ASSUME NEW kind \in Statements, EnterStatement(kind) PROVE Answered
  BY <1>3, EnteringAnswers DEF EnterStatement
<1> QED
  BY <1>1, <1>2, <1>3

\* `as` gives the type it names.
LEMMA CastAsAnswers ==
  ASSUME IInv, Typed, CastAs PROVE Unwound \/ Answered
<1> DEFINE target == IF Top.hint = "" THEN Nullopt ELSE LookupType(typenames, Top.hint)
           how    == Conversion(result, target)
<1>0. frames # <<>> /\ result \in Results
  BY DEF CastAs, Returned, IInv, WalkOK
<1>1. CASE result.type = Nullopt \/ target = Nullopt \/ how # "running"
  BY <1>1, Unwinding DEF CastAs
<1>2. CASE result.type # Nullopt /\ target # Nullopt /\ how = "running"
  <2>1. /\ Emit("instruction", ConversionFolded(result, target), {})
        /\ Return(Converted(result, target), target)
        /\ frames' = Below /\ UNCHANGED <<envVars, irVars, reports, outcome>>
    BY <1>2 DEF CastAs
  <2>2. DefectsGrow
    <3>1. "badCall" \notin {}
      OBVIOUS
    <3>2. Emit("instruction", ConversionFolded(result, target), {})
      BY <2>1
    <3> HIDE DEF target
    <3> QED
      BY <3>1, <3>2, Emitted DEF DefectsGrow
  <2>3. OperandsFit' => Agrees(result')
    <3>1. OperandsFit' => Agrees(result)
      BY <2>2 DEF DefectsGrow, OperandsFit, Typed, ResultAgrees
    <3> HIDE DEF target
    <3> QED
      BY <1>0, <1>2, <2>1, <3>1, ConvertedAgrees DEF Return
  <2> QED
    BY <1>0, <2>1, <2>2, <2>3, BelowFollows DEF Answered, irVars, IInv
<1> QED
  BY <1>1, <1>2

\* Nothing is wrong with the types of two operands.
Fitting(found) == "operandTypes" \notin found /\ "constantTypes" \notin found

\* What is wrong with operands that do not fit is about their types.
LEMMA MisfitTypes == Misfit \in {"operandTypes", "constantTypes"}
BY DEF Misfit

\* An instruction of two operands ends the walk, or answers if its type is the one
\* inferred.
LEMMA EmitBinaryAnswers ==
  ASSUME WalkOK, frames # <<>>, NEW type, NEW folded, NEW found,
         EmitBinary(type, folded, found), "badCall" \notin found,
         NEW inferred, Undefined \/ result'.type = inferred,
         OperandsFit /\ Fitting(found) =>
           inferred = Nullopt \/ type = LlvmType(inferred)
  PROVE  Unwound \/ Answered
<1>0. CASE Undefined
  BY <1>0, Unwinding
<1> SUFFICES ASSUME ~Undefined PROVE Answered
  BY <1>0
<1>1. /\ Emit("instruction", folded, found) /\ frames' = Below
      /\ result'.val = Value(type, folded)
      /\ UNCHANGED <<envVars, irVars, reports, outcome>>
  BY DEF EmitBinary, Return, Result
<1>2. DefectsGrow /\ found \subseteq defects'
  BY <1>1, Emitted DEF DefectsGrow
<1>3. OperandsFit' => Agrees(result')
  <2>1. OperandsFit' => OperandsFit /\ Fitting(found)
    BY <1>2 DEF DefectsGrow, OperandsFit, Fitting
  <2> QED
    BY <1>1, <2>1 DEF Agrees, Value
<1> QED
  BY <1>1, <1>2, <1>3, BelowFollows DEF Answered, irVars

\* The operands of a binary operation agree.
LEMMA OperandsAgree ==
  ASSUME IInv, Typed, Returned("binary"), Top.done # <<>>
  PROVE  /\ frames # <<>> /\ Lhs \in Results /\ result \in Results
         /\ OperandsFit => Agrees(Lhs) /\ Agrees(result)
<1>1. frames # <<>> /\ result \in Results /\ frames \in Seq(Frames)
  BY DEF Returned, IInv, WalkOK
<1>2. /\ Len(frames) \in 1..Len(frames) /\ Top = frames[Len(frames)] /\ Top \in Frames
  BY <1>1, InnermostFrame
<1>3. Top.done \in Seq(Results)
  BY <1>2 DEF Frames
<1>4. 1 \in DOMAIN Top.done /\ Top.done[1] \in Results
  BY <1>3
<1>5. NodeTyped(Top)
  BY <1>2 DEF Typed, NodesTyped
<1> QED
  BY <1>1, <1>4, <1>5 DEF Lhs, NodeTyped, Typed, ResultAgrees

\* What inference gives an operation: arithmetic the type of an operand, pow a
\* float, `&&` and `||` a truth value, or none.
LEMMA Inferred ==
  ASSUME NEW types, TypeNames(types), NEW op, NEW l, NEW r
  PROVE  /\ op \in ArithmeticOps \cup ShiftOps =>
              InferBinary(types, op, l, r) \in {Nullopt, l, r}
         /\ InferBinary(types, "pow", l, r) \in {Nullopt, SingleFp}
         /\ op \in BooleanOps => InferBinary(types, op, l, r) \in {Nullopt, Bool}
         /\ InferComparison(types, l, r) \in {Nullopt, Bool}
<1>0. /\ "pow" \notin ArithmeticOps \cup ShiftOps \cup BooleanOps
      /\ ArithmeticOps \cap (ShiftOps \cup BooleanOps) = {} /\ ShiftOps \cap BooleanOps = {}
  BY DEF ArithmeticOps, ShiftOps, BooleanOps
<1>1. LookupType(types, "f32") = SingleFp
  <2>1. BuiltinTypes["f32"] = SingleFp
    BY DEF BuiltinTypes
  <2> QED
    BY <2>1, BuiltinTypesScalar DEF TypeNames, LookupType
<1>2. LookupType(types, "bool") = Bool
  BY BoolTyped
<1>3. InferComparison(types, l, r) \in {Nullopt, Bool}
  BY <1>2 DEF InferComparison
<1>4. CASE l = Nullopt \/ r = Nullopt
  BY <1>3, <1>4 DEF InferBinary
<1>5. CASE l # Nullopt /\ r # Nullopt
  <2>1. InferBinary(types, "pow", l, r) = LookupType(types, "f32")
    BY <1>0, <1>5 DEF InferBinary
  <2>2. op \in ArithmeticOps => InferBinary(types, op, l, r) = InferArithmetic(l, r)
    BY <1>0, <1>5 DEF InferBinary
  <2>3. op \in ShiftOps => InferBinary(types, op, l, r) = InferShift(l, r)
    BY <1>0, <1>5 DEF InferBinary
  <2>4. op \in BooleanOps => InferBinary(types, op, l, r) = LookupType(types, "bool")
    BY <1>0, <1>5 DEF InferBinary
  <2>5. InferArithmetic(l, r) \in {Nullopt, l, r} /\ InferShift(l, r) \in {Nullopt, l, r}
    BY DEF InferArithmetic, LargerOr, InferShift
  <2> QED
    BY <1>1, <1>2, <1>3, <2>1, <2>2, <2>3, <2>4, <2>5
<1> QED
  BY <1>4, <1>5

\* Arithmetic has the type of one of its operands, and when they fit, of both.
LEMMA EmitArithmeticAnswers ==
  ASSUME IInv, Typed, EmitArithmetic PROVE Unwound \/ Answered
<1> DEFINE found == IF Lhs.val.ty = result.val.ty /\ Lhs.val.ty.kind = "integer"
                    THEN {} ELSE {Misfit}
           inferred == InferBinary(typenames, Top.name, Lhs.type, result.type)
<1>0. Returned("binary") /\ Top.done # <<>> /\ Top.name \in ArithmeticOps \cup ShiftOps
  BY DEF EmitArithmetic, ReturnedRight
<1>1. CASE NullValue \in {Lhs.val, result.val}
  BY <1>1, Unwinding DEF EmitArithmetic
<1>2. CASE NullValue \notin {Lhs.val, result.val}
  <2>1. PICK type \in {Lhs.val.ty, result.val.ty} : EmitBinary(type, BothFolded, found)
    BY <1>2 DEF EmitArithmetic
  <2>2. "comparison" \notin ArithmeticOps \cup ShiftOps
    BY DEF ArithmeticOps, ShiftOps
  <2>3. Undefined \/ result'.type = inferred
    BY <1>0, <2>1, <2>2 DEF EmitBinary, Return, Result
  <2>4. inferred \in {Nullopt, Lhs.type, result.type}
    BY <1>0, Inferred DEF IInv, EnvOK
  <2>5. OperandsFit /\ Fitting(found) =>
          inferred = Nullopt \/ type = LlvmType(inferred)
    <3> SUFFICES ASSUME OperandsFit, Fitting(found), inferred # Nullopt
                 PROVE  type = LlvmType(inferred)
      OBVIOUS
    <3>1. Lhs.val.ty = result.val.ty /\ Agrees(Lhs) /\ Agrees(result)
      BY <1>0, OperandsAgree, MisfitTypes DEF Fitting
    <3> HIDE DEF inferred
    <3> QED
      BY <1>2, <2>1, <2>4, <3>1 DEF Agrees
  <2>6. "badCall" \notin found
    BY MisfitTypes
  <2> HIDE DEF found, inferred
  <2> QED
    BY <1>0, <2>1, <2>3, <2>5, <2>6, OperandsAgree, EmitBinaryAnswers DEF IInv
<1> QED
  BY <1>1, <1>2

\* pow is a float.
LEMMA EmitPowerAnswers ==
  ASSUME IInv, EmitPower PROVE Unwound \/ Answered
<1> DEFINE floats   == Lhs.type = SingleFp /\ result.type = SingleFp
           doubles  == Lhs.type = DoubleFp /\ result.type = DoubleFp
           found    == IF Lhs.val.ty = FloatTy /\ result.val.ty = FloatTy
                       THEN {} ELSE {"badPower"}
           inferred == InferBinary(typenames, "pow", Lhs.type, result.type)
<1>0. frames # <<>> /\ Top.name = "pow" /\ WalkOK
  BY DEF EmitPower, ReturnedRight, Returned, IInv
<1>1. CASE Lhs.type \in {SingleFp, DoubleFp} /\ result.type = Nullopt
  <2>1. result.type \notin {SingleFp, DoubleFp}
    BY <1>1 DEF SingleFp, DoubleFp, Nullopt
  <2>2. Throw
    BY <1>1, <2>1 DEF EmitPower
  <2> QED
    BY <2>2, Unwinding
<1>2. CASE /\ ~(Lhs.type \in {SingleFp, DoubleFp} /\ result.type = Nullopt)
           /\ floats \/ doubles
  <2>1. CASE NullValue \in {Lhs.val, result.val}
    BY <1>2, <2>1, Unwinding DEF EmitPower
  <2>2. CASE NullValue \notin {Lhs.val, result.val}
    <3>1. EmitBinary(FloatTy, FALSE, found)
      <4> HIDE DEF floats, doubles
      <4> QED
        BY <1>2, <2>2 DEF EmitPower, floats, doubles, found
    <3>2. Undefined \/ result'.type = inferred
      BY <1>0, <3>1 DEF EmitBinary, Return, Result
    <3>3. inferred = Nullopt \/ FloatTy = LlvmType(inferred)
      <4>1. inferred \in {Nullopt, SingleFp}
        BY Inferred DEF IInv, EnvOK
      <4> QED
        BY <4>1, LlvmTypeOfScalars
    <3>4. "badCall" \notin found
      OBVIOUS
    <3> HIDE DEF found, inferred
    <3> QED
      BY <1>0, <3>1, <3>2, <3>3, <3>4, EmitBinaryAnswers
  <2> QED
    BY <2>1, <2>2
<1>3. CASE /\ ~(Lhs.type \in {SingleFp, DoubleFp} /\ result.type = Nullopt)
           /\ ~(floats \/ doubles)
  <2>1. /\ Return(NullValue, inferred) /\ frames' = Below
        /\ UNCHANGED <<envVars, irVars, emitVars, outcome>>
    <3> HIDE DEF floats, doubles
    <3> QED
      BY <1>3 DEF EmitPower, floats, doubles
  <2>2. Agrees(result')
    BY <2>1, NothingAgrees DEF Return
  <2> QED
    BY <1>0, <2>1, <2>2, BelowFollows DEF Answered, irVars, DefectsGrow, emitVars
<1> QED
  BY <1>1, <1>2, <1>3

\* `&&` and `||` are truth values.
LEMMA EmitBooleanAnswers ==
  ASSUME IInv, EmitBoolean PROVE Unwound \/ Answered
<1> DEFINE bool     == LookupType(typenames, "bool")
           found    == IF Converted(Lhs, bool).ty = Converted(result, bool).ty
                       THEN {} ELSE {Misfit}
           inferred == InferBinary(typenames, Top.name, Lhs.type, result.type)
<1>0. frames # <<>> /\ Top.name \in BooleanOps /\ WalkOK
  BY DEF EmitBoolean, ReturnedRight, Returned, IInv
<1>1. CASE EmitBinary(IntTy(1), BothFolded, found)
  <2>1. "comparison" \notin BooleanOps
    BY DEF BooleanOps
  <2>2. Undefined \/ result'.type = inferred
    BY <1>0, <1>1, <2>1 DEF EmitBinary, Return, Result
  <2>3. inferred \in {Nullopt, Bool}
    BY <1>0, Inferred DEF IInv, EnvOK
  <2>4. inferred = Nullopt \/ IntTy(1) = LlvmType(inferred)
    BY <2>3, LlvmTypeOfScalars
  <2>5. "badCall" \notin found
    BY MisfitTypes
  <2> HIDE DEF found, inferred
  <2> QED
    BY <1>0, <1>1, <2>2, <2>4, <2>5, EmitBinaryAnswers
<1>2. CASE ~EmitBinary(IntTy(1), BothFolded, found)
  BY <1>2, Unwinding DEF EmitBoolean
<1> QED
  BY <1>1, <1>2

\* So is a comparison.
LEMMA EmitComparisonAnswers ==
  ASSUME IInv, EmitComparison PROVE Unwound \/ Answered
<1> DEFINE found    == IF Lhs.val.ty = result.val.ty THEN {} ELSE {Misfit}
           inferred == InferComparison(typenames, Lhs.type, result.type)
<1>0. frames # <<>> /\ Top.name = "comparison" /\ WalkOK
  BY DEF EmitComparison, ReturnedRight, Returned, IInv
<1>1. CASE EmitBinary(IntTy(1), BothFolded, found)
  <2>1. Undefined \/ result'.type = inferred
    BY <1>0, <1>1 DEF EmitBinary, Return, Result
  <2>2. inferred \in {Nullopt, Bool}
    BY Inferred DEF IInv, EnvOK
  <2>3. inferred = Nullopt \/ IntTy(1) = LlvmType(inferred)
    BY <2>2, LlvmTypeOfScalars
  <2>4. "badCall" \notin found
    BY MisfitTypes
  <2> HIDE DEF found, inferred
  <2> QED
    BY <1>0, <1>1, <2>1, <2>3, <2>4, EmitBinaryAnswers
<1>2. CASE ~EmitBinary(IntTy(1), BothFolded, found)
  BY <1>2, Unwinding DEF EmitComparison
<1> QED
  BY <1>1, <1>2

--------------------------------------------------------------------------------
(* Calls. *)

\* The function called has the LLVM type of its symbol, put_f64 apart.
LEMMA CalledSignature ==
  ASSUME FunctionSymbolsResolve, Running, BuiltinsKept,
         NEW name \in DOMAIN symbols, symbols[name] \in FunctionTypes,
         name \in DOMAIN BuiltinFunction \cup DOMAIN functions
  PROVE  LET called == CalledFunction(name).signature
             type   == symbols[name]
         IN  /\ called.ret = LlvmType(type.rettype)
             /\ name # "put_f64" =>
                  called.params = [i \in DOMAIN type.parameters |->
                                     LlvmType(type.parameters[i])]
<1> DEFINE called == CalledFunction(name).signature
           type   == symbols[name]
<1>1. CASE name \in DOMAIN BuiltinFunction
  <2>1. /\ DOMAIN BuiltinFunction = {"put_i64", "put_u64", "put_f32", "put_f64"}
        /\ DOMAIN BuiltinSymbols = {"put_i64", "put_u64", "put_f32", "put_f64"}
    BY DEF BuiltinFunction, BuiltinSymbols
  <2>2. /\ called = BuiltinFunction[name].signature
        /\ type = BuiltinSymbols[name]
    BY <1>1, <2>1 DEF BuiltinsKept, CalledFunction
  <2>3. /\ BuiltinSymbols["put_i64"] = FunctionSignature(<<SInt(64)>>, Void)
        /\ BuiltinSymbols["put_u64"] = FunctionSignature(<<UInt(64)>>, Void)
        /\ BuiltinSymbols["put_f32"] = FunctionSignature(<<SingleFp>>, Void)
        /\ BuiltinSymbols["put_f64"] = FunctionSignature(<<SingleFp>>, Void)
    BY DEF BuiltinSymbols
  <2>4. /\ BuiltinFunction["put_i64"].signature = FunctionTy(<<IntTy(64)>>, VoidTy)
        /\ BuiltinFunction["put_u64"].signature = FunctionTy(<<IntTy(64)>>, VoidTy)
        /\ BuiltinFunction["put_f32"].signature = FunctionTy(<<FloatTy>>, VoidTy)
        /\ BuiltinFunction["put_f64"].signature = FunctionTy(<<DoubleTy>>, VoidTy)
    BY DEF BuiltinFunction
  <2>5. \A p, r : /\ FunctionSignature(p, r).parameters = p /\ FunctionSignature(p, r).rettype = r
                  /\ FunctionTy(p, r).params = p /\ FunctionTy(p, r).ret = r
    BY DEF FunctionSignature, FunctionTy
  <2>6. \A t : [i \in DOMAIN <<t>> |-> LlvmType(<<t>>[i])] = <<LlvmType(t)>>
    OBVIOUS
  <2>7. /\ LlvmType(SInt(64)) = IntTy(64) /\ LlvmType(UInt(64)) = IntTy(64)
        /\ LlvmType(SingleFp) = FloatTy
    BY LlvmTypeOfScalars DEF SInt, UInt, IsInteger
  <2>8. LlvmType(Void) = VoidTy
    BY DEF LlvmType, ScalarLlvmType, IsFunction, IsInteger, Void
  <2> HIDE DEF called, type
  <2>9. called.ret = VoidTy /\ type.rettype = Void
    BY <1>1, <2>1, <2>2, <2>3, <2>4, <2>5
  <2>10. ASSUME name # "put_f64"
         PROVE  called.params = [i \in DOMAIN type.parameters |-> LlvmType(type.parameters[i])]
    <3>1. PICK t \in {SInt(64), UInt(64), SingleFp} :
            type.parameters = <<t>> /\ called.params = <<LlvmType(t)>>
      BY <1>1, <2>1, <2>2, <2>3, <2>4, <2>5, <2>7, <2>10
    <3>2. [i \in DOMAIN type.parameters |-> LlvmType(type.parameters[i])] = <<LlvmType(t)>>
      BY <2>6, <3>1
    <3> QED
      BY <3>1, <3>2
  <2> QED
    BY <2>8, <2>9, <2>10 DEF called, type
<1>2. CASE name \notin DOMAIN BuiltinFunction
  <2>1. IsFunction(type) /\ type.parameters \in Seq(Scalars) /\ type.rettype \in Scalars
    BY DEF FunctionTypes, IsFunction
  <2>2. called = LlvmType(type)
    BY <1>2, <2>1 DEF FunctionSymbolsResolve, CalledFunction, Running
  <2>3. \A t \in Scalars : ScalarLlvmType(t) = LlvmType(t)
    BY ScalarTags DEF LlvmType
  <2>4. /\ called.params = [i \in DOMAIN type.parameters |-> ScalarLlvmType(type.parameters[i])]
        /\ called.ret = ScalarLlvmType(type.rettype)
    BY <2>1, <2>2 DEF LlvmType, FunctionTy
  <2>5. \A i \in DOMAIN type.parameters : type.parameters[i] \in Scalars
    BY <2>1
  <2> HIDE DEF called, type
  <2> QED
    BY <2>1, <2>3, <2>4, <2>5 DEF called, type
<1> QED
  BY <1>1, <1>2

\* The innermost call, its arguments and its parameters.
LEMMA InnermostCall ==
  ASSUME IInv, Typed, frames # <<>>, Top.kind = "call"
  PROVE  /\ Top.name \in DOMAIN symbols /\ symbols[Top.name] \in FunctionTypes
         /\ Top.done \in Seq(Results) /\ Top.name \in Callees \cup {""} \cup Operators
         /\ \A j \in DOMAIN Top.done :
              Top.done[j].type = symbols[Top.name].parameters[j]
         /\ OperandsFit => \A j \in DOMAIN Top.done : Agrees(Top.done[j])
<1>1. frames \in Seq(Frames)
  BY DEF IInv, WalkOK
<1>2. /\ Len(frames) \in 1..Len(frames) /\ Top = frames[Len(frames)] /\ Top \in Frames
  BY <1>1, InnermostFrame
<1>3. Top.done \in Seq(Results) /\ Top.name \in Callees \cup {""} \cup Operators
  BY <1>2 DEF Frames
<1>4. NodeTyped(Top)
  BY <1>2 DEF Typed, NodesTyped
<1>5. Top.name \in DOMAIN symbols /\ symbols[Top.name] \in FunctionTypes
  BY <1>2 DEF IInv, WalkOK, CallsOpen
<1> QED
  BY <1>3, <1>4, <1>5 DEF NodeTyped

\* A call passes what its callee takes, and gives what its symbol says.
LEMMA CompleteCallAnswers ==
  ASSUME IInv, Typed, FunctionSymbolsResolve, CompleteCall PROVE Unwound \/ Answered
<1> DEFINE nulls  == \E i \in DOMAIN Top.done : Top.done[i].val = NullValue
           called == CalledFunction(Top.name)
           type   == symbols[Top.name]
           passed == [i \in DOMAIN Top.done |-> Top.done[i].val.ty]
           found  == (IF passed = called.signature.params THEN {} ELSE {"badCall"})
                     \cup (IF functions'[called.name] = called.signature
                           THEN {} ELSE {"calleeType"})
<1>0. /\ frames # <<>> /\ Top.kind = "call" /\ Len(Top.done) = Len(type.parameters) /\ WalkOK
      /\ Running
  BY DEF CompleteCall, IInv
<1>1. CASE Top.name \notin DOMAIN BuiltinFunction \cup DOMAIN functions \/ nulls
  BY <1>1, Unwinding DEF CompleteCall
<1>2. CASE Top.name \in DOMAIN BuiltinFunction \cup DOMAIN functions /\ ~nulls
  <2>1. /\ Emit("instruction", FALSE, found)
        /\ Return(Value(called.signature.ret, FALSE), InferCall(symbols, Top.name))
        /\ frames' = Below /\ UNCHANGED <<envVars, scopes>>
    BY <1>2 DEF CompleteCall
  <2>2. Top.name \in DOMAIN symbols /\ type \in FunctionTypes
    BY <1>0, InnermostCall
  <2>3. /\ called.signature.ret = LlvmType(type.rettype)
        /\ Top.name # "put_f64" =>
             called.signature.params = [i \in DOMAIN type.parameters |->
                                          LlvmType(type.parameters[i])]
    BY <1>0, <1>2, <2>2, CalledSignature DEF Typed
  <2>4. Agrees(result')
    <3>1. InferCall(symbols, Top.name) = type.rettype
      BY <2>2 DEF InferCall
    <3> QED
      BY <2>1, <2>3, <3>1, ValueAgrees DEF Return
  <2>5. OperandsFit /\ "put_f64" \notin Callees => "badCall" \notin found
    <3> SUFFICES ASSUME OperandsFit, "put_f64" \notin Callees
                 PROVE  passed = called.signature.params
      OBVIOUS
    <3>1. Top.name # "put_f64"
      <4>1. "put_f64" \notin Operators
        BY CodegenAssumption DEF BinaryOps, ArithmeticOps, ShiftOps, BooleanOps
      <4> QED
        BY <1>0, <4>1, InnermostCall
    <3>2. Top.done \in Seq(Results) /\ type.parameters \in Seq(Scalars)
      BY <1>0, <2>2, InnermostCall DEF FunctionTypes
    <3>3. DOMAIN Top.done = DOMAIN type.parameters
      BY <1>0, <3>2
    <3>4. \A i \in DOMAIN Top.done :
            /\ Top.done[i].type = type.parameters[i] /\ Agrees(Top.done[i])
            /\ Top.done[i].val # NullValue
      BY <1>0, <1>2, InnermostCall
    <3>5. \A i \in DOMAIN type.parameters : type.parameters[i] # Nullopt
      BY <3>2, ScalarTags
    <3>6. \A i \in DOMAIN Top.done : Top.done[i].val.ty = LlvmType(type.parameters[i])
      BY <3>3, <3>4, <3>5 DEF Agrees
    <3> HIDE DEF type
    <3> QED
      BY <2>3, <3>1, <3>3, <3>6
  <2>6. DefectsGrow
    <3> HIDE DEF found
    <3>1. /\ defects \subseteq defects'
          /\ "badCall" \in defects' => "badCall" \in defects \cup found
      BY <2>1, Emitted
    <3>2. OperandsFit' => OperandsFit
      BY <3>1 DEF OperandsFit
    <3> QED
      BY <2>5, <3>1, <3>2 DEF DefectsGrow
  <2> QED
    BY <1>0, <2>1, <2>4, <2>6, BelowFollows DEF Answered
<1> QED
  BY <1>1, <1>2

--------------------------------------------------------------------------------
(* Statements and the module. *)

\* A statement that ends, a branch and the end of a function answer nothing.
LEMMA StatementsAnswer ==
  ASSUME IInv, FinishDiscard \/ FinishReturn \/ JoinElif PROVE Answered
<1>0. frames # <<>> /\ WalkOK
  BY DEF IInv, FinishDiscard, FinishReturn, JoinElif, Returned
<1>1. frames' = Below /\ UNCHANGED <<envVars, scopes>>
  BY DEF FinishDiscard, FinishReturn, JoinElif, irVars
<1>2. result' = NoResult
  BY DEF FinishDiscard, FinishReturn, JoinElif
<1>3. DefectsGrow
  BY DEF FinishDiscard, FinishReturn, JoinElif, Emit, emitVars, DefectsGrow
<1> QED
  BY <1>0, <1>1, <1>2, <1>3, BelowFollows, NothingAgrees DEF Answered

\* So does a branch.
LEMMA BranchOnAnswers ==
  ASSUME IInv, BranchOn PROVE Unwound \/ Answered
<1>1. CASE Undefined
  BY <1>1, Unwinding
<1>2. CASE ~Undefined
  <2>1. /\ frames' = [frames EXCEPT ![Len(frames)].kind = "body"]
        /\ result' = NoResult /\ UNCHANGED <<envVars, scopes>>
    BY <1>2 DEF BranchOn, irVars
  <2>2. DefectsGrow
    BY <1>2 DEF BranchOn, DefectsGrow, ConditionMisfit
  <2>3. NodesFollow
    BY <2>1 DEF NodesFollow, IInv, WalkOK
  <2> QED
    BY <2>1, <2>2, <2>3, NothingAgrees DEF Answered
<1> QED
  BY <1>1, <1>2

\* So does the end of a body, also when an `elif` is entered there.
LEMMA CloseBodyAnswers ==
  ASSUME IInv, CloseBody PROVE Answered
<1> DEFINE elif == Frame("if", "", "")
           rest == [frames EXCEPT ![Len(frames)].kind = "orelse"]
<1>0. /\ frames # <<>> /\ WalkOK /\ Top.kind = "body"
      /\ result' = NoResult /\ UNCHANGED <<envVars, scopes>>
  BY DEF IInv, CloseBody, AtStatement, irVars
<1>1. DefectsGrow
  BY DEF CloseBody, DefectsGrow
<1>2. CASE frames' = Below
  BY <1>0, <1>1, <1>2, BelowFollows, NothingAgrees DEF Answered
<1>3. CASE frames' = Append(rest, elif)
  <2>1. /\ Len(rest) = Len(frames) /\ Len(frames) \in Nat /\ rest \in Seq(Frames)
        /\ \A i \in 1..Len(frames) :
             /\ rest[i].done = frames[i].done /\ rest[i].name = frames[i].name
             /\ rest[i].kind = frames[i].kind \/ rest[i].kind = "orelse"
    <3>1. Top.kind # "let" /\ frames \in Seq(Frames) /\ Len(frames) \in Nat
      BY <1>0 DEF WalkOK
    <3>2. /\ rest \in Seq(Frames) /\ Len(rest) = Len(frames)
          /\ \A i \in 1..Len(frames) :
               rest[i] = frames[i] \/ (i = Len(frames) /\ rest[i].kind = "orelse")
      BY <1>0, <3>1, KindBecomes
    <3>3. \A i \in 1..Len(frames) :
            /\ rest[i].done = frames[i].done /\ rest[i].name = frames[i].name
            /\ rest[i].kind = frames[i].kind \/ rest[i].kind = "orelse"
      BY <3>1
    <3> HIDE DEF rest
    <3> QED
      BY <3>1, <3>2, <3>3
  <2>2. elif.done = <<>>
    BY DEF Frame
  <2> HIDE DEF rest, elif
  <2>3. /\ Len(frames') = Len(frames) + 1
        /\ \A i \in 1..Len(frames) : frames'[i] = rest[i]
        /\ frames'[Len(frames) + 1] = elif
    BY <1>3, <2>1
  <2>4. NodesFollow
    BY <2>1, <2>2, <2>3 DEF NodesFollow
  <2> QED
    BY <1>0, <1>1, <2>4, NothingAgrees DEF Answered
<1> QED
  BY <1>2, <1>3 DEF CloseBody

\* The end of a function or of the module, and a walk that has ended, change no
\* result.
LEMMA ModuleAnswers ==
  ASSUME Typed, CloseFunction \/ VisitStruct \/ EndModule \/ UNCHANGED vars
  PROVE  Answered
<1>1. frames' = frames \/ frames' = <<>>
  BY DEF CloseFunction, VisitStruct, EndModule, vars
<1>2. NodesFollow
  BY <1>1 DEF NodesFollow
<1>3. result' = result /\ UNCHANGED <<envVars, scopes>>
  BY DEF CloseFunction, VisitStruct, EndModule, vars, irVars
<1>4. DefectsGrow
  BY DEF CloseFunction, VisitStruct, EndModule, vars, emitVars, DefectsGrow
<1>5. OperandsFit' => Agrees(result')
  BY <1>3, <1>4 DEF DefectsGrow, OperandsFit, Typed, ResultAgrees
<1> QED
  BY <1>2, <1>3, <1>4, <1>5 DEF Answered

--------------------------------------------------------------------------------
(* Every step keeps the invariant. *)

\* The symbols of this state, and its defects, are still there in the next.
SymbolsStay == SymbolsGrow /\ defects \subseteq defects'

\* A node that has no other parts and no other callee stays typed.
LEMMA NodesKept ==
  ASSUME IInv, NodesTyped, NodesFollow, SymbolsStay PROVE NodesTyped'
<1> SUFFICES ASSUME NEW i \in 1..Len(frames')
             PROVE  /\ OperandsFit' => \A j \in DOMAIN frames'[i].done : Agrees(frames'[i].done[j])
                    /\ frames'[i].kind = "call" =>
                         \A j \in DOMAIN frames'[i].done :
                           frames'[i].done[j].type = symbols'[frames'[i].name].parameters[j]
  BY DEF NodesTyped, NodeTyped
<1>0. OperandsFit' => OperandsFit
  BY DEF SymbolsStay, OperandsFit
<1>1. CASE frames'[i].done = <<>>
  BY <1>1
<1>2. CASE /\ i \in 1..Len(frames) /\ frames'[i].done = frames[i].done
           /\ frames'[i].name = frames[i].name
           /\ frames'[i].kind = "call" => frames[i].kind = "call"
  <2>1. NodeTyped(frames[i])
    BY <1>2 DEF NodesTyped
  <2>2. frames[i].kind = "call" =>
          /\ frames[i].name \in DOMAIN symbols
          /\ symbols'[frames[i].name] = symbols[frames[i].name]
    BY <1>2 DEF IInv, WalkOK, CallsOpen, SymbolsStay, SymbolsGrow
  <2> QED
    BY <1>0, <1>2, <2>1, <2>2 DEF NodeTyped
<1> QED
  BY <1>1, <1>2 DEF NodesFollow

\* What grows keeps the builtin symbols.
LEMMA BuiltinsStay ==
  ASSUME BuiltinsKept, SymbolsGrow PROVE BuiltinsKept'
BY DEF BuiltinsKept, SymbolsGrow

\* A walk that stops keeps the invariant.
LEMMA UnwoundKeeps ==
  ASSUME Typed, Unwound PROVE Typed'
<1>1. /\ UNCHANGED <<symbols, scopes, rebound, defects>>
      /\ frames' = <<>> /\ result' = NoResult
  BY DEF Unwound, envVars, irVars, emitVars
<1>2. NodesTyped' /\ ResultAgrees'
  BY <1>1, NothingAgrees DEF NodesTyped, ResultAgrees
<1> QED
  BY <1>1, <1>2 DEF Typed, BuiltinsKept, StorageAgrees, OperandsFit, CallsWellTyped

\* What a step that binds nothing keeps.
LEMMA TablesKept ==
  ASSUME Typed, DefectsGrow, UNCHANGED <<envVars, scopes>>
  PROVE  BuiltinsKept' /\ StorageAgrees' /\ CallsWellTyped' /\ SymbolsStay
<1>1. UNCHANGED <<symbols, scopes, rebound>> /\ (OperandsFit' => OperandsFit)
      /\ defects \subseteq defects'
  BY DEF envVars, DefectsGrow, OperandsFit
<1>2. BuiltinsKept' /\ StorageAgrees' /\ SymbolsStay
  BY <1>1 DEF Typed, BuiltinsKept, StorageAgrees, SymbolsStay, SymbolsGrow
<1>3. CallsWellTyped'
  BY <1>1 DEF Typed, CallsWellTyped, OperandsFit, DefectsGrow
<1> QED
  BY <1>2, <1>3

\* A step that answers keeps the invariant.
LEMMA AnsweredKeeps ==
  ASSUME IInv, Typed, Answered PROVE Typed'
<1>1. BuiltinsKept' /\ StorageAgrees' /\ CallsWellTyped' /\ SymbolsStay
  BY TablesKept DEF Answered
<1>2. NodesTyped'
  BY <1>1, NodesKept DEF Typed, Answered
<1>3. ResultAgrees'
  BY DEF Answered, ResultAgrees
<1> QED
  BY <1>1, <1>2, <1>3 DEF Typed

\* A node that gets another part keeps the invariant.
LEMMA TopGets ==
  ASSUME IInv, Typed, frames # <<>>, NEW d \in Seq(Results),
         frames' = [frames EXCEPT ![Len(frames)].done = d],
         result' = NoResult, DefectsGrow, UNCHANGED <<envVars, scopes>>,
         OperandsFit' => \A j \in DOMAIN d : Agrees(d[j]),
         Top.kind = "call" =>
           \A j \in DOMAIN d : d[j].type = symbols[Top.name].parameters[j]
  PROVE  Typed'
<1>1. BuiltinsKept' /\ StorageAgrees' /\ CallsWellTyped' /\ SymbolsStay
  BY TablesKept
<1>2. ResultAgrees'
  BY NothingAgrees DEF ResultAgrees
<1>3. /\ frames \in Seq(Frames) /\ Len(frames) \in Nat \ {0} /\ Len(frames') = Len(frames)
      /\ Top = frames[Len(frames)] /\ Top \in Frames
  BY InnermostFrame DEF IInv, WalkOK
<1>4. /\ \A i \in 1..(Len(frames) - 1) : frames'[i] = frames[i]
      /\ frames'[Len(frames)].done = d
      /\ frames'[Len(frames)].name = Top.name /\ frames'[Len(frames)].kind = Top.kind
  <2> DEFINE f == [Top EXCEPT !.done = d]
  <2>1. f.done = d /\ f.name = Top.name /\ f.kind = Top.kind
    BY <1>3 DEF Frames
  <2>2. frames' = [frames EXCEPT ![Len(frames)] = f]
    BY DEF Top
  <2> HIDE DEF f
  <2> QED
    BY <1>3, <2>1, <2>2
<1>5. UNCHANGED symbols /\ (OperandsFit' => OperandsFit)
  BY DEF envVars, DefectsGrow, OperandsFit
<1>6. NodesTyped'
  <2> SUFFICES ASSUME NEW i \in 1..Len(frames)
               PROVE  /\ OperandsFit' => \A j \in DOMAIN frames'[i].done : Agrees(frames'[i].done[j])
                      /\ frames'[i].kind = "call" =>
                           \A j \in DOMAIN frames'[i].done :
                             frames'[i].done[j].type = symbols[frames'[i].name].parameters[j]
    BY <1>3, <1>5 DEF NodesTyped, NodeTyped
  <2>1. CASE i = Len(frames)
    BY <1>4, <2>1
  <2>2. CASE i \in 1..(Len(frames) - 1)
    <3>1. NodeTyped(frames[i]) /\ frames'[i] = frames[i]
      BY <1>3, <1>4, <2>2 DEF Typed, NodesTyped
    <3> QED
      BY <1>5, <3>1 DEF NodeTyped
  <2> QED
    BY <1>3, <2>1, <2>2
<1> QED
  BY <1>1, <1>2, <1>6 DEF Typed

\* Keeping a left operand keeps the invariant.
LEMMA KeepLeftTyped ==
  ASSUME IInv, Typed, KeepLeft PROVE Typed'
<1>0. frames # <<>> /\ Top.kind = "binary" /\ result \in Results
  BY DEF KeepLeft, Returned, IInv, WalkOK
<1>1. CASE result.type = Nullopt /\ Top.name # "comparison"
  BY <1>1, Unwinding, UnwoundKeeps DEF KeepLeft
<1>2. CASE ~(result.type = Nullopt /\ Top.name # "comparison")
  <2>1. /\ frames' = [frames EXCEPT ![Len(frames)].done = <<result>>]
        /\ result' = NoResult /\ UNCHANGED <<envVars, scopes, defects>>
    BY <1>2 DEF KeepLeft, irVars, emitVars
  <2>2. DefectsGrow /\ (OperandsFit' => Agrees(result))
    BY <2>1 DEF DefectsGrow, OperandsFit, Typed, ResultAgrees
  <2>3. <<result>> \in Seq(Results) /\ \A j \in DOMAIN <<result>> : <<result>>[j] = result
    BY <1>0
  <2> QED
    BY <1>0, <2>1, <2>2, <2>3, TopGets
<1> QED
  BY <1>1, <1>2

\* So does the passing of an argument: what is passed is converted.
LEMMA PassArgumentTyped ==
  ASSUME IInv, Typed, PassArgument PROVE Typed'
<1> DEFINE target == symbols[Top.name].parameters[Len(Top.done) + 1]
           passed == Result(Converted(result, target), target)
<1>0. frames # <<>> /\ Top.kind = "call" /\ result # NoResult /\ result \in Results
  BY DEF PassArgument, Returned, IInv, WalkOK
<1>1. CASE result.type = Nullopt \/ Conversion(result, target) # "running"
  BY <1>1, Unwinding, UnwoundKeeps DEF PassArgument
<1>2. CASE result.type # Nullopt /\ Conversion(result, target) = "running"
  <2>1. /\ Emit("instruction", ConversionFolded(result, target), {})
        /\ frames' = [frames EXCEPT ![Len(frames)].done = Append(@, passed)]
        /\ result' = NoResult /\ UNCHANGED <<envVars, scopes>>
    BY <1>2 DEF PassArgument, irVars
  <2>2. DefectsGrow
    <3>1. "badCall" \notin {}
      OBVIOUS
    <3>2. Emit("instruction", ConversionFolded(result, target), {})
      BY <2>1
    <3> HIDE DEF target
    <3> QED
      BY <3>1, <3>2, Emitted DEF DefectsGrow
  <2>3. /\ Top.done \in Seq(Results) /\ target \in Scalars
        /\ OperandsFit => \A j \in DOMAIN Top.done : Agrees(Top.done[j])
        /\ \A j \in DOMAIN Top.done : Top.done[j].type = symbols[Top.name].parameters[j]
    <3>1. Top.done \in Seq(Results) /\ symbols[Top.name] \in FunctionTypes
      BY <1>0, InnermostCall
    <3>2. Len(Top.done) < Len(symbols[Top.name].parameters)
      <4>1. Len(frames) \in 1..Len(frames) /\ Top = frames[Len(frames)]
        BY <1>0, InnermostFrame DEF IInv, WalkOK
      <4> QED
        BY <1>0, <4>1 DEF IInv, WalkOK, CallsOpen
    <3>3. symbols[Top.name].parameters \in Seq(Scalars)
      BY <3>1 DEF FunctionTypes
    <3>4. target \in Scalars
      BY <3>1, <3>2, <3>3
    <3> HIDE DEF target
    <3> QED
      BY <1>0, <3>1, <3>4, InnermostCall
  <2>4. OperandsFit' => OperandsFit
    BY <2>2 DEF DefectsGrow, OperandsFit
  <2>5. passed \in Results /\ passed.type = target
    <3>1. TrySubtype(result.type, target) # NoRule
      BY <1>2 DEF Conversion
    <3> HIDE DEF target
    <3> QED
      BY <1>0, <2>3, <3>1, ConvertedTyped DEF Result
  <2>6. OperandsFit' => Agrees(passed)
    <3>1. OperandsFit' => Agrees(result)
      BY <2>4 DEF Typed, ResultAgrees
    <3> HIDE DEF target
    <3> QED
      BY <1>0, <1>2, <3>1, ConvertedAgrees
  <2> DEFINE d == Append(Top.done, passed)
  <2>7. frames' = [frames EXCEPT ![Len(frames)].done = d]
    BY <1>0, <2>1 DEF Top
  <2>8. /\ d \in Seq(Results) /\ DOMAIN d = 1..(Len(Top.done) + 1)
        /\ d[Len(Top.done) + 1] = passed /\ Len(Top.done) \in Nat
        /\ \A j \in 1..Len(Top.done) : j \in DOMAIN Top.done /\ d[j] = Top.done[j]
    <3> HIDE DEF passed
    <3> QED
      BY <2>3, <2>5
  <2>9. OperandsFit' => \A j \in DOMAIN d : Agrees(d[j])
    <3> HIDE DEF d, passed, target
    <3> QED
      BY <2>3, <2>4, <2>6, <2>8
  <2>10. \A j \in DOMAIN d : d[j].type = symbols[Top.name].parameters[j]
    <3>1. symbols[Top.name].parameters[Len(Top.done) + 1] = passed.type
      BY <2>5
    <3> HIDE DEF d, passed, target
    <3> QED
      BY <2>3, <2>8, <3>1
  <2> HIDE DEF d
  <2> QED
    BY <1>0, <2>1, <2>2, <2>7, <2>8, <2>9, <2>10, TopGets
<1> QED
  BY <1>1, <1>2

\* A binding keeps the invariant: a name that had no symbol is stored with the
\* type its symbol gets.
LEMMA FinishLetTyped ==
  ASSUME IInv, Typed, FinishLet PROVE Typed'
<1> DEFINE target == LookupType(typenames, Top.hint)
           how    == Conversion(result, target)
           value  == Converted(result, target)
<1>0. frames # <<>> /\ WalkOK /\ result \in Results
  BY DEF FinishLet, Returned, IInv, WalkOK
<1>1. CASE \/ target = Nullopt \/ result.type = Nullopt \/ how # "running"
           \/ value = NullValue \/ value.ty = VoidTy
  BY <1>1, Unwinding, UnwoundKeeps DEF FinishLet
<1>2. CASE /\ target # Nullopt /\ result.type # Nullopt /\ how = "running"
           /\ ~(value = NullValue \/ value.ty = VoidTy)
  <2>1. /\ Emit("instruction", FALSE, {})
        /\ scopes' = StackPut(scopes, Top.name, [home |-> fn.home, ty |-> value.ty])
        /\ symbols' = AddNewSymbol(symbols, Top.name, target)
        /\ rebound' = rebound \cup ({Top.name} \cap DOMAIN symbols)
        /\ frames' = Below /\ result' = NoResult
    BY <1>2 DEF FinishLet
  <2>2. DefectsGrow
    <3>1. "badCall" \notin {}
      OBVIOUS
    <3> QED
      BY <2>1, <3>1, Emitted DEF DefectsGrow
  <2>3. OperandsFit' => OperandsFit
    BY <2>2 DEF DefectsGrow, OperandsFit
  <2>4. OperandsFit => value.ty = LlvmType(target)
    <3>1. OperandsFit => Agrees(Result(value, target))
      <4> HIDE DEF target
      <4> QED
        BY <1>0, <1>2, ConvertedAgrees DEF Typed, ResultAgrees
    <3> HIDE DEF target, value
    <3> QED
      BY <1>2, <3>1 DEF Agrees, Result
  <2> HIDE DEF target, value
  <2>5. SymbolsStay
    BY <2>1, <2>2 DEF AddNewSymbol, Emplace, InsertOrAssign, SymbolsStay, SymbolsGrow,
       DefectsGrow
  <2>6. NodesTyped'
    BY <1>0, <2>1, <2>5, BelowFollows, NodesKept DEF Typed
  <2>7. ResultAgrees'
    BY <2>1, NothingAgrees DEF ResultAgrees
  <2>8. BuiltinsKept'
    BY <2>5, BuiltinsStay DEF Typed, SymbolsStay
  <2>9. CallsWellTyped'
    BY <2>2, <2>3 DEF DefectsGrow, OperandsFit, Typed, CallsWellTyped
  <2>10. StorageAgrees'
    <3>1. scopes'[1] = InsertOrAssign(scopes[1], Top.name, [home |-> fn.home, ty |-> value.ty])
      <4>1. scopes = <<scopes[1]>>
        BY DEF IInv, IrOK
      <4> QED
        BY <2>1, <4>1, PutIntoOneScope
    <3> SUFFICES ASSUME OperandsFit', NEW x \in DOMAIN scopes'[1] \ rebound'
                 PROVE  x \in DOMAIN symbols' /\ scopes'[1][x].ty = LlvmType(symbols'[x])
      BY DEF StorageAgrees
    <3>2. CASE x = Top.name
      <4>1. x \notin DOMAIN symbols
        BY <2>1, <3>2
      <4>2. x \in DOMAIN symbols' /\ symbols'[x] = target
        BY <2>1, <3>2, <4>1 DEF AddNewSymbol, Emplace, InsertOrAssign
      <4>3. scopes'[1][x].ty = value.ty
        BY <3>1, <3>2 DEF InsertOrAssign
      <4> QED
        BY <2>3, <2>4, <4>2, <4>3
    <3>3. CASE x # Top.name
      <4>1. x \in DOMAIN scopes[1] \ rebound /\ scopes'[1][x] = scopes[1][x]
        BY <2>1, <3>1, <3>3 DEF InsertOrAssign
      <4>2. x \in DOMAIN symbols /\ scopes[1][x].ty = LlvmType(symbols[x])
        BY <2>3, <4>1 DEF Typed, StorageAgrees
      <4> QED
        BY <2>5, <4>1, <4>2 DEF SymbolsStay, SymbolsGrow
    <3> QED
      BY <3>2, <3>3
  <2> QED
    BY <2>6, <2>7, <2>8, <2>9, <2>10 DEF Typed
<1> QED
  BY <1>1, <1>2

\* A definition keeps it: a function never takes the name of a symbol away.
LEMMA DefineFunctionTyped ==
  ASSUME IInv, Typed, NEW s \in Signatures, DefineFunction(s) PROVE Typed'
<1> DEFINE type == FunctionTypeOf(typenames, s.params, s.ret)
           node == Frame("function", "", "")
<1>1. CASE type = Nullopt
  BY <1>1, Unwinding, UnwoundKeeps DEF DefineFunction
<1>2. CASE type # Nullopt
  <2>1. /\ symbols' = AddNewSymbol(symbols, s.name, type)
        /\ rebound' = rebound \cup ({s.name} \cap DOMAIN symbols)
        /\ frames' \in {<<node>>, <<>>} /\ UNCHANGED <<scopes, defects, result>>
    BY <1>2 DEF DefineFunction, AtModule, irVars
  <2>2. node.done = <<>>
    BY DEF Frame
  <2> HIDE DEF type, node
  <2>3. SymbolsStay
    BY <2>1 DEF AddNewSymbol, Emplace, InsertOrAssign, SymbolsStay, SymbolsGrow
  <2>4. NodesTyped'
    <3>1. NodesFollow
      BY <2>1, <2>2 DEF NodesFollow
    <3> QED
      BY <2>3, <3>1, NodesKept DEF Typed
  <2>5. ResultAgrees' /\ CallsWellTyped'
    BY <2>1 DEF Typed, ResultAgrees, OperandsFit, CallsWellTyped
  <2>6. BuiltinsKept'
    BY <2>3, BuiltinsStay DEF Typed, SymbolsStay
  <2>7. StorageAgrees'
    <3> SUFFICES ASSUME OperandsFit', NEW x \in DOMAIN scopes[1] \ rebound'
                 PROVE  x \in DOMAIN symbols' /\ scopes[1][x].ty = LlvmType(symbols'[x])
      BY <2>1 DEF StorageAgrees
    <3>1. x \in DOMAIN scopes[1] \ rebound
      BY <2>1
    <3>2. x \in DOMAIN symbols /\ scopes[1][x].ty = LlvmType(symbols[x])
      BY <2>1, <3>1 DEF Typed, StorageAgrees, OperandsFit
    <3> QED
      BY <2>3, <3>2 DEF SymbolsStay, SymbolsGrow
  <2> QED
    BY <2>4, <2>5, <2>6, <2>7 DEF Typed
<1> QED
  BY <1>1, <1>2

\* Every step keeps the invariant.
LEMMA StepTyped ==
  ASSUME IInv, FunctionSymbolsResolve, Typed, [Next]_vars PROVE Typed'
<1>0. WalkOK /\ (Unwound \/ Answered => Typed')
  BY UnwoundKeeps, AnsweredKeeps DEF IInv
<1>1. (\E l \in Literals : VisitLiteral(l)) \/ (\E x \in VarNames : VisitVariable(x)) => Typed'
  BY <1>0, VisitLiteralAnswers, VisitVariableAnswers
<1>2. VisitUnary \/ (\E op \in Operators : EnterBinary(op)) => Typed'
  BY <1>0, VisitUnaryAnswers, EnterAnswers
<1>3. KeepLeft \/ CastAs => Typed'
  BY <1>0, KeepLeftTyped, CastAsAnswers
<1>4. EmitArithmetic \/ EmitPower \/ EmitBoolean \/ EmitComparison => Typed'
  BY <1>0, EmitArithmeticAnswers, EmitPowerAnswers, EmitBooleanAnswers, EmitComparisonAnswers
<1>5. (\E callee \in Callees : EnterCall(callee)) \/ PassArgument \/ CompleteCall => Typed'
  BY <1>0, EnterAnswers, PassArgumentTyped, CompleteCallAnswers
<1>6. (\E kind \in Statements : EnterStatement(kind)) \/ FinishLet => Typed'
  BY <1>0, EnterAnswers, FinishLetTyped
<1>7. FinishDiscard \/ FinishReturn \/ BranchOn \/ CloseBody \/ JoinElif => Typed'
  BY <1>0, StatementsAnswer, BranchOnAnswers, CloseBodyAnswers
<1>8. \A s \in Signatures : DefineFunction(s) => Typed'
  BY DefineFunctionTyped
<1>9. CloseFunction \/ VisitStruct \/ EndModule \/ Stopped \/ UNCHANGED vars => Typed'
  BY <1>0, ModuleAnswers DEF Stopped
<1> QED
  BY <1>1, <1>2, <1>3, <1>4, <1>5, <1>6, <1>7, <1>8, <1>9 DEF Next

\* The invariant holds in every reachable state.
LEMMA TypedInvariant == Spec => []((IInv \/ HalfEnded) /\ Typed)
<1>1. Init => Typed
  <2> SUFFICES ASSUME Init PROVE Typed
    OBVIOUS
  <2>1. /\ frames = <<>> /\ result = NoResult /\ symbols = BuiltinSymbols /\ defects = {}
        /\ DOMAIN scopes[1] = {}
    BY DEF Init, EmptyTable
  <2> QED
    BY <2>1, NothingAgrees DEF Typed, NodesTyped, ResultAgrees, BuiltinsKept, StorageAgrees,
       CallsWellTyped
<1>2. IInv /\ FunctionSymbolsResolve /\ Typed /\ [Next]_vars => Typed'
  BY StepTyped
<1>3. HalfEnded /\ Typed /\ [Next]_vars => Typed'
  <2> SUFFICES ASSUME HalfEnded, Typed, [Next]_vars PROVE Typed'
    OBVIOUS
  <2>1. UNCHANGED <<frames, result, symbols, scopes, rebound, defects>>
    BY NothingFollows DEF HalfEnded, vars, envVars, irVars, emitVars
  <2> QED
    BY <2>1 DEF Typed, NodesTyped, NodeTyped, ResultAgrees, BuiltinsKept, StorageAgrees,
       CallsWellTyped, OperandsFit
<1> QED
  BY <1>1, <1>2, <1>3, Invariance, FunctionSymbolsKept, PTL DEF Spec

--------------------------------------------------------------------------------
(* Theorems. *)

\* The value code generation returns for an expression has the LLVM type of the
\* type inference gives that expression, in every program none of whose
\* operations has operands of two types.
THEOREM InferenceIsSound == Spec => []InferenceSound
<1>1. Typed => InferenceSound
  BY DEF Typed, ResultAgrees, OperandsFit, Agrees, InferenceSound
<1> QED
  BY <1>1, TypedInvariant, PTL

\* A name bound once is loaded with the type it was stored with.
THEOREM StorageKeepsSymbol == Spec => []StorageMatchesSymbol
<1>1. (IInv \/ HalfEnded) /\ Typed => StorageMatchesSymbol
  <2> SUFFICES ASSUME IInv \/ HalfEnded, Typed, OperandsFit,
                      NEW x \in VarNames \ rebound, StackGet(scopes, x) # NoStorage
               PROVE  x \in DOMAIN symbols /\ StackGet(scopes, x).ty = LlvmType(symbols[x])
    BY DEF StorageMatchesSymbol
  <2>1. scopes = <<scopes[1]>>
    BY DEF IInv, IrOK, HalfEnded, TypeOK
  <2>2. x \in DOMAIN scopes[1] /\ StackGet(scopes, x) = scopes[1][x]
    BY <2>1, GetFromOneScope
  <2> QED
    BY <2>2 DEF Typed, StorageAgrees
<1> QED
  BY <1>1, TypedInvariant, PTL

\* Every call passes values of the types its function takes, put_f64's apart.
THEOREM CallsAreWellTyped == Spec => []CallsWellTyped
<1>1. Typed => CallsWellTyped
  BY DEF Typed
<1> QED
  BY <1>1, TypedInvariant, PTL
================================================================================
