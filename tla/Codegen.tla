-------------------------------- MODULE Codegen --------------------------------
(***************************************************************************)
(* codegen_visitor of backend/llvm.cpp: one walk over the syntax tree of a *)
(* module that fills the environment, the stack of storage and the LLVM    *)
(* module, and emits the instructions of one function after another.       *)
(*                                                                         *)
(* The tree is not given beforehand: where the walk visits a node, the     *)
(* model chooses one the grammar of frontend/lexy.cpp allows there, so     *)
(* that the behaviours are the compilations of every program within the    *)
(* bounds.  The C++ call stack is `frames`, the value a visit returns (and *)
(* the type inference gives the expression) is `result`.                   *)
(***************************************************************************)
EXTENDS Inference, Builtins, FiniteSets

CONSTANTS
  VarNames,      \* names that `val` binds and expressions read
  Hints,         \* type names in `val x: T` and after `as`
  Literals,      \* integer literals: [signed |-> BOOLEAN, bits |-> 1..64]
  Operators,     \* the binary operations programs use
  Callees,       \* names that calls use
  Signatures,    \* function signatures: [name, params, names, ret]
  Statements,    \* the statements functions are made of
  MaxFunctions,  \* bound on the functions of a program
  MaxDepth       \* bound on the nesting of nodes

ASSUME CodegenAssumption ==
  /\ Operators \subseteq BinaryOps \cup {"as", "comparison"}
  /\ Statements \subseteq {"let", "discard", "return", "if"}
  /\ Literals \subseteq [signed : BOOLEAN, bits : 1..64]
  /\ \A s \in Signatures : s.params \in Seq(STRING)
  /\ MaxFunctions \in Nat /\ MaxDepth \in Nat

VARIABLES
  typenames,     \* environment::m_typename_to_typeptr
  symbols,       \* environment::m_symbol_to_ts
  scopes,        \* stack::lookup: the storage of names
  functions,     \* the LLVM module's functions by name: their LLVM types
  fn,            \* the function being emitted
  last,          \* the last instruction of the block at the insertion point
  frames,        \* the nodes being visited, the innermost one last
  result,        \* what the visit that just returned gave
  reports,       \* the causes of calls of metadata.report_error
  defects,       \* what makes the LLVM module emitted so far a broken one
  outcome,       \* "running", or how compile() ended
  locals,        \* (history) names the current function has bound with `val`
  rebound        \* (history) names bound when they already had a symbol

envVars  == <<typenames, symbols, rebound>>
irVars   == <<scopes, functions, fn, locals>>
emitVars == <<last, defects>>
vars == <<envVars, irVars, emitVars, frames, result, reports, outcome>>

(********************************** States *********************************)

NoFunction == [home |-> 0, ret |-> VoidTy, params |-> {}]

NoResult == [val |-> NullValue, type |-> [tag |-> "none"]]
Result(val, type) == [val |-> val, type |-> type]

Frame(kind, name, hint) == [kind |-> kind, name |-> name, hint |-> hint, done |-> <<>>]
ExprFrames == {"binary", "call", "let", "discard", "return", "if"}
BodyFrames == {"function", "body"}

Top == frames[Len(frames)]
Below == SubSeq(frames, 1, Len(frames) - 1)

Running == outcome = "running"

\* The walk is about to visit an expression, or a statement of a body
AtExpression ==
  /\ Running /\ result = NoResult /\ frames # <<>> /\ Top.kind \in ExprFrames
  /\ Top.kind = "call" => Len(Top.done) < Len(symbols[Top.name].parameters)
AtStatement ==
  Running /\ result = NoResult /\ frames # <<>> /\ Top.kind \in BodyFrames

\* The visit of an operand of the innermost node has just returned
Returned(kind) ==
  Running /\ result # NoResult /\ frames # <<>> /\ Top.kind = kind

Room == Len(frames) < MaxDepth

(*********************************** Steps *********************************)

\* How a visit goes on: into a node, or back to the node it came from
Visit(frame) == frames' = Append(frames, frame) /\ result' = NoResult
Return(val, type) == result' = Result(val, type)

\* (mutant) an exception is swallowed, and the module compiled so far used
StopQuietly(how, causes) ==
  /\ outcome' = "done" /\ reports' = reports \cup causes
  /\ frames' = <<>> /\ result' = NoResult
  /\ UNCHANGED <<envVars, irVars, emitVars>>

\* The walk ends before the tree does: an exception unwinds the stack and leaves
\* compile() ("threw"), or the behaviour of the program is undefined
\* ("undefined", a violated precondition of LLVM's included)
Stop(how, causes) ==
  /\ outcome' = how /\ reports' = reports \cup causes
  /\ frames' = <<>> /\ result' = NoResult
  /\ UNCHANGED <<envVars, irVars, emitVars>>
Throw     == Stop("threw", {})
Undefined == Stop("undefined", {})

\* Append an instruction to the block at the insertion point, unless IRBuilder
\* folded it; nothing may follow a terminator
Emit(instruction, folded, found) ==
  /\ last' = IF folded THEN last ELSE instruction
  /\ defects' = defects \cup found
                \cup (IF ~folded /\ last \in {"ret", "br"}
                      THEN {"afterTerminator"} ELSE {})

(******************************** Expressions ******************************)

VisitLiteral(l) ==
  /\ AtExpression
  /\ LET type == InferLiteral(typenames, l.signed, l.bits)
     IN  Return(Value(LlvmType(type), TRUE), type)
  /\ UNCHANGED <<envVars, irVars, emitVars, frames, reports, outcome>>

\* A name without storage or symbol is reported, and then read all the same:
\* an empty optional symbol throws, an empty optional storage does not.  The
\* alignment of a function type, and so its load, is undefined.
VisitVariable(x) ==
  /\ AtExpression
  /\ LET storage == StackGet(scopes, x)
         type    == LookupSymbol(symbols, x)
         causes  == (IF storage = NoStorage THEN {"storage"} ELSE {})
                    \cup (IF type = Nullopt THEN {"symbol"} ELSE {})
     IN  CASE type = Nullopt -> Stop("threw", causes)
           [] type # Nullopt /\ (storage = NoStorage \/ IsFunction(type)) ->
                Stop("undefined", causes)
           [] OTHER ->
                /\ Emit("instruction", FALSE,
                        IF storage.home = fn.home THEN {} ELSE {"foreignValue"})
                /\ Return(Value(LlvmType(type), FALSE), type)
                /\ UNCHANGED <<envVars, irVars, frames, reports, outcome>>

\* Types that inference may give an operand that is not visited: a literal, a
\* variable or a call (operations on them give no others that matter here; a
\* call of a symbol that is no function ends as it does in EnterCall)
OperandTypes ==
  {InferLiteral(typenames, l.signed, l.bits) : l \in Literals}
  \cup {LookupSymbol(symbols, x) : x \in VarNames}
  \cup {InferCall(symbols, f) :
          f \in {g \in Callees : g \in DOMAIN symbols => IsFunction(symbols[g])}}

\* visit_node: reported, no value; inference gives it its operand's type
VisitUnary ==
  /\ AtExpression
  /\ \E type \in OperandTypes : Return(NullValue, type)
  /\ reports' = reports \cup {"node"}
  /\ UNCHANGED <<envVars, irVars, emitVars, frames, outcome>>

EnterBinary(op) ==
  /\ AtExpression /\ Room
  /\ \E hint \in IF op = "as" THEN Hints \cup {""} ELSE {""} :
        Visit(Frame("binary", op, hint))
  /\ UNCHANGED <<envVars, irVars, emitVars, reports, outcome>>

\* The left operand is visited; `as` has no other.  Only comparison visits its
\* right operand before it asks for the type of the left one.
KeepLeft ==
  /\ Returned("binary") /\ Top.done = <<>> /\ Top.name # "as"
  /\ IF result.type = Nullopt /\ Top.name # "comparison"
     THEN Throw
     ELSE /\ frames' = [frames EXCEPT ![Len(frames)].done = <<result>>]
          /\ result' = NoResult
          /\ UNCHANGED <<envVars, irVars, emitVars, reports, outcome>>

\* this->subtype(): "running" when r converts to `target`, or how the walk ends
Conversion(r, target) ==
  CASE TrySubtype(r.type, target) = NoRule -> "threw"
    [] TrySubtype(r.type, target) \notin {NoRule, "identity"} /\ r.val = NullValue ->
         "undefined"
    [] OTHER -> "running"
\* (mutant) what the converter returns is not used
Unconverted(r, target) == r.val
Converted(r, target) == Convert(TrySubtype(r.type, target), r.val, LlvmType(target))
ConversionFolded(r, target) == TrySubtype(r.type, target) = "identity" \/ r.val.const
StopConversion(how) == Stop(how, IF how = "threw" THEN {"conversion"} ELSE {})

CastAs ==
  /\ Returned("binary") /\ Top.name = "as"
  /\ LET target == IF Top.hint = "" THEN Nullopt ELSE LookupType(typenames, Top.hint)
     IN  IF result.type = Nullopt \/ target = Nullopt
         THEN Throw
         ELSE IF Conversion(result, target) # "running"
         THEN StopConversion(Conversion(result, target))
         ELSE /\ Emit("instruction", ConversionFolded(result, target), {})
              /\ Return(Converted(result, target), target)
              /\ frames' = Below
              /\ UNCHANGED <<envVars, irVars, reports, outcome>>

\* The right operand of `ops` is visited
ReturnedRight(ops) == Returned("binary") /\ Top.done # <<>> /\ Top.name \in ops
Lhs == Top.done[1]
BothFolded == Lhs.val.const /\ result.val.const

\* Operands that do not fit the instruction.  Where both are constants, none is
\* emitted: an LLVM with assertions ends the process, one without them makes a
\* constant of the two, which its verifier never sees.
Misfit == IF BothFolded THEN "constantTypes" ELSE "operandTypes"

\* An instruction of type `type` on both operands ends the visit
EmitBinary(type, folded, found) ==
  \/ "constantTypes" \in found /\ Undefined
  \/ /\ Emit("instruction", folded, found)
     /\ Return(Value(type, folded),
               IF Top.name = "comparison"
               THEN InferComparison(typenames, Lhs.type, result.type)
               ELSE InferBinary(typenames, Top.name, Lhs.type, result.type))
     /\ frames' = Below
     /\ UNCHANGED <<envVars, irVars, reports, outcome>>

\* CreateMul, CreateSDiv, CreateAShr, ...: no operand is promoted, and the
\* instruction has the type of the left one; a constant made of two, that of either
EmitArithmetic ==
  /\ ReturnedRight(ArithmeticOps \cup ShiftOps)
  /\ IF NullValue \in {Lhs.val, result.val}
     THEN Undefined
     ELSE \E type \in {Lhs.val.ty} \cup IF BothFolded THEN {result.val.ty} ELSE {} :
            EmitBinary(type, BothFolded,
                       IF Lhs.val.ty = result.val.ty /\ Lhs.val.ty.kind = "integer"
                       THEN {} ELSE {Misfit})

\* llvm.pow.f32 takes and gives floats; so does the prototype of llvm.pow.f64.
\* Other operands are reported, and have no value.
EmitPower ==
  /\ ReturnedRight({"pow"})
  /\ LET floats  == Lhs.type = SingleFp /\ result.type = SingleFp
         doubles == Lhs.type = DoubleFp /\ result.type = DoubleFp
     IN  CASE Lhs.type \in {SingleFp, DoubleFp} /\ result.type = Nullopt -> Throw
           [] (floats \/ doubles) /\ NullValue \in {Lhs.val, result.val} -> Undefined
           [] (floats \/ doubles) /\ NullValue \notin {Lhs.val, result.val} ->
                EmitBinary(FloatTy, FALSE,
                           IF Lhs.val.ty = FloatTy /\ result.val.ty = FloatTy
                           THEN {} ELSE {"badPower"})
           [] OTHER ->
                /\ Return(NullValue, InferBinary(typenames, "pow", Lhs.type, result.type))
                /\ reports' = reports \cup {"pow"}
                /\ frames' = Below
                /\ UNCHANGED <<envVars, irVars, emitVars, outcome>>

\* Both operands are converted to bool, and then selected from
EmitBoolean ==
  /\ ReturnedRight(BooleanOps)
  /\ LET bool == LookupType(typenames, "bool")
     IN  CASE Conversion(Lhs, bool) # "running" -> StopConversion(Conversion(Lhs, bool))
           [] Conversion(Lhs, bool) = "running" /\ result.type = Nullopt -> Throw
           [] OTHER ->
                IF Conversion(result, bool) # "running"
                THEN StopConversion(Conversion(result, bool))
                ELSE IF NullValue \in {Lhs.val, result.val}
                THEN Undefined
                ELSE EmitBinary(IntTy(1), BothFolded,
                                IF Converted(Lhs, bool).ty = Converted(result, bool).ty
                                THEN {} ELSE {Misfit})

\* Operands of one tag are compared; their widths are not looked at
EmitComparison ==
  /\ ReturnedRight({"comparison"})
  /\ CASE Nullopt \in {Lhs.type, result.type} -> Throw
       [] Nullopt \notin {Lhs.type, result.type}
          /\ ~(Lhs.type.tag = result.type.tag
               /\ Lhs.type.tag \in {"sint", "uint", "single_fp", "double_fp"}) -> Throw
       [] OTHER ->
            IF NullValue \in {Lhs.val, result.val}
            THEN Undefined
            ELSE EmitBinary(IntTy(1), BothFolded,
                            IF Lhs.val.ty = result.val.ty THEN {} ELSE {Misfit})

(*********************************** Calls *********************************)

\* Before any argument is visited, the callee's type is inferred (a symbol that
\* is no function is a null pointer there) and the arguments are counted
EnterCall(callee) ==
  /\ AtExpression /\ Room
  /\ CASE callee \notin DOMAIN symbols -> Throw
       [] callee \in DOMAIN symbols /\ ~IsFunction(symbols[callee]) -> Undefined
       [] OTHER -> \/ Throw  \* a wrong number of arguments
                   \/ /\ Visit(Frame("call", callee, ""))
                      /\ UNCHANGED <<envVars, irVars, emitVars, reports, outcome>>

PassArgument ==
  /\ Returned("call")
  /\ LET target == symbols[Top.name].parameters[Len(Top.done) + 1]
     IN  IF result.type = Nullopt
         THEN Throw
         ELSE IF Conversion(result, target) # "running"
         THEN StopConversion(Conversion(result, target))
         ELSE /\ Emit("instruction", ConversionFolded(result, target), {})
              /\ frames' = [frames EXCEPT ![Len(frames)].done =
                              Append(@, Result(Converted(result, target), target))]
              /\ result' = NoResult
              /\ UNCHANGED <<envVars, irVars, reports, outcome>>

\* (mutant) the module's functions hide the builtin ones
CalledModuleFirst(name) ==
  IF name \in DOMAIN functions
  THEN [name |-> name, signature |-> functions[name]]
  ELSE BuiltinFunction[name]

\* The function called: a builtin's, or the module's function of that name
CalledFunction(name) ==
  IF name \in DOMAIN BuiltinFunction
  THEN BuiltinFunction[name]
  ELSE [name |-> name, signature |-> functions[name]]

\* getOrInsertFunction takes what the module has under the name, whatever its
\* type is; the call instruction has the type asked for
CompleteCall ==
  /\ Running /\ result = NoResult /\ frames # <<>> /\ Top.kind = "call"
  /\ Len(Top.done) = Len(symbols[Top.name].parameters)
  /\ IF Top.name \notin DOMAIN BuiltinFunction \cup DOMAIN functions THEN Throw
     ELSE IF \E i \in DOMAIN Top.done : Top.done[i].val = NullValue THEN Undefined
     ELSE LET called == CalledFunction(Top.name)
              passed == [i \in DOMAIN Top.done |-> Top.done[i].val.ty]
          IN  /\ functions' = Emplace(functions, called.name, called.signature)
              /\ Emit("instruction", FALSE,
                      (IF passed = called.signature.params THEN {} ELSE {"badCall"})
                      \cup (IF functions'[called.name] = called.signature
                            THEN {} ELSE {"calleeType"}))
              /\ Return(Value(called.signature.ret, FALSE), InferCall(symbols, Top.name))
              /\ frames' = Below
              /\ UNCHANGED <<envVars, scopes, fn, locals, reports, outcome>>

(******************************** Statements *******************************)

EnterStatement(kind) ==
  /\ AtStatement /\ Room /\ kind \in Statements
  /\ IF kind = "let"
     THEN \E x \in VarNames, hint \in Hints : Visit(Frame("let", x, hint))
     ELSE Visit(Frame(kind, "", ""))
  /\ UNCHANGED <<envVars, irVars, emitVars, reports, outcome>>

\* The first symbol of a name stays (emplace), the last storage counts
\* (insert_or_assign).  A type that was not inferred is reported, and then the
\* empty optional is dereferenced; nothing of void or of no type can be stored.
FinishLet ==
  /\ Returned("let")
  /\ LET target == LookupType(typenames, Top.hint)
         causes == IF result.type = Nullopt THEN {"inference"} ELSE {}
     IN  IF target = Nullopt THEN Stop("threw", causes)
         ELSE IF result.type = Nullopt THEN Stop("undefined", causes)
         ELSE IF Conversion(result, target) # "running"
         THEN StopConversion(Conversion(result, target))
         ELSE IF Converted(result, target) = NullValue \/ Converted(result, target).ty = VoidTy
         THEN Undefined
         ELSE /\ Emit("instruction", FALSE, {})
              /\ scopes' = StackPut(scopes, Top.name,
                                    [home |-> fn.home, ty |-> Converted(result, target).ty])
              /\ symbols' = AddNewSymbol(symbols, Top.name, target)
              /\ rebound' = rebound \cup ({Top.name} \cap DOMAIN symbols)
              /\ locals' = locals \cup {Top.name}
              /\ frames' = Below /\ result' = NoResult
              /\ UNCHANGED <<typenames, functions, fn, reports, outcome>>

FinishDiscard ==
  /\ Returned("discard")
  /\ frames' = Below /\ result' = NoResult
  /\ UNCHANGED <<envVars, irVars, emitVars, reports, outcome>>

\* No conversion to the declared type; a null value makes it `ret void`
FinishReturn ==
  /\ Returned("return")
  /\ Emit("ret", FALSE,
          IF \/ fn.ret = VoidTy /\ result.val = NullValue
             \/ fn.ret # VoidTy /\ result.val # NullValue /\ result.val.ty = fn.ret
          THEN {} ELSE {"badReturn"})
  /\ frames' = Below /\ result' = NoResult
  /\ UNCHANGED <<envVars, irVars, reports, outcome>>

\* What is wrong with the comparison of a condition with an i1 zero
ConditionMisfit ==
  IF result.val.ty = IntTy(1) THEN {}
  ELSE IF result.val.const THEN {"constantTypes"} ELSE {"operandTypes"}

\* The condition is compared with zero, and the branch goes to "iftrue", where
\* emission goes on, or to "otherwise", a block no function ever gets
BranchOn ==
  /\ Returned("if")
  /\ \/ (result.val = NullValue \/ "constantTypes" \in ConditionMisfit) /\ Undefined
     \/ /\ result.val # NullValue
        /\ last' = "empty"
        /\ defects' = defects \cup {"danglingBlock"} \cup ConditionMisfit
                      \cup (IF last \in {"ret", "br"} THEN {"afterTerminator"} ELSE {})
        /\ frames' = [frames EXCEPT ![Len(frames)].kind = "body"]
        /\ result' = NoResult
        /\ UNCHANGED <<envVars, irVars, reports, outcome>>

\* (mutant) the insertion point is not set to "merge"
BehindBranch == "br"
\* "merge" is inserted into the function, and emission goes on in it
InMerge == "empty"

\* The body branches to "merge" whatever it ended with.  Without another branch,
\* emission goes on in "merge"; an `else` (visit_node) is reported and dropped;
\* an `elif` is visited while the insertion point is still behind that branch.
CloseBody ==
  /\ AtStatement /\ Top.kind = "body"
  /\ defects' = defects \cup (IF last \in {"ret", "br"} THEN {"afterTerminator"} ELSE {})
  /\ \/ /\ last' = InMerge /\ frames' = Below
        /\ \E orelse \in {{}, {"node"}} : reports' = reports \cup orelse
     \/ /\ last' = "br" /\ Room
        /\ frames' = Append([frames EXCEPT ![Len(frames)].kind = "orelse"],
                            Frame("if", "", ""))
        /\ UNCHANGED reports
  /\ UNCHANGED <<envVars, irVars, result, outcome>>

\* The `elif` left the insertion point in its own "merge", which nothing ends
JoinElif ==
  /\ Running /\ result = NoResult /\ frames # <<>> /\ Top.kind = "orelse"
  /\ defects' = defects \cup (IF last \in {"ret", "br"} THEN {} ELSE {"noTerminator"})
  /\ last' = InMerge /\ frames' = Below
  /\ UNCHANGED <<envVars, irVars, result, reports, outcome>>

(************************* Functions and the module ************************)

AtModule == Running /\ frames = <<>>

\* The name gets its meaning first.  A type LLVM has none for ends the walk with
\* that done and the function missing.  llvm::Function::Create renames the second
\* function of a name, so the module keeps the first one under it.  Nothing binds
\* the names of the parameters.
DefineFunction(s) ==
  /\ AtModule /\ fn.home < MaxFunctions
  /\ LET type == FunctionTypeOf(typenames, s.params, s.ret)
     IN  \/ type = Nullopt /\ Throw
         \/ /\ type # Nullopt
            /\ typenames' = AddNewNamedType(typenames, s.name, type)
            /\ symbols' = AddNewSymbol(symbols, s.name, type)
            /\ rebound' = rebound \cup ({s.name} \cap DOMAIN symbols)
            /\ IF IllFormed(type)
               THEN outcome' = "undefined" /\ UNCHANGED <<irVars, last, frames>>
               ELSE /\ functions' = Emplace(functions, s.name, LlvmType(type))
                    /\ fn' = [home |-> fn.home + 1, ret |-> LlvmType(type).ret,
                              params |-> s.names]
                    /\ locals' = {} /\ last' = "empty"
                    /\ frames' = <<Frame("function", "", "")>>
                    /\ UNCHANGED <<scopes, outcome>>
            /\ UNCHANGED <<defects, result, reports>>

\* "Support implicit return", if the last block has an instruction that is none
ImplicitReturn == fn.ret = VoidTy /\ last \notin {"empty", "ret"}

CloseFunction ==
  /\ AtStatement /\ Top.kind = "function"
  /\ last' = IF ImplicitReturn THEN "ret" ELSE last
  /\ defects' = defects
       \cup (IF ImplicitReturn /\ last = "br" THEN {"afterTerminator"} ELSE {})
       \cup (IF ImplicitReturn \/ last \in {"ret", "br"} THEN {} ELSE {"noTerminator"})
  /\ frames' = <<>>
  /\ UNCHANGED <<envVars, irVars, result, reports, outcome>>

\* `struct`: visit_node
VisitStruct ==
  /\ AtModule
  /\ reports' = reports \cup {"node"}
  /\ UNCHANGED <<envVars, irVars, emitVars, frames, result, outcome>>

EndModule ==
  /\ AtModule
  /\ outcome' = "done"
  /\ UNCHANGED <<envVars, irVars, emitVars, frames, result, reports>>

Stopped == ~Running /\ UNCHANGED vars

Init ==
  /\ typenames = BuiltinTypes /\ symbols = BuiltinSymbols
  /\ scopes = <<EmptyTable>> /\ functions = EmptyTable
  /\ fn = NoFunction /\ last = "empty"
  /\ frames = <<>> /\ result = NoResult
  /\ reports = {} /\ defects = {} /\ outcome = "running"
  /\ locals = {} /\ rebound = {}

Next ==
  \/ \E l \in Literals : VisitLiteral(l)
  \/ \E x \in VarNames : VisitVariable(x)
  \/ VisitUnary
  \/ \E op \in Operators : EnterBinary(op)
  \/ KeepLeft \/ CastAs
  \/ EmitArithmetic \/ EmitPower \/ EmitBoolean \/ EmitComparison
  \/ \E callee \in Callees : EnterCall(callee)
  \/ PassArgument \/ CompleteCall
  \/ \E kind \in Statements : EnterStatement(kind)
  \/ FinishLet \/ FinishDiscard \/ FinishReturn
  \/ BranchOn \/ CloseBody \/ JoinElif
  \/ \E s \in Signatures : DefineFunction(s)
  \/ CloseFunction \/ VisitStruct \/ EndModule
  \/ Stopped

Spec == Init /\ [][Next]_vars
--------------------------------------------------------------------------------
Scalars       == ScalarTypes({8, 16, 32, 64})
FunctionTypes == [tag : {"function"}, parameters : Seq(Scalars), rettype : Scalars]
LlvmScalars   == {VoidTy, FloatTy, DoubleTy} \cup {IntTy(n) : n \in {1, 8, 16, 32, 64}}
Values        == {NullValue} \cup [ty : LlvmScalars, const : BOOLEAN]
Results       == [val : Values, type : Scalars \cup {Nullopt}]
                 \cup [val : {NullValue}, type : FunctionTypes]
Frames        == [kind : {"let"}, name : VarNames, hint : Hints, done : Seq(Results)]
                 \cup [kind : (ExprFrames \ {"let"}) \cup BodyFrames \cup {"orelse"},
                       name : Operators \cup Callees \cup {""},
                       hint : Hints \cup {""}, done : Seq(Results)]

\* A type that ended the walk, with the name it was given
HalfDefined(t) == outcome = "undefined" /\ IsFunction(t) /\ IllFormed(t)

\* Types, storage and results are what their users take them for: what is
\* stored and passed is a scalar, and nothing of a function type has a value.
TypeOK ==
  /\ \A n \in DOMAIN typenames :
        typenames[n] \in Scalars \cup FunctionTypes \/ HalfDefined(typenames[n])
  /\ \A x \in DOMAIN symbols :
        symbols[x] \in Scalars \cup FunctionTypes \/ HalfDefined(symbols[x])
  /\ scopes = <<scopes[1]>>
  /\ \A x \in DOMAIN scopes[1] :
        scopes[1][x].home \in 1..fn.home /\ scopes[1][x].ty \in LlvmScalars
  /\ \A f \in DOMAIN functions :
        functions[f] \in [kind : {"function"}, params : Seq(LlvmScalars), ret : LlvmScalars]
  /\ fn.home \in 0..MaxFunctions /\ fn.ret \in LlvmScalars
  /\ last \in {"empty", "instruction", "ret", "br"}
  /\ frames \in Seq(Frames)
  /\ result \in Results \cup {NoResult}
  /\ reports \subseteq {"storage", "symbol", "inference", "conversion", "pow", "node"}
  /\ defects \subseteq {"operandTypes", "constantTypes", "badCall", "badPower", "calleeType", "badReturn",
                        "foreignValue", "afterTerminator", "noTerminator", "danglingBlock"}
  /\ outcome \in {"running", "done", "threw", "undefined"}
  /\ locals \subseteq VarNames

\* No operation has met operands of two types so far
OperandsFit == "operandTypes" \notin defects /\ "constantTypes" \notin defects

\* The value codegen returns for an expression has the LLVM type of the type
\* inference gives that expression: the two walks over the tree agree, as long
\* as no operation met operands of two types.
InferenceSound ==
  OperandsFit /\ result # NoResult /\ result.val # NullValue
  /\ result.type # Nullopt
    => result.val.ty = LlvmType(result.type)

\* A name bound once is loaded with the type it was stored with: the symbol
\* (first binding) and the storage (last binding) agree.
StorageMatchesSymbol ==
  OperandsFit =>
    \A x \in VarNames \ rebound :
      LET storage == StackGet(scopes, x)
      IN  storage # NoStorage =>
            x \in DOMAIN symbols /\ storage.ty = LlvmType(symbols[x])

\* What the current function has bound with `val` is in its own frame: a read
\* of it never reaches into another function's storage.
OwnStorage == \A x \in locals : StackGet(scopes, x).home = fn.home

\* A symbol that is no function has storage, so a variable whose type is found
\* can be loaded.
SymbolsHaveStorage ==
  \A x \in DOMAIN symbols :
    ~IsFunction(symbols[x]) => StackGet(scopes, x) # NoStorage

\* A call that passed its checks finds its callee: every symbol of a function
\* type that is no builtin is a function of the module, of that very type, unless
\* the walk ended on that type.
FunctionSymbolsResolve ==
  outcome # "undefined" => \A f \in DOMAIN symbols \ DOMAIN BuiltinFunction :
    IsFunction(symbols[f]) =>
      f \in DOMAIN functions /\ functions[f] = LlvmType(symbols[f])

\* The names of the builtin types mean what they meant at the start, whatever
\* functions the program defines (their names become type names).
BuiltinNamesStable ==
  \A n \in DOMAIN BuiltinTypes :
    n \in DOMAIN typenames /\ typenames[n] = BuiltinTypes[n]

\* The environment, the stack and the LLVM module, filled by three different
\* visits, keep what NameTables promises: no order of bindings, definitions and
\* calls, and no failure halfway, lets two of them drift apart.
Names == INSTANCE NameTables WITH
  VariableTypes <- Scalars, FunctionTypes <- FunctionTypes,
  types <- typenames, meaning <- symbols,
  owner <- [x \in DOMAIN scopes[1] |-> scopes[1][x].home],
  module <- functions, current <- fn.home, ended <- ~Running
ImplementsNameTables == Names!Spec

\* A compilation that comes to its end has reported no failed lookup, inference
\* or conversion: those errors stop it, though report_error does not throw.
FailedLookupsStop == outcome = "done" => reports \subseteq {"pow", "node"}

\* In a program that does not call put_f64 (whose symbol takes an f32 and whose
\* function takes a double), the arguments of every call have the types of the
\* parameters, as long as no operation met operands of two types.
CallsWellTyped ==
  OperandsFit /\ "put_f64" \notin Callees => "badCall" \notin defects

\* Emission stands behind a branch only while an `elif` is visited: at the end
\* of a function the last block ends with a return or is still open.
BranchOnlyBeforeElif ==
  Running /\ last = "br" => \E i \in DOMAIN frames : frames[i].kind = "orelse"
--------------------------------------------------------------------------------
(***************************************************************************)
(* What comments, tests and examples of the repository say of the program, *)
(* and the program does not do.                                            *)
(***************************************************************************)

\* "Support implicit return" (the comment in function_def): a void function
\* ends with a return.
VoidFunctionsReturn ==
  Running /\ frames = <<>> /\ fn.home > 0 /\ fn.ret = VoidTy => last = "ret"

\* "same signage => ... all promote to the larger operand" (the test of
\* inference): an instruction has the type that inference gives it, where every
\* name is bound once.
OperandsPromoted ==
  rebound = {} =>
    result = NoResult \/ result.type = Nullopt \/ result.val.const
      \/ result.val.ty = LlvmType(result.type)

\* A function may read its parameters (examples/fib.by): where nothing else is
\* read, no variable is without storage.
ParametersReadable == VarNames \subseteq fn.params => "storage" \notin reports

\* A conditional can be compiled (examples/fib.by): its branch goes to blocks of
\* the function.
BranchTargetsInserted == "danglingBlock" \notin defects

\* A builtin is called with the type its function has (the comments on the
\* table of builtins).
CalleesHaveOneType == "calleeType" \notin defects
================================================================================
