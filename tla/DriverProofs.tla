------------------------------ MODULE DriverProofs ------------------------------
(***************************************************************************)
(* Proofs about a run of bython-jit, for every program: compiling is what  *)
(* Codegen says, and an exit with 0 comes only behind all that the driver  *)
(* and LLVM look at, unless the options asked for no run.                  *)
(***************************************************************************)
EXTENDS Driver, CodegenSafetyProofs

\* Nothing of the driver but Compile touches what code generation has.
LEMMA DriverSteps ==
  ASSUME [DriverNext]_allVars
  PROVE  \/ stage = "compile" /\ Running /\ Next /\ UNCHANGED driverVars
         \/ UNCHANGED vars
<1>1. ASSUME NEW next, GoOn(next) PROVE UNCHANGED vars
  BY <1>1 DEF GoOn
<1>2. ASSUME NEW how, Exit(how) PROVE UNCHANGED vars
  BY <1>2 DEF Exit
<1>3. CASE Compile
  BY <1>3 DEF Compile
<1>4. CASE ParseOptions
  BY <1>4, <1>1, <1>2 DEF ParseOptions
<1>5. CASE OpenFile
  BY <1>5, <1>1, <1>2 DEF OpenFile
<1>6. CASE ParseFile
  BY <1>6, <1>1, <1>2 DEF ParseFile
<1>7. CASE LeaveCompile
  BY <1>7, <1>1, <1>2 DEF LeaveCompile
<1>8. CASE CreateEngine
  BY <1>8, <1>1, <1>2 DEF CreateEngine
<1>9. CASE MapBuiltin
  BY <1>9, <1>1, <1>2 DEF MapBuiltin
<1>10. CASE Finalize
  BY <1>10, <1>1, <1>2 DEF Finalize
<1>11. CASE FindMain
  BY <1>11, <1>1, <1>2 DEF FindMain
<1>12. CASE RunMain
  BY <1>12, <1>1, <1>2 DEF RunMain
<1>13. CASE Over \/ UNCHANGED allVars
  BY <1>13 DEF Over, allVars
<1> QED
  BY <1>3, <1>4, <1>5, <1>6, <1>7, <1>8, <1>9, <1>10, <1>11, <1>12, <1>13 DEF DriverNext

\* The part of a run that compiles is a behaviour of Codegen, so that all that is
\* proved of Codegen holds throughout a run.
THEOREM CompilationInside == DriverSpec => Spec
<1>1. DriverInit => Init
  BY DEF DriverInit
<1>2. [DriverNext]_allVars => [Next]_vars
  BY DriverSteps
<1> QED
  BY <1>1, <1>2, PTL DEF DriverSpec, Spec

--------------------------------------------------------------------------------
(* What the driver has made sure of by the time it is at a stage. *)

\* The stages behind a compilation that came to its end
Compiled == {"engine", "map", "lookup", "run"}

Passed ==
  /\ stage \in Compiled => outcome = "done"
  /\ stage \in {"lookup", "run"} => RefusedByVerifier = {}
  /\ stage = "run" => "main" \in DOMAIN functions
  /\ stage # "over" => ending = "none"

\* What the engine's mapping is after the first builtin functions
MappedSoFar ==
  /\ mapped \in 0..4
  /\ DOMAIN addresses = {BuiltinFunction[MappingOrder[i]].name : i \in 1..mapped}
  /\ mapped \in {1, 2, 3} => addresses["put_i64"] = "put_i64_impl"
  /\ mapped = 4 => addresses["put_i64"] = "put_f64_impl"
  /\ mapped \in {2, 3, 4} => addresses["put_u64"] = "put_i64_impl"
  /\ mapped \in {3, 4} => addresses["put_f32"] = "put_f32_impl"
  /\ stage \in {"lookup", "run"} => mapped = 4

LEMMA PassedInvariant == DriverSpec => []Passed
<1>1. DriverInit => Passed
  BY DEF DriverInit, Passed, Compiled
<1>2. Passed /\ [DriverNext]_allVars => Passed'
  <2> SUFFICES ASSUME Passed, [DriverNext]_allVars PROVE Passed'
    OBVIOUS
  <2>1. CASE ParseOptions \/ OpenFile \/ ParseFile
    BY <2>1 DEF ParseOptions, OpenFile, ParseFile, GoOn, Exit, Passed, Compiled, RefusedByVerifier, vars, irVars, emitVars
  <2>2. CASE Compile
    BY <2>2 DEF Compile, Passed, Compiled, driverVars
  <2>3. CASE LeaveCompile
    BY <2>3 DEF LeaveCompile, GoOn, Exit, Passed, Compiled, RefusedByVerifier, vars, irVars, emitVars
  <2>4. CASE CreateEngine
    BY <2>4 DEF CreateEngine, GoOn, Exit, Passed, Compiled, RefusedByVerifier, vars, irVars, emitVars
  <2>5. CASE MapBuiltin
    BY <2>5 DEF MapBuiltin, GoOn, Exit, Passed, Compiled, RefusedByVerifier, vars, irVars, emitVars
  <2>6. CASE Finalize
    BY <2>6 DEF Finalize, GoOn, Exit, Passed, Compiled, RefusedByVerifier, vars, irVars, emitVars
  <2>7. CASE FindMain
    BY <2>7 DEF FindMain, GoOn, Exit, Passed, Compiled, RefusedByVerifier, vars, irVars, emitVars
  <2>8. CASE RunMain
    BY <2>8 DEF RunMain, GoOn, Exit, Passed, Compiled, RefusedByVerifier, vars, irVars, emitVars
  <2>9. CASE Over \/ UNCHANGED allVars
    BY <2>9 DEF Over, allVars, driverVars, Passed, Compiled, RefusedByVerifier, vars, irVars, emitVars
  <2> QED
    BY <2>1, <2>2, <2>3, <2>4, <2>5, <2>6, <2>7, <2>8, <2>9 DEF DriverNext
<1> QED
  BY <1>1, <1>2, PTL DEF DriverSpec

LEMMA MappedInvariant == DriverSpec => []MappedSoFar
<1>1. DriverInit => MappedSoFar
  <2>1. DOMAIN EmptyTable = {}
    BY DEF EmptyTable
  <2> QED
    BY <2>1 DEF DriverInit, MappedSoFar
<1>2. MappedSoFar /\ [DriverNext]_allVars => MappedSoFar'
  <2> SUFFICES ASSUME MappedSoFar, [DriverNext]_allVars PROVE MappedSoFar'
    OBVIOUS
  <2>1. Len(MappingOrder) = 4
    BY DEF MappingOrder
  <2>2. CASE UNCHANGED <<mapped, addresses>> /\ (stage' \in {"lookup", "run"} => mapped = 4)
    BY <2>2 DEF MappedSoFar
  <2>3. CASE MapBuiltin
    <3>1. CASE UNCHANGED <<mapped, addresses>> /\ stage' = "over"
      BY <3>1 DEF MappedSoFar
    <3> DEFINE builtin == BuiltinFunction[MappingOrder[mapped + 1]]
    <3>2. CASE /\ addresses' = InsertOrAssign(addresses, builtin.name, builtin.address)
               /\ mapped' = mapped + 1 /\ stage' = "map"
      <4>1. mapped \in {0, 1, 2, 3} /\ mapped + 1 \in 1..4 /\ mapped' \in 0..4
        BY <2>1, <2>3, <3>2 DEF MapBuiltin, MappedSoFar
      <4>2. /\ MappingOrder[1] = "put_i64" /\ MappingOrder[2] = "put_u64"
            /\ MappingOrder[3] = "put_f32" /\ MappingOrder[4] = "put_f64"
        BY DEF MappingOrder
      <4>3. /\ BuiltinFunction["put_i64"].name = "put_i64"
            /\ BuiltinFunction["put_u64"].name = "put_u64"
            /\ BuiltinFunction["put_f32"].name = "put_f32"
            /\ BuiltinFunction["put_f64"].name = "put_i64"
            /\ BuiltinFunction["put_i64"].address = "put_i64_impl"
            /\ BuiltinFunction["put_u64"].address = "put_i64_impl"
            /\ BuiltinFunction["put_f32"].address = "put_f32_impl"
            /\ BuiltinFunction["put_f64"].address = "put_f64_impl"
        BY DEF BuiltinFunction
      <4>4. DOMAIN addresses' = DOMAIN addresses \cup {builtin.name}
        BY <3>2 DEF InsertOrAssign
      <4>5. DOMAIN addresses' = {BuiltinFunction[MappingOrder[i]].name : i \in 1..mapped'}
        <5>1. 1..mapped' = 1..mapped \cup {mapped + 1}
          BY <3>2, <4>1
        <5> QED
          BY <4>4, <5>1 DEF MappedSoFar
      <4>6. /\ addresses'[builtin.name] = builtin.address
            /\ \A n \in DOMAIN addresses : n # builtin.name => addresses'[n] = addresses[n]
        BY <3>2 DEF InsertOrAssign
      <4>7. /\ mapped \in {1, 2, 3} => "put_i64" \in DOMAIN addresses
            /\ mapped \in {2, 3} => "put_u64" \in DOMAIN addresses
            /\ mapped = 3 => "put_f32" \in DOMAIN addresses
        <5>1. \A i \in 1..mapped : BuiltinFunction[MappingOrder[i]].name \in DOMAIN addresses
          BY DEF MappedSoFar
        <5>2. /\ mapped \in {1, 2, 3} => 1 \in 1..mapped
              /\ mapped \in {2, 3} => 2 \in 1..mapped
              /\ mapped = 3 => 3 \in 1..mapped
          OBVIOUS
        <5> QED
          BY <4>2, <4>3, <5>1, <5>2
      <4>8. CASE mapped = 0
        BY <3>2, <4>1, <4>2, <4>3, <4>5, <4>6, <4>8 DEF MappedSoFar
      <4>9. CASE mapped = 1
        BY <3>2, <4>1, <4>2, <4>3, <4>5, <4>6, <4>7, <4>9 DEF MappedSoFar
      <4>10. CASE mapped = 2
        <5>1. builtin.name = "put_f32" /\ builtin.address = "put_f32_impl"
          BY <4>2, <4>3, <4>10
        <5> HIDE DEF builtin
        <5>2. addresses'["put_f32"] = "put_f32_impl"
          BY <4>6, <5>1
        <5>3. addresses'["put_i64"] = "put_i64_impl" /\ addresses'["put_u64"] = "put_i64_impl"
          BY <4>6, <4>7, <4>10, <5>1 DEF MappedSoFar
        <5>4. mapped' = 3 /\ stage' = "map"
          BY <3>2, <4>10
        <5> QED
          BY <4>5, <5>2, <5>3, <5>4 DEF MappedSoFar
      <4>11. CASE mapped = 3
        <5>1. builtin.name = "put_i64" /\ builtin.address = "put_f64_impl"
          BY <4>2, <4>3, <4>11
        <5> HIDE DEF builtin
        <5>2. addresses'["put_i64"] = "put_f64_impl"
          BY <4>6, <5>1
        <5>3. addresses'["put_u64"] = "put_i64_impl" /\ addresses'["put_f32"] = "put_f32_impl"
          BY <4>6, <4>7, <4>11, <5>1 DEF MappedSoFar
        <5>4. mapped' = 4 /\ stage' = "map"
          BY <3>2, <4>11
        <5> QED
          BY <4>5, <5>2, <5>3, <5>4 DEF MappedSoFar
      <4> QED
        BY <4>1, <4>8, <4>9, <4>10, <4>11
    <3> QED
      BY <2>3, <3>1, <3>2 DEF MapBuiltin, GoOn, Exit
  <2>4. CASE ParseOptions \/ OpenFile \/ ParseFile \/ LeaveCompile \/ CreateEngine
    BY <2>2, <2>4 DEF ParseOptions, OpenFile, ParseFile, LeaveCompile, CreateEngine, GoOn, Exit
  <2>5. CASE Compile \/ Over \/ UNCHANGED allVars
    BY <2>2, <2>5 DEF Compile, Over, allVars, driverVars, MappedSoFar
  <2>6. CASE Finalize
    BY <2>1, <2>2, <2>6 DEF Finalize, GoOn, Exit
  <2>7. CASE FindMain \/ RunMain
    BY <2>2, <2>7 DEF FindMain, RunMain, GoOn, Exit, MappedSoFar
  <2> QED
    BY <2>3, <2>4, <2>5, <2>6, <2>7 DEF DriverNext
<1> QED
  BY <1>1, <1>2, PTL DEF DriverSpec

\* Where a process has ended with 0, either nothing was compiled, or the verifier
\* has taken the module, and all the builtin functions are mapped.
EndedWell ==
  ending = "zero" => functions = EmptyTable \/ (mapped = 4 /\ RefusedByVerifier = {})

\* Nothing is compiled before the options are parsed.
NotYet == stage = "options" => functions = EmptyTable

LEMMA EndedWellInvariant == DriverSpec => []EndedWell
<1> DEFINE Ran == EndedWell /\ NotYet
<1>1. DriverInit => Ran
  BY DEF DriverInit, Init, EndedWell, NotYet
<1>2. MappedSoFar /\ Passed /\ Ran /\ [DriverNext]_allVars => Ran'
  <2> SUFFICES ASSUME MappedSoFar, Passed, Ran, [DriverNext]_allVars PROVE Ran'
    OBVIOUS
  <2>1. CASE RunMain
    BY <2>1 DEF RunMain, Exit, MappedSoFar, Passed, EndedWell, NotYet, RefusedByVerifier,
                vars, irVars, emitVars
  <2>2. CASE stage' # "options" /\ ending' # "zero"
    BY <2>2 DEF EndedWell, NotYet
  <2>3. CASE UNCHANGED <<mapped, ending, stage, functions, defects>>
    BY <2>3 DEF EndedWell, NotYet, RefusedByVerifier
  <2>4. CASE ParseOptions
    <3>1. functions' = EmptyTable /\ stage' # "options"
      BY <2>4 DEF ParseOptions, GoOn, Exit, vars, irVars, NotYet
    <3> QED
      BY <3>1 DEF EndedWell, NotYet
  <2>5. CASE OpenFile \/ ParseFile \/ LeaveCompile \/ CreateEngine \/ MapBuiltin \/ Finalize \/ FindMain
    BY <2>2, <2>5 DEF OpenFile, ParseFile, LeaveCompile, CreateEngine, MapBuiltin,
                      Finalize, FindMain, GoOn, Exit, Passed
  <2>6. CASE Compile
    BY <2>2, <2>6 DEF Compile, driverVars, Passed
  <2>7. CASE Over \/ UNCHANGED allVars
    BY <2>3, <2>7 DEF Over, allVars, driverVars, vars, irVars, emitVars
  <2> QED
    BY <2>1, <2>4, <2>5, <2>6, <2>7 DEF DriverNext
<1> QED
  BY <1>1, <1>2, MappedInvariant, PassedInvariant, PTL DEF DriverSpec

\* What the module has beside the program's own functions are builtin ones, as
\* their table declares them.
OthersAreBuiltin ==
  \A name \in DOMAIN functions \ {s.name : s \in Signatures} :
    \E b \in DOMAIN BuiltinFunction :
      name = BuiltinFunction[b].name /\ functions[name] = BuiltinFunction[b].signature

\* No defect is ever taken back.
LEMMA DefectsStay == ASSUME [Next]_vars PROVE defects \subseteq defects'
<1>1. \A how, causes : Stop(how, causes) => defects' = defects
  BY DEF Stop, emitVars
<1>2. Throw \/ Undefined \/ (\E how : StopConversion(how)) => defects' = defects
  BY <1>1 DEF Throw, Undefined, StopConversion
<1>3. \A instruction, folded, found :
        Emit(instruction, folded, found) => defects \subseteq defects'
  BY DEF Emit
<1>4. \A type, folded, found : EmitBinary(type, folded, found) => defects \subseteq defects'
  BY <1>2, <1>3 DEF EmitBinary
<1>5. (\E l \in Literals : VisitLiteral(l)) \/ VisitUnary
      \/ (\E op \in Operators : EnterBinary(op))
      \/ (\E kind \in Statements : EnterStatement(kind)) => defects' = defects
  BY DEF VisitLiteral, VisitUnary, EnterBinary, EnterStatement, emitVars
<1>6. (\E x \in VarNames : VisitVariable(x)) => defects \subseteq defects'
  BY <1>1, <1>3 DEF VisitVariable
<1>7. KeepLeft \/ CastAs => defects \subseteq defects'
  BY <1>2, <1>3 DEF KeepLeft, CastAs, emitVars
<1>8. EmitArithmetic => defects \subseteq defects'
  BY <1>2, <1>4 DEF EmitArithmetic
<1>9. EmitPower => defects \subseteq defects'
  BY <1>2, <1>4 DEF EmitPower, emitVars
<1>10. EmitBoolean \/ EmitComparison => defects \subseteq defects'
  BY <1>2, <1>4 DEF EmitBoolean, EmitComparison
<1>11. (\E callee \in Callees : EnterCall(callee)) \/ PassArgument \/ CompleteCall
         => defects \subseteq defects'
  BY <1>2, <1>3 DEF EnterCall, PassArgument, CompleteCall, emitVars
<1>12. FinishLet \/ FinishDiscard \/ FinishReturn => defects \subseteq defects'
  BY <1>1, <1>2, <1>3 DEF FinishLet, FinishDiscard, FinishReturn, emitVars
<1>13. BranchOn \/ CloseBody \/ JoinElif \/ CloseFunction => defects \subseteq defects'
  BY <1>2 DEF BranchOn, CloseBody, JoinElif, CloseFunction
<1>14. (\E s \in Signatures : DefineFunction(s)) => defects' = defects
  BY <1>2 DEF DefineFunction
<1>15. VisitStruct \/ EndModule \/ Stopped \/ UNCHANGED vars => defects' = defects
  BY DEF VisitStruct, EndModule, Stopped, vars, emitVars
<1> QED
  BY <1>5, <1>6, <1>7, <1>8, <1>9, <1>10, <1>11, <1>12, <1>13, <1>14, <1>15 DEF Next

\* The function of a double is declared by calls that pass it no double.
NoDoubles ==
  OperandsFit /\ "badCall" \notin defects =>
    \A name \in DOMAIN functions \ {s.name : s \in Signatures} :
      functions[name].params # <<DoubleTy>>

\* What put_f64 is passed is the f32 its symbol takes.
LEMMA DoubleCallBad ==
  ASSUME IInv, Typed, CompleteCall, ~Ended, OperandsFit', Top.name = "put_f64"
  PROVE  "badCall" \in defects'
<1> DEFINE passed == [i \in DOMAIN Top.done |-> Top.done[i].val.ty]
<1>1. /\ frames # <<>> /\ Top.kind = "call"
      /\ Len(Top.done) = Len(symbols["put_f64"].parameters)
  BY DEF CompleteCall
<1>2. /\ OperandsFit
      /\ ~(\E i \in DOMAIN Top.done : Top.done[i].val = NullValue)
      /\ passed = CalledFunction("put_f64").signature.params \/ "badCall" \in defects'
  <2>1. ~Throw /\ ~Undefined
    BY Stopping
  <2>2. /\ Top.name \in DOMAIN BuiltinFunction \cup DOMAIN functions
        /\ ~(\E i \in DOMAIN Top.done : Top.done[i].val = NullValue)
    BY <2>1 DEF CompleteCall
  <2>3. passed # CalledFunction("put_f64").signature.params => "badCall" \in defects'
    BY <2>2 DEF CompleteCall, Emit
  <2> QED
    BY <2>2, <2>3, DefectsStay DEF Next, OperandsFit
<1>3. symbols["put_f64"] = FunctionSignature(<<SingleFp>>, Void)
  <2>1. "put_f64" \in DOMAIN BuiltinSymbols
        /\ BuiltinSymbols["put_f64"] = FunctionSignature(<<SingleFp>>, Void)
    BY DEF BuiltinSymbols
  <2> QED
    BY <2>1 DEF Typed, BuiltinsKept
<1>4. symbols["put_f64"].parameters = <<SingleFp>>
  BY <1>3 DEF FunctionSignature
<1>5. Top.done \in Seq(Results) /\ 1 \in DOMAIN Top.done
  BY <1>1, <1>4, InnermostCall
<1>6. Top.done[1].type = SingleFp /\ Agrees(Top.done[1]) /\ Top.done[1].val # NullValue
  <2>1. /\ Top.done[1].type = symbols["put_f64"].parameters[1]
        /\ Agrees(Top.done[1])
    BY <1>1, <1>2, <1>5, InnermostCall
  <2> QED
    BY <1>2, <1>4, <1>5, <2>1
<1>7. Top.done[1].val.ty = FloatTy
  <2>1. SingleFp # Nullopt
    BY DEF SingleFp, Nullopt
  <2> QED
    BY <1>6, <2>1, LlvmTypeOfScalars DEF Agrees
<1>8. CalledFunction("put_f64").signature.params = <<DoubleTy>>
  BY DEF CalledFunction, BuiltinFunction, FunctionTy
<1>9. passed[1] = FloatTy
  BY <1>5, <1>7
<1>10. FloatTy # DoubleTy
  BY DEF FloatTy, DoubleTy
<1> HIDE DEF passed
<1> QED
  BY <1>2, <1>8, <1>9, <1>10

LEMMA NoDoublesInvariant == Spec => []NoDoubles
<1>1. Init => NoDoubles
  <2>1. DOMAIN EmptyTable = {}
    BY DEF EmptyTable
  <2> QED
    BY <2>1 DEF Init, NoDoubles
<1>2. IInv /\ Typed /\ NoDoubles /\ [Next]_vars => NoDoubles'
  <2> SUFFICES ASSUME IInv, Typed, NoDoubles, [Next]_vars, OperandsFit', "badCall" \notin defects',
                      NEW name \in DOMAIN functions' \ {s.name : s \in Signatures}
               PROVE  functions'[name].params # <<DoubleTy>>
    BY DEF NoDoubles
  <2>1. OperandsFit /\ "badCall" \notin defects
    BY DefectsStay DEF OperandsFit
  <2>2. CASE name \in DOMAIN functions /\ functions'[name] = functions[name]
    BY <2>1, <2>2 DEF NoDoubles
  <2>3. CASE CompleteCall /\ ~Ended
    <3> DEFINE called == CalledFunction(Top.name)
    <3>1. /\ Top.name \in DOMAIN BuiltinFunction \cup DOMAIN functions
          /\ functions' = Emplace(functions, called.name, called.signature)
      <4>1. ~Throw /\ ~Undefined
        BY <2>3, Stopping
      <4> QED
        BY <2>3, <4>1 DEF CompleteCall
    <3>2. CASE Top.name \notin DOMAIN BuiltinFunction \/ called.name \in DOMAIN functions
      BY <2>2, <3>1, <3>2 DEF CalledFunction, Emplace
    <3>3. CASE Top.name \in DOMAIN BuiltinFunction /\ called.name \notin DOMAIN functions
      <4>1. Top.name # "put_f64"
        BY <2>3, DoubleCallBad
      <4>2. called.signature.params # <<DoubleTy>>
        <5>1. called = BuiltinFunction[Top.name]
          BY <3>3 DEF CalledFunction
        <5>2. Top.name \in {"put_i64", "put_u64", "put_f32"}
          BY <3>3, <4>1 DEF BuiltinFunction
        <5>3. /\ BuiltinFunction["put_i64"].signature.params = <<IntTy(64)>>
              /\ BuiltinFunction["put_u64"].signature.params = <<IntTy(64)>>
              /\ BuiltinFunction["put_f32"].signature.params = <<FloatTy>>
          BY DEF BuiltinFunction, FunctionTy
        <5>4. <<IntTy(64)>> # <<DoubleTy>> /\ <<FloatTy>> # <<DoubleTy>>
          <6>1. IntTy(64) # DoubleTy /\ FloatTy # DoubleTy
            BY DEF IntTy, FloatTy, DoubleTy
          <6> QED
            BY <6>1
        <5> HIDE DEF called
        <5> QED
          BY <5>1, <5>2, <5>3, <5>4
      <4> HIDE DEF called
      <4> QED
        BY <2>2, <3>1, <3>3, <4>2 DEF Emplace, InsertOrAssign
    <3> QED
      BY <3>1, <3>2, <3>3
  <2>4. CASE Ended \/ Local \/ HalfDefines \/ Bound
    BY <2>2, <2>4 DEF Ended, Local, HalfDefines, Bound, irVars
  <2>5. CASE Defined
    BY <2>2, <2>5 DEF Defined, Emplace, InsertOrAssign
  <2> QED
    BY <2>3, <2>4, <2>5, StepKinds, FinishLetSteps, DefineFunctionSteps
<1>3. HalfEnded /\ NoDoubles /\ [Next]_vars => NoDoubles'
  BY NothingFollows DEF HalfEnded, NoDoubles, OperandsFit, vars, irVars, emitVars
<1> QED
  BY <1>1, <1>2, <1>3, TypedInvariant, PTL DEF Spec

LEMMA OthersInvariant == Spec => []OthersAreBuiltin
<1>1. Init => OthersAreBuiltin
  <2>1. DOMAIN EmptyTable = {}
    BY DEF EmptyTable
  <2> QED
    BY <2>1 DEF Init, OthersAreBuiltin
<1>2. IInv /\ OthersAreBuiltin /\ [Next]_vars => OthersAreBuiltin'
  <2> SUFFICES ASSUME IInv, OthersAreBuiltin, [Next]_vars PROVE OthersAreBuiltin'
    OBVIOUS
  <2>1. CASE functions' = functions
    BY <2>1 DEF OthersAreBuiltin
  <2>2. CASE Called
    <3>1. PICK name \in DOMAIN BuiltinFunction \cup DOMAIN functions :
            functions' = Emplace(functions, CalledFunction(name).name, CalledFunction(name).signature)
      BY <2>2 DEF Called
    <3>2. CASE name \in DOMAIN BuiltinFunction
      BY <3>1, <3>2 DEF CalledFunction, Emplace, InsertOrAssign, OthersAreBuiltin
    <3>3. CASE name \notin DOMAIN BuiltinFunction
      BY <2>1, <3>1, <3>3 DEF CalledFunction, Emplace
    <3> QED
      BY <3>2, <3>3
  <2>3. CASE Defined
    BY <2>3 DEF Defined, Emplace, InsertOrAssign, OthersAreBuiltin
  <2> QED
    BY <2>1, <2>2, <2>3, Steps DEF Ended, HalfDefines, Local, Bound, irVars
<1>3. HalfEnded /\ OthersAreBuiltin /\ [Next]_vars => OthersAreBuiltin'
  BY NothingFollows DEF HalfEnded, OthersAreBuiltin, vars, irVars
<1> QED
  BY <1>1, <1>2, <1>3, Invariance, PTL DEF Spec

--------------------------------------------------------------------------------
(******************************** The theorems *****************************)

\* A run keeps to its stages and its exit codes, and the engine knows no address but
\* those of the builtin functions.
THEOREM DriverTypeCorrect == DriverSpec => []DriverTypeOK
<1> DEFINE Stages == {"options", "open", "parse", "compile", "engine", "map", "lookup", "run", "over"}
           Endings == {"none", "zero", "one", "minusOne", "aborted", "undefined"}
           Staged == stage \in Stages /\ ending \in Endings
<1>1. DriverInit => Staged
  BY DEF DriverInit
<1>2. Staged /\ [DriverNext]_allVars => Staged'
  <2> SUFFICES ASSUME Staged, [DriverNext]_allVars PROVE Staged'
    OBVIOUS
  <2>1. ASSUME NEW next \in Stages, GoOn(next) PROVE Staged'
    BY <2>1 DEF GoOn
  <2>2. ASSUME NEW how \in Endings, Exit(how) PROVE Staged'
    BY <2>2 DEF Exit
  <2>3. CASE ParseOptions \/ OpenFile \/ ParseFile \/ LeaveCompile \/ CreateEngine
    BY <2>1, <2>2, <2>3 DEF ParseOptions, OpenFile, ParseFile, LeaveCompile, CreateEngine
  <2>4. CASE MapBuiltin \/ Finalize \/ FindMain \/ RunMain
    BY <2>1, <2>2, <2>4 DEF MapBuiltin, Finalize, FindMain, RunMain
  <2>5. CASE Compile \/ Over \/ UNCHANGED allVars
    BY <2>5 DEF Compile, Over, allVars, driverVars
  <2> QED
    BY <2>3, <2>4, <2>5 DEF DriverNext
<1>3. MappedSoFar => \A name \in DOMAIN addresses : addresses[name] \in DOMAIN Implementation
  <2> SUFFICES ASSUME MappedSoFar, NEW name \in DOMAIN addresses
               PROVE  addresses[name] \in DOMAIN Implementation
    OBVIOUS
  <2>1. PICK i \in 1..mapped : name = BuiltinFunction[MappingOrder[i]].name
    BY DEF MappedSoFar
  <2>2. mapped \in 0..4
    BY DEF MappedSoFar
  <2>3. \/ i = 1 /\ name = "put_i64"
        \/ i = 2 /\ name = "put_u64" /\ mapped >= 2
        \/ i = 3 /\ name = "put_f32" /\ mapped >= 3
        \/ i = 4 /\ name = "put_i64"
    BY <2>1, <2>2 DEF MappingOrder, BuiltinFunction
  <2>4. addresses[name] \in {"put_i64_impl", "put_f64_impl", "put_f32_impl"}
    BY <2>1, <2>2, <2>3 DEF MappedSoFar
  <2> QED
    BY <2>4 DEF Implementation
<1>4. MappedSoFar => mapped \in 0..Len(MappingOrder)
  BY DEF MappedSoFar, MappingOrder
<1>5. Staged /\ MappedSoFar => DriverTypeOK
  BY <1>3, <1>4 DEF DriverTypeOK
<1> QED
  BY <1>1, <1>2, <1>5, MappedInvariant, PTL DEF DriverSpec

\* Behind the options, an exit with 0 is an exit behind main: whatever the program,
\* nothing that code generation or the verifier only printed a message about has
\* been run.
THEOREM ZeroBehindMain == DriverSpec => ZeroMeansMainRan
<1> DEFINE Ready ==
      /\ outcome = "done" /\ reports \subseteq {"pow", "node"}
      /\ RefusedByVerifier = {}
      /\ "main" \in DOMAIN functions /\ functions["main"].params = << >>
<1>1. Passed /\ FailedLookupsStop /\ [DriverNext]_allVars => [Succeeds => Ready]_allVars
  <2> SUFFICES ASSUME Passed, FailedLookupsStop, DriverNext, Succeeds PROVE Ready
    BY DEF allVars, driverVars, Succeeds
  <2>1. \A next : ~GoOn(next)
    BY DEF GoOn, Succeeds
  <2>2. ~Compile /\ ~Over
    BY DEF Compile, Over, allVars, driverVars, Succeeds
  <2>3. \A how : Exit(how) => how = "zero"
    BY DEF Exit, Succeeds
  <2>4. ~(ParseOptions \/ OpenFile \/ ParseFile \/ LeaveCompile \/ CreateEngine \/ MapBuiltin
          \/ Finalize \/ FindMain)
    BY <2>1, <2>3 DEF ParseOptions, OpenFile, ParseFile, LeaveCompile, CreateEngine, MapBuiltin,
                      Finalize, FindMain, Succeeds
  <2>5. RunMain
    BY <2>2, <2>4 DEF DriverNext
  <2> QED
    BY <2>3, <2>5 DEF RunMain, Passed, Compiled, FailedLookupsStop
<1> HIDE DEF Ready
<1>2. DriverSpec => [][Succeeds => Ready]_allVars
  BY <1>1, PassedInvariant, CompilationInside, FailedLookupsEnd, PTL DEF DriverSpec
<1> QED
  BY <1>2 DEF ZeroMeansMainRan, Ready

\* Although two entries go by the name put_i64, each name is mapped to a function
\* like its own before anything is run.
THEOREM LastMappingHarmless == DriverSpec => []LastMappingAlike
<1>1. MappedSoFar => LastMappingAlike
  <2> SUFFICES ASSUME MappedSoFar, stage \in {"lookup", "run"},
                      NEW b \in DOMAIN BuiltinFunction, BuiltinFunction[b].name = b
               PROVE  /\ b \in DOMAIN addresses
                      /\ Implementation[addresses[b]] = Implementation[BuiltinFunction[b].address]
    BY DEF LastMappingAlike
  <2>1. mapped = 4
    BY DEF MappedSoFar
  <2>2. \A i \in 1..4 : BuiltinFunction[MappingOrder[i]].name \in DOMAIN addresses
    BY <2>1 DEF MappedSoFar
  <2>3. /\ MappingOrder[1] = "put_i64" /\ MappingOrder[2] = "put_u64" /\ MappingOrder[3] = "put_f32"
    BY DEF MappingOrder
  <2>4. /\ BuiltinFunction["put_i64"].name = "put_i64"
        /\ BuiltinFunction["put_u64"].name = "put_u64"
        /\ BuiltinFunction["put_f32"].name = "put_f32"
        /\ BuiltinFunction["put_i64"].address = "put_i64_impl"
        /\ BuiltinFunction["put_u64"].address = "put_i64_impl"
        /\ BuiltinFunction["put_f32"].address = "put_f32_impl"
    BY DEF BuiltinFunction
  <2>5. b \in {"put_i64", "put_u64", "put_f32"}
    BY DEF BuiltinFunction
  <2>6. b \in DOMAIN addresses
    BY <2>2, <2>3, <2>4, <2>5
  <2>7. Implementation["put_f64_impl"] = Implementation["put_i64_impl"]
    BY DEF Implementation
  <2>8. /\ addresses["put_i64"] = "put_f64_impl" /\ addresses["put_u64"] = "put_i64_impl"
        /\ addresses["put_f32"] = "put_f32_impl"
    BY <2>1 DEF MappedSoFar
  <2> QED
    BY <2>4, <2>5, <2>6, <2>7, <2>8
<1> QED
  BY <1>1, MappedInvariant, PTL

\* Whatever a program that has run declares, it finds at an address, and calls it
\* with what is there, if its operations fit their operands.
THEOREM BuiltinsResolved == DriverSpec => []CalledAsImplemented
<1>1. MappedSoFar /\ EndedWell /\ OthersAreBuiltin /\ NoDoubles => CalledAsImplemented
  <2> SUFFICES ASSUME MappedSoFar, EndedWell, OthersAreBuiltin, NoDoubles,
                      ending = "zero", OperandsFit,
                      NEW name \in DOMAIN functions \ {s.name : s \in Signatures}
               PROVE  /\ name \in DOMAIN addresses
                      /\ functions[name].params = <<Implementation[addresses[name]].takes>>
    BY DEF CalledAsImplemented
  <2>1. mapped = 4 /\ "badCall" \notin defects
    <3>1. functions # EmptyTable
      <4>1. DOMAIN EmptyTable = {}
        BY DEF EmptyTable
      <4> QED
        BY <4>1
    <3> QED
      BY <3>1 DEF EndedWell, RefusedByVerifier
  <2>2. PICK b \in DOMAIN BuiltinFunction :
          name = BuiltinFunction[b].name /\ functions[name] = BuiltinFunction[b].signature
    BY DEF OthersAreBuiltin
  <2>3. b # "put_f64"
    <3>1. BuiltinFunction["put_f64"].signature.params = <<DoubleTy>>
      BY DEF BuiltinFunction, FunctionTy
    <3> QED
      BY <2>1, <2>2, <3>1 DEF NoDoubles
  <2>4. \E i \in 1..4 : b = MappingOrder[i]
    <3>1. b \in {"put_i64", "put_u64", "put_f32", "put_f64"}
      BY DEF BuiltinFunction
    <3>2. /\ MappingOrder[1] = "put_i64" /\ MappingOrder[2] = "put_u64"
          /\ MappingOrder[3] = "put_f32" /\ MappingOrder[4] = "put_f64"
      BY DEF MappingOrder
    <3> QED
      BY <3>1, <3>2
  <2>5. name \in DOMAIN addresses
    BY <2>1, <2>2, <2>4 DEF MappedSoFar
  <2>6. /\ addresses["put_i64"] = "put_f64_impl" /\ addresses["put_u64"] = "put_i64_impl"
        /\ addresses["put_f32"] = "put_f32_impl"
    BY <2>1 DEF MappedSoFar
  <2> QED
    BY <2>2, <2>3, <2>5, <2>6 DEF BuiltinFunction, FunctionTy, Implementation
<1> QED
  BY <1>1, MappedInvariant, EndedWellInvariant, OthersInvariant, NoDoublesInvariant,
     CompilationInside, PTL
================================================================================
