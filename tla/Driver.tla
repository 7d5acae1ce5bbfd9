--------------------------------- MODULE Driver ---------------------------------
(***************************************************************************)
(* One run of bython-jit (main.cpp, executors/jit.cpp): the file is read   *)
(* and parsed, compiled (Codegen), handed to LLVM's engine, the builtin    *)
(* functions are mapped to addresses, and main is called.                  *)
(*                                                                         *)
(* The exit codes are the program's own: what the compiled main returns is *)
(* dropped.  Nothing catches an exception, and the engine verifies the     *)
(* module again, with a fatal error where code generation had a message.   *)
(***************************************************************************)
EXTENDS Codegen

VARIABLES
  stage,      \* what execute() is about to do
  mapped,     \* how many of the builtin functions have been mapped
  addresses,  \* the engine's mapping of names to C++ functions
  ending      \* "none" yet, or how the process ended

driverVars == <<stage, mapped, addresses, ending>>
allVars == <<vars, driverVars>>

\* The loop of execute(): its tags in their order
MappingOrder == <<"put_i64", "put_u64", "put_f32", "put_f64">>

\* What LLVM's verifier refuses.  A call of a function as one of another type is
\* valid, if nothing else is wrong with it; operands that were folded into a
\* constant are no instruction's.
RefusedByVerifier == defects \ {"calleeType", "constantTypes"}

GoOn(next) == stage' = next /\ UNCHANGED <<ending, vars>>
Exit(how)  == ending' = how /\ stage' = "over" /\ UNCHANGED <<mapped, addresses, vars>>

\* LLVM's parser of options ends the process where one is missing or misspelled,
\* and where they ask for help or the version; the mode is parsed, and nothing
\* reads it
ParseOptions ==
  /\ stage = "options"
  /\ \/ GoOn("open") /\ UNCHANGED <<mapped, addresses>>
     \/ Exit("one") \/ Exit("zero")

OpenFile ==
  /\ stage = "open"
  /\ \/ GoOn("parse") /\ UNCHANGED <<mapped, addresses>>
     \/ Exit("minusOne")

ParseFile ==
  /\ stage = "parse"
  /\ \/ GoOn("compile") /\ UNCHANGED <<mapped, addresses>>
     \/ Exit("minusOne")

\* backend::compile: a step of the walk
Compile == stage = "compile" /\ Running /\ Next /\ UNCHANGED driverVars

\* The walk is over; nothing looks at the reports, nor at what verifyModule says
LeaveCompile ==
  /\ stage = "compile"
  /\ \/ outcome = "done" /\ GoOn("engine") /\ UNCHANGED <<mapped, addresses>>
     \/ outcome = "threw" /\ Exit("aborted")
     \/ outcome = "undefined" /\ Exit("undefined")

CreateEngine ==
  /\ stage = "engine"
  /\ \/ GoOn("map") /\ UNCHANGED <<mapped, addresses>>
     \/ Exit("minusOne")

\* addGlobalMapping: a name mapped twice fails an assertion of LLVM's where it was
\* built with them, and has the last address where it was not
MapBuiltin ==
  /\ stage = "map" /\ mapped < Len(MappingOrder)
  /\ LET builtin == BuiltinFunction[MappingOrder[mapped + 1]]
     IN  \/ /\ addresses' = InsertOrAssign(addresses, builtin.name, builtin.address)
            /\ mapped' = mapped + 1 /\ GoOn("map")
         \/ builtin.name \in DOMAIN addresses /\ Exit("aborted")

\* (mutant) setVerifyModules(false)
FinalizeUnverified ==
  /\ stage = "map" /\ mapped = Len(MappingOrder)
  /\ GoOn("lookup") /\ UNCHANGED <<mapped, addresses>>

\* finalizeObject: a module the verifier refuses is a fatal error
Finalize ==
  /\ stage = "map" /\ mapped = Len(MappingOrder)
  /\ IF RefusedByVerifier = {}
     THEN GoOn("lookup") /\ UNCHANGED <<mapped, addresses>>
     ELSE Exit("aborted")

FindMain ==
  /\ stage = "lookup"
  /\ IF "main" \in DOMAIN functions
     THEN GoOn("run") /\ UNCHANGED <<mapped, addresses>>
     ELSE Exit("minusOne")

\* (mutant) the result of main becomes the exit code
RunMainForResult ==
  /\ stage = "run"
  /\ IF functions["main"].params # << >>
     THEN Exit("undefined")
     ELSE Exit("resultOfMain") \/ Exit("aborted")

\* runFunction without arguments; the compiled program returns, or ends the
\* process (a trap, an exhausted stack)
RunMain ==
  /\ stage = "run"
  /\ IF functions["main"].params # << >>
     THEN Exit("undefined")
     ELSE Exit("zero") \/ Exit("aborted")

Over == stage = "over" /\ UNCHANGED allVars

DriverInit ==
  /\ Init
  /\ stage = "options" /\ mapped = 0 /\ addresses = EmptyTable /\ ending = "none"

DriverNext ==
  \/ ParseOptions \/ OpenFile \/ ParseFile
  \/ Compile \/ LeaveCompile
  \/ CreateEngine \/ MapBuiltin \/ Finalize
  \/ FindMain \/ RunMain \/ Over

DriverSpec == DriverInit /\ [][DriverNext]_allVars
--------------------------------------------------------------------------------
DriverTypeOK ==
  /\ stage \in {"options", "open", "parse", "compile", "engine", "map", "lookup", "run", "over"}
  /\ mapped \in 0..Len(MappingOrder)
  /\ \A name \in DOMAIN addresses : addresses[name] \in DOMAIN Implementation
  /\ ending \in {"none", "zero", "one", "minusOne", "aborted", "undefined"}

\* A process that was not asked for help or its version exits with 0 only when the
\* whole program was compiled, no lookup, inference or conversion failed on the
\* way, the module is one that LLVM takes, and it defines a main without
\* parameters: a file that is not read, a message on the error stream alone
\* (verifyModule, report_error) or a module without main never ends in success,
\* but for nodes and powers.
Succeeds == stage # "options" /\ ending # "zero" /\ ending' = "zero"
ZeroMeansMainRan ==
  [][Succeeds =>
       /\ outcome = "done" /\ reports \subseteq {"pow", "node"}
       /\ RefusedByVerifier = {}
       /\ "main" \in DOMAIN functions /\ functions["main"].params = << >>]_allVars

\* Every function that a program which has run declares and does not define has
\* an address, and is declared with what the C++ function there takes: a program
\* that calls put_f64, declared as a function of a double under the name of
\* put_i64, is refused, as long as no operation met operands of two types.
CalledAsImplemented ==
  ending = "zero" /\ OperandsFit =>
    \A name \in DOMAIN functions \ {s.name : s \in Signatures} :
      /\ name \in DOMAIN addresses
      /\ functions[name].params = <<Implementation[addresses[name]].takes>>

\* Two entries map the name put_i64, and the last one wins: whoever runs a
\* program finds at each name a function that takes and prints as the one its own
\* entry names.
LastMappingAlike ==
  stage \in {"lookup", "run"} =>
    \A b \in DOMAIN BuiltinFunction :
      BuiltinFunction[b].name = b =>
        /\ b \in DOMAIN addresses
        /\ Implementation[addresses[b]] = Implementation[BuiltinFunction[b].address]
================================================================================
