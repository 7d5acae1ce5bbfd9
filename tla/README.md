# bython in TLA+

A verification development for the bython compiler (`src/source`): TLA+ modules
of its grammar of expressions, its type system, its code generation, the words
its programs compute and the run of the executor around them, model-checked with
TLC on small instances and, where noted, proved with TLAPS for every value of
the constants.

## 1. The system

`bython` compiles one source file and runs it. Everything is sequential: `main`
calls the executor, which calls the parser, then code generation, then LLVM's
JIT.

| Component | Source | State | Operations |
| --- | --- | --- | --- |
| type representation | `type_system/builtin.*` | none | constructors, `operator==` |
| subtyping | `type_system/subtyping.*` | none | `try_subtype_impl` over seven rules |
| environment | `type_system/environment.*` | type names, symbols, the set of types | `add_new_named_type`, `add_new_symbol`, `add_new_function_type`, lookups |
| inference | `type_system/inference.*` | none (reads the environment) | `try_infer_impl`, one visit per kind of expression |
| LLVM types, builtin functions | `backend/builtin.*` | a constant table | `type`, `builtin_function` |
| conversions | `backend/typing.*` | none | `subtype_conversion` |
| storage scopes | `backend/stack.*` | a list of maps from names to allocas | `get`, `put`, `push_new_scope`, `pop_scope` |
| code generation | `backend/llvm.cpp` | environment, stack, insertion point, the LLVM module | one visit per kind of node, `compile` |
| grammar, frontend | `frontend/*` | spans of nodes | `parse`, `report_error` |
| syntax tree | `ast/*` | none | node types, visitor dispatch |
| JIT executor | `executors/jit.*` | LLVM's engine | `execute` |
| command line | `main.cpp` | options | `main` |
| matchers | `matching/*` | none | matching of nodes; no pass uses them |

How they interact. Code generation owns one environment and one stack for a
whole module. For every expression it walks the tree twice: its own visit emits
instructions and returns an LLVM value, and `environment.get_type` infers the
type of the same tree. It then asks subtyping for a conversion from the inferred
type to a wanted one, and applies the converter to the value. Nothing ties the
two walks together but their agreement. Errors take three ways: a message on the
error stream and on with the walk (`metadata.report_error`, which does not
throw), a thrown exception (`log_and_throw`, `std::optional::value`), and
undefined behaviour (an empty optional or a null pointer that is used).

### What is hard

There is no concurrency and nothing persists. What is hard is of five kinds:

* *Tables that must agree.* The name of a function enters three tables (type
  names, symbols, the LLVM module), the name of a variable two (symbols,
  storage), and they resolve a clash of names differently: `emplace` keeps the
  first binding, `insert_or_assign` the last, LLVM renames the new one. The
  storage is never reset between functions.
* *Errors that do not stop.* After a report, the walk continues with a null
  value or an empty optional; which reports still let a compilation come to its
  end follows only from everything done afterwards.
* *The insertion point.* A visit emits wherever the previous one left the
  builder. Conditionals, `elif` chains and returns each move it or leave it.
* *Words without a sign.* An LLVM integer has a width and no sign; the sign is in
  the type that inference gives the same expression. Which instruction,
  predicate, extension and width is right is decided in four places.
* *Several notions of success.* The verifier's answer is printed and dropped,
  reports are printed and dropped, exceptions leave through `main`, the engine
  verifies again, builtins are found by a name two entries share; the exit code
  is all that tells a compiled program from a failed one.

What makes each part correct:

| Part | Properties |
| --- | --- |
| subtyping | the loop answers what the relation in the comments allows; the relation is transitive and antisymmetric, `bool` apart; the conversion selected lands on the target's LLVM type; every query is answered |
| inference and emission | the value emitted for an expression has the LLVM type of its inferred type; calls pass what they are declared to take |
| tables | a variable is loaded with the type it was stored with, and from its own function; every typed variable has storage; every function symbol has its function; the names of builtin types are stable |
| errors | a failed lookup, inference or conversion ends the compilation |
| control flow | emission stands behind a branch only while an `elif` is visited |
| grammar | the tree groups as the table of operators says, operators of one rank from the side the grammar gives them |
| words | a word stands for the value its expression has in its inferred type, as long as no operands of two widths meet; a literal gets the narrowest type; an instruction is undefined only where the operation is |
| executor | once the options are read, exit code 0 is given only behind a whole compilation, a valid module and a call of `main`; a call of a builtin reaches a function of its type |

## 2. The modules

| Module | What it is |
| --- | --- |
| `BythonTypes` | types, the subtyping rules and their order, LLVM types, conversions: pure operators |
| `Environment` | the two tables of the environment and the scopes of storage, as operators on functions |
| `Inference` | the type of an operation from the types of its operands |
| `SubtypeRelation` | abstract specification of `try_subtype`: one step to an answer that the relation allows |
| `Subtyping` | the loop of `try_subtype_impl`, one action per outcome of a turn; refines `SubtypeRelation` |
| `Builtins` | the table of builtin functions and the C++ functions behind it |
| `Codegen` | `codegen_visitor`, composed of `Inference`, `Environment` and `Builtins` |
| `NameTables` | abstract specification of the names of a program: what one means, its storage and its LLVM function; `Codegen` refines it |
| `ExpressionGrammar` | `expr_prod`: from a sequence of operators and atoms to a tree |
| `IntegerOps` | words and values of integers: literals, conversions, instructions, predicates |
| `Evaluation` | the words a printed expression computes, composed of `ExpressionGrammar`, `Inference`, `IntegerOps` and `Builtins` |
| `Driver` | `main` and `jit_compiler::execute`, composed with `Codegen` and `Builtins` |
| `MCSubtyping`, `MCCodegen`, `MCEvaluation`, `MCDriver` | the instances TLC checks |
| `BythonTypesProofs`, `SubtypingProofs`, `CodegenProofs`, `CodegenSafetyProofs`, `DriverProofs`, `ExpressionGrammarProofs`, `IntegerOpsProofs`, `EvaluationProofs` | the theorems |

### Subtyping

The state is a query (`tau`, `alpha`), the position of the rule asked next
(`next`), the answer and whether the function has returned (`done`). `AcceptRule`
and `SkipRule` are the two outcomes of one turn of the loop, `GiveUp` the
`return std::nullopt` behind it. The specification assumes weak fairness of the
whole step: it is a sequential loop, and a sequential program whose next step is
possible takes it.

### Codegen

The program is not a constant. The walk chooses a node wherever the grammar
allows one, so that the behaviours are the compilations of all programs within
the bounds, and a node already visited is forgotten.

| Variable | In the code |
| --- | --- |
| `typenames`, `symbols` | `m_typename_to_typeptr`, `m_symbol_to_ts` of the environment |
| `scopes` | `lookup` of the stack; storage is the number of the function that owns the alloca (`home`) and its type |
| `functions` | the LLVM module's symbol table |
| `fn`, `last` | the function at the insertion point, and the last instruction of the block there |
| `frames` | the C++ call stack: the nodes whose visit has begun, with the operands already visited (`done`) |
| `result` | what the visit that just returned gave: the LLVM value, and the type inference gives the same expression |
| `reports` | which kinds of `report_error` have been called |
| `defects` | what is wrong with the module emitted so far; LLVM's verifier refuses all of it but `calleeType` and `constantTypes` |
| `outcome` | running, or how `compile` ended: `done`, `threw`, `undefined` |
| `locals`, `rebound` | history variables of the properties |

A visit function with operands is cut into actions at its recursive calls:
`EnterCall`, `PassArgument` (once per argument) and `CompleteCall` are the code
of `visit_call` before, between and after its calls of `visit`. An LLVM value is
its type and whether the builder folds operations on it, since a folded
operation leaves no instruction in the block, and the implicit return depends on
whether there is one.

No visit promotes an operand. An instruction on operands of two types is the
defect `operandTypes`. Where both are constants there is no instruction: a build
of LLVM with assertions ends the process, one without them makes a constant of
either type, and nothing is left for the verifier to find. The model has both
outcomes (`EmitBinary`, `EmitArithmetic`) and records `constantTypes`, so that
the properties can say where they hold.

What is abstracted: a literal is its sign and the number of bits it needs; the
values computed and the texts of messages are left out; the operand of a unary
operation is not visited (the code visits none), and inference takes it for a
literal, a variable or a call; the number of arguments of a call is right or
not. LLVM is modelled by what the code uses: which types an instruction takes,
that `getOrInsertFunction` returns what the module has under the name, that
`Function::Create` renames a second function of a name, and that a violated
precondition leaves the behaviour undefined (`outcome = "undefined"`, where
nothing more is claimed).

### NameTables

What the three visits that bind, call and define promise together, with none of
the walk: `Bind` gives a name storage of the function being compiled and a
meaning if it had none; `Declare` adds a builtin to the module; `DefineNew` gives
a name its meaning, its type name and its LLVM function in one step and of one
type; `DefineAgain` leaves the meaning of a name alone; `DefineHalf` is a
definition that LLVM has no function type for (a parameter that is void or a
function, a result that is a function): the name is bound (llvm.cpp:85, 91)
before the LLVM type is asked for (94), and the walk ends there, without a
function. `Codegen` refines it
(`ImplementsNameTables`), with `owner` the `home` of the storage and `ended` the
negation of `Running`: a walk that goes on never has a name in one table that
the others miss.

### ExpressionGrammar

lexy's `expression_production` reads one operator ahead; `open` is its recursion
stack, the operators whose right operand is still to come, `operand` the node
just completed, `lookahead` the operator read. `BindsBefore` decides between the
operator before an operand and the one behind it, from the order of the levels
(`Levels`, the chain of `operand`s) and their associativity. An atom is a
literal, a name, a call or an expression in parentheses. A prefix operator
stands at the start or behind a weaker operator; lexy does not parse one as the
operand of a tighter operator.

The tree is `nodes`, in the order in which the parser makes them: a node names
its operands by their places, which are before its own. The reference is the
table in `ast/operators.hpp`, which is written apart from the grammar:
`TableRespectedElsewhere` says where the tree may group against its numbers, and
`SameRankGrouping` what happens between operators of one number (a chain of
products or powers extends to the right, every other one to the left). `from`,
`to` and `input` are history variables of the latter: the part of the input that
a node was read from.

### IntegerOps and Evaluation

A width is a name; the number of bits of a word of that width is a constant
(`BitWidth`, `Half`), so that TLC checks small words and the proofs hold for any.
`Denotes` is the value of a word in a type; the operators on bits are
what they do to the bits of a word (`BitsOf`, `WordOf`, `OnBits`).

`Evaluation` parses an expression and visits its tree. `frames` is the C++ call
stack, the nodes whose visit has begun; `Descend` is the call of `visit` on the
next operand, `Give` the return of a visit with a value, which `values` keeps for
the node. A value is its inferred type, the width of its constant, its word and
the value it means: exact arithmetic, wrapped into the inferred type at every
operation. It ends as the code does: by an exception, by a report with a
null value, by a folding that has no result, by an argument of a width the
verifier refuses, or by printing. The printer is the
function at the builtin's own entry, which is what its name is mapped to
(`LastMappingAlike` of `Driver`).

All operands here are constants, so `IRBuilder` folds every operation and the
verifier sees none of them. For operands of one width that is what the
instruction computes (`Execute`). For operands of two widths it is a violated
precondition: a build of LLVM with assertions ends the process (`"undefined"`),
and `Folds` says what LLVM 16 makes of the constants in a build without them:
the operation in the left one's width, or one of the operands as it is where the
other is neutral or absorbing, or, for `|` and `^`, the right one's upper bits as well.
`put_u64(1 + 300)` then prints 45 with exit code 0, the same disagreement as
the finding `OperandPromotion`. LLVM is not in the repository; these
definitions are marked external, and both builds are in the model.

`misread` records how a value came to be one of which nothing is claimed:
`"width"`, an operation below had operands of two widths; `"sign"`, an unsigned
division, remainder or right shift below had an operand with its highest bit
set, since those are emitted as the signed instructions.

### Driver

`stage` is the position in `main` and `execute`, `mapped` the position of the
loop over the builtins, `addresses` the engine's mapping of names, `ending` how
the process ended. `Compile` is a step of `Codegen`; every other step leaves the
walk alone. An option, a file or a text may be wrong, the options may ask for
help or the version (the process then ends with 0, main.cpp:41), and the engine
may not be built: those are choices. The engine verifies the module (`setVerifyModules`)
and ends the process if it is broken; a call through another type than the
function's (`calleeType`) is valid IR and is not refused, and folded constants
of two types (`constantTypes`) are not there to be refused. `main` runs to its end
or ends the process, and its result is dropped.

## 3. The runs

| Run | Instance | Shows |
| --- | --- | --- |
| `Subtyping` | all 12 registered types and 3 function types, every pair | the five properties of subtyping and termination |
| `CodegenExpressions` | one function that calls itself; expressions two nodes deep as conditions and results, with conditionals around them, one operator of each class, literals of 8 and 9 bits | `InferenceSound`, `CallsWellTyped` |
| `CodegenDeclarations` | two functions out of five signatures: two of the name `i8`, which is also a variable's and a type's, one of the name of the builtin `put_i64`, one with an unknown and one with an ill-formed type; two variables of two types, discarded calls; a hint that names no type | `TypeOK`, the seven properties of tables, calls and errors (`CallsWellTyped`, `StorageMatchesSymbol`, `OwnStorage`, `SymbolsHaveStorage`, `FunctionSymbolsResolve`, `BuiltinNamesStable`, `FailedLookupsStop`), and the refinement of `NameTables` |
| `Driver` | two functions out of three signatures (two of `main`, one with a parameter); conditionals to depth five, `else`, `elif`, returns, discarded calls of `put_i64` and `put_f64` | `DriverTypeOK`, `BranchOnlyBeforeElif`, `ZeroMeansMainRan` (an action property), `CalledAsImplemented`, `LastMappingAlike` |
| `Expressions` | every sequence of up to three of the 20 infix operators and unary minus is parsed, every tree of up to two is evaluated, on words of 3, 4, 5 and 6 bits for the widths 8, 16, 32 and 64, with eight literals at the limits of their types (0, 2, 7, 8, 63, -1, -4, -5), casts to `i64`, `u16` and `bool`, and both printers of integers | `TypeOK`, `SameRankGrouping`, `TableRespectedElsewhere`, `ValueSound`, `LiteralNarrowest`, `UndefinedOnlyIfMeaningless`, `PrintedIsMeaning` |

Violation runs, one for each disagreement of the code with a text of the
repository (`findings` of `PROJECT.json` quotes them):

| Run | The text says | The code does |
| --- | --- | --- |
| `SubtypingToBool` | only numeric types convert to `bool` | function types convert as well |
| `ImplicitReturn` | "Support implicit return" | not when the last block is empty, as in the `main` of `examples/fib.by` |
| `OperandPromotion` | operands promote to the larger type | only inference promotes; the sum of a variable that is an `i8` and an `i16` is an `i8` instruction on both |
| `ParameterStorage` | `fib.by` reads its parameter | parameters are never bound |
| `ConditionalTargets` | `fib.by` has a conditional | its false branch goes to a block of no function |
| `BuiltinTypes` | `put_i64` takes an `i64` | `put_f64` goes by the same name, with a `double` |
| `ExpressionPrecedence` | the table of operators puts comparisons between shifts and `&` | they bind weaker than `||`, so `n == 0 || n == 1` of `fib.by` is `(n == (0 || n)) == 1` |

The bounds. `MaxDepth` bounds the nesting of nodes and `MaxFunctions` the
functions; the number of statements is not bounded, since a statement leaves
nothing but its effect on the variables. Two functions are enough for storage of
another function to be found and for two definitions of a name; depth three of
frames for a statement with an operand, four and five for operands of operands
and for a conditional in an `elif`. One literal per class of types and one
operator per class of emission suffice, since the actions distinguish no more.
In `Expressions` three operators are one more than are needed for any two to
meet on either side of an operand, and two nested operations are enough for a
result of one to be an operand of another in every mixture of types; words of
different sizes keep the four widths apart, and 6 bits keep the products and
shifts small. What holds because of the small words only would not be proved by
`IntegerOpsProofs`, which knows nothing of the sizes.

`InferenceSound`, `StorageMatchesSymbol`, `CallsWellTyped` and
`CalledAsImplemented` are stated up to `OperandsFit`: once an operation got
operands of two types (the finding `OperandPromotion`), the
types of all values that depend on it follow from nothing.
`StorageMatchesSymbol` is stated for names that are not bound twice, which is
the other known way to lose it, and `CallsWellTyped` for programs that do not
call `put_f64` (the finding `BuiltinTypes`). A walk that ends as undefined while
it defines a function of an ill-formed type leaves its name without a function:
`FunctionSymbolsResolve` says nothing of it.

`TableRespectedElsewhere` is stated up to two known differences between grammar
and table: comparisons, which are the finding `ExpressionPrecedence`, and `^`
above `|`, which the table numbers the other way. `ValueSound`,
`UndefinedOnlyIfMeaningless` and `PrintedIsMeaning` are stated up to `misread`,
and `PrintedIsMeaning` up to values of `put_u64` above the largest `i64`: its
entry has the address of `put_i64`'s function.

No run of `Codegen`, `Driver` or `Evaluation` claims liveness: each is a
sequential walk over a finite tree, and a model that chooses the tree on the way
may choose for ever. `Subtyping` states
`Terminates`; it stops when it has answered, so its configurations do not check
for deadlock; no more do those of `ExpressionGrammar` and `Evaluation`, which
stop when the expression is read or has been printed. `Codegen` and `Driver` do,
and their only final states are those that `Stopped` and `Over` stutter in.

## 4. The proofs

All theorems are checked by TLAPS without assumptions other than those on the
constants:

* `TypesAssumption`: the types of queries are types of the language, with any
  widths;
* `CodegenAssumption`: operators and statements are ones the grammar has,
  literals need 1 to 64 bits, hints are strings, the bounds are numbers;
* `GrammarAssumption`: infix and prefix operators are ones of the levels;
* `WordsAssumption`, `HalfAssumption`: words of every width have at least two
  bits, a wider one at least one bit more, and `Half` is the power of two that
  `BitWidth` says;
* `EvaluationAssumption`: literals are ones the parser takes for 64-bit integers,
  and there are no casts to floating-point types and no printers of them.

Names, hints, signatures, callees, literals, sizes of words and bounds are
arbitrary otherwise. Every property that a passing run checks is the statement of a
theorem, but for `Terminates`.

`BythonTypesProofs` shows that the first rule that answers is one that the
relation allows, that no rule answers only where none is allowed
(`TrySubtypeDecides`), that a conversion lands on its target
(`AllowedConversionLands`), and that the relation is transitive and
antisymmetric but for `bool`.

`SubtypingProofs`: `TypeCorrect`, `Implementation` (the refinement of
`SubtypeRelation`), `Conversions`, `Transitive`, `Antisymmetric`. The invariant
behind the refinement is `TypeOK` and `Searched`: the rules before `next` do not
apply, so the loop's answer is the first one.

`CodegenProofs` proves the inductive invariant `IInv`, and from it

* `CodegenTypeCorrect` (`TypeOK`): `TypeOK` is not inductive. A call that waits
  for an argument reads the type of the parameter from the symbol of its
  callee, so the invariant also says (`CallsOpen`) that every open call has a
  callee of a function type with a parameter left, which holds since a symbol
  never changes once bound;
* `BuiltinNamesKept`, `FailedLookupsEnd`;
* `FunctionSymbolsKept` (`FunctionSymbolsResolve`), with `FunctionsKnown`: every
  function of the module has a symbol or is a builtin, so the first function of
  a name and the first symbol of a name are put into their tables by the same
  definition;
* `OwnStorageKept` and `SymbolsStored`, from `Stored`: what a function has bound
  is stored with its own number, and every symbol that is no function is stored.

Every step is shown to keep `IInv` by a lemma of its own (`...Keeps`), and to be
of one of a few kinds as far as the tables are concerned (`Steps`): it ends the
walk, leaves the tables alone, binds, calls or defines. One step leaves `IInv`:
the definition that ends halfway. What holds from then on is `HalfEnded`, which
nothing follows, so the invariant of a compilation is `IInv` or `HalfEnded`. The theorems about the
tables reason about the kinds only.

`CodegenSafetyProofs` holds the properties that need more than `IInv`. Its part on
control flow proves `BranchOnlyBeforeElif` (`BranchOnlyBeforeElifKept`). It
does not follow from where emission stands alone: a function must not be closed or left while an
`elif` is open. The invariant adds
that the outermost frame, and no other, is the function's (`OneFunction`).

Its part on types proves `InferenceSound`, `StorageMatchesSymbol` and
`CallsWellTyped` (`InferenceIsSound`, `StorageKeepsSymbol`, `CallsAreWellTyped`)
from one invariant, `Typed`. `InferenceSound` speaks only of the result just
returned; what makes it inductive is that the operands and arguments still kept
in the frames agree with their inferred types too (`NodesTyped`), that names
bound once are stored as their symbols say, and that the builtin symbols never
change. A converted value agrees with its target because the relation allows the
conversion (`ConvertedAgrees`, from `TrySubtypeAllowed`); a call gives what its
symbol says because its function has the LLVM type of its symbol
(`CalledSignature`, from `FunctionSymbolsKept`).

Its part on names proves the refinement (`TablesImplemented`): every step of
`Codegen`, by the kinds of `CodegenProofs`, is a step of `NameTables` or leaves
its variables alone. It needs two facts beyond `IInv`: that a statement is
visited in a function (`InFunction`: storage is taken by a function that exists),
and that every function of the module, and every builtin, has a symbol
(`NamesKnown`).

`DriverProofs` first proves that a run of the program is a compilation with more
around it (`CompilationInside`), which makes every theorem of `CodegenProofs` one
about `Driver`. `DriverTypeCorrect` is its type invariant. `ZeroBehindMain`
(`ZeroMeansMainRan`, of every step to exit code 0 but that of the options) adds
the invariant `Passed`:
behind each stage, what its test established still holds, since nothing changes
the walk any more. `LastMappingHarmless` and `BuiltinsResolved`
(`CalledAsImplemented`) rest on `MappedSoFar`, the mapping after each turn of the
loop, and on `OthersAreBuiltin`: a function of the module that is not one of the
program's signatures is an entry of the table with the type its entry has.

`ExpressionGrammarProofs` is about inputs of any length. The inductive invariant
`ParseInv` (`ParserInvariant`) says that the waiting operators and the node just
completed tile the input: every waiting operator stands directly behind its left
operand, which stands directly behind the operator before it (`Waits`), and the
completed node reaches from the last operator to the end of what was read
(`Completed`). What makes the levels come out right is the last conjunct of
each: no waiting operator binds before the one behind it, so the node that one
becomes fits on its right; and a node just made of an operator binds before the
operator read ahead, so it fits on that one's left. Nodes never change
(`PlacedKept`). `SameRankGrouping` follows (`TreeGroupsSameRank`): the operators
of one rank of the table are on one level (`LevelOfRanked`), so an operand of
the same rank can only fit on the side its level associates to.
`TableRespectedElsewhere` follows from the levels alone
(`TreeRespectsTableElsewhere`): the level of an operand is at most that of its
operator, and the table's numbers of the twelve levels are compared.

`IntegerOpsProofs` is about the operators `Evaluation` is built from, for words
of any sizes. `LiteralsExact`, `ConversionsKeepValues` and `ComparisonsSound` are
arithmetic on the limits of the widths. `ArithmeticSound` is modular arithmetic:
sums, differences and products of words are congruent to those of any values they
stand for, and the signed division is the division of the values where no
unsigned operand has its highest bit set. `ShiftsSound` and `BitOperatorsSound`
need the powers of two and the bits of a number: that `PowerOf2` is defined by
its equation, that smaller powers divide larger ones (`PowersDivide`), that the
bits of a number and of its rest modulo the size of a word agree (`BitsOfRest`),
and that every sequence of bits is a word's and only one's (`WordsHaveBits`).
These are inductions over numbers; they rest on `AllNumbers`, induction stated of
a set, which follows from the library's theorem that a well-founded relation has
minimal elements.

`EvaluationProofs` puts the two together. Since the steps of an evaluation leave
the parser alone or are its own (`ParserInside`), `ParseInv` holds of it too. To
it `EvaluationInvariant` adds `EvalInv`:

* `ValuesGood`: every value is a word of its constant's width, which is that of
  its inferred type unless `misread` has `"width"`, and stands for its meaning if
  `misread` is empty; the value of a literal is also of the narrowest type;
* `WalkInv`: the nodes being visited have no values yet and are ever further
  down, the first is the argument, and when none is left the argument has a
  value; that is why an operation finds the values of its operands
  (`OperandsHaveValues`), which `TypeOK` alone does not say;
* `UndefinedOnlyIfMeaningless` and `PrintedIsMeaning` themselves.

The step of an operator is one lemma about values (`ArithmeticGood`,
`BooleanGood`, `ComparisonGood`, `SubtypedGood`, `LiteralGood`) and one about the
walk (`GiveKeeps`, `EndKeeps`, `UndefinedKeeps`). `ArithmeticGood` is where
inference and emission meet: an operation that inference has a type for has
integers for operands (`OperandsAreIntegers`); if they are of one width, so is
the operation (`OneWidth`), and the theorems of `IntegerOpsProofs` apply
(`ArithmeticRight`); if they are not, all that is shown is that what they are
folded to is a word of one of the widths (`FoldsAreWords`). From the invariant
follow `EvaluationTypeCorrect`, `ValuesSound`, `LiteralsNarrowest`,
`UndefinedIsMeaningless` and `PrintedAreMeanings`. `RightWithoutDivision` says
how far the reservation about sign bits goes: without `/`, `%` and `>>` no value
is misread for its sign (`NoSignStep`), so words and printed values are right
wherever all operands below had one width (`RightAtOneWidth`). There is no such
theorem for widths: without "`misread` is empty", `PrintedIsMeaning` fails of
`put_u64(1 + 300)`.
`EvaluatedTreeGrouped` carries the theorems about the parser over.

Only model-checked: `Terminates`, since liveness under fairness is out of the
prover's reach. That the walk of an evaluation and the parser come to an end is
neither checked nor proved; the invariants above say nothing of it.

## 5. Not modelled

* The text of diagnostics, spans and uuids; characters and keywords: the grammar
  is modelled from operators and atoms on.
* The grammar of statements and definitions, other than which nodes may stand
  where: it is a list of alternatives with distinct first words.
* `push_new_scope` and `pop_scope` of the stack: nothing calls them, so a second
  scope is in no state of the program.
* The compilation mode: it is parsed and not read.
* The values of floating-point expressions: there are no literals of them, and
  arithmetic on them has no inferred type. Their types are modelled throughout.
* The matchers of `matching/*`, which no pass uses.
* LLVM beyond what is described above.

What could be added: `Evaluation` for conditions and calls, so that the words a
whole function computes are compared with its source.
