----------------------------- MODULE CodegenProofs -----------------------------
(***************************************************************************)
(* Proofs about Codegen, for every program: whatever the names, the        *)
(* literals, the signatures and the bounds are.                            *)
(***************************************************************************)
EXTENDS Codegen, BythonTypesProofs, SequenceTheorems, TLAPS

--------------------------------------------------------------------------------
(* What the operators of the environment return. *)

\* The builtin type names stand for scalars.
LEMMA BuiltinTypesScalar ==
  /\ {"void", "bool", "u8", "u16", "u32", "u64", "i8", "i16", "i32", "i64",
      "f32", "f64"} = DOMAIN BuiltinTypes
  /\ \A n \in DOMAIN BuiltinTypes : BuiltinTypes[n] \in Scalars
<1>1. {"void", "bool", "u8", "u16", "u32", "u64", "i8", "i16", "i32", "i64",
       "f32", "f64"} = DOMAIN BuiltinTypes
  BY DEF BuiltinTypes
<1>2. /\ BuiltinTypes["void"] = Void /\ BuiltinTypes["bool"] = Bool
      /\ BuiltinTypes["u8"] = UInt(8) /\ BuiltinTypes["u16"] = UInt(16)
      /\ BuiltinTypes["u32"] = UInt(32) /\ BuiltinTypes["u64"] = UInt(64)
      /\ BuiltinTypes["i8"] = SInt(8) /\ BuiltinTypes["i16"] = SInt(16)
      /\ BuiltinTypes["i32"] = SInt(32) /\ BuiltinTypes["i64"] = SInt(64)
      /\ BuiltinTypes["f32"] = SingleFp /\ BuiltinTypes["f64"] = DoubleFp
  BY DEF BuiltinTypes
<1>3. \A w \in {8, 16, 32, 64} : UInt(w) \in Scalars /\ SInt(w) \in Scalars
  BY DEF Scalars, ScalarTypes, NumericTypes, IntegerTypes
<1>4. {Void, Bool, SingleFp, DoubleFp} \subseteq Scalars
  BY DEF Scalars, ScalarTypes, NumericTypes
<1> QED
  BY <1>1, <1>2, <1>3, <1>4

\* A scalar is no function and no missing type.
LEMMA ScalarTags ==
  \A t \in Scalars :
    /\ t.tag \in {"void", "boolean", "uint", "sint", "single_fp", "double_fp"}
    /\ t.tag \in {"uint", "sint"} => t.width \in {8, 16, 32, 64}
    /\ ~IsFunction(t) /\ t # Nullopt
BY DEF Scalars, ScalarTypes, NumericTypes, IntegerTypes, UInt, SInt, Void, Bool,
       SingleFp, DoubleFp, IsFunction, Nullopt

\* A scalar's LLVM type is one a value can have.
LEMMA LlvmTypeOfScalar == \A t \in Scalars : LlvmType(t) \in LlvmScalars
<1> SUFFICES ASSUME NEW t \in Scalars PROVE LlvmType(t) \in LlvmScalars
  OBVIOUS
<1>1. t = Void \/ t = Bool \/ t = SingleFp \/ t = DoubleFp \/ IsInteger(t)
  BY DEF Scalars, ScalarTypes, NumericTypes, IntegerTypes, UInt, SInt, IsInteger
<1>2. IsInteger(t) => t.width \in {8, 16, 32, 64}
  BY ScalarTags DEF IsInteger
<1>3. LlvmType(Void) = VoidTy
  BY DEF LlvmType, ScalarLlvmType, IsFunction, IsInteger, Void
<1> QED
  BY <1>1, <1>2, <1>3, LlvmTypeOfScalars DEF LlvmScalars

\* A function's LLVM type passes and returns LLVM's scalars.
LEMMA LlvmTypeOfFunction ==
  \A t \in FunctionTypes :
    LlvmType(t) \in [kind : {"function"}, params : Seq(LlvmScalars), ret : LlvmScalars]
<1> SUFFICES ASSUME NEW t \in FunctionTypes
             PROVE  LlvmType(t) \in [kind : {"function"}, params : Seq(LlvmScalars),
                                     ret : LlvmScalars]
  OBVIOUS
<1>1. IsFunction(t) /\ t.parameters \in Seq(Scalars) /\ t.rettype \in Scalars
  BY DEF FunctionTypes, IsFunction
<1>2. \A s \in Scalars : ScalarLlvmType(s) \in LlvmScalars
  BY LlvmTypeOfScalar, ScalarTags DEF LlvmType
<1>3. [i \in DOMAIN t.parameters |-> ScalarLlvmType(t.parameters[i])] \in Seq(LlvmScalars)
  BY <1>1, <1>2
<1> QED
  BY <1>1, <1>2, <1>3 DEF LlvmType, FunctionTy

\* The type names of an environment, as the walk leaves them.
TypeNames(types) ==
  /\ \A n \in DOMAIN types : types[n] \in Scalars \cup FunctionTypes
  /\ \A n \in DOMAIN BuiltinTypes : n \in DOMAIN types /\ types[n] = BuiltinTypes[n]

\* What a name of a type resolves to.
LEMMA LookedUpType ==
  ASSUME NEW types, TypeNames(types), NEW n
  PROVE  LookupType(types, n) \in Scalars \cup FunctionTypes \cup {Nullopt}
BY DEF LookupType, TypeNames

\* A signature the module accepts is a function of scalars.
LEMMA AcceptedSignature ==
  ASSUME NEW types, TypeNames(types), NEW params \in Seq(STRING), NEW ret,
         FunctionTypeOf(types, params, ret) # Nullopt,
         ~IllFormed(FunctionTypeOf(types, params, ret))
  PROVE  FunctionTypeOf(types, params, ret) \in FunctionTypes
<1> DEFINE hints   == [i \in DOMAIN params |-> LookupType(types, params[i])]
           rettype == IF ret = "" THEN types["void"] ELSE LookupType(types, ret)
           type    == FunctionSignature(hints, rettype)
<1>1. rettype # Nullopt /\ (\A i \in DOMAIN params : hints[i] # Nullopt)
      /\ FunctionTypeOf(types, params, ret) = type
  BY DEF FunctionTypeOf
<1>2. rettype \in Scalars \cup FunctionTypes
  <2>1. types["void"] \in Scalars
    BY BuiltinTypesScalar DEF TypeNames
  <2> QED
    BY <1>1, <2>1, LookedUpType
<1>3. type.parameters = hints /\ type.rettype = rettype
  BY DEF FunctionSignature
<1>4. ~IsFunction(rettype) /\ \A i \in DOMAIN params : ~IsFunction(hints[i])
  <2>1. ~IllFormed(type)
    BY <1>1
  <2> HIDE DEF type, rettype
  <2> QED
    BY <1>3, <2>1 DEF IllFormed
<1>5. \A t \in FunctionTypes : IsFunction(t)
  BY DEF FunctionTypes, IsFunction
<1>6. rettype \in Scalars
  BY <1>2, <1>4, <1>5
<1>7. \A i \in DOMAIN params : hints[i] \in Scalars
  BY <1>1, <1>4, <1>5, LookedUpType
<1>8. hints \in Seq(Scalars)
  BY <1>7
<1> HIDE DEF hints, rettype
<1> QED
  BY <1>1, <1>6, <1>8 DEF FunctionSignature, FunctionTypes

\* A literal has a scalar type, and the value a folded constant of it.
LEMMA LiteralTyped ==
  ASSUME NEW types, TypeNames(types), NEW signed, NEW bits \in 1..64
  PROVE  InferLiteral(types, signed, bits) \in Scalars
<1>1. \A n \in {"i8", "u8", "i16", "u16", "i32", "u32", "i64", "u64"} :
        LookupType(types, n) \in Scalars
  BY BuiltinTypesScalar DEF LookupType, TypeNames
<1> QED
  BY <1>1 DEF InferLiteral

\* The name of the type of truth values stands for it.
LEMMA BoolTyped ==
  ASSUME NEW types, TypeNames(types)
  PROVE  LookupType(types, "bool") = Bool /\ Bool \in Scalars
<1>1. BuiltinTypes["bool"] = Bool
  BY DEF BuiltinTypes
<1> QED
  BY <1>1, BuiltinTypesScalar DEF LookupType, TypeNames

\* A binary operation on scalars has the type of a scalar, or none; so has pow,
\* whatever its operands are.
LEMMA BinaryTyped ==
  ASSUME NEW types, TypeNames(types), NEW op \in BinaryOps, NEW l, NEW r,
         op = "pow" \/ {l, r} \subseteq Scalars \cup {Nullopt}
  PROVE  InferBinary(types, op, l, r) \in Scalars \cup {Nullopt}
<1>0. /\ "pow" \notin ArithmeticOps \cup ShiftOps \cup BooleanOps
      /\ ArithmeticOps \cap (ShiftOps \cup BooleanOps) = {} /\ ShiftOps \cap BooleanOps = {}
  BY DEF ArithmeticOps, ShiftOps, BooleanOps
<1>1. CASE l = Nullopt \/ r = Nullopt
  BY <1>1 DEF InferBinary
<1>2. CASE l # Nullopt /\ r # Nullopt /\ op = "pow"
  <2>1. LookupType(types, "f32") \in Scalars
    BY BuiltinTypesScalar DEF LookupType, TypeNames
  <2> QED
    BY <1>0, <1>2, <2>1 DEF InferBinary
<1>3. CASE l # Nullopt /\ r # Nullopt /\ op \in ArithmeticOps
  <2>1. InferBinary(types, op, l, r) = InferArithmetic(l, r)
    BY <1>0, <1>3 DEF InferBinary
  <2>2. l \in Scalars /\ r \in Scalars
    BY <1>0, <1>3
  <2> QED
    BY <2>1, <2>2 DEF InferArithmetic, LargerOr
<1>4. CASE l # Nullopt /\ r # Nullopt /\ op \in ShiftOps
  <2>1. InferBinary(types, op, l, r) = InferShift(l, r)
    BY <1>0, <1>4 DEF InferBinary
  <2>2. l \in Scalars
    BY <1>0, <1>4
  <2> QED
    BY <2>1, <2>2 DEF InferShift
<1>5. CASE l # Nullopt /\ r # Nullopt /\ op \in BooleanOps
  <2>1. InferBinary(types, op, l, r) = LookupType(types, "bool")
    BY <1>0, <1>5 DEF InferBinary
  <2> QED
    BY <2>1, BoolTyped
<1> QED
  BY <1>1, <1>2, <1>3, <1>4, <1>5 DEF BinaryOps

\* A comparison is a truth value, or has no type.
LEMMA ComparisonTyped ==
  ASSUME NEW types, TypeNames(types), NEW l, NEW r
  PROVE  InferComparison(types, l, r) \in Scalars \cup {Nullopt}
BY BoolTyped DEF InferComparison

--------------------------------------------------------------------------------
(* What a visit returns. *)

\* A type converts to a function type only if it is that very type.
LEMMA OnlyIdentityToFunctions ==
  ASSUME NEW t, NEW a \in FunctionTypes, TrySubtype(t, a) # NoRule
  PROVE  t = a /\ TrySubtype(t, a) = "identity"
<1>1. a.tag = "function" /\ a \notin {Bool, SingleFp, DoubleFp}
  BY DEF FunctionTypes, Bool, SingleFp, DoubleFp
<1>2. TrySubtype(t, a) \in SubtypingRule /\ Allows(TrySubtype(t, a), t, a)
  BY TrySubtypeAllowed
<1> QED
  BY <1>1, <1>2 DEF SubtypingRule, Allows

\* What this->subtype() makes of a result is a result of the target's type.
LEMMA ConvertedTyped ==
  ASSUME NEW r \in Results, NEW t \in Scalars \cup FunctionTypes,
         TrySubtype(r.type, t) # NoRule
  PROVE  Result(Converted(r, t), t) \in Results
<1> DEFINE rule == TrySubtype(r.type, t)
<1>0. r.val \in Values /\ r.val.const \in BOOLEAN
  <2>1. r.val \in Values
    BY DEF Results, Values
  <2>2. NullValue.const \in BOOLEAN
    BY DEF NullValue
  <2>3. \A v \in [ty : LlvmScalars, const : BOOLEAN] : v.const \in BOOLEAN
    OBVIOUS
  <2> QED
    BY <2>1, <2>2, <2>3 DEF Values
<1>1. CASE t \in FunctionTypes
  <2>1. r.type = t /\ rule = "identity"
    BY <1>1, OnlyIdentityToFunctions
  <2>2. t \notin Scalars \cup {Nullopt}
    BY <1>1, ScalarTags DEF FunctionTypes, IsFunction, Nullopt
  <2>3. r.val = NullValue
    BY <2>1, <2>2 DEF Results
  <2>4. Converted(r, t) = NullValue
    BY <2>1, <2>3 DEF Converted, Convert
  <2> QED
    BY <1>1, <2>4 DEF Result, Results
<1>2. CASE t \in Scalars
  <2>1. \A ty \in LlvmScalars : Value(ty, r.val.const) \in Values
    BY <1>0 DEF Values, Value
  <2>2. LlvmType(t) \in LlvmScalars /\ IntTy(1) \in LlvmScalars
    BY <1>2, LlvmTypeOfScalar DEF LlvmScalars
  <2>3. Converted(r, t) \in Values
    <3>1. CASE rule = "identity"
      BY <1>0, <3>1 DEF Converted, Convert
    <3>2. CASE rule = "numeric_to_bool"
      <4>1. Converted(r, t) = Value(IntTy(1), r.val.const)
        BY <3>2 DEF Converted, Convert
      <4> QED
        BY <2>1, <2>2, <4>1
    <3>3. CASE rule \notin {"identity", "numeric_to_bool"}
      <4>1. Converted(r, t) = Value(LlvmType(t), r.val.const)
        BY <3>3 DEF Converted, Convert
      <4> QED
        BY <2>1, <2>2, <4>1
    <3> QED
      BY <3>1, <3>2, <3>3
  <2> QED
    BY <1>2, <2>3 DEF Result, Results
<1> QED
  BY <1>1, <1>2

--------------------------------------------------------------------------------
(* The inductive invariant: what the environment, the LLVM module, the     *)
(* block, the walk and the flags are, each part apart.                     *)

EnvOK ==
  /\ TypeNames(typenames)
  /\ \A x \in DOMAIN symbols : symbols[x] \in Scalars \cup FunctionTypes

IrOK ==
  /\ scopes = <<scopes[1]>>
  /\ \A x \in DOMAIN scopes[1] :
        scopes[1][x].home \in 1..fn.home /\ scopes[1][x].ty \in LlvmScalars
  /\ \A f \in DOMAIN functions :
        functions[f] \in [kind : {"function"}, params : Seq(LlvmScalars), ret : LlvmScalars]
  /\ fn.home \in 0..MaxFunctions /\ fn.ret \in LlvmScalars
  /\ locals \subseteq VarNames

EmitOK ==
  /\ last \in {"empty", "instruction", "ret", "br"}
  /\ defects \subseteq {"operandTypes", "constantTypes", "badCall", "badPower", "calleeType", "badReturn",
                        "foreignValue", "afterTerminator", "noTerminator", "danglingBlock"}

\* A call that waits for an argument has a callee, and a parameter for it.
CallsOpen ==
  \A i \in 1..Len(frames) : frames[i].kind = "call" =>
    /\ frames[i].name \in DOMAIN symbols
    /\ symbols[frames[i].name] \in FunctionTypes
    /\ i < Len(frames) \/ result # NoResult =>
         Len(frames[i].done) < Len(symbols[frames[i].name].parameters)

WalkOK ==
  /\ frames \in Seq(Frames)
  /\ result \in Results \cup {NoResult}
  /\ CallsOpen

FlagsOK ==
  /\ reports \subseteq {"storage", "symbol", "inference", "conversion", "pow", "node"}
  /\ outcome \in {"running", "done", "threw", "undefined"}

\* Nodes are visited in a function.
InFunction == frames # <<>> => fn.home # 0

IInv == EnvOK /\ IrOK /\ EmitOK /\ WalkOK /\ FlagsOK

\* The invariant implies the type invariant, and the builtin names with it.
LEMMA IInvImplies == IInv => TypeOK /\ BuiltinNamesStable
BY DEF IInv, EnvOK, TypeNames, IrOK, EmitOK, WalkOK, FlagsOK, TypeOK, BuiltinNamesStable

\* The invariant holds at the start.
LEMMA IInvInit == Init => IInv
<1> SUFFICES ASSUME Init PROVE IInv
  OBVIOUS
<1>1. EnvOK
  <2>1. TypeNames(BuiltinTypes)
    BY BuiltinTypesScalar DEF TypeNames
  <2>2. \A x \in DOMAIN BuiltinSymbols : BuiltinSymbols[x] \in FunctionTypes
    <3>1. {SInt(64), UInt(64), SingleFp, Void} \subseteq Scalars
      BY DEF Scalars, ScalarTypes, NumericTypes, IntegerTypes
    <3>2. \A t \in Scalars : <<t>> \in Seq(Scalars)
      OBVIOUS
    <3>3. \A t \in Scalars : FunctionSignature(<<t>>, Void) \in FunctionTypes
      BY <3>1, <3>2 DEF FunctionSignature, FunctionTypes
    <3>4. \A x \in DOMAIN BuiltinSymbols : \E t \in Scalars :
            BuiltinSymbols[x] = FunctionSignature(<<t>>, Void)
      BY <3>1 DEF BuiltinSymbols
    <3> QED
      BY <3>3, <3>4
  <2> QED
    BY <2>1, <2>2 DEF Init, EnvOK
<1>2. IrOK
  <2>1. scopes = <<EmptyTable>> /\ scopes[1] = EmptyTable /\ DOMAIN EmptyTable = {}
    BY DEF Init, EmptyTable
  <2>2. fn.home = 0 /\ fn.ret = VoidTy /\ DOMAIN functions = {} /\ locals = {}
    BY DEF Init, NoFunction, EmptyTable
  <2> QED
    BY <2>1, <2>2, CodegenAssumption DEF IrOK, LlvmScalars
<1>3. EmitOK /\ FlagsOK
  BY DEF Init, EmitOK, FlagsOK
<1>4. WalkOK
  BY DEF Init, WalkOK, CallsOpen
<1> QED
  BY <1>1, <1>2, <1>3, <1>4 DEF IInv

--------------------------------------------------------------------------------
(* How a step changes the walk. *)

\* The nodes below the innermost one, and it, are nodes.
LEMMA InnermostFrame ==
  ASSUME frames \in Seq(Frames), frames # <<>>
  PROVE  /\ Len(frames) \in Nat \ {0} /\ Top \in Frames /\ Top = frames[Len(frames)]
         /\ Below \in Seq(Frames) /\ Len(Below) = Len(frames) - 1
         /\ \A i \in 1..(Len(frames) - 1) : Below[i] = frames[i]
<1>1. /\ Len(frames) \in Nat \ {0} /\ Len(frames) - 1 \in Int
      /\ \A i \in 1..Len(frames) : frames[i] \in Frames
  OBVIOUS
<1>2. \A i \in 1..(Len(frames) - 1) : frames[i] \in Frames
  BY <1>1
<1>3. /\ SubSeq(frames, 1, Len(frames) - 1) \in Seq(Frames)
      /\ Len(SubSeq(frames, 1, Len(frames) - 1)) = Len(frames) - 1
      /\ \A i \in 1..(Len(frames) - 1) : SubSeq(frames, 1, Len(frames) - 1)[i] = frames[i]
  <2> DEFINE n == Len(frames) - 1
  <2>1. n \in Nat /\ \A i \in 1..n : frames[i] \in Frames
    BY <1>1, <1>2
  <2> HIDE DEF n
  <2>2. /\ SubSeq(frames, 1, n) \in Seq(Frames)
        /\ Len(SubSeq(frames, 1, n)) = IF 1 <= n THEN n - 1 + 1 ELSE 0
        /\ \A i \in 1..(n - 1 + 1) : SubSeq(frames, 1, n)[i] = frames[1 + i - 1]
    BY <2>1, SubSeqProperties, Z3
  <2>3. Len(SubSeq(frames, 1, n)) = n /\ \A i \in 1..n : SubSeq(frames, 1, n)[i] = frames[i]
    BY <2>1, <2>2
  <2> QED
    BY <2>2, <2>3 DEF n
<1>4. Len(frames) \in 1..Len(frames)
  BY <1>1
<1> QED
  BY <1>1, <1>3, <1>4 DEF Top, Below

\* The walk goes down into a node.
LEMMA Descends ==
  ASSUME WalkOK, AtExpression \/ AtStatement, NEW f \in Frames, Visit(f),
         symbols' = symbols,
         f.kind = "call" => f.name \in DOMAIN symbols /\ symbols[f.name] \in FunctionTypes
  PROVE  WalkOK'
<1>1. frames \in Seq(Frames) /\ frames # <<>> /\ result = NoResult
  BY DEF WalkOK, AtExpression, AtStatement
<1>2. /\ Len(frames) \in Nat /\ Len(frames') = Len(frames) + 1
      /\ frames' \in Seq(Frames)
      /\ \A i \in 1..Len(frames) : frames'[i] = frames[i]
      /\ frames'[Len(frames) + 1] = f
  BY <1>1 DEF Visit
<1>3. Top.kind = "call" => Len(Top.done) < Len(symbols[Top.name].parameters)
  BY DEF AtExpression, AtStatement, BodyFrames
<1>4. CallsOpen'
  <2> SUFFICES ASSUME NEW i \in 1..Len(frames'), frames'[i].kind = "call"
               PROVE  /\ frames'[i].name \in DOMAIN symbols
                      /\ symbols[frames'[i].name] \in FunctionTypes
                      /\ i < Len(frames') \/ result' # NoResult =>
                           Len(frames'[i].done) < Len(symbols[frames'[i].name].parameters)
    BY DEF CallsOpen
  <2>1. CASE i = Len(frames) + 1
    BY <1>2, <2>1 DEF Visit
  <2>2. CASE i \in 1..(Len(frames) - 1)
    BY <1>2, <2>2 DEF WalkOK, CallsOpen
  <2>3. CASE i = Len(frames)
    BY <1>1, <1>2, <1>3, <2>3, InnermostFrame DEF WalkOK, CallsOpen
  <2> QED
    BY <1>2, <2>1, <2>2, <2>3
<1> QED
  BY <1>2, <1>4 DEF WalkOK, Visit

\* The visit of an expression that has no parts returns.
LEMMA Answers ==
  ASSUME WalkOK, AtExpression, frames' = frames, symbols' = symbols, result' \in Results
  PROVE  WalkOK'
<1>1. frames \in Seq(Frames) /\ frames # <<>>
  BY DEF WalkOK, AtExpression
<1>2. Top.kind = "call" => Len(Top.done) < Len(symbols[Top.name].parameters)
  BY DEF AtExpression
<1>3. CallsOpen'
  <2> SUFFICES ASSUME NEW i \in 1..Len(frames), frames[i].kind = "call"
               PROVE  /\ frames[i].name \in DOMAIN symbols
                      /\ symbols[frames[i].name] \in FunctionTypes
                      /\ Len(frames[i].done) < Len(symbols[frames[i].name].parameters)
    BY DEF CallsOpen
  <2>1. CASE i = Len(frames)
    BY <1>1, <1>2, <2>1, InnermostFrame DEF WalkOK, CallsOpen
  <2>2. CASE i # Len(frames)
    BY <1>1, <2>2 DEF WalkOK, CallsOpen
  <2> QED
    BY <2>1, <2>2
<1> QED
  BY <1>3 DEF WalkOK

\* The symbols of the next state extend the ones of this state.
SymbolsGrow == \A x \in DOMAIN symbols : x \in DOMAIN symbols' /\ symbols'[x] = symbols[x]

\* The walk goes up from a node, with or without an answer.
LEMMA Ascends ==
  ASSUME WalkOK, frames # <<>>, frames' = Below, SymbolsGrow,
         result' \in Results \cup {NoResult}
  PROVE  WalkOK'
<1>1. /\ Len(frames) \in Nat \ {0} /\ Below \in Seq(Frames)
      /\ Len(frames') = Len(frames) - 1
      /\ \A i \in 1..(Len(frames) - 1) : frames'[i] = frames[i]
  BY InnermostFrame DEF WalkOK
<1>2. CallsOpen'
  <2> SUFFICES ASSUME NEW i \in 1..Len(frames'), frames'[i].kind = "call"
               PROVE  /\ frames'[i].name \in DOMAIN symbols'
                      /\ symbols'[frames'[i].name] \in FunctionTypes
                      /\ Len(frames'[i].done) < Len(symbols'[frames'[i].name].parameters)
    BY DEF CallsOpen
  <2>1. i \in 1..Len(frames) /\ i < Len(frames) /\ frames'[i] = frames[i]
    BY <1>1
  <2>2. /\ frames[i].name \in DOMAIN symbols /\ symbols[frames[i].name] \in FunctionTypes
        /\ Len(frames[i].done) < Len(symbols[frames[i].name].parameters)
    BY <2>1 DEF WalkOK, CallsOpen
  <2> QED
    BY <2>1, <2>2 DEF SymbolsGrow
<1> QED
  BY <1>1, <1>2 DEF WalkOK

\* The innermost node becomes f.
TopBecomes(f) == frames' = [frames EXCEPT ![Len(frames)] = f]

\* The innermost node keeps what an operand of it gave, or goes on to its next
\* part.
LEMMA Stays ==
  ASSUME WalkOK, frames # <<>>, NEW f \in Frames, TopBecomes(f),
         f.name = Top.name, f.kind = Top.kind \/ f.kind # "call",
         symbols' = symbols, result' = NoResult
  PROVE  WalkOK'
<1>1. /\ Len(frames) \in Nat \ {0} /\ frames' \in Seq(Frames)
      /\ Len(frames') = Len(frames) /\ frames'[Len(frames)] = f
      /\ \A i \in 1..(Len(frames) - 1) : frames'[i] = frames[i]
  <2>1. Len(frames) \in Nat \ {0} /\ frames \in Seq(Frames)
    BY InnermostFrame DEF WalkOK
  <2> QED
    BY <2>1 DEF TopBecomes
<1>2. CallsOpen'
  <2> SUFFICES ASSUME NEW i \in 1..Len(frames'), frames'[i].kind = "call"
               PROVE  /\ frames'[i].name \in DOMAIN symbols
                      /\ symbols[frames'[i].name] \in FunctionTypes
                      /\ i < Len(frames') =>
                           Len(frames'[i].done) < Len(symbols[frames'[i].name].parameters)
    BY DEF CallsOpen
  <2>1. CASE i = Len(frames)
    <3>1. Top.kind = "call" /\ frames'[i].name = Top.name
      BY <1>1, <2>1
    <3>2. Len(frames) \in 1..Len(frames) /\ Top = frames[Len(frames)]
      BY <1>1 DEF Top
    <3> QED
      BY <1>1, <2>1, <3>1, <3>2 DEF WalkOK, CallsOpen
  <2>2. CASE i # Len(frames)
    BY <1>1, <2>2 DEF WalkOK, CallsOpen
  <2> QED
    BY <2>1, <2>2
<1> QED
  BY <1>1, <1>2 DEF WalkOK

--------------------------------------------------------------------------------
(* Every step keeps the invariant: first what steps have in common. *)

\* What a step leaves alone stays as it is.
LEMMA Kept ==
  /\ EnvOK /\ UNCHANGED envVars => EnvOK'
  /\ IrOK /\ UNCHANGED irVars => IrOK'
  /\ EmitOK /\ UNCHANGED emitVars => EmitOK'
<1>1. EnvOK /\ UNCHANGED envVars => EnvOK'
  BY DEF EnvOK, envVars
<1>2. IrOK /\ UNCHANGED irVars => IrOK'
  BY DEF IrOK, irVars
<1>3. EmitOK /\ UNCHANGED emitVars => EmitOK'
  BY DEF EmitOK, emitVars
<1> QED
  BY <1>1, <1>2, <1>3

Causes == {"storage", "symbol", "inference", "conversion", "pow", "node"}

\* A walk that stops leaves everything but its flags alone.
LEMMA StopKeeps ==
  ASSUME IInv, NEW how \in {"threw", "undefined"}, NEW causes \in SUBSET Causes,
         Stop(how, causes)
  PROVE  IInv'
<1>1. EnvOK' /\ IrOK' /\ EmitOK'
  BY Kept DEF IInv, Stop
<1>2. FlagsOK'
  BY DEF IInv, FlagsOK, Stop, Causes
<1>3. WalkOK'
  BY DEF Stop, WalkOK, CallsOpen
<1> QED
  BY <1>1, <1>2, <1>3 DEF IInv

\* So does one that throws or runs into undefined behaviour, reporting nothing or
\* a failed conversion.
LEMMA EndsKeep ==
  /\ IInv /\ Throw => IInv'
  /\ IInv /\ Undefined => IInv'
  /\ \A r, t : IInv /\ StopConversion(Conversion(r, t)) /\ Conversion(r, t) # "running" => IInv'
<1>1. {} \in SUBSET Causes /\ {"conversion"} \in SUBSET Causes
  BY DEF Causes
<1>2. IInv /\ Throw => IInv'
  BY <1>1, StopKeeps DEF Throw
<1>3. IInv /\ Undefined => IInv'
  BY <1>1, StopKeeps DEF Undefined
<1>4. ASSUME NEW r, NEW t, IInv, StopConversion(Conversion(r, t)), Conversion(r, t) # "running"
      PROVE  IInv'
  <2>1. Conversion(r, t) \in {"threw", "undefined"}
    BY <1>4 DEF Conversion
  <2> QED
    BY <1>1, <1>4, <2>1, StopKeeps DEF StopConversion
<1> QED
  BY <1>2, <1>3, <1>4

Found == {"operandTypes", "constantTypes", "badCall", "badPower", "calleeType", "badReturn", "foreignValue",
          "afterTerminator", "noTerminator", "danglingBlock"}

\* An instruction leaves the block in order.
LEMMA EmitKeeps ==
  ASSUME EmitOK, NEW instruction \in {"instruction", "ret"}, NEW folded,
         NEW found \in SUBSET Found, Emit(instruction, folded, found)
  PROVE  EmitOK'
BY DEF EmitOK, Emit, Found

--------------------------------------------------------------------------------
(* Expressions. *)

\* A literal keeps the invariant.
LEMMA VisitLiteralKeeps ==
  ASSUME IInv, NEW l \in Literals, VisitLiteral(l) PROVE IInv'
<1> DEFINE type == InferLiteral(typenames, l.signed, l.bits)
<1>1. type \in Scalars
  <2>1. l.bits \in 1..64
    BY CodegenAssumption
  <2> QED
    BY <2>1, LiteralTyped DEF IInv, EnvOK
<1>2. Result(Value(LlvmType(type), TRUE), type) \in Results
  <2>1. LlvmType(type) \in LlvmScalars
    BY <1>1, LlvmTypeOfScalar
  <2> HIDE DEF type
  <2> QED
    BY <1>1, <2>1 DEF Result, Value, Results, Values
<1>3. WalkOK'
  BY <1>2, Answers DEF IInv, VisitLiteral, Return, envVars
<1>4. EnvOK' /\ IrOK' /\ EmitOK' /\ FlagsOK'
  BY Kept DEF IInv, VisitLiteral, FlagsOK
<1> QED
  BY <1>3, <1>4 DEF IInv

\* So does a variable, found or not.
LEMMA VisitVariableKeeps ==
  ASSUME IInv, NEW x \in VarNames, VisitVariable(x) PROVE IInv'
<1> DEFINE storage == StackGet(scopes, x)
           type    == LookupSymbol(symbols, x)
           causes  == (IF storage = NoStorage THEN {"storage"} ELSE {})
                      \cup (IF type = Nullopt THEN {"symbol"} ELSE {})
           found   == IF storage.home = fn.home THEN {} ELSE {"foreignValue"}
<1>1. causes \in SUBSET Causes /\ found \in SUBSET Found
  BY DEF Causes, Found
<1>2. CASE type = Nullopt
  <2>1. Stop("threw", causes)
    BY <1>2 DEF VisitVariable
  <2> QED
    BY <1>1, <2>1, StopKeeps
<1>3. CASE type # Nullopt /\ (storage = NoStorage \/ IsFunction(type))
  <2>1. Stop("undefined", causes)
    BY <1>3 DEF VisitVariable
  <2> QED
    BY <1>1, <2>1, StopKeeps
<1>4. CASE type # Nullopt /\ ~(storage = NoStorage \/ IsFunction(type))
  <2>1. /\ AtExpression /\ Emit("instruction", FALSE, found)
        /\ Return(Value(LlvmType(type), FALSE), type)
        /\ UNCHANGED <<envVars, irVars, frames, reports, outcome>>
    BY <1>4 DEF VisitVariable
  <2>2. type \in Scalars
    BY <1>4 DEF IInv, EnvOK, LookupSymbol, FunctionTypes, IsFunction
  <2>3. Result(Value(LlvmType(type), FALSE), type) \in Results
    <3>1. LlvmType(type) \in LlvmScalars
      BY <2>2, LlvmTypeOfScalar
    <3> HIDE DEF type
    <3> QED
      BY <2>2, <3>1 DEF Result, Value, Results, Values
  <2>4. WalkOK'
    BY <2>1, <2>3, Answers DEF IInv, Return, envVars
  <2>5. EmitOK'
    BY <1>1, <2>1, EmitKeeps DEF IInv
  <2>6. EnvOK' /\ IrOK' /\ FlagsOK'
    BY <2>1, Kept DEF IInv, FlagsOK
  <2> QED
    BY <2>4, <2>5, <2>6 DEF IInv
<1> QED
  BY <1>2, <1>3, <1>4

\* What inference gives an operand that is not visited is a type, or none.
LEMMA OperandTyped ==
  ASSUME IInv, NEW type \in OperandTypes
  PROVE  Result(NullValue, type) \in Results
<1>1. \A l \in Literals : InferLiteral(typenames, l.signed, l.bits) \in Scalars
  <2>1. \A l \in Literals : l.bits \in 1..64
    BY CodegenAssumption
  <2> QED
    BY <2>1, LiteralTyped DEF IInv, EnvOK
<1>2. \A x : LookupSymbol(symbols, x) \in Scalars \cup FunctionTypes \cup {Nullopt}
  BY DEF LookupSymbol, IInv, EnvOK
<1>3. \A f : (f \in DOMAIN symbols => IsFunction(symbols[f]))
               => InferCall(symbols, f) \in Scalars \cup {Nullopt}
  <2>1. \A t \in Scalars \cup FunctionTypes : IsFunction(t) => t.rettype \in Scalars
    BY ScalarTags DEF FunctionTypes
  <2> QED
    BY <2>1 DEF InferCall, IInv, EnvOK
<1>4. type \in Scalars \cup FunctionTypes \cup {Nullopt}
  BY <1>1, <1>2, <1>3 DEF OperandTypes
<1> QED
  BY <1>4 DEF Result, Results, Values

\* A unary operator keeps the invariant: it has a type, and no value.
LEMMA VisitUnaryKeeps ==
  ASSUME IInv, VisitUnary PROVE IInv'
<1>1. result' \in Results
  BY OperandTyped DEF VisitUnary, Return
<1>2. WalkOK'
  BY <1>1, Answers DEF IInv, VisitUnary, envVars
<1>3. EnvOK' /\ IrOK' /\ EmitOK'
  BY Kept DEF IInv, VisitUnary
<1>4. FlagsOK'
  BY DEF IInv, VisitUnary, FlagsOK
<1> QED
  BY <1>2, <1>3, <1>4 DEF IInv

\* A node that is entered has kept nothing yet.
LEMMA LetTyped ==
  ASSUME NEW x \in VarNames, NEW hint \in Hints
  PROVE  Frame("let", x, hint) \in Frames /\ Frame("let", x, hint).kind = "let"
<1>0. <<>> \in Seq(Results)
  BY EmptySeq
<1> QED
  BY <1>0 DEF Frame, Frames

\* So has any other node.
LEMMA FrameTyped ==
  ASSUME NEW kind \in {"binary", "call", "discard", "return", "if", "function"},
         NEW name \in Operators \cup Callees \cup {""}, NEW hint \in Hints \cup {""}
  PROVE  Frame(kind, name, hint) \in Frames
<1> DEFINE names == Operators \cup Callees \cup {""}
           hints == Hints \cup {""}
           kinds == (ExprFrames \ {"let"}) \cup BodyFrames \cup {"orelse"}
<1>0. <<>> \in Seq(Results)
  BY EmptySeq
<1>1. name \in names /\ hint \in hints
  OBVIOUS
<1>2. kind \in kinds
  BY DEF ExprFrames, BodyFrames
<1>3. [kind : kinds, name : names, hint : hints, done : Seq(Results)] \subseteq Frames
  BY DEF Frames
<1> HIDE DEF kinds, names, hints
<1> QED
  BY <1>0, <1>1, <1>2, <1>3 DEF Frame

\* Entering a node that is no call keeps the invariant.
LEMMA VisitKeeps ==
  ASSUME IInv, AtExpression \/ AtStatement, NEW f \in Frames, Visit(f),
         f.kind = "call" => f.name \in DOMAIN symbols /\ symbols[f.name] \in FunctionTypes,
         UNCHANGED <<envVars, irVars, emitVars, reports, outcome>>
  PROVE  IInv'
<1>1. WalkOK'
  BY Descends DEF IInv, envVars
<1>2. EnvOK' /\ IrOK' /\ EmitOK'
  BY Kept DEF IInv
<1>3. FlagsOK'
  BY DEF IInv, FlagsOK
<1> QED
  BY <1>1, <1>2, <1>3 DEF IInv

\* Entering a binary operation keeps the invariant.
LEMMA EnterBinaryKeeps ==
  ASSUME IInv, NEW op \in Operators, EnterBinary(op) PROVE IInv'
<1>1. PICK hint \in Hints \cup {""} : Visit(Frame("binary", op, hint))
  BY DEF EnterBinary
<1>2. Frame("binary", op, hint) \in Frames
  BY FrameTyped
<1>3. Frame("binary", op, hint).kind # "call"
  BY DEF Frame
<1> QED
  BY <1>1, <1>2, <1>3, VisitKeeps DEF EnterBinary

\* The innermost node with other parts kept.
LEMMA DoneBecomes ==
  ASSUME WalkOK, frames # <<>>, NEW d \in Seq(Results),
         frames' = [frames EXCEPT ![Len(frames)].done = d],
         symbols' = symbols, result' = NoResult
  PROVE  WalkOK'
<1> DEFINE f == [Top EXCEPT !.done = d]
<1>1. Top \in Frames
  BY InnermostFrame DEF WalkOK
<1>2. f \in Frames /\ f.name = Top.name /\ f.kind = Top.kind
  BY <1>1 DEF Frames
<1>3. TopBecomes(f)
  BY DEF TopBecomes, Top
<1> HIDE DEF f
<1> QED
  BY <1>2, <1>3, Stays

\* Keeping a left operand keeps the invariant.
LEMMA KeepLeftKeeps ==
  ASSUME IInv, KeepLeft PROVE IInv'
<1>1. CASE result.type = Nullopt /\ Top.name # "comparison"
  BY <1>1, EndsKeep DEF KeepLeft
<1>2. CASE ~(result.type = Nullopt /\ Top.name # "comparison")
  <2>1. /\ frames # <<>> /\ result # NoResult
        /\ frames' = [frames EXCEPT ![Len(frames)].done = <<result>>]
        /\ result' = NoResult /\ UNCHANGED <<envVars, irVars, emitVars, reports, outcome>>
    BY <1>2 DEF KeepLeft, Returned
  <2>2. <<result>> \in Seq(Results)
    BY <2>1 DEF IInv, WalkOK
  <2>3. WalkOK'
    BY <2>1, <2>2, DoneBecomes DEF IInv, envVars
  <2>4. EnvOK' /\ IrOK' /\ EmitOK'
    BY <2>1, Kept DEF IInv
  <2>5. FlagsOK'
    BY <2>1 DEF IInv, FlagsOK
  <2> QED
    BY <2>3, <2>4, <2>5 DEF IInv
<1> QED
  BY <1>1, <1>2

\* A conversion to a named type keeps the invariant.
LEMMA CastAsKeeps ==
  ASSUME IInv, CastAs PROVE IInv'
<1> DEFINE target == IF Top.hint = "" THEN Nullopt ELSE LookupType(typenames, Top.hint)
           how    == Conversion(result, target)
<1>0. frames # <<>> /\ result # NoResult /\ result \in Results
  BY DEF CastAs, Returned, IInv, WalkOK
<1>1. CASE result.type = Nullopt \/ target = Nullopt
  <2>1. Throw
    BY <1>1 DEF CastAs
  <2> QED
    BY <2>1, EndsKeep
<1>2. CASE ~(result.type = Nullopt \/ target = Nullopt) /\ how # "running"
  <2>1. StopConversion(how)
    BY <1>2 DEF CastAs
  <2> QED
    BY <1>2, <2>1, EndsKeep
<1>3. CASE ~(result.type = Nullopt \/ target = Nullopt) /\ how = "running"
  <2>1. /\ Emit("instruction", ConversionFolded(result, target), {})
        /\ Return(Converted(result, target), target)
        /\ frames' = Below
        /\ UNCHANGED <<envVars, irVars, reports, outcome>>
    BY <1>3 DEF CastAs
  <2>2. target \in Scalars \cup FunctionTypes
    BY <1>3, LookedUpType DEF IInv, EnvOK
  <2>3. TrySubtype(result.type, target) # NoRule
    BY <1>3 DEF Conversion
  <2>4. result' \in Results
    BY <1>0, <2>1, <2>2, <2>3, ConvertedTyped DEF Return
  <2>5. WalkOK'
    BY <1>0, <2>1, <2>4, Ascends DEF IInv, envVars, SymbolsGrow
  <2>6. EmitOK'
    <3>1. {} \in SUBSET Found
      OBVIOUS
    <3> QED
      BY <2>1, <3>1, EmitKeeps DEF IInv
  <2>7. EnvOK' /\ IrOK' /\ FlagsOK'
    BY <2>1, Kept DEF IInv, FlagsOK
  <2> QED
    BY <2>5, <2>6, <2>7 DEF IInv
<1> QED
  BY <1>1, <1>2, <1>3

\* The two operands of a binary operation are results, and one with a value is
\* no function.
LEMMA Operands ==
  ASSUME IInv, NEW ops, ReturnedRight(ops)
  PROVE  /\ frames # <<>> /\ Lhs \in Results /\ result \in Results
         /\ \A r \in {Lhs, result} : r.val # NullValue =>
              r.type \in Scalars \cup {Nullopt} /\ r.val.ty \in LlvmScalars
         /\ Top.name \in ops
<1>1. frames # <<>> /\ result # NoResult /\ Top.done # <<>> /\ Top.name \in ops
  BY DEF ReturnedRight, Returned
<1>2. Top \in Frames
  BY <1>1, InnermostFrame DEF IInv, WalkOK
<1>3. Top.done \in Seq(Results)
  BY <1>2 DEF Frames
<1>4. Lhs \in Results
  BY <1>1, <1>3 DEF Lhs
<1>5. \A r \in Results : r.val # NullValue =>
        r.type \in Scalars \cup {Nullopt} /\ r.val.ty \in LlvmScalars
  BY DEF Results, Values
<1> QED
  BY <1>1, <1>4, <1>5 DEF IInv, WalkOK

\* An instruction on two operands keeps the invariant.
LEMMA EmitBinaryKeeps ==
  ASSUME IInv, NEW ops \in SUBSET (BinaryOps \cup {"comparison"}), ReturnedRight(ops),
         NEW type \in LlvmScalars, NEW folded \in BOOLEAN, NEW found \in SUBSET Found,
         Top.name \notin {"pow", "comparison"} => NullValue \notin {Lhs.val, result.val},
         EmitBinary(type, folded, found)
  PROVE  IInv'
<1> DEFINE inferred == IF Top.name = "comparison"
                       THEN InferComparison(typenames, Lhs.type, result.type)
                       ELSE InferBinary(typenames, Top.name, Lhs.type, result.type)
<1>0. CASE Undefined
  BY <1>0, EndsKeep
<1> SUFFICES ASSUME ~Undefined PROVE IInv'
  BY <1>0
<1>1. /\ Emit("instruction", folded, found)
      /\ Return(Value(type, folded), inferred)
      /\ frames' = Below
      /\ UNCHANGED <<envVars, irVars, reports, outcome>>
  BY DEF EmitBinary
<1>2. inferred \in Scalars \cup {Nullopt}
  <2>1. TypeNames(typenames)
    BY DEF IInv, EnvOK
  <2>2. Top.name \in BinaryOps \cup {"comparison"}
    BY Operands
  <2>3. Top.name \notin {"pow", "comparison"} => {Lhs.type, result.type} \subseteq Scalars \cup {Nullopt}
    BY Operands
  <2>4. Top.name # "comparison" =>
          InferBinary(typenames, Top.name, Lhs.type, result.type) \in Scalars \cup {Nullopt}
    BY <2>1, <2>2, <2>3, BinaryTyped
  <2> QED
    BY <2>1, <2>4, ComparisonTyped
<1>3. result' \in Results
  <2> HIDE DEF inferred
  <2>1. Value(type, folded) \in Values
    BY DEF Value, Values
  <2> QED
    BY <1>1, <1>2, <2>1 DEF Return, Result, Results
<1>4. WalkOK'
  BY <1>1, <1>3, Operands, Ascends DEF IInv, envVars, SymbolsGrow
<1>5. EmitOK'
  BY <1>1, EmitKeeps DEF IInv
<1>6. EnvOK' /\ IrOK' /\ FlagsOK'
  BY <1>1, Kept DEF IInv, FlagsOK
<1> QED
  BY <1>4, <1>5, <1>6 DEF IInv

\* Arithmetic keeps the invariant.
LEMMA EmitArithmeticKeeps ==
  ASSUME IInv, EmitArithmetic PROVE IInv'
<1> DEFINE ops   == ArithmeticOps \cup ShiftOps
           found == IF Lhs.val.ty = result.val.ty /\ Lhs.val.ty.kind = "integer"
                    THEN {} ELSE {Misfit}
<1>0. ReturnedRight(ops) /\ ops \in SUBSET (BinaryOps \cup {"comparison"})
  BY DEF EmitArithmetic, BinaryOps
<1>1. CASE NullValue \in {Lhs.val, result.val}
  <2>1. Undefined
    BY <1>1 DEF EmitArithmetic
  <2> QED
    BY <2>1, EndsKeep
<1>2. CASE NullValue \notin {Lhs.val, result.val}
  <2>1. PICK type \in {Lhs.val.ty, result.val.ty} : EmitBinary(type, BothFolded, found)
    BY <1>2 DEF EmitArithmetic
  <2>2. type \in LlvmScalars
    BY <1>0, <1>2, <2>1, Operands
  <2>3. BothFolded \in BOOLEAN
    BY DEF BothFolded
  <2>4. found \in SUBSET Found
    BY DEF Found, Misfit
  <2> HIDE DEF ops, found
  <2> QED
    BY <1>0, <1>2, <2>1, <2>2, <2>3, <2>4, EmitBinaryKeeps
<1> QED
  BY <1>1, <1>2

\* A power keeps the invariant, computed or reported.
LEMMA EmitPowerKeeps ==
  ASSUME IInv, EmitPower PROVE IInv'
<1> DEFINE floats  == Lhs.type = SingleFp /\ result.type = SingleFp
           doubles == Lhs.type = DoubleFp /\ result.type = DoubleFp
           found   == IF Lhs.val.ty = FloatTy /\ result.val.ty = FloatTy
                      THEN {} ELSE {"badPower"}
           untyped == Lhs.type \in {SingleFp, DoubleFp} /\ result.type = Nullopt
           nulls   == NullValue \in {Lhs.val, result.val}
<1>0. /\ ReturnedRight({"pow"}) /\ {"pow"} \in SUBSET (BinaryOps \cup {"comparison"})
      /\ Top.name = "pow"
  BY DEF EmitPower, BinaryOps, ReturnedRight
<1>1. CASE untyped
  <2>0. ~floats /\ ~doubles
    BY <1>1 DEF SingleFp, DoubleFp, Nullopt
  <2>1. Throw
    BY <1>1, <2>0 DEF EmitPower
  <2> QED
    BY <2>1, EndsKeep
<1>2. CASE ~untyped /\ (floats \/ doubles) /\ nulls
  <2>1. Undefined
    BY <1>2 DEF EmitPower
  <2> QED
    BY <2>1, EndsKeep
<1>3. CASE ~untyped /\ (floats \/ doubles) /\ ~nulls
  <2>1. EmitBinary(FloatTy, FALSE, found)
    BY <1>3 DEF EmitPower
  <2>2. FloatTy \in LlvmScalars /\ FALSE \in BOOLEAN
    BY DEF LlvmScalars
  <2>3. found \in SUBSET Found
    BY DEF Found
  <2> HIDE DEF found
  <2> QED
    BY <1>0, <2>1, <2>2, <2>3, EmitBinaryKeeps
<1>4. CASE ~untyped /\ ~(floats \/ doubles)
  <2> DEFINE type == InferBinary(typenames, "pow", Lhs.type, result.type)
  <2>1. /\ Return(NullValue, type)
        /\ reports' = reports \cup {"pow"} /\ frames' = Below
        /\ UNCHANGED <<envVars, irVars, emitVars, outcome>>
    BY <1>4 DEF EmitPower
  <2>2. type \in Scalars \cup {Nullopt}
    BY BinaryTyped DEF IInv, EnvOK, BinaryOps
  <2>3. result' \in Results
    <3> HIDE DEF type
    <3> QED
      BY <2>1, <2>2 DEF Return, Result, Results, Values
  <2>4. WalkOK'
    BY <1>0, <2>1, <2>3, Operands, Ascends DEF IInv, envVars, SymbolsGrow
  <2>5. EnvOK' /\ IrOK' /\ EmitOK'
    BY <2>1, Kept DEF IInv
  <2>6. FlagsOK'
    BY <2>1 DEF IInv, FlagsOK
  <2> QED
    BY <2>4, <2>5, <2>6 DEF IInv
<1> QED
  BY <1>1, <1>2, <1>3, <1>4

\* A boolean operation keeps the invariant.
LEMMA EmitBooleanKeeps ==
  ASSUME IInv, EmitBoolean PROVE IInv'
<1> DEFINE bool  == LookupType(typenames, "bool")
           found == IF Converted(Lhs, bool).ty = Converted(result, bool).ty
                    THEN {} ELSE {Misfit}
<1>0. ReturnedRight(BooleanOps) /\ BooleanOps \in SUBSET (BinaryOps \cup {"comparison"})
  BY DEF EmitBoolean, BinaryOps
<1>1. CASE Conversion(Lhs, bool) # "running"
  <2>1. StopConversion(Conversion(Lhs, bool))
    BY <1>1 DEF EmitBoolean
  <2> QED
    BY <1>1, <2>1, EndsKeep
<1>2. CASE Conversion(Lhs, bool) = "running" /\ result.type = Nullopt
  <2>1. Throw
    BY <1>2 DEF EmitBoolean
  <2> QED
    BY <2>1, EndsKeep
<1>3. CASE /\ Conversion(Lhs, bool) = "running" /\ result.type # Nullopt
           /\ Conversion(result, bool) # "running"
  <2>1. StopConversion(Conversion(result, bool))
    BY <1>3 DEF EmitBoolean
  <2> QED
    BY <1>3, <2>1, EndsKeep
<1>4. CASE /\ Conversion(Lhs, bool) = "running" /\ result.type # Nullopt
           /\ Conversion(result, bool) = "running"
  <2>1. IF NullValue \in {Lhs.val, result.val}
        THEN Undefined ELSE EmitBinary(IntTy(1), BothFolded, found)
    BY <1>4 DEF EmitBoolean
  <2>2. CASE NullValue \in {Lhs.val, result.val}
    BY <2>1, <2>2, EndsKeep
  <2>3. CASE NullValue \notin {Lhs.val, result.val}
    <3>1. IntTy(1) \in LlvmScalars /\ BothFolded \in BOOLEAN
      BY DEF LlvmScalars, BothFolded
    <3>2. found \in SUBSET Found
      BY DEF Found, Misfit
    <3> HIDE DEF found
    <3> QED
      BY <1>0, <2>1, <2>3, <3>1, <3>2, EmitBinaryKeeps
  <2> QED
    BY <2>2, <2>3
<1> QED
  BY <1>1, <1>2, <1>3, <1>4

\* A comparison keeps the invariant.
LEMMA EmitComparisonKeeps ==
  ASSUME IInv, EmitComparison PROVE IInv'
<1> DEFINE comparable == /\ Lhs.type.tag = result.type.tag
                         /\ Lhs.type.tag \in {"sint", "uint", "single_fp", "double_fp"}
           untyped    == Nullopt \in {Lhs.type, result.type}
           found      == IF Lhs.val.ty = result.val.ty THEN {} ELSE {Misfit}
<1>0. /\ ReturnedRight({"comparison"}) /\ {"comparison"} \in SUBSET (BinaryOps \cup {"comparison"})
      /\ Top.name = "comparison"
  BY DEF EmitComparison, ReturnedRight
<1>1. CASE untyped \/ ~comparable
  <2>1. Throw
    BY <1>1 DEF EmitComparison
  <2> QED
    BY <2>1, EndsKeep
<1>2. CASE ~untyped /\ comparable
  <2>1. IF NullValue \in {Lhs.val, result.val}
        THEN Undefined ELSE EmitBinary(IntTy(1), BothFolded, found)
    BY <1>2 DEF EmitComparison
  <2>2. CASE NullValue \in {Lhs.val, result.val}
    BY <2>1, <2>2, EndsKeep
  <2>3. CASE NullValue \notin {Lhs.val, result.val}
    <3>1. IntTy(1) \in LlvmScalars /\ BothFolded \in BOOLEAN
      BY DEF LlvmScalars, BothFolded
    <3>2. found \in SUBSET Found
      BY DEF Found, Misfit
    <3> HIDE DEF found
    <3> QED
      BY <1>0, <2>1, <2>3, <3>1, <3>2, EmitBinaryKeeps
  <2> QED
    BY <2>2, <2>3
<1> QED
  BY <1>1, <1>2

--------------------------------------------------------------------------------
(* Calls. *)

\* Entering a call keeps the invariant.
LEMMA EnterCallKeeps ==
  ASSUME IInv, NEW callee \in Callees, EnterCall(callee) PROVE IInv'
<1>1. CASE callee \notin DOMAIN symbols
  <2>1. Throw
    BY <1>1 DEF EnterCall
  <2> QED
    BY <2>1, EndsKeep
<1>2. CASE callee \in DOMAIN symbols /\ ~IsFunction(symbols[callee])
  <2>1. Undefined
    BY <1>2 DEF EnterCall
  <2> QED
    BY <2>1, EndsKeep
<1>3. CASE callee \in DOMAIN symbols /\ IsFunction(symbols[callee])
  <2>1. CASE Throw
    BY <2>1, EndsKeep
  <2>2. CASE /\ Visit(Frame("call", callee, ""))
             /\ UNCHANGED <<envVars, irVars, emitVars, reports, outcome>>
    <3>1. symbols[callee] \in FunctionTypes
      BY <1>3, ScalarTags DEF IInv, EnvOK
    <3>2. Frame("call", callee, "") \in Frames /\ Frame("call", callee, "").name = callee
      <4>1. Frame("call", callee, "") \in Frames
        BY FrameTyped
      <4>2. Frame("call", callee, "").name = callee
        BY DEF Frame
      <4> QED
        BY <4>1, <4>2
    <3> QED
      BY <1>3, <2>2, <3>1, <3>2, VisitKeeps DEF EnterCall
  <2> QED
    BY <1>3, <2>1, <2>2 DEF EnterCall
<1> QED
  BY <1>1, <1>2, <1>3

\* The innermost node of a call that an argument of has just returned.
LEMMA OpenCall ==
  ASSUME IInv, frames # <<>>, Top.kind = "call"
  PROVE  /\ Top \in Frames /\ Top.done \in Seq(Results)
         /\ Top.name \in DOMAIN symbols /\ symbols[Top.name] \in FunctionTypes
         /\ result # NoResult => Len(Top.done) < Len(symbols[Top.name].parameters)
<1>1. Len(frames) \in 1..Len(frames) /\ Top = frames[Len(frames)] /\ Top \in Frames
  BY InnermostFrame DEF IInv, WalkOK
<1>2. Top.done \in Seq(Results)
  BY <1>1 DEF Frames
<1> QED
  BY <1>1, <1>2 DEF IInv, WalkOK, CallsOpen

\* Passing an argument keeps the invariant.
LEMMA PassArgumentKeeps ==
  ASSUME IInv, PassArgument PROVE IInv'
<1> DEFINE params == symbols[Top.name].parameters
           target == params[Len(Top.done) + 1]
           how    == Conversion(result, target)
           passed == Result(Converted(result, target), target)
<1>0. /\ frames # <<>> /\ Top.kind = "call" /\ result # NoResult /\ result \in Results
      /\ Top.done \in Seq(Results)
  BY OpenCall DEF PassArgument, Returned, IInv, WalkOK
<1>1. target \in Scalars
  <2>1. params \in Seq(Scalars)
    BY <1>0, OpenCall DEF FunctionTypes
  <2>2. Len(Top.done) + 1 \in 1..Len(params)
    BY <1>0, <2>1, OpenCall
  <2> QED
    BY <2>1, <2>2
<1>2. CASE result.type = Nullopt
  <2>1. Throw
    BY <1>2 DEF PassArgument
  <2> QED
    BY <2>1, EndsKeep
<1>3. CASE result.type # Nullopt /\ how # "running"
  <2>1. StopConversion(how)
    BY <1>3 DEF PassArgument
  <2> QED
    BY <1>3, <2>1, EndsKeep
<1>4. CASE result.type # Nullopt /\ how = "running"
  <2>1. /\ Emit("instruction", ConversionFolded(result, target), {})
        /\ frames' = [frames EXCEPT ![Len(frames)].done = Append(@, passed)]
        /\ result' = NoResult
        /\ UNCHANGED <<envVars, irVars, reports, outcome>>
    BY <1>4 DEF PassArgument
  <2>2. passed \in Results
    <3>1. TrySubtype(result.type, target) # NoRule
      BY <1>4 DEF Conversion
    <3> QED
      BY <1>0, <1>1, <3>1, ConvertedTyped
  <2> HIDE DEF passed, target
  <2>3. frames' = [frames EXCEPT ![Len(frames)].done = Append(Top.done, passed)]
    BY <2>1 DEF Top
  <2>4. Append(Top.done, passed) \in Seq(Results)
    BY <1>0, <2>2
  <2>5. WalkOK'
    BY <1>0, <2>1, <2>3, <2>4, DoneBecomes DEF IInv, envVars
  <2>6. EmitOK'
    <3>1. {} \in SUBSET Found
      OBVIOUS
    <3> QED
      BY <2>1, <3>1, EmitKeeps DEF IInv
  <2>7. EnvOK' /\ IrOK' /\ FlagsOK'
    BY <2>1, Kept DEF IInv, FlagsOK
  <2> QED
    BY <2>5, <2>6, <2>7 DEF IInv
<1> QED
  BY <1>2, <1>3, <1>4

\* What a call takes and gives has LLVM's types.
LEMMA CalledTyped ==
  ASSUME IrOK, NEW name \in DOMAIN BuiltinFunction \cup DOMAIN functions
  PROVE  CalledFunction(name).signature
           \in [kind : {"function"}, params : Seq(LlvmScalars), ret : LlvmScalars]
<1>1. CASE name \in DOMAIN BuiltinFunction
  <2>1. VoidTy \in LlvmScalars /\ {IntTy(64), FloatTy, DoubleTy} \subseteq LlvmScalars
    BY DEF LlvmScalars
  <2>2. \A t \in LlvmScalars : <<t>> \in Seq(LlvmScalars)
    OBVIOUS
  <2>3. \A t \in LlvmScalars : FunctionTy(<<t>>, VoidTy)
           \in [kind : {"function"}, params : Seq(LlvmScalars), ret : LlvmScalars]
    BY <2>1, <2>2 DEF FunctionTy
  <2>4. \E t \in LlvmScalars : BuiltinFunction[name].signature = FunctionTy(<<t>>, VoidTy)
    BY <1>1, <2>1 DEF BuiltinFunction
  <2> QED
    BY <1>1, <2>3, <2>4 DEF CalledFunction
<1>2. CASE name \notin DOMAIN BuiltinFunction
  BY <1>2 DEF CalledFunction, IrOK
<1> QED
  BY <1>1, <1>2

\* Making a call keeps the invariant.
LEMMA CompleteCallKeeps ==
  ASSUME IInv, CompleteCall PROVE IInv'
<1> DEFINE nulls  == \E i \in DOMAIN Top.done : Top.done[i].val = NullValue
           called == CalledFunction(Top.name)
           passed == [i \in DOMAIN Top.done |-> Top.done[i].val.ty]
           found  == (IF passed = called.signature.params THEN {} ELSE {"badCall"})
                     \cup (IF functions'[called.name] = called.signature
                           THEN {} ELSE {"calleeType"})
<1>0. frames # <<>> /\ Top.kind = "call"
  BY DEF CompleteCall
<1>1. CASE Top.name \notin DOMAIN BuiltinFunction \cup DOMAIN functions
  <2>1. Throw
    BY <1>1 DEF CompleteCall
  <2> QED
    BY <2>1, EndsKeep
<1>2. CASE Top.name \in DOMAIN BuiltinFunction \cup DOMAIN functions /\ nulls
  <2>1. Undefined
    BY <1>2 DEF CompleteCall
  <2> QED
    BY <2>1, EndsKeep
<1>3. CASE Top.name \in DOMAIN BuiltinFunction \cup DOMAIN functions /\ ~nulls
  <2>1. /\ functions' = Emplace(functions, called.name, called.signature)
        /\ Emit("instruction", FALSE, found)
        /\ Return(Value(called.signature.ret, FALSE), InferCall(symbols, Top.name))
        /\ frames' = Below
        /\ UNCHANGED <<envVars, scopes, fn, locals, reports, outcome>>
    BY <1>3 DEF CompleteCall
  <2>2. called.signature \in [kind : {"function"}, params : Seq(LlvmScalars), ret : LlvmScalars]
    BY <1>3, CalledTyped DEF IInv
  <2>3. InferCall(symbols, Top.name) \in Scalars
    BY <1>0, OpenCall DEF InferCall, FunctionTypes
  <2>4. result' \in Results
    <3>1. called.signature.ret \in LlvmScalars
      BY <2>2
    <3> HIDE DEF called
    <3> QED
      BY <2>1, <2>3, <3>1 DEF Return, Result, Value, Results, Values
  <2>5. WalkOK'
    BY <1>0, <2>1, <2>4, Ascends DEF IInv, envVars, SymbolsGrow
  <2>6. found \in SUBSET Found
    BY DEF Found
  <2>7. EmitOK'
    <3> HIDE DEF found
    <3> QED
      BY <2>1, <2>6, EmitKeeps DEF IInv
  <2>8. IrOK'
    <3> HIDE DEF called
    <3> QED
      BY <2>1, <2>2 DEF IInv, IrOK, Emplace, InsertOrAssign
  <2>9. EnvOK' /\ FlagsOK'
    BY <2>1, Kept DEF IInv, FlagsOK
  <2> QED
    BY <2>5, <2>7, <2>8, <2>9 DEF IInv
<1> QED
  BY <1>1, <1>2, <1>3

--------------------------------------------------------------------------------
(* Statements. *)

\* Storage put into the one scope there is.
LEMMA PutIntoOneScope ==
  ASSUME NEW table, NEW name, NEW storage
  PROVE  StackPut(<<table>>, name, storage) = <<InsertOrAssign(table, name, storage)>>
<1>1. Len(<<table>>) = 1 /\ <<table>>[1] = table /\ DOMAIN <<table>> = {1}
  OBVIOUS
<1>2. StackPut(<<table>>, name, storage)
        = [i \in {1} |-> InsertOrAssign(table, name, storage)]
  BY <1>1 DEF StackPut
<1>3. \A value : [i \in {1} |-> value] = <<value>>
  OBVIOUS
<1> QED
  BY <1>2, <1>3

\* Entering a statement keeps the invariant.
LEMMA EnterStatementKeeps ==
  ASSUME IInv, NEW kind \in Statements, EnterStatement(kind) PROVE IInv'
<1>1. PICK f \in Frames : Visit(f) /\ f.kind # "call"
  <2>1. CASE kind = "let"
    <3>1. PICK x \in VarNames, hint \in Hints : Visit(Frame("let", x, hint))
      BY <2>1 DEF EnterStatement
    <3>2. Frame("let", x, hint) \in Frames /\ Frame("let", x, hint).kind = "let"
      BY LetTyped
    <3> QED
      BY <3>1, <3>2
  <2>2. CASE kind # "let"
    <3>1. Visit(Frame(kind, "", ""))
      BY <2>2 DEF EnterStatement
    <3>2. kind \in {"discard", "return", "if"}
      BY <2>2, CodegenAssumption
    <3>3. Frame(kind, "", "") \in Frames /\ Frame(kind, "", "").kind = kind
      <4>1. Frame(kind, "", "") \in Frames
        BY <3>2, FrameTyped
      <4>2. Frame(kind, "", "").kind = kind
        BY DEF Frame
      <4> QED
        BY <4>1, <4>2
    <3> QED
      BY <3>1, <3>2, <3>3
  <2> QED
    BY <2>1, <2>2
<1> QED
  BY <1>1, VisitKeeps DEF EnterStatement

\* A name that is bound keeps the invariant: its type is no function's.
LEMMA FinishLetKeeps ==
  ASSUME IInv, InFunction, FinishLet PROVE IInv'
<1> DEFINE target == LookupType(typenames, Top.hint)
           causes == IF result.type = Nullopt THEN {"inference"} ELSE {}
           how    == Conversion(result, target)
           value  == Converted(result, target)
<1>0. /\ frames # <<>> /\ Top.kind = "let" /\ result # NoResult /\ result \in Results
      /\ Top \in Frames
  BY InnermostFrame DEF FinishLet, Returned, IInv, WalkOK
<1>1. CASE target = Nullopt
  <2>1. Stop("threw", causes)
    BY <1>1 DEF FinishLet
  <2>2. causes \in SUBSET Causes
    BY DEF Causes
  <2> QED
    BY <2>1, <2>2, StopKeeps
<1>2. CASE target # Nullopt /\ result.type = Nullopt
  <2>1. Stop("undefined", causes)
    BY <1>2 DEF FinishLet
  <2>2. causes \in SUBSET Causes
    BY DEF Causes
  <2> QED
    BY <2>1, <2>2, StopKeeps
<1>3. CASE target # Nullopt /\ result.type # Nullopt /\ how # "running"
  <2>1. StopConversion(how)
    BY <1>3 DEF FinishLet
  <2> QED
    BY <1>3, <2>1, EndsKeep
<1>4. CASE /\ target # Nullopt /\ result.type # Nullopt /\ how = "running"
           /\ value = NullValue \/ value.ty = VoidTy
  <2>1. Undefined
    BY <1>4 DEF FinishLet
  <2> QED
    BY <2>1, EndsKeep
<1>5. CASE /\ target # Nullopt /\ result.type # Nullopt /\ how = "running"
           /\ ~(value = NullValue \/ value.ty = VoidTy)
  <2>1. /\ Emit("instruction", FALSE, {})
        /\ scopes' = StackPut(scopes, Top.name, [home |-> fn.home, ty |-> value.ty])
        /\ symbols' = AddNewSymbol(symbols, Top.name, target)
        /\ locals' = locals \cup {Top.name}
        /\ frames' = Below /\ result' = NoResult
        /\ UNCHANGED <<typenames, functions, fn, reports, outcome>>
    BY <1>5 DEF FinishLet
  <2>2. target \in Scalars /\ value.ty \in LlvmScalars
    <3>1. target \in Scalars \cup FunctionTypes
      BY <1>5, LookedUpType DEF IInv, EnvOK
    <3>2. Result(value, target) \in Results
      <4>1. TrySubtype(result.type, target) # NoRule
        BY <1>5 DEF Conversion
      <4> QED
        BY <1>0, <3>1, <4>1, ConvertedTyped
    <3>3. target \notin FunctionTypes
      BY <1>5, <3>2, ScalarTags DEF Result, Results, FunctionTypes, IsFunction, Nullopt
    <3>4. value \in Values
      BY <3>2 DEF Result, Results, Values
    <3> HIDE DEF value
    <3> QED
      BY <1>5, <3>1, <3>3, <3>4 DEF Values
  <2>3. EnvOK' /\ SymbolsGrow
    <3> HIDE DEF target
    <3> QED
      BY <2>1, <2>2 DEF IInv, EnvOK, AddNewSymbol, Emplace, InsertOrAssign, SymbolsGrow
  <2>4. WalkOK'
    BY <1>0, <2>1, <2>3, Ascends DEF IInv
  <2>5. EmitOK'
    <3>1. {} \in SUBSET Found
      OBVIOUS
    <3> QED
      BY <2>1, <3>1, EmitKeeps DEF IInv
  <2>6. IrOK'
    <3> DEFINE storage == [home |-> fn.home, ty |-> value.ty]
    <3>1. scopes = <<scopes[1]>>
      BY DEF IInv, IrOK
    <3>2. scopes' = <<InsertOrAssign(scopes[1], Top.name, storage)>>
      BY <2>1, <3>1, PutIntoOneScope
    <3>3. scopes'[1] = InsertOrAssign(scopes[1], Top.name, storage) /\ scopes' = <<scopes'[1]>>
      BY <3>2
    <3>4. storage.home \in 1..fn.home /\ storage.ty \in LlvmScalars
      <4>1. fn.home \in 1..fn.home
        BY <1>0, CodegenAssumption DEF IInv, IrOK, InFunction
      <4> QED
        BY <2>2, <4>1
    <3>5. Top.name \in VarNames
      BY <1>0 DEF Frames, BodyFrames
    <3> HIDE DEF storage
    <3> QED
      BY <2>1, <3>3, <3>4, <3>5 DEF IInv, IrOK, InsertOrAssign
  <2>7. FlagsOK'
    BY <2>1 DEF IInv, FlagsOK
  <2> QED
    BY <2>3, <2>4, <2>5, <2>6, <2>7 DEF IInv
<1> QED
  BY <1>1, <1>2, <1>3, <1>4, <1>5

\* Dropping a value keeps the invariant.
LEMMA FinishDiscardKeeps ==
  ASSUME IInv, FinishDiscard PROVE IInv'
<1>1. WalkOK'
  BY Ascends DEF IInv, FinishDiscard, Returned, envVars, SymbolsGrow
<1>2. EnvOK' /\ IrOK' /\ EmitOK' /\ FlagsOK'
  BY Kept DEF IInv, FinishDiscard, FlagsOK
<1> QED
  BY <1>1, <1>2 DEF IInv

\* A return keeps the invariant.
LEMMA FinishReturnKeeps ==
  ASSUME IInv, FinishReturn PROVE IInv'
<1> DEFINE found == IF \/ fn.ret = VoidTy /\ result.val = NullValue
                       \/ fn.ret # VoidTy /\ result.val # NullValue /\ result.val.ty = fn.ret
                    THEN {} ELSE {"badReturn"}
<1>1. found \in SUBSET Found /\ Emit("ret", FALSE, found)
  BY DEF Found, FinishReturn
<1>2. EmitOK'
  <2> HIDE DEF found
  <2> QED
    BY <1>1, EmitKeeps DEF IInv
<1>3. WalkOK'
  BY Ascends DEF IInv, FinishReturn, Returned, envVars, SymbolsGrow
<1>4. EnvOK' /\ IrOK' /\ FlagsOK'
  BY Kept DEF IInv, FinishReturn, FlagsOK
<1> QED
  BY <1>2, <1>3, <1>4 DEF IInv

\* A node that is no `val` goes on to its next part.
LEMMA KindBecomes ==
  ASSUME WalkOK, frames # <<>>, Top.kind # "let", NEW kind \in {"body", "orelse"},
         NEW g, g = [frames EXCEPT ![Len(frames)].kind = kind]
  PROVE  /\ g \in Seq(Frames) /\ Len(g) = Len(frames)
         /\ \A i \in 1..Len(frames) :
              \/ g[i] = frames[i]
              \/ i = Len(frames) /\ g[i].kind = kind
<1> DEFINE f == [Top EXCEPT !.kind = kind]
<1>1. Top \in Frames /\ Len(frames) \in Nat \ {0} /\ frames \in Seq(Frames)
  BY InnermostFrame DEF WalkOK
<1>2. f \in Frames /\ f.kind = kind
  <2>1. kind \in (ExprFrames \ {"let"}) \cup BodyFrames \cup {"orelse"}
    BY DEF BodyFrames, ExprFrames
  <2> QED
    BY <1>1, <2>1 DEF Frames
<1>3. g = [frames EXCEPT ![Len(frames)] = f]
  BY DEF Top
<1> HIDE DEF f
<1> QED
  BY <1>1, <1>2, <1>3

\* Branching keeps the invariant.
LEMMA BranchOnKeeps ==
  ASSUME IInv, BranchOn PROVE IInv'
<1>0. frames # <<>> /\ Top.kind = "if"
  BY DEF BranchOn, Returned
<1>1. CASE Undefined
  BY <1>1, EndsKeep
<1>2. CASE ~Undefined
  <2>1. /\ last' = "empty"
        /\ defects' = defects \cup {"danglingBlock"} \cup ConditionMisfit
                      \cup (IF last \in {"ret", "br"} THEN {"afterTerminator"} ELSE {})
        /\ frames' = [frames EXCEPT ![Len(frames)].kind = "body"]
        /\ result' = NoResult
        /\ UNCHANGED <<envVars, irVars, reports, outcome>>
    BY <1>2 DEF BranchOn
  <2>2. EmitOK'
    <3>1. ConditionMisfit \subseteq {"operandTypes", "constantTypes"}
      BY DEF ConditionMisfit
    <3> QED
      BY <2>1, <3>1 DEF IInv, EmitOK
  <2>3. WalkOK'
    <3>1. /\ frames' \in Seq(Frames) /\ Len(frames') = Len(frames)
          /\ \A i \in 1..Len(frames) :
               frames'[i] = frames[i] \/ (i = Len(frames) /\ frames'[i].kind = "body")
      BY <1>0, <2>1, KindBecomes DEF IInv
    <3>2. symbols' = symbols /\ result' = NoResult
      BY <2>1 DEF envVars
    <3>3. CallsOpen'
      BY <3>1, <3>2 DEF IInv, WalkOK, CallsOpen
    <3> QED
      BY <3>1, <3>2, <3>3 DEF WalkOK
  <2>4. EnvOK' /\ IrOK' /\ FlagsOK'
    BY <2>1, Kept DEF IInv, FlagsOK
  <2> QED
    BY <2>2, <2>3, <2>4 DEF IInv
<1> QED
  BY <1>1, <1>2

\* Closing the body of a branch keeps the invariant, also when an `elif` follows.
LEMMA CloseBodyKeeps ==
  ASSUME IInv, CloseBody PROVE IInv'
<1> DEFINE elif == Frame("if", "", "")
           rest == [frames EXCEPT ![Len(frames)].kind = "orelse"]
<1>0. /\ frames # <<>> /\ Top.kind = "body" /\ result = NoResult
      /\ UNCHANGED <<envVars, irVars, result, outcome>>
  BY DEF CloseBody, AtStatement
<1>1. /\ EnvOK' /\ IrOK'
      /\ last' \in {"empty", "br"}
  BY <1>0, Kept DEF IInv, CloseBody, InMerge
<1>2. EmitOK'
  BY <1>1 DEF CloseBody, IInv, EmitOK
<1>3. FlagsOK'
  <2>1. \/ reports' = reports
        \/ \E orelse \in {{}, {"node"}} : reports' = reports \cup orelse
    BY DEF CloseBody
  <2> QED
    BY <1>0, <2>1 DEF IInv, FlagsOK
<1>4. WalkOK'
  <2>1. CASE frames' = Below
    BY <1>0, <2>1, Ascends DEF IInv, envVars, SymbolsGrow, WalkOK
  <2>2. CASE frames' = Append(rest, elif)
    <3>1. /\ rest \in Seq(Frames) /\ Len(rest) = Len(frames)
          /\ \A i \in 1..Len(frames) :
               rest[i] = frames[i] \/ (i = Len(frames) /\ rest[i].kind = "orelse")
      BY <1>0, KindBecomes DEF IInv
    <3>2. elif \in Frames
      BY FrameTyped
    <3>3. elif.kind = "if"
      BY DEF Frame
    <3> HIDE DEF rest, elif
    <3>4. /\ frames' \in Seq(Frames) /\ Len(frames') = Len(rest) + 1
          /\ \A i \in 1..Len(rest) : frames'[i] = rest[i]
          /\ frames'[Len(rest) + 1] = elif
      BY <2>2, <3>1, <3>2
    <3>5. symbols' = symbols /\ result' = NoResult /\ Len(frames) \in Nat
      BY <1>0, <3>1 DEF envVars, IInv, WalkOK
    <3>6. CallsOpen'
      <4> SUFFICES ASSUME NEW i \in 1..Len(frames'), frames'[i].kind = "call"
                   PROVE  /\ frames'[i].name \in DOMAIN symbols
                          /\ symbols[frames'[i].name] \in FunctionTypes
                          /\ Len(frames'[i].done) < Len(symbols[frames'[i].name].parameters)
        BY <3>5 DEF CallsOpen
      <4>1. i \in 1..Len(frames) /\ frames'[i] = frames[i] /\ i # Len(frames)
        BY <1>0, <3>1, <3>3, <3>4, <3>5 DEF Top
      <4> QED
        BY <3>5, <4>1 DEF IInv, WalkOK, CallsOpen
    <3> QED
      BY <3>4, <3>5, <3>6 DEF WalkOK
  <2> QED
    BY <2>1, <2>2 DEF CloseBody
<1> QED
  BY <1>1, <1>2, <1>3, <1>4 DEF IInv

\* Coming back from an `elif` keeps the invariant.
LEMMA JoinElifKeeps ==
  ASSUME IInv, JoinElif PROVE IInv'
<1>1. WalkOK'
  BY Ascends DEF IInv, JoinElif, envVars, SymbolsGrow, WalkOK
<1>2. EmitOK'
  BY DEF IInv, EmitOK, JoinElif, InMerge
<1>3. EnvOK' /\ IrOK' /\ FlagsOK'
  BY Kept DEF IInv, JoinElif, FlagsOK
<1> QED
  BY <1>1, <1>2, <1>3 DEF IInv

--------------------------------------------------------------------------------
(* Functions and the module. *)

\* What a definition does that ends the walk on its type, its name being bound.
HalfDefines ==
  \E s \in Signatures : \E type \in {FunctionTypeOf(typenames, s.params, s.ret)} :
    /\ IsFunction(type) /\ IllFormed(type)
    /\ typenames' = AddNewNamedType(typenames, s.name, type)
    /\ symbols' = AddNewSymbol(symbols, s.name, type)
    /\ rebound' = rebound \cup ({s.name} \cap DOMAIN symbols)
    /\ frames = <<>> /\ outcome = "running" /\ outcome' = "undefined"
    /\ UNCHANGED <<irVars, emitVars, frames, result, reports>>

\* A definition of an ill-formed type does that.
LEMMA HalfDefining ==
  ASSUME NEW s \in Signatures, DefineFunction(s),
         FunctionTypeOf(typenames, s.params, s.ret) # Nullopt,
         IllFormed(FunctionTypeOf(typenames, s.params, s.ret))
  PROVE  HalfDefines
<1> DEFINE type == FunctionTypeOf(typenames, s.params, s.ret)
<1>1. IsFunction(type)
  BY DEF FunctionTypeOf, FunctionSignature, IsFunction
<1>2. /\ typenames' = AddNewNamedType(typenames, s.name, type)
      /\ symbols' = AddNewSymbol(symbols, s.name, type)
      /\ rebound' = rebound \cup ({s.name} \cap DOMAIN symbols)
      /\ frames = <<>> /\ outcome = "running" /\ outcome' = "undefined"
      /\ UNCHANGED <<irVars, emitVars, frames, result, reports>>
  BY DEF DefineFunction, AtModule, Running, emitVars
<1> HIDE DEF type
<1> QED
  BY <1>1, <1>2 DEF HalfDefines, type

\* A function's definition keeps the invariant, or ends the walk halfway: its name
\* becomes a type name and a symbol only where it is not one already.
LEMMA DefineFunctionKeeps ==
  ASSUME IInv, NEW s \in Signatures, DefineFunction(s) PROVE IInv' \/ HalfDefines
<1> DEFINE type == FunctionTypeOf(typenames, s.params, s.ret)
           node == Frame("function", "", "")
<1>1. CASE type = Nullopt
  <2>1. Throw
    BY <1>1 DEF DefineFunction
  <2> QED
    BY <2>1, EndsKeep
<1>2. CASE type # Nullopt /\ IllFormed(type)
  BY <1>2, HalfDefining
<1>3. CASE type # Nullopt /\ ~IllFormed(type)
  <2>1. /\ typenames' = AddNewNamedType(typenames, s.name, type)
        /\ symbols' = AddNewSymbol(symbols, s.name, type)
        /\ functions' = Emplace(functions, s.name, LlvmType(type))
        /\ fn' = [home |-> fn.home + 1, ret |-> LlvmType(type).ret, params |-> s.names]
        /\ locals' = {} /\ last' = "empty" /\ frames' = <<node>>
        /\ fn.home < MaxFunctions
        /\ UNCHANGED <<scopes, defects, result, reports, outcome>>
    BY <1>3 DEF DefineFunction
  <2>2. type \in FunctionTypes
    <3>1. s.params \in Seq(STRING)
      BY CodegenAssumption
    <3> QED
      BY <1>3, <3>1, AcceptedSignature DEF IInv, EnvOK
  <2>3. LlvmType(type) \in [kind : {"function"}, params : Seq(LlvmScalars), ret : LlvmScalars]
    BY <2>2, LlvmTypeOfFunction
  <2> HIDE DEF type
  <2>4. EnvOK'
    <3>1. \A n \in DOMAIN BuiltinTypes :
            n \in DOMAIN typenames' /\ typenames'[n] = BuiltinTypes[n]
      BY <2>1 DEF IInv, EnvOK, TypeNames, AddNewNamedType, Emplace, InsertOrAssign
    <3>2. \A n \in DOMAIN typenames' : typenames'[n] \in Scalars \cup FunctionTypes
      BY <2>1, <2>2 DEF IInv, EnvOK, TypeNames, AddNewNamedType, Emplace, InsertOrAssign
    <3>3. \A x \in DOMAIN symbols' : symbols'[x] \in Scalars \cup FunctionTypes
      BY <2>1, <2>2 DEF IInv, EnvOK, AddNewSymbol, Emplace, InsertOrAssign
    <3> QED
      BY <3>1, <3>2, <3>3 DEF EnvOK, TypeNames
  <2>5. IrOK'
    <3>1. /\ fn'.home = fn.home + 1 /\ fn'.home \in 0..MaxFunctions /\ fn'.ret \in LlvmScalars
          /\ fn.home \in Nat
      <4>1. fn'.home = fn.home + 1 /\ fn'.ret = LlvmType(type).ret
        BY <2>1
      <4>2. LlvmType(type).ret \in LlvmScalars
        BY <2>3
      <4>3. fn.home \in 0..MaxFunctions /\ MaxFunctions \in Nat /\ fn.home < MaxFunctions
        BY <2>1, CodegenAssumption DEF IInv, IrOK
      <4> QED
        BY <4>1, <4>2, <4>3
    <3>2. \A f \in DOMAIN functions' :
            functions'[f] \in [kind : {"function"}, params : Seq(LlvmScalars), ret : LlvmScalars]
      BY <2>1, <2>3 DEF IInv, IrOK, Emplace, InsertOrAssign
    <3>3. 1..fn.home \subseteq 1..fn'.home
      BY <3>1
    <3> QED
      BY <2>1, <3>1, <3>2, <3>3 DEF IInv, IrOK
  <2>6. EmitOK'
    BY <2>1 DEF IInv, EmitOK
  <2>7. WalkOK'
    <3>1. node \in Frames
      BY FrameTyped
    <3>2. node.kind = "function"
      BY DEF Frame
    <3> HIDE DEF node
    <3> QED
      BY <2>1, <3>1, <3>2 DEF IInv, WalkOK, CallsOpen
  <2>8. FlagsOK'
    BY <2>1 DEF IInv, FlagsOK
  <2> QED
    BY <2>4, <2>5, <2>6, <2>7, <2>8 DEF IInv
<1> QED
  BY <1>1, <1>2, <1>3

\* The end of a function keeps the invariant.
LEMMA CloseFunctionKeeps ==
  ASSUME IInv, CloseFunction PROVE IInv'
<1>1. WalkOK'
  BY DEF IInv, CloseFunction, WalkOK, CallsOpen
<1>2. EmitOK'
  BY DEF IInv, EmitOK, CloseFunction
<1>3. EnvOK' /\ IrOK' /\ FlagsOK'
  BY Kept DEF IInv, CloseFunction, FlagsOK
<1> QED
  BY <1>1, <1>2, <1>3 DEF IInv

\* A `struct`, the end of the module and a walk that has ended keep it.
LEMMA ModuleKeeps ==
  ASSUME IInv, VisitStruct \/ EndModule \/ UNCHANGED vars PROVE IInv'
<1>1. UNCHANGED <<envVars, irVars, emitVars, frames, result>>
  BY DEF VisitStruct, EndModule, vars
<1>2. WalkOK'
  BY <1>1 DEF IInv, envVars, WalkOK, CallsOpen
<1>3. EnvOK' /\ IrOK' /\ EmitOK'
  BY <1>1, Kept DEF IInv
<1>4. FlagsOK'
  BY DEF IInv, VisitStruct, EndModule, vars, FlagsOK
<1> QED
  BY <1>2, <1>3, <1>4 DEF IInv

--------------------------------------------------------------------------------
(* Theorems. *)

\* A step that ends the walk, and changes nothing else.
Ended ==
  /\ outcome' \in {"threw", "undefined"} /\ frames' = <<>>
  /\ UNCHANGED <<envVars, irVars, emitVars>>

\* A step after which the walk goes on, or has come to its end.
Quiet ==
  /\ reports' \subseteq reports \cup {"pow", "node"}
  /\ outcome' = outcome \/ (outcome = "running" /\ outcome' = "done")

\* One that touches neither the environment nor the LLVM module's functions.
Local == Quiet /\ (frames # <<>> \/ frames' = frames) /\ UNCHANGED <<envVars, irVars>>

\* Every way a walk stops ends it.
LEMMA Stopping ==
  /\ \A causes : Stop("threw", causes) => Ended
  /\ \A causes : Stop("undefined", causes) => Ended
  /\ Throw => Ended
  /\ Undefined => Ended
  /\ \A r, t : Conversion(r, t) # "running" /\ StopConversion(Conversion(r, t)) => Ended
<1>1. ASSUME NEW how \in {"threw", "undefined"}, NEW causes, Stop(how, causes)
      PROVE  Ended
  BY <1>1 DEF Stop, Ended
<1>2. ASSUME Throw PROVE Ended
  <2>1. Stop("threw", {})
    BY <1>2 DEF Throw
  <2> QED
    BY <1>1, <2>1
<1>3. ASSUME Undefined PROVE Ended
  <2>1. Stop("undefined", {})
    BY <1>3 DEF Undefined
  <2> QED
    BY <1>1, <2>1
<1>4. ASSUME NEW r, NEW t, Conversion(r, t) # "running", StopConversion(Conversion(r, t))
      PROVE  Ended
  <2>1. PICK causes : Stop(Conversion(r, t), causes)
    BY <1>4 DEF StopConversion
  <2>2. Conversion(r, t) \in {"threw", "undefined"}
    BY <1>4 DEF Conversion
  <2> QED
    BY <1>1, <2>1, <2>2
<1>5. \A causes : (Stop("threw", causes) => Ended) /\ (Stop("undefined", causes) => Ended)
  BY <1>1
<1> QED
  BY <1>2, <1>3, <1>4, <1>5

\* Every step ends the walk, or is local, or is one of the three that add to the
\* tables: a definition, a binding and a call.
LEMMA StepKinds ==
  ASSUME [Next]_vars
  PROVE  Ended \/ Local \/ FinishLet \/ CompleteCall \/ \E s \in Signatures : DefineFunction(s)
<1>1. \A l \in Literals : VisitLiteral(l) => Local
  BY DEF VisitLiteral, AtExpression, Local, Quiet
<1>2. \A x \in VarNames : VisitVariable(x) => Ended \/ Local
  BY Stopping DEF VisitVariable, AtExpression, Local, Quiet
<1>3. VisitUnary => Local
  BY DEF VisitUnary, AtExpression, Local, Quiet
<1>4. \A op \in Operators : EnterBinary(op) => Local
  BY DEF EnterBinary, AtExpression, Local, Quiet
<1>5. KeepLeft => Ended \/ Local
  BY Stopping DEF KeepLeft, Returned, Local, Quiet
<1>6. CastAs => Ended \/ Local
  BY Stopping DEF CastAs, Returned, Local, Quiet
<1>7. \A type, folded, found : frames # <<>> /\ EmitBinary(type, folded, found) => Ended \/ Local
  BY Stopping DEF EmitBinary, Local, Quiet
<1>8. EmitArithmetic => Ended \/ Local
  BY <1>7, Stopping DEF EmitArithmetic, ReturnedRight, Returned
<1>9. EmitPower => Ended \/ Local
  BY <1>7, Stopping DEF EmitPower, ReturnedRight, Returned, Local, Quiet
<1>10. EmitBoolean => Ended \/ Local
  BY <1>7, Stopping DEF EmitBoolean, ReturnedRight, Returned
<1>11. EmitComparison => Ended \/ Local
  BY <1>7, Stopping DEF EmitComparison, ReturnedRight, Returned
<1>12. \A callee \in Callees : EnterCall(callee) => Ended \/ Local
  BY Stopping DEF EnterCall, AtExpression, Local, Quiet
<1>13. PassArgument => Ended \/ Local
  BY Stopping DEF PassArgument, Returned, Local, Quiet
<1>14. \A kind \in Statements : EnterStatement(kind) => Local
  BY DEF EnterStatement, AtStatement, Local, Quiet
<1>15. FinishDiscard \/ FinishReturn => Local
  BY DEF FinishDiscard, FinishReturn, Returned, Local, Quiet
<1>16. BranchOn => Ended \/ Local
  BY Stopping DEF BranchOn, Returned, Local, Quiet
<1>17. CloseBody \/ JoinElif \/ CloseFunction => Local
  BY DEF CloseBody, JoinElif, CloseFunction, AtStatement, Local, Quiet
<1>18. VisitStruct \/ EndModule \/ Stopped \/ UNCHANGED vars => Local
  BY DEF VisitStruct, EndModule, AtModule, Running, Stopped, vars, Local, Quiet
<1> QED
  BY <1>1, <1>2, <1>3, <1>4, <1>5, <1>6, <1>8, <1>9, <1>10, <1>11, <1>12, <1>13,
     <1>14, <1>15, <1>16, <1>17, <1>18 DEF Next

\* What a binding does: nothing of a function type is bound, and nothing of void.
Bound ==
  \E type \in Scalars, ty \in LlvmScalars :
    /\ scopes' = StackPut(scopes, Top.name, [home |-> fn.home, ty |-> ty])
    /\ symbols' = AddNewSymbol(symbols, Top.name, type)
    /\ locals' = locals \cup {Top.name}
    /\ UNCHANGED <<typenames, functions, fn>>

\* What a call does: it declares the builtin function it calls.
Called ==
  \E name \in DOMAIN BuiltinFunction \cup DOMAIN functions :
    /\ functions' = Emplace(functions, CalledFunction(name).name, CalledFunction(name).signature)
    /\ UNCHANGED <<envVars, scopes, fn, locals>>

\* What a definition does.
Defined ==
  \E s \in Signatures, type \in FunctionTypes :
    /\ typenames' = AddNewNamedType(typenames, s.name, type)
    /\ symbols' = AddNewSymbol(symbols, s.name, type)
    /\ functions' = Emplace(functions, s.name, LlvmType(type))
    /\ fn' = [home |-> fn.home + 1, ret |-> LlvmType(type).ret, params |-> s.names]
    /\ locals' = {} /\ scopes' = scopes /\ fn.home < MaxFunctions
    /\ outcome' = outcome

\* A binding ends the walk, or binds a name to a scalar.
LEMMA FinishLetSteps ==
  ASSUME IInv, FinishLet PROVE Ended \/ (Quiet /\ frames # <<>> /\ Bound)
<1> DEFINE target == LookupType(typenames, Top.hint)
           how    == Conversion(result, target)
           value  == Converted(result, target)
<1>0. frames # <<>> /\ result # NoResult /\ result \in Results
  BY DEF FinishLet, Returned, IInv, WalkOK
<1>1. CASE \/ target = Nullopt \/ result.type = Nullopt \/ how # "running"
           \/ value = NullValue \/ value.ty = VoidTy
  BY <1>1, Stopping DEF FinishLet
<1>2. CASE /\ target # Nullopt /\ result.type # Nullopt /\ how = "running"
           /\ ~(value = NullValue \/ value.ty = VoidTy)
  <2>1. /\ scopes' = StackPut(scopes, Top.name, [home |-> fn.home, ty |-> value.ty])
        /\ symbols' = AddNewSymbol(symbols, Top.name, target)
        /\ locals' = locals \cup {Top.name}
        /\ UNCHANGED <<typenames, functions, fn, reports, outcome>>
    BY <1>2 DEF FinishLet
  <2>2. target \in Scalars \cup FunctionTypes
    BY <1>2, LookedUpType DEF IInv, EnvOK
  <2>3. Result(value, target) \in Results
    <3>1. TrySubtype(result.type, target) # NoRule
      BY <1>2 DEF Conversion
    <3> QED
      BY <1>0, <2>2, <3>1, ConvertedTyped
  <2>4. target \notin FunctionTypes
    BY <1>2, <2>3, ScalarTags DEF Result, Results, FunctionTypes, IsFunction, Nullopt
  <2>5. value \in Values
    BY <2>3 DEF Result, Results, Values
  <2> HIDE DEF value, target
  <2>6. target \in Scalars /\ value.ty \in LlvmScalars
    BY <1>2, <2>2, <2>4, <2>5 DEF Values
  <2>7. Bound
    BY <2>1, <2>6 DEF Bound
  <2> QED
    BY <1>0, <2>1, <2>7 DEF Quiet
<1> QED
  BY <1>1, <1>2

\* A call ends the walk, or declares its callee.
LEMMA CompleteCallSteps ==
  ASSUME CompleteCall PROVE Ended \/ (Quiet /\ frames # <<>> /\ Called)
<1> DEFINE nulls  == \E i \in DOMAIN Top.done : Top.done[i].val = NullValue
           called == CalledFunction(Top.name)
<1>1. CASE Top.name \notin DOMAIN BuiltinFunction \cup DOMAIN functions \/ nulls
  BY <1>1, Stopping DEF CompleteCall
<1>2. CASE Top.name \in DOMAIN BuiltinFunction \cup DOMAIN functions /\ ~nulls
  <2>1. /\ frames # <<>>
        /\ functions' = Emplace(functions, called.name, called.signature)
        /\ UNCHANGED <<envVars, scopes, fn, locals, reports, outcome>>
    BY <1>2 DEF CompleteCall
  <2>2. Called
    BY <1>2, <2>1 DEF Called
  <2> QED
    BY <2>1, <2>2 DEF Quiet
<1> QED
  BY <1>1, <1>2

\* A definition ends the walk, halfway or not, or defines a function of scalars.
LEMMA DefineFunctionSteps ==
  ASSUME IInv, NEW s \in Signatures, DefineFunction(s)
  PROVE  Ended \/ HalfDefines \/ (Quiet /\ Defined)
<1> DEFINE type == FunctionTypeOf(typenames, s.params, s.ret)
<1>1. CASE type = Nullopt
  BY <1>1, Stopping DEF DefineFunction
<1>3. CASE type # Nullopt /\ IllFormed(type)
  BY <1>3, HalfDefining
<1>2. CASE type # Nullopt /\ ~IllFormed(type)
  <2>1. /\ typenames' = AddNewNamedType(typenames, s.name, type)
        /\ symbols' = AddNewSymbol(symbols, s.name, type)
        /\ functions' = Emplace(functions, s.name, LlvmType(type))
        /\ fn' = [home |-> fn.home + 1, ret |-> LlvmType(type).ret, params |-> s.names]
        /\ locals' = {} /\ scopes' = scopes /\ fn.home < MaxFunctions
        /\ UNCHANGED <<reports, outcome>>
    BY <1>2 DEF DefineFunction
  <2>2. type \in FunctionTypes
    <3>1. s.params \in Seq(STRING)
      BY CodegenAssumption
    <3> QED
      BY <1>2, <3>1, AcceptedSignature DEF IInv, EnvOK
  <2> HIDE DEF type
  <2>3. Defined
    BY <2>1, <2>2 DEF Defined
  <2> QED
    BY <2>1, <2>3 DEF Quiet
<1> QED
  BY <1>1, <1>2, <1>3

\* What every step does to the tables.
LEMMA Steps ==
  ASSUME IInv, [Next]_vars
  PROVE  Ended \/ HalfDefines \/ Local \/ (Quiet /\ frames # <<>> /\ (Bound \/ Called)) \/ (Quiet /\ Defined)
BY StepKinds, FinishLetSteps, CompleteCallSteps, DefineFunctionSteps

\* A step keeps the walk in a function.
LEMMA InFunctionKeeps ==
  ASSUME IInv, InFunction, [Next]_vars PROVE InFunction'
<1>1. CASE Ended \/ HalfDefines
  BY <1>1 DEF Ended, HalfDefines, InFunction
<1>2. CASE Local \/ (frames # <<>> /\ (Bound \/ Called))
  BY <1>2 DEF Local, Bound, Called, InFunction, irVars
<1>3. CASE Defined
  <2>1. fn'.home = fn.home + 1
    BY <1>3 DEF Defined
  <2>2. fn.home \in Nat
    BY CodegenAssumption DEF IInv, IrOK
  <2> QED
    BY <2>1, <2>2 DEF InFunction
<1> QED
  BY <1>1, <1>2, <1>3, Steps

\* Every step keeps the invariant, or ends the walk halfway through a definition.
LEMMA StepKeeps ==
  ASSUME IInv, InFunction, [Next]_vars PROVE IInv' \/ HalfDefines
<1>1. \A l \in Literals : VisitLiteral(l) => IInv'
  BY VisitLiteralKeeps
<1>2. \A x \in VarNames : VisitVariable(x) => IInv'
  BY VisitVariableKeeps
<1>3. VisitUnary => IInv'
  BY VisitUnaryKeeps
<1>4. \A op \in Operators : EnterBinary(op) => IInv'
  BY EnterBinaryKeeps
<1>5. KeepLeft \/ CastAs => IInv'
  BY KeepLeftKeeps, CastAsKeeps
<1>6. EmitArithmetic \/ EmitPower \/ EmitBoolean \/ EmitComparison => IInv'
  BY EmitArithmeticKeeps, EmitPowerKeeps, EmitBooleanKeeps, EmitComparisonKeeps
<1>7. \A callee \in Callees : EnterCall(callee) => IInv'
  BY EnterCallKeeps
<1>8. PassArgument \/ CompleteCall => IInv'
  BY PassArgumentKeeps, CompleteCallKeeps
<1>9. \A kind \in Statements : EnterStatement(kind) => IInv'
  BY EnterStatementKeeps
<1>10. FinishLet \/ FinishDiscard \/ FinishReturn => IInv'
  BY FinishLetKeeps, FinishDiscardKeeps, FinishReturnKeeps
<1>11. BranchOn \/ CloseBody \/ JoinElif => IInv'
  BY BranchOnKeeps, CloseBodyKeeps, JoinElifKeeps
<1>12. \A s \in Signatures : DefineFunction(s) => IInv' \/ HalfDefines
  BY DefineFunctionKeeps
<1>13. CloseFunction => IInv'
  BY CloseFunctionKeeps
<1>14. VisitStruct \/ EndModule \/ Stopped \/ UNCHANGED vars => IInv'
  BY ModuleKeeps DEF Stopped
<1> QED
  BY <1>1, <1>2, <1>3, <1>4, <1>5, <1>6, <1>7, <1>8, <1>9, <1>10, <1>11, <1>12,
     <1>13, <1>14 DEF Next

\* A walk that ended halfway through a definition: its tables have one entry more
\* than the module, and nothing follows.
HalfEnded == outcome = "undefined" /\ TypeOK /\ BuiltinNamesStable

\* A definition that ends halfway leaves types behind that are none of LLVM's, in
\* its own entries alone.
LEMMA HalfEnding ==
  ASSUME IInv, HalfDefines PROVE HalfEnded'
<1> PICK s \in Signatures : \E type \in {FunctionTypeOf(typenames, s.params, s.ret)} :
        /\ IsFunction(type) /\ IllFormed(type)
        /\ typenames' = AddNewNamedType(typenames, s.name, type)
        /\ symbols' = AddNewSymbol(symbols, s.name, type)
        /\ outcome' = "undefined"
        /\ UNCHANGED <<irVars, emitVars, frames, result, reports>>
  BY DEF HalfDefines
<1>1. PICK type \in {FunctionTypeOf(typenames, s.params, s.ret)} :
        /\ IsFunction(type) /\ IllFormed(type)
        /\ typenames' = AddNewNamedType(typenames, s.name, type)
        /\ symbols' = AddNewSymbol(symbols, s.name, type)
        /\ outcome' = "undefined"
        /\ UNCHANGED <<irVars, emitVars, frames, result, reports>>
  OBVIOUS
<1>2. TypeOK /\ BuiltinNamesStable /\ TypeNames(typenames)
      /\ \A x \in DOMAIN symbols : symbols[x] \in Scalars \cup FunctionTypes
  BY IInvImplies DEF IInv, EnvOK
<1>3. HalfDefined(type)'
  BY <1>1 DEF HalfDefined
<1>4. \A n \in DOMAIN typenames' :
        typenames'[n] \in Scalars \cup FunctionTypes \/ typenames'[n] = type
  BY <1>1, <1>2 DEF TypeNames, AddNewNamedType, Emplace, InsertOrAssign
<1>5. \A x \in DOMAIN symbols' : symbols'[x] \in Scalars \cup FunctionTypes \/ symbols'[x] = type
  BY <1>1, <1>2 DEF AddNewSymbol, Emplace, InsertOrAssign
<1>6. /\ \A n \in DOMAIN typenames' :
           typenames'[n] \in Scalars \cup FunctionTypes \/ HalfDefined(typenames[n])'
      /\ \A x \in DOMAIN symbols' :
           symbols'[x] \in Scalars \cup FunctionTypes \/ HalfDefined(symbols[x])'
  BY <1>1, <1>4, <1>5 DEF HalfDefined
<1>7. TypeOK'
  BY <1>1, <1>2, <1>6 DEF TypeOK, irVars, emitVars
<1>8. BuiltinNamesStable'
  BY <1>1, <1>2 DEF BuiltinNamesStable, AddNewNamedType, Emplace, InsertOrAssign
<1> QED
  BY <1>1, <1>7, <1>8 DEF HalfEnded

\* Nothing follows the end of a walk.
LEMMA NothingFollows ==
  ASSUME outcome # "running", [Next]_vars PROVE UNCHANGED vars
BY DEF Next, VisitLiteral, VisitVariable, VisitUnary, EnterBinary, KeepLeft, CastAs,
       EmitArithmetic, EmitPower, EmitBoolean, EmitComparison, EnterCall, PassArgument,
       CompleteCall, EnterStatement, FinishLet, FinishDiscard, FinishReturn, BranchOn,
       CloseBody, JoinElif, DefineFunction, CloseFunction, VisitStruct, EndModule, Stopped,
       AtExpression, AtStatement, AtModule, ReturnedRight, Returned, Running

\* The invariant holds in every reachable state, or the walk ended halfway.
LEMMA Invariance == Spec => []((IInv /\ InFunction) \/ HalfEnded)
<1> DEFINE Inv == (IInv /\ InFunction) \/ HalfEnded
<1>1. Init => Inv
  BY IInvInit DEF Init, InFunction
<1>2. Inv /\ [Next]_vars => Inv'
  <2>1. ASSUME IInv, InFunction, [Next]_vars PROVE Inv'
    BY <2>1, StepKeeps, InFunctionKeeps, HalfEnding
  <2>2. ASSUME HalfEnded, [Next]_vars PROVE Inv'
    <3>1. UNCHANGED vars
      BY <2>2, NothingFollows DEF HalfEnded
    <3>2. HalfEnded'
      BY <2>2, <3>1 DEF HalfEnded, TypeOK, HalfDefined, BuiltinNamesStable, vars, envVars,
         irVars, emitVars
    <3> QED
      BY <3>2
  <2> QED
    BY <2>1, <2>2
<1> QED
  BY <1>1, <1>2, PTL DEF Spec

\* What is stored, passed and returned has the types its users take it for: no
\* value is of a function type, no storage of no function, and a call that waits
\* for an argument has a parameter for it.
THEOREM CodegenTypeCorrect == Spec => []TypeOK
<1>1. IInv \/ HalfEnded => TypeOK
  BY IInvImplies DEF HalfEnded
<1> QED
  BY <1>1, Invariance, PTL

\* No program changes what the names of the builtin types mean, though its
\* functions' names become names of types.
THEOREM BuiltinNamesKept == Spec => []BuiltinNamesStable
<1>1. IInv \/ HalfEnded => BuiltinNamesStable
  BY IInvImplies DEF HalfEnded
<1> QED
  BY <1>1, Invariance, PTL

\* A compilation that comes to its end has reported nothing but nodes and powers:
\* a failed lookup, inference or conversion ends it, in every program.
THEOREM FailedLookupsEnd == Spec => []FailedLookupsStop
<1> DEFINE Inv == outcome \in {"running", "done"} => reports \subseteq {"pow", "node"}
<1>1. Init => Inv
  BY DEF Init
<1>2. IInv /\ Inv /\ [Next]_vars => Inv'
  <2> SUFFICES ASSUME IInv, Inv, [Next]_vars PROVE Inv'
    OBVIOUS
  <2>1. CASE Ended \/ HalfDefines
    BY <2>1 DEF Ended, HalfDefines
  <2>2. CASE Quiet
    BY <2>2 DEF Quiet
  <2> QED
    BY <2>1, <2>2, Steps DEF Local
<1>3. HalfEnded /\ [Next]_vars => Inv'
  BY NothingFollows DEF HalfEnded, vars
<1>4. Inv => FailedLookupsStop
  BY DEF FailedLookupsStop
<1> QED
  BY <1>1, <1>2, <1>3, <1>4, Invariance, PTL DEF Spec

\* Functions enter the module under their symbols, or are builtin ones.
FunctionsKnown == DOMAIN functions \subseteq DOMAIN symbols \cup DOMAIN BuiltinFunction

\* What is called is a builtin function, or one the module has already.
LEMMA CalledNames ==
  ASSUME NEW name \in DOMAIN BuiltinFunction \cup DOMAIN functions
  PROVE  CalledFunction(name).name \in DOMAIN BuiltinFunction \cup DOMAIN functions
<1>1. CASE name \in DOMAIN BuiltinFunction
  <2>1. BuiltinFunction[name].name \in DOMAIN BuiltinFunction
    BY <1>1 DEF BuiltinFunction
  <2> QED
    BY <1>1, <2>1 DEF CalledFunction
<1>2. CASE name \notin DOMAIN BuiltinFunction
  BY <1>2 DEF CalledFunction
<1> QED
  BY <1>1, <1>2

\* A symbol of a function type that is no builtin names a function of the module
\* of that very type, whatever names functions, variables and types share: a call
\* that passed its checks calls what it was checked against.
THEOREM FunctionSymbolsKept == Spec => []FunctionSymbolsResolve
<1> DEFINE Inv == FunctionSymbolsResolve /\ FunctionsKnown
<1>1. Init => Inv
  <2>1. DOMAIN BuiltinSymbols = DOMAIN BuiltinFunction /\ DOMAIN EmptyTable = {}
    BY DEF BuiltinSymbols, BuiltinFunction, EmptyTable
  <2> QED
    BY <2>1 DEF Init, FunctionSymbolsResolve, FunctionsKnown
<1>2. IInv /\ Inv /\ [Next]_vars => Inv'
  <2> SUFFICES ASSUME IInv, Inv, [Next]_vars, outcome = "running" PROVE Inv'
    BY NothingFollows DEF FunctionSymbolsResolve, FunctionsKnown, vars, envVars, irVars
  <2>1. CASE UNCHANGED <<symbols, functions>>
    BY <2>1 DEF FunctionSymbolsResolve, FunctionsKnown
  <2>5. CASE HalfDefines
    <3>1. DOMAIN symbols \subseteq DOMAIN symbols' /\ functions' = functions
      BY <2>5 DEF HalfDefines, AddNewSymbol, Emplace, InsertOrAssign, irVars
    <3> QED
      BY <2>5, <3>1 DEF HalfDefines, FunctionSymbolsResolve, FunctionsKnown
  <2>2. CASE Bound
    <3>1. PICK type \in Scalars : symbols' = AddNewSymbol(symbols, Top.name, type)
      BY <2>2 DEF Bound
    <3>2. functions' = functions
      BY <2>2 DEF Bound
    <3>3. ~IsFunction(type)
      BY ScalarTags
    <3> QED
      BY <3>1, <3>2, <3>3 DEF AddNewSymbol, Emplace, InsertOrAssign,
         FunctionSymbolsResolve, FunctionsKnown
  <2>3. CASE Called
    <3>1. PICK name \in DOMAIN BuiltinFunction \cup DOMAIN functions :
            functions' = Emplace(functions, CalledFunction(name).name, CalledFunction(name).signature)
      BY <2>3 DEF Called
    <3>2. symbols' = symbols
      BY <2>3 DEF Called, envVars
    <3>3. CalledFunction(name).name \in DOMAIN BuiltinFunction \cup DOMAIN functions
      BY CalledNames
    <3> QED
      BY <3>1, <3>2, <3>3 DEF Emplace, InsertOrAssign, FunctionSymbolsResolve, FunctionsKnown
  <2>4. CASE Defined
    <3>1. PICK s \in Signatures, type \in FunctionTypes :
            /\ symbols' = AddNewSymbol(symbols, s.name, type)
            /\ functions' = Emplace(functions, s.name, LlvmType(type))
      BY <2>4 DEF Defined
    <3>2. FunctionsKnown'
      BY <3>1 DEF AddNewSymbol, Emplace, InsertOrAssign, FunctionsKnown
    <3>3. ASSUME NEW f \in DOMAIN symbols' \ DOMAIN BuiltinFunction, IsFunction(symbols'[f])
          PROVE  f \in DOMAIN functions' /\ functions'[f] = LlvmType(symbols'[f])
      <4>1. CASE f \in DOMAIN symbols
        BY <3>1, <3>3, <4>1 DEF AddNewSymbol, Emplace, InsertOrAssign, FunctionSymbolsResolve
      <4>2. CASE f \notin DOMAIN symbols
        <5>1. f = s.name /\ symbols'[f] = type /\ f \notin DOMAIN functions
          BY <3>1, <3>3, <4>2 DEF AddNewSymbol, Emplace, InsertOrAssign, FunctionsKnown
        <5> QED
          BY <3>1, <5>1 DEF Emplace, InsertOrAssign
      <4> QED
        BY <4>1, <4>2
    <3> QED
      BY <3>2, <3>3 DEF FunctionSymbolsResolve
  <2> QED
    BY <2>1, <2>2, <2>3, <2>4, <2>5, Steps DEF Ended, Local, envVars, irVars
<1>3. Inv => FunctionSymbolsResolve
  OBVIOUS
<1>4. HalfEnded /\ Inv /\ [Next]_vars => Inv'
  BY NothingFollows DEF HalfEnded, FunctionSymbolsResolve, FunctionsKnown, vars, envVars, irVars
<1> QED
  BY <1>1, <1>2, <1>3, <1>4, Invariance, PTL DEF Spec

\* Storage got from the one scope there is.
LEMMA GetFromOneScope ==
  ASSUME NEW table, NEW name
  PROVE  StackGet(<<table>>, name) = IF name \in DOMAIN table THEN table[name] ELSE NoStorage
<1>1. DOMAIN <<table>> = {1} /\ <<table>>[1] = table
  OBVIOUS
<1> DEFINE holding == {i \in DOMAIN <<table>> : name \in DOMAIN <<table>>[i]}
<1>2. CASE name \in DOMAIN table
  <2>1. holding = {1}
    BY <1>1, <1>2
  <2>2. (CHOOSE i \in {1} : \A j \in {1} : j <= i) = 1
    OBVIOUS
  <2> QED
    BY <1>1, <1>2, <2>1, <2>2 DEF StackGet
<1>3. CASE name \notin DOMAIN table
  <2>1. holding = {}
    BY <1>1, <1>3
  <2> QED
    BY <1>3, <2>1 DEF StackGet
<1> QED
  BY <1>2, <1>3

\* Every name the current function has bound is stored in its own frame, and
\* every symbol that is no function is stored.
Stored ==
  /\ \A x \in locals : x \in DOMAIN scopes[1] /\ scopes[1][x].home = fn.home
  /\ \A x \in DOMAIN symbols : ~IsFunction(symbols[x]) => x \in DOMAIN scopes[1]

\* What FinishLet puts into the symbols it puts on the stack as well, and no other
\* step takes anything away from either.
LEMMA StoredInvariant == Spec => []((IInv \/ HalfEnded) /\ Stored)
<1>1. Init => Stored
  <2> SUFFICES ASSUME Init PROVE Stored
    OBVIOUS
  <2>1. \A x \in DOMAIN BuiltinSymbols : IsFunction(BuiltinSymbols[x])
    BY DEF BuiltinSymbols, FunctionSignature, IsFunction
  <2> QED
    BY <2>1 DEF Init, Stored
<1>2. IInv /\ InFunction /\ Stored /\ [Next]_vars => Stored'
  <2> SUFFICES ASSUME IInv, InFunction, Stored, [Next]_vars PROVE Stored'
    OBVIOUS
  <2>1. CASE UNCHANGED <<symbols, scopes, fn, locals>>
    BY <2>1 DEF Stored
  <2>2. CASE Bound
    <3>1. PICK type \in Scalars, ty \in LlvmScalars :
            /\ scopes' = StackPut(scopes, Top.name, [home |-> fn.home, ty |-> ty])
            /\ symbols' = AddNewSymbol(symbols, Top.name, type)
            /\ locals' = locals \cup {Top.name} /\ fn' = fn
      BY <2>2 DEF Bound
    <3>2. scopes = <<scopes[1]>>
      BY DEF IInv, IrOK
    <3>3. scopes'[1] = InsertOrAssign(scopes[1], Top.name, [home |-> fn.home, ty |-> ty])
      BY <3>1, <3>2, PutIntoOneScope
    <3> QED
      BY <3>1, <3>3 DEF InsertOrAssign, AddNewSymbol, Emplace, Stored
  <2>3. CASE Defined
    <3>1. PICK s \in Signatures, type \in FunctionTypes :
            /\ symbols' = AddNewSymbol(symbols, s.name, type)
            /\ locals' = {} /\ scopes' = scopes
      BY <2>3 DEF Defined
    <3>2. IsFunction(type)
      BY DEF FunctionTypes, IsFunction
    <3> QED
      BY <3>1, <3>2 DEF AddNewSymbol, Emplace, InsertOrAssign, Stored
  <2>4. CASE HalfDefines
    <3> PICK s \in Signatures : \E type \in {FunctionTypeOf(typenames, s.params, s.ret)} :
            /\ symbols' = AddNewSymbol(symbols, s.name, type)
            /\ IsFunction(type) /\ UNCHANGED irVars
      BY <2>4 DEF HalfDefines
    <3>1. PICK type \in {FunctionTypeOf(typenames, s.params, s.ret)} :
            /\ symbols' = AddNewSymbol(symbols, s.name, type)
            /\ IsFunction(type) /\ UNCHANGED irVars
      OBVIOUS
    <3> QED
      BY <3>1 DEF AddNewSymbol, Emplace, InsertOrAssign, Stored, irVars
  <2> QED
    BY <2>1, <2>2, <2>3, <2>4, Steps DEF Ended, Local, Called, envVars, irVars
<1>3. HalfEnded /\ Stored /\ [Next]_vars => Stored'
  BY NothingFollows DEF HalfEnded, Stored, vars, envVars, irVars
<1> QED
  BY <1>1, <1>2, <1>3, Invariance, PTL DEF Spec

\* What a function has bound with `val` is read from its own frame, though the
\* frames of all functions share one scope that is never popped.
THEOREM OwnStorageKept == Spec => []OwnStorage
<1>1. (IInv \/ HalfEnded) /\ Stored => OwnStorage
  <2> SUFFICES ASSUME IInv \/ HalfEnded, Stored, NEW x \in locals
               PROVE  StackGet(scopes, x).home = fn.home
    BY DEF OwnStorage
  <2>1. scopes = <<scopes[1]>>
    BY DEF IInv, IrOK, HalfEnded, TypeOK
  <2>2. StackGet(scopes, x) = scopes[1][x]
    <3>1. x \in DOMAIN scopes[1]
      BY DEF Stored
    <3> QED
      BY <2>1, <3>1, GetFromOneScope
  <2> QED
    BY <2>2 DEF Stored
<1> QED
  BY <1>1, StoredInvariant, PTL

\* A variable whose type is found has storage: the environment and the stack,
\* filled by one statement, never disagree on which names are bound.
THEOREM SymbolsStored == Spec => []SymbolsHaveStorage
<1>1. (IInv \/ HalfEnded) /\ Stored => SymbolsHaveStorage
  <2> SUFFICES ASSUME IInv \/ HalfEnded, Stored, NEW x \in DOMAIN symbols, ~IsFunction(symbols[x])
               PROVE  StackGet(scopes, x) # NoStorage
    BY DEF SymbolsHaveStorage
  <2>1. scopes = <<scopes[1]>> /\ x \in DOMAIN scopes[1]
    BY DEF IInv, IrOK, HalfEnded, TypeOK, Stored
  <2>2. StackGet(scopes, x) = scopes[1][x]
    BY <2>1, GetFromOneScope
  <2>3. scopes[1][x].home \in 1..fn.home
    BY <2>1 DEF IInv, IrOK, HalfEnded, TypeOK
  <2>4. fn.home \in Nat
    BY CodegenAssumption DEF IInv, IrOK, HalfEnded, TypeOK
  <2> QED
    BY <2>2, <2>3, <2>4 DEF NoStorage
<1> QED
  BY <1>1, StoredInvariant, PTL
================================================================================
