---------------------------- MODULE EvaluationProofs ----------------------------
(***************************************************************************)
(* Proofs about what a program prints, for expressions of any size, any    *)
(* literals and words of any width: the walk finds the value of every      *)
(* operand, and the words stand for what the expression means.             *)
(***************************************************************************)
EXTENDS Evaluation, ExpressionGrammarProofs, IntegerOpsProofs

(********************************* Values **********************************)

IntegerOrBool == IntegerTypes(Widths) \cup {Bool}
ValuesOf(t) == {Denotes(t, word) : word \in WordsOf(t)}

\* A value as TypeOK has it, whose word stands for its meaning if it was not misread
GoodValue(v) ==
  /\ v.type \in IntegerOrBool /\ v.width \in Widths \cup {1} /\ v.word \in WordsAt(v.width)
  /\ v.width = 1 <=> v.type = Bool
  /\ v.meaning \in ValuesOf(v.type)
  /\ v.misread \subseteq {"sign", "width"}
  /\ "width" \notin v.misread => v.width = LlvmWidth(v.type)
  /\ v.misread = {} => Denotes(v.type, v.word) = v.meaning

\* A value as LiteralNarrowest has those of literals
NarrowestValue(v) ==
  /\ Denotes(v.type, v.word) = v.meaning
  /\ \A w \in Widths :
       w < v.type.width =>
         \A word \in Words(w) : Denotes([v.type EXCEPT !.width = w], word) # v.meaning

ValuesGood ==
  \A n \in DOMAIN values :
    /\ n \in 1..Len(nodes) /\ GoodValue(values[n])
    /\ nodes[n].op = "atom" => NarrowestValue(values[n])

--------------------------------------------------------------------------------
(* The inductive invariant. *)

\* The nodes being visited are ever further down, and have no value yet; the first
\* is the argument, which has a value once none is left
WalkInv ==
  /\ frames \in Seq(Nat)
  /\ \A k \in 1..Len(frames) : frames[k] \in 1..Len(nodes) /\ frames[k] \notin DOMAIN values
  /\ \A j, k \in 1..Len(frames) : j < k => frames[k] < frames[j]
  /\ fate = "parsing" => frames = << >> /\ DOMAIN values = {}
  /\ fate \in {"walking", "printed"} =>
       IF frames = << >> THEN operand \in DOMAIN values ELSE frames[1] = operand
  /\ fate = "printed" => frames = << >>
  /\ fate # "parsing" => Parsed

FateInv ==
  /\ fate \in {"parsing", "walking", "printed", "threw", "reported", "refused", "undefined"}
  /\ printed.by \in Printers \cup {"nobody"}

EvalInv == ValuesGood /\ WalkInv /\ FateInv /\ UndefinedOnlyIfMeaningless /\ PrintedIsMeaning

--------------------------------------------------------------------------------
(* The values operations give. *)

LEMMA TypesAre ==
  /\ \A t \in IntegerTypes(Widths) :
       /\ t.width \in Widths /\ t \in IntegerOf(t.width) /\ t.tag \in {"uint", "sint"} /\ t # Bool
       /\ WordsOf(t) = Words(t.width) /\ LlvmWidth(t) = t.width /\ IsInteger(t)
       /\ t.tag = "uint" => t = UInt(t.width)
       /\ t.tag = "sint" => t = SInt(t.width)
  /\ \A w \in Widths : IntegerOf(w) \subseteq IntegerTypes(Widths)
  /\ WordsOf(Bool) = {0, 1} /\ \A i : Denotes(Bool, i) = i
  /\ Bool.tag = "boolean" /\ LlvmWidth(Bool) = 1
<1>1. Bool.tag = "boolean" /\ LlvmWidth(Bool) = 1
  BY DEF Bool, LlvmWidth
<1>2. WordsOf(Bool) = {0, 1} /\ \A i : Denotes(Bool, i) = i
  BY <1>1 DEF WordsOf, Denotes
<1>3. \A w \in Widths : IntegerOf(w) \subseteq IntegerTypes(Widths)
  BY DEF IntegerOf, IntegerTypes
<1>4. \A t \in IntegerTypes(Widths) :
        /\ t.width \in Widths /\ t \in IntegerOf(t.width) /\ t.tag \in {"uint", "sint"}
        /\ t.tag = "uint" => t = UInt(t.width)
        /\ t.tag = "sint" => t = SInt(t.width)
  BY TypesOf DEF IntegerTypes, IntegerOf
<1>5. \A t \in IntegerTypes(Widths) : t # Bool
  BY <1>1, <1>4
<1>6. \A t \in IntegerTypes(Widths) : WordsOf(t) = Words(t.width)
  BY <1>4, <1>5 DEF WordsOf
<1>7. \A t \in IntegerTypes(Widths) : LlvmWidth(t) = t.width /\ IsInteger(t)
  BY <1>4, <1>5 DEF IsInteger, LlvmWidth
<1> QED
  BY <1>1, <1>2, <1>3, <1>4, <1>5, <1>6, <1>7

\* The words of a type are those of its width in LLVM.
LEMMA WidthsAre ==
  /\ \A t \in IntegerOrBool :
       /\ LlvmWidth(t) \in Widths \cup {1} /\ WordsAt(LlvmWidth(t)) = WordsOf(t)
       /\ LlvmWidth(t) = 1 <=> t = Bool
  /\ \A w \in Widths : WordsAt(w) = Words(w)
  /\ 1 \notin Widths /\ WordsAt(1) = {0, 1}
<1>1. 1 \notin Widths /\ WordsAt(1) = {0, 1} /\ \A w \in Widths : WordsAt(w) = Words(w)
  BY DEF Widths, WordsAt
<1> QED
  BY <1>1, TypesAre DEF IntegerOrBool

LEMMA ValIs ==
  ASSUME NEW type, NEW width, NEW word, NEW meaning, NEW misread
  PROVE  /\ Val(type, width, word, meaning, misread).type = type
         /\ Val(type, width, word, meaning, misread).width = width
         /\ Val(type, width, word, meaning, misread).word = word
         /\ Val(type, width, word, meaning, misread).meaning = meaning
         /\ Val(type, width, word, meaning, misread).misread = misread
BY Zenon DEF Val

LEMMA GoodVal ==
  ASSUME NEW type \in IntegerOrBool, NEW width \in Widths \cup {1}, NEW word \in WordsAt(width),
         width = 1 <=> type = Bool, NEW meaning \in ValuesOf(type),
         NEW misread \in SUBSET {"sign", "width"},
         "width" \notin misread => width = LlvmWidth(type),
         misread = {} => Denotes(type, word) = meaning
  PROVE  GoodValue(Val(type, width, word, meaning, misread))
<1> DEFINE v == Val(type, width, word, meaning, misread)
<1>1. v.type = type /\ v.width = width /\ v.word = word /\ v.meaning = meaning /\ v.misread = misread
  BY Zenon DEF Val
<1> HIDE DEF v
<1>2. v.type \in IntegerOrBool /\ v.width \in Widths \cup {1} /\ v.word \in WordsAt(v.width)
  BY <1>1
<1>3. (v.width = 1 <=> v.type = Bool) /\ v.meaning \in ValuesOf(v.type)
  BY <1>1
<1>4. v.misread \subseteq {"sign", "width"} /\ ("width" \notin v.misread => v.width = LlvmWidth(v.type))
  BY <1>1
<1>5. v.misread = {} => Denotes(v.type, v.word) = v.meaning
  BY <1>1
<1> QED
  BY <1>2, <1>3, <1>4, <1>5 DEF GoodValue, v

\* A value converted is a value of the target, and stands for the converted meaning.
LEMMA SubtypedGood ==
  ASSUME NEW v, GoodValue(v), NEW target \in IntegerOrBool, TrySubtype(v.type, target) # NoRule
  PROVE  /\ GoodValue(Subtyped(v, target))
         /\ Subtyped(v, target).type = target /\ Subtyped(v, target).misread = v.misread
         /\ Subtyped(v, target).meaning = ConvertedValue(target, v.meaning)
<1> DEFINE rule == TrySubtype(v.type, target)
           width == IF rule = "identity" THEN v.width ELSE LlvmWidth(target)
           word == ConvertWord(rule, v.width, target, v.word)
           meaning == ConvertedValue(target, v.meaning)
<1>1. /\ v.type \in IntegerOrBool /\ v.width \in Widths \cup {1} /\ v.word \in WordsAt(v.width)
      /\ v.width = 1 <=> v.type = Bool
      /\ v.misread \subseteq {"sign", "width"}
      /\ "width" \notin v.misread => v.width = LlvmWidth(v.type)
      /\ v.misread = {} => Denotes(v.type, v.word) = v.meaning
  BY DEF GoodValue
<1>2. /\ width \in Widths \cup {1} /\ (width = 1 <=> target = Bool) /\ word \in WordsAt(width)
  BY <1>1, ConversionsGiveWords DEF IntegerOrBool
<1>3. \A n \in WordsOf(v.type) :
        LET c == ConvertWord(rule, LlvmWidth(v.type), target, n)
        IN  c \in WordsOf(target) /\ Denotes(target, c) = ConvertedValue(target, Denotes(v.type, n))
  BY <1>1, ConversionsKeepValues DEF IntegerOrBool
<1>4. PICK n \in WordsOf(v.type) : v.meaning = Denotes(v.type, n)
  BY DEF GoodValue, ValuesOf
<1>5. meaning \in ValuesOf(target)
  BY <1>3, <1>4 DEF ValuesOf
<1>6. "width" \notin v.misread => width = LlvmWidth(target)
  <2>1. Allows(rule, v.type, target)
    BY TrySubtypeAllowed
  <2>2. rule = "identity" => target = v.type
    BY <2>1 DEF Allows
  <2> QED
    BY <1>1, <2>2
<1>7. v.misread = {} => Denotes(target, word) = meaning
  <2> SUFFICES ASSUME v.misread = {} PROVE Denotes(target, word) = meaning
    OBVIOUS
  <2>1. v.width = LlvmWidth(v.type) /\ Denotes(v.type, v.word) = v.meaning
    BY <1>1
  <2>2. v.word \in WordsOf(v.type)
    BY <1>1, <2>1, WidthsAre
  <2> QED
    BY <1>3, <2>1, <2>2
<1>8. Subtyped(v, target) = Val(target, width, word, meaning, v.misread)
  BY DEF Subtyped
<1> HIDE DEF width, word, meaning
<1>9. GoodValue(Val(target, width, word, meaning, v.misread))
  BY <1>1, <1>2, <1>5, <1>6, <1>7, GoodVal
<1> QED
  BY <1>8, <1>9, ValIs DEF meaning

\* Any value converts to bool.
LEMMA ConvertsToBool ==
  \A t \in IntegerOrBool : TrySubtype(t, Bool) # NoRule
<1> SUFFICES ASSUME NEW t \in IntegerOrBool PROVE TrySubtype(t, Bool) # NoRule
  OBVIOUS
<1>1. t = Bool \/ t \notin {Void, Bool}
  <2>1. t = Bool \/ t.tag \in {"uint", "sint"}
    BY TypesAre DEF IntegerOrBool
  <2> QED
    BY <2>1 DEF Void
<1>2. \E rule \in SubtypingRule : Allows(rule, t, Bool)
  <2>1. "identity" \in SubtypingRule /\ "numeric_to_bool" \in SubtypingRule
    BY DEF SubtypingRule
  <2>2. CASE t = Bool
    <3>1. Allows("identity", t, Bool)
      BY <2>2 DEF Allows
    <3> QED
      BY <2>1, <3>1
  <2>3. CASE t \notin {Void, Bool}
    <3>1. Allows("numeric_to_bool", t, Bool)
      BY <2>3 DEF Allows
    <3> QED
      BY <2>1, <3>1
  <2> QED
    BY <1>1, <2>2, <2>3
<1>3. TrySubtype(t, Bool) = NoRule => \A rule \in SubtypingRule : ~Allows(rule, t, Bool)
  <2>1. NoRule \notin SubtypingRule
    BY DEF NoRule, SubtypingRule
  <2> QED
    BY <2>1, TrySubtypeAllowed
<1> QED
  BY <1>2, <1>3

LEMMA LiteralGood ==
  ASSUME NEW signed \in BOOLEAN, NEW i \in Int, Fits(signed, 64, i)
  PROVE  LET type == LiteralType(BuiltinTypes, signed, i)
             v == Val(type, type.width, LiteralWord(type, i), i, {})
         IN  GoodValue(v) /\ NarrowestValue(v) /\ v.misread = {}
<1> DEFINE type == LiteralType(BuiltinTypes, signed, i)
           word == LiteralWord(type, i)
           v == Val(type, type.width, word, i, {})
<1>1. /\ type.width \in Widths /\ type = IF signed THEN SInt(type.width) ELSE UInt(type.width)
      /\ word \in Words(type.width) /\ Denotes(type, word) = i
      /\ \A w \in Widths :
           w < type.width => \A n \in Words(w) : Denotes(IF signed THEN SInt(w) ELSE UInt(w), n) # i
  BY LiteralsExact
<1> HIDE DEF type, word
<1>2. /\ type \in IntegerTypes(Widths) /\ type \in IntegerOrBool /\ WordsOf(type) = Words(type.width)
      /\ type # Bool /\ LlvmWidth(type) = type.width
  <2>1. type \in IntegerTypes(Widths)
    BY <1>1 DEF IntegerTypes
  <2> QED
    BY <2>1, TypesAre DEF IntegerOrBool
<1>3. i \in ValuesOf(type)
  BY <1>1, <1>2 DEF ValuesOf
<1>4. word \in WordsAt(type.width) /\ type.width # 1
  BY <1>1, WidthsAre
<1>5. GoodValue(v)
  BY <1>1, <1>2, <1>3, <1>4, GoodVal
<1>6. \A w : [type EXCEPT !.width = w] = IF signed THEN SInt(w) ELSE UInt(w)
  BY <1>1 DEF SInt, UInt
<1>7. v.type = type /\ v.word = word /\ v.meaning = i /\ v.misread = {}
  BY DEF Val
<1> HIDE DEF v
<1>8. NarrowestValue(v)
  BY <1>1, <1>6, <1>7 DEF NarrowestValue
<1> QED
  BY <1>5, <1>7, <1>8 DEF v, type, word

\* An operation that inference gives an integer type is one on integers; the right
\* operand of a shift is unsigned, and the left one has the type of the shift.
LEMMA OperandsAreIntegers ==
  ASSUME NEW s \in IntegerOrBool, NEW t \in IntegerOrBool, NEW op \in ArithmeticOps \cup ShiftOps,
         IsInteger(InferBinary(BuiltinTypes, op, s, t))
  PROVE  LET type == InferBinary(BuiltinTypes, op, s, t)
         IN  /\ s \in IntegerTypes(Widths) /\ t \in IntegerTypes(Widths) /\ (type = s \/ type = t)
             /\ op \in ShiftOps => t.tag = "uint" /\ type = s
<1> DEFINE type == InferBinary(BuiltinTypes, op, s, t)
<1>1. s # Nullopt /\ t # Nullopt
  <2>1. Nullopt.tag = "nullopt"
    BY DEF Nullopt
  <2>2. \A q \in IntegerOrBool : q.tag \in {"uint", "sint", "boolean"}
    BY TypesAre DEF IntegerOrBool
  <2> QED
    BY <2>1, <2>2
<1>2. \A q \in IntegerOrBool : q.tag \in {"uint", "sint"} => q \in IntegerTypes(Widths)
  BY TypesAre DEF IntegerOrBool
<1>3. type.tag \in {"uint", "sint"} /\ Nullopt.tag = "nullopt"
  BY DEF IsInteger, Nullopt
<1>4. CASE op \in ArithmeticOps
  <2>1. type = InferArithmetic(s, t) /\ op \notin ShiftOps
    BY <1>1, <1>4 DEF InferBinary, ArithmeticOps, ShiftOps, BooleanOps
  <2>2. s.tag \in {"uint", "sint"} /\ t.tag \in {"uint", "sint"} /\ (type = s \/ type = t)
    BY <1>3, <2>1 DEF InferArithmetic, LargerOr, IsInteger
  <2> QED
    BY <1>2, <2>1, <2>2
<1>5. CASE op \in ShiftOps
  <2>1. type = InferShift(s, t)
    BY <1>1, <1>5 DEF InferBinary, ArithmeticOps, ShiftOps, BooleanOps
  <2>2. t.tag = "uint" /\ type = s
    BY <1>3, <2>1 DEF InferShift
  <2> QED
    BY <1>2, <1>3, <2>2
<1> QED
  BY <1>4, <1>5

\* An operation on the words of sound operands is the operation on what they mean.
LEMMA OperationSound ==
  ASSUME NEW w \in Widths, NEW l \in IntegerOf(w), NEW r \in IntegerOf(w), NEW t \in IntegerOf(w),
         NEW a \in Words(w), NEW b \in Words(w), NEW op \in ArithmeticOps \cup ShiftOps,
         op \in ShiftOps => r = UInt(w) /\ t = l
  PROVE  LET x == Wrapped(t, Denotes(l, a))
             y == IF op \in ShiftOps THEN Denotes(r, b) ELSE Wrapped(t, Denotes(r, b))
         IN  /\ Meaningless(op, t, x, y) => NoResultDefined(Instruction[op], w, w, a, b)
             /\ ~Meaningless(op, t, x, y) /\ ~SignBitRead(op, t, a, b) =>
                  /\ ~NoResultDefined(Instruction[op], w, w, a, b)
                  /\ Denotes(t, Execute(Instruction[op], w, w, a, b)) = Wrapped(t, Exact(op, t, x, y))
<1> DEFINE x == Wrapped(t, Denotes(l, a))
           y == IF op \in ShiftOps THEN Denotes(r, b) ELSE Wrapped(t, Denotes(r, b))
<1>1. ShiftOps = {"bitshift_right_", "bitshift_left_"}
  BY DEF ShiftOps
<1>2. x = Denotes(t, a) /\ y = IF op \in ShiftOps THEN b ELSE Denotes(t, b)
  <2>1. op \in ShiftOps => Denotes(r, b) = b
    BY TypesOf DEF Denotes
  <2> QED
    BY <2>1, WrappedDenotes
<1>3. op \in IntegerOperators
  BY DEF IntegerOperators, ArithmeticOps, ShiftOps
<1>4. Meaningless(op, t, x, y) => NoResultDefined(Instruction[op], w, w, a, b)
  BY <1>1, <1>2, <1>3, MeaninglessIsUndefined
<1> SUFFICES ASSUME ~Meaningless(op, t, x, y), ~SignBitRead(op, t, a, b)
             PROVE  /\ ~NoResultDefined(Instruction[op], w, w, a, b)
                    /\ Denotes(t, Execute(Instruction[op], w, w, a, b)) = Wrapped(t, Exact(op, t, x, y))
  BY <1>4
<1>5. CASE op \in ShiftOps
  <2>1. y = b /\ l = t
    BY <1>2, <1>5
  <2> QED
    BY <1>1, <1>5, <2>1, ShiftsSound
<1>6. CASE op \in {"multiply", "divide", "modulo", "plus", "minus"}
  <2>1. y = Wrapped(t, Denotes(r, b))
    BY <1>1, <1>6
  <2> QED
    BY <1>6, <2>1, ArithmeticSound
<1>7. CASE op \in {"bitand_", "bitxor_", "bitor_"}
  <2>1. y = Wrapped(t, Denotes(r, b))
    BY <1>1, <1>7
  <2> QED
    BY <1>7, <2>1, BitOperatorsSound
<1> QED
  BY <1>5, <1>6, <1>7 DEF ArithmeticOps

\* What an operation on integers means is a value of its type.
LEMMA ArithmeticMeans ==
  ASSUME NEW l, NEW r, GoodValue(l), GoodValue(r), NEW op \in ArithmeticOps \cup ShiftOps,
         IsInteger(InferBinary(BuiltinTypes, op, l.type, r.type))
  PROVE  LET type == InferBinary(BuiltinTypes, op, l.type, r.type)
         IN  ArithmeticMeaning(op, type, l, r) \in ValuesOf(type)
<1> DEFINE type == InferBinary(BuiltinTypes, op, l.type, r.type)
           w == type.width
           x == LeftMeaning(type, l)
           y == RightMeaning(op, type, r)
           meaning == ArithmeticMeaning(op, type, l, r)
<1>1. /\ l.type \in IntegerTypes(Widths) /\ r.type \in IntegerTypes(Widths) /\ type \in IntegerTypes(Widths)
      /\ op \in ShiftOps => r.type = UInt(r.type.width)
  BY OperandsAreIntegers, TypesAre DEF GoodValue
<1> HIDE DEF type
<1>2. w \in Widths /\ type \in IntegerOf(w) /\ ValuesOf(type) = {Denotes(type, word) : word \in Words(w)}
  BY <1>1, TypesAre DEF ValuesOf
<1>3. \A v : GoodValue(v) /\ v.type \in IntegerTypes(Widths) =>
        /\ v.meaning \in Int
        /\ v.type = UInt(v.type.width) => v.meaning \in Nat
  <2> SUFFICES ASSUME NEW v, GoodValue(v), v.type \in IntegerTypes(Widths)
               PROVE  v.meaning \in Int /\ (v.type = UInt(v.type.width) => v.meaning \in Nat)
    OBVIOUS
  <2>1. v.type.width \in Widths /\ v.type \in IntegerOf(v.type.width) /\ WordsOf(v.type) = Words(v.type.width)
    BY TypesAre
  <2>2. PICK n \in Words(v.type.width) : v.meaning = Denotes(v.type, n)
    BY <2>1 DEF GoodValue, ValuesOf
  <2>3. v.meaning \in Int
    BY <2>1, <2>2, DenotesWord
  <2>4. v.type = UInt(v.type.width) => v.meaning = n
    BY <2>2, TypesOf DEF Denotes
  <2> QED
    BY <2>2, <2>3, <2>4 DEF Words
<1>4. x \in Int /\ y \in Int /\ (op \in ShiftOps => y \in Nat)
  <2>1. l.meaning \in Int /\ r.meaning \in Int /\ (op \in ShiftOps => r.meaning \in Nat)
    BY <1>1, <1>3
  <2>2. \A i \in Int : Wrapped(type, i) \in Int
    <3>1. \A i \in Int : \E q \in Words(w) : Wrapped(type, i) = Denotes(type, q)
      BY <1>2, WrappedIsValue
    <3>2. \A q \in Words(w) : Denotes(type, q) \in Int
      BY <1>2, DenotesWord
    <3> QED
      BY <3>1, <3>2
  <2> QED
    BY <2>1, <2>2 DEF LeftMeaning, RightMeaning
<1>5. meaning = IF Meaningless(op, type, x, y) THEN 0 ELSE Wrapped(type, Exact(op, type, x, y))
  BY DEF ArithmeticMeaning
<1> HIDE DEF w, x, y, meaning
<1>6. ASSUME Meaningless(op, type, x, y) PROVE meaning \in ValuesOf(type)
  <2>1. 0 \in Words(w) /\ Denotes(type, 0) = 0
    BY <1>1, <1>2, Sizes DEF Words, Denotes, AsSigned, w
  <2> QED
    BY <1>2, <1>5, <1>6, <2>1
<1>7. ASSUME ~Meaningless(op, type, x, y) PROVE meaning \in ValuesOf(type)
  <2>1. op \in IntegerOperators
    BY DEF IntegerOperators, ArithmeticOps, ShiftOps
  <2>2. op \in {"bitshift_right_", "bitshift_left_"} => y \in Nat
    BY <1>4 DEF ShiftOps
  <2>3. Exact(op, type, x, y) \in Int
    BY <1>2, <1>4, <1>7, <2>1, <2>2, ExactIsInteger
  <2>4. meaning = Wrapped(type, Exact(op, type, x, y))
    BY <1>5, <1>7
  <2>5. meaning \in {Denotes(type, word) : word \in Words(w)}
    BY <1>2, <2>3, <2>4, WrappedIsValue
  <2> QED
    BY <1>2, <2>5
<1> QED
  BY <1>6, <1>7 DEF type, meaning

\* Operands of one width that no operation misread are of the width of the operation.
LEMMA OneWidth ==
  ASSUME NEW l, NEW r, GoodValue(l), GoodValue(r), NEW op \in ArithmeticOps \cup ShiftOps,
         IsInteger(InferBinary(BuiltinTypes, op, l.type, r.type)),
         l.width = r.width, "width" \notin l.misread, "width" \notin r.misread
  PROVE  LET type == InferBinary(BuiltinTypes, op, l.type, r.type)
         IN  /\ type.width = l.width /\ l.width \in Widths
             /\ l.type \in IntegerOf(l.width) /\ r.type \in IntegerOf(l.width) /\ type \in IntegerOf(l.width)
             /\ op \in ShiftOps => r.type = UInt(l.width) /\ type = l.type
<1> DEFINE type == InferBinary(BuiltinTypes, op, l.type, r.type)
<1>1. /\ l.type \in IntegerTypes(Widths) /\ r.type \in IntegerTypes(Widths)
      /\ type = l.type \/ type = r.type
      /\ op \in ShiftOps => r.type.tag = "uint" /\ type = l.type
  BY OperandsAreIntegers DEF GoodValue
<1> HIDE DEF type
<1>2. l.width = l.type.width /\ r.width = r.type.width
  BY <1>1, TypesAre DEF GoodValue
<1>3. l.width \in Widths /\ l.type \in IntegerOf(l.width) /\ r.type \in IntegerOf(l.width)
  BY <1>1, <1>2, TypesAre
<1>4. type.width = l.width /\ type \in IntegerOf(l.width)
  BY <1>1, <1>2, <1>3
<1>5. op \in ShiftOps => r.type = UInt(l.width) /\ type = l.type
  <2>1. \A t \in IntegerTypes(Widths) : t.tag = "uint" => t = UInt(t.width)
    BY TypesAre
  <2>2. r.type.width = l.width
    BY <1>2
  <2> QED
    BY <1>1, <2>1, <2>2
<1> QED
  BY <1>3, <1>4, <1>5 DEF type

\* Why an operation on l and r may have no defined result
Excused(op, l, r) ==
  LET type == InferBinary(BuiltinTypes, op, l.type, r.type)
  IN  \/ l.width # r.width \/ l.misread # {} \/ r.misread # {}
      \/ Meaningless(op, type, LeftMeaning(type, l), RightMeaning(op, type, r))
      \/ SignBitRead(op, type, l.word, r.word)

\* Unless there is such a reason, the word computed stands for what is meant.
LEMMA ArithmeticRight ==
  ASSUME NEW l, NEW r, GoodValue(l), GoodValue(r), NEW op \in ArithmeticOps \cup ShiftOps,
         IsInteger(InferBinary(BuiltinTypes, op, l.type, r.type)),
         l.width = r.width, l.misread = {}, r.misread = {}
  PROVE  LET type == InferBinary(BuiltinTypes, op, l.type, r.type)
             undefined == NoResultDefined(Instruction[op], l.width, l.width, l.word, r.word)
             word == Execute(Instruction[op], l.width, l.width, l.word, r.word)
         IN  ~SignBitRead(op, type, l.word, r.word) =>
               IF undefined THEN Meaningless(op, type, LeftMeaning(type, l), RightMeaning(op, type, r))
               ELSE Denotes(type, word) = ArithmeticMeaning(op, type, l, r)
<1> DEFINE type == InferBinary(BuiltinTypes, op, l.type, r.type)
           w == l.width
           x == LeftMeaning(type, l)
           y == RightMeaning(op, type, r)
<1>1. /\ w \in Widths /\ l.type \in IntegerOf(w) /\ r.type \in IntegerOf(w) /\ type \in IntegerOf(w)
      /\ op \in ShiftOps => r.type = UInt(w) /\ type = l.type
  BY OneWidth
<1> HIDE DEF type
<1>2. l.word \in Words(w) /\ r.word \in Words(w)
  BY <1>1, WidthsAre DEF GoodValue
<1>3. Denotes(l.type, l.word) = l.meaning /\ Denotes(r.type, r.word) = r.meaning
  BY DEF GoodValue
<1>4. x = Wrapped(type, Denotes(l.type, l.word))
  BY <1>3 DEF LeftMeaning
<1>5. y = IF op \in ShiftOps THEN Denotes(r.type, r.word) ELSE Wrapped(type, Denotes(r.type, r.word))
  BY <1>3 DEF RightMeaning
<1>6. ArithmeticMeaning(op, type, l, r)
        = IF Meaningless(op, type, x, y) THEN 0 ELSE Wrapped(type, Exact(op, type, x, y))
  BY DEF ArithmeticMeaning
<1> HIDE DEF w, x, y
<1> DEFINE undefined == NoResultDefined(Instruction[op], w, w, l.word, r.word)
           word == Execute(Instruction[op], w, w, l.word, r.word)
<1>7. /\ Meaningless(op, type, x, y) => undefined
      /\ ~Meaningless(op, type, x, y) /\ ~SignBitRead(op, type, l.word, r.word) =>
           ~undefined /\ Denotes(type, word) = Wrapped(type, Exact(op, type, x, y))
  BY <1>1, <1>2, <1>4, <1>5, OperationSound
<1> HIDE DEF undefined, word
<1>8. ~SignBitRead(op, type, l.word, r.word) =>
        IF undefined THEN Meaningless(op, type, x, y)
        ELSE Denotes(type, word) = ArithmeticMeaning(op, type, l, r)
  BY <1>6, <1>7
<1> QED
  BY <1>8 DEF type, w, x, y, undefined, word

\* The value of an operation is good, and an operation that has no defined result has
\* a reason.
LEMMA ArithmeticGood ==
  ASSUME NEW l, NEW r, GoodValue(l), GoodValue(r), NEW op \in ArithmeticOps \cup ShiftOps,
         IsInteger(InferBinary(BuiltinTypes, op, l.type, r.type))
  PROVE  LET type == InferBinary(BuiltinTypes, op, l.type, r.type)
         IN  IF NoResultDefined(Instruction[op], l.width, r.width, l.word, r.word)
             THEN Excused(op, l, r)
             ELSE \A folded \in Folds(Instruction[op], l.width, r.width, l.word, r.word) :
                    GoodValue(Val(type, folded.width, folded.word,
                                  ArithmeticMeaning(op, type, l, r), Misread(op, type, l, r)))
<1> DEFINE type == InferBinary(BuiltinTypes, op, l.type, r.type)
           read == SignBitRead(op, type, l.word, r.word)
           undefined == NoResultDefined(Instruction[op], l.width, r.width, l.word, r.word)
           meaning == ArithmeticMeaning(op, type, l, r)
           misread == Misread(op, type, l, r)
<1>1. /\ l.width \in Widths /\ l.word \in Words(l.width)
      /\ r.width \in Widths /\ r.word \in Words(r.width)
      /\ type \in IntegerOrBool /\ type # Bool
  <2>1. l.type \in IntegerTypes(Widths) /\ r.type \in IntegerTypes(Widths) /\ (type = l.type \/ type = r.type)
    BY OperandsAreIntegers DEF GoodValue
  <2>2. l.type # Bool /\ r.type # Bool /\ type # Bool /\ type \in IntegerOrBool
    BY <2>1, TypesAre DEF IntegerOrBool
  <2> QED
    BY <2>2, WidthsAre DEF GoodValue
<1>2. l.misread \subseteq {"sign", "width"} /\ r.misread \subseteq {"sign", "width"}
  BY DEF GoodValue
<1>3. misread = l.misread \cup r.misread \cup OfTwoWidths(l, r) \cup IF read THEN {"sign"} ELSE {}
  BY DEF Misread
<1>4. CASE undefined
  <2>1. Excused(op, l, r)
    <3> SUFFICES ASSUME l.width = r.width, l.misread = {}, r.misread = {}, ~read
                 PROVE  Meaningless(op, type, LeftMeaning(type, l), RightMeaning(op, type, r))
      BY DEF Excused
    <3> HIDE DEF type
    <3>1. NoResultDefined(Instruction[op], l.width, l.width, l.word, r.word)
      BY <1>4
    <3> QED
      BY <3>1, ArithmeticRight DEF type
  <2> QED
    BY <1>4, <2>1
<1>5. CASE ~undefined
  <2> SUFFICES ASSUME NEW folded \in Folds(Instruction[op], l.width, r.width, l.word, r.word)
               PROVE  GoodValue(Val(type, folded.width, folded.word, meaning, misread))
    BY <1>5
  <2>1. Instruction[op] \in IntegerInstructions
    BY InstructionsAre DEF IntegerOperators, ArithmeticOps, ShiftOps
  <2>2. /\ folded.width \in Widths /\ folded.word \in Words(folded.width)
        /\ l.width = r.width =>
             /\ folded.width = l.width
             /\ folded.word = Execute(Instruction[op], l.width, l.width, l.word, r.word)
    BY <1>1, <1>5, <2>1, FoldsAreWords
  <2>3. meaning \in ValuesOf(type)
    BY ArithmeticMeans
  <2>4. misread \in SUBSET {"sign", "width"}
    BY <1>2, <1>3 DEF OfTwoWidths
  <2>5. "width" \notin misread => folded.width = LlvmWidth(type)
    <3> SUFFICES ASSUME "width" \notin misread PROVE folded.width = LlvmWidth(type)
      OBVIOUS
    <3>1. l.width = r.width /\ "width" \notin l.misread /\ "width" \notin r.misread
      BY <1>3 DEF OfTwoWidths
    <3>2. type.width = l.width
      BY <3>1, OneWidth
    <3>3. LlvmWidth(type) = type.width
      BY <1>1 DEF LlvmWidth
    <3> QED
      BY <2>2, <3>1, <3>2, <3>3
  <2>6. misread = {} => Denotes(type, folded.word) = meaning
    <3> SUFFICES ASSUME misread = {} PROVE Denotes(type, folded.word) = meaning
      OBVIOUS
    <3>1. l.misread = {} /\ r.misread = {} /\ l.width = r.width /\ ~read
      BY <1>3 DEF OfTwoWidths
    <3> HIDE DEF type
    <3>2. ~NoResultDefined(Instruction[op], l.width, l.width, l.word, r.word)
      BY <1>5, <3>1
    <3>3. Denotes(type, Execute(Instruction[op], l.width, l.width, l.word, r.word)) = meaning
      BY <3>1, <3>2, ArithmeticRight DEF type
    <3> QED
      BY <2>2, <3>1, <3>3
  <2> HIDE DEF type, meaning, misread
  <2>7. folded.word \in WordsAt(folded.width) /\ (folded.width = 1 <=> type = Bool)
    BY <1>1, <2>2, WidthsAre
  <2> QED
    BY <1>1, <2>2, <2>3, <2>4, <2>5, <2>6, <2>7, GoodVal
<1> QED
  BY <1>4, <1>5

\* Operands are converted to bool before one is selected.
LEMMA BooleanGood ==
  ASSUME NEW u, NEW v, GoodValue(u), GoodValue(v), NEW op
  PROVE  LET l == Subtyped(u, Bool)
             r == Subtyped(v, Bool)
         IN  GoodValue(Val(Bool, 1, Select(op, l.word, r.word), Select(op, l.meaning, r.meaning),
                           l.misread \cup r.misread))
<1> DEFINE l == Subtyped(u, Bool)
           r == Subtyped(v, Bool)
           word == Select(op, l.word, r.word)
           meaning == Select(op, l.meaning, r.meaning)
           misread == l.misread \cup r.misread
<1>1. GoodValue(l) /\ l.type = Bool /\ GoodValue(r) /\ r.type = Bool /\ Bool \in IntegerOrBool
  <2>1. Bool \in IntegerOrBool
    BY DEF IntegerOrBool
  <2>2. TrySubtype(u.type, Bool) # NoRule /\ TrySubtype(v.type, Bool) # NoRule
    BY ConvertsToBool DEF GoodValue
  <2> QED
    BY <2>1, <2>2, SubtypedGood
<1> HIDE DEF l, r
<1>2. /\ WordsAt(1) = {0, 1} /\ ValuesOf(Bool) = {0, 1} /\ \A i : Denotes(Bool, i) = i
      /\ LlvmWidth(Bool) = 1
  BY TypesAre, WidthsAre DEF ValuesOf
<1>3. \A q : GoodValue(q) /\ q.type = Bool =>
        /\ q.word \in {0, 1} /\ q.meaning \in {0, 1} /\ q.misread \in SUBSET {"sign", "width"}
        /\ q.misread = {} => q.word = q.meaning
  BY <1>2 DEF GoodValue
<1>4. /\ l.word \in {0, 1} /\ r.word \in {0, 1} /\ l.meaning \in {0, 1} /\ r.meaning \in {0, 1}
      /\ l.misread = {} => l.word = l.meaning
      /\ r.misread = {} => r.word = r.meaning
      /\ misread \in SUBSET {"sign", "width"}
  BY <1>1, <1>3
<1>5. word \in WordsAt(1) /\ meaning \in ValuesOf(Bool)
  BY <1>2, <1>4 DEF Select
<1>6. misread = {} => Denotes(Bool, word) = meaning
  <2> SUFFICES ASSUME misread = {} PROVE word = meaning
    BY <1>2
  <2>1. l.misread = {} /\ r.misread = {}
    OBVIOUS
  <2> QED
    BY <1>4, <2>1
<1> HIDE DEF word, meaning, misread
<1>7. GoodValue(Val(Bool, 1, word, meaning, misread))
  BY <1>1, <1>2, <1>4, <1>5, <1>6, GoodVal
<1> QED
  BY <1>7 DEF word, meaning, misread, l, r

\* Of two integer types of one tag, one is a subtype of the other.
LEMMA OneTagSubtyped ==
  ASSUME NEW s \in IntegerTypes(Widths), NEW t \in IntegerTypes(Widths), s.tag = t.tag
  PROVE  TrySubtype(s, t) # NoRule \/ TrySubtype(t, s) # NoRule
<1>1. s.width \in Nat /\ t.width \in Nat /\ s.tag \in {"uint", "sint"}
  BY TypesAre DEF Widths
<1> DEFINE rule == IF s.tag = "uint" THEN "uint_promotion" ELSE "sint_promotion"
<1>2. rule \in SubtypingRule /\ "identity" \in SubtypingRule /\ NoRule \notin SubtypingRule
  BY DEF SubtypingRule, NoRule
<1>3. Allows("identity", s, t) \/ Allows(rule, s, t) \/ Allows(rule, t, s)
  <2>1. s.width = t.width => s = t
    BY TypesAre
  <2>2. CASE s.width = t.width
    BY <2>1, <2>2 DEF Allows
  <2>3. s.width = t.width \/ s.width < t.width \/ t.width < s.width
    BY <1>1
  <2>4. CASE s.tag = "uint" /\ s.width # t.width
    BY <2>3, <2>4 DEF Allows
  <2>5. CASE s.tag = "sint" /\ s.width # t.width
    BY <2>3, <2>5 DEF Allows
  <2> QED
    BY <1>1, <2>2, <2>4, <2>5
<1> QED
  BY <1>2, <1>3, TrySubtypeAllowed

\* Operands of one tag have a comparison; those of one width, if none was misread, are
\* of one type, and compared by value.
LEMMA ComparisonGood ==
  ASSUME NEW l, NEW r, GoodValue(l), GoodValue(r), NEW op \in Comparisons,
         l.type.tag = r.type.tag, IsInteger(l.type)
  PROVE  GoodValue(Val(InferComparison(BuiltinTypes, l.type, r.type), 1,
                       Truth(Predicate(op, l.type, l.width, l.word, r.word)),
                       Truth(Compares(op, l.meaning, r.meaning)),
                       l.misread \cup r.misread \cup OfTwoWidths(l, r)))
<1> DEFINE type == InferComparison(BuiltinTypes, l.type, r.type)
           word == Truth(Predicate(op, l.type, l.width, l.word, r.word))
           meaning == Truth(Compares(op, l.meaning, r.meaning))
           misread == l.misread \cup r.misread \cup OfTwoWidths(l, r)
<1>1. \A q : GoodValue(q) =>
        /\ q.type \in IntegerOrBool /\ q.misread \in SUBSET {"sign", "width"}
        /\ q.misread = {} =>
             q.width = LlvmWidth(q.type) /\ q.word \in WordsOf(q.type) /\ Denotes(q.type, q.word) = q.meaning
  BY WidthsAre DEF GoodValue
<1>2. l.type \in IntegerTypes(Widths) /\ r.type \in IntegerTypes(Widths)
  BY <1>1, TypesAre DEF IntegerOrBool, IsInteger
<1>3. type = Bool
  <2>1. l.type # Nullopt /\ r.type # Nullopt
    BY <1>2, TypesAre DEF Nullopt
  <2>2. TrySubtype(l.type, r.type) # NoRule \/ TrySubtype(r.type, l.type) # NoRule
    BY <1>2, OneTagSubtyped
  <2>3. LookupType(BuiltinTypes, "bool") = Bool
    BY DEF LookupType, BuiltinTypes
  <2> QED
    BY <2>1, <2>2, <2>3 DEF InferComparison
<1>4. /\ WordsAt(1) = {0, 1} /\ ValuesOf(Bool) = {0, 1} /\ \A i : Denotes(Bool, i) = i
      /\ Bool \in IntegerOrBool /\ LlvmWidth(Bool) = 1
  BY TypesAre, WidthsAre DEF ValuesOf, IntegerOrBool
<1>5. word \in WordsAt(1) /\ meaning \in ValuesOf(Bool)
  BY <1>4 DEF Truth
<1>6. misread \in SUBSET {"sign", "width"}
  BY <1>1 DEF OfTwoWidths
<1>7. misread = {} => Denotes(Bool, word) = meaning
  <2> SUFFICES ASSUME misread = {} PROVE word = meaning
    BY <1>4
  <2>1. l.misread = {} /\ r.misread = {} /\ l.width = r.width
    BY DEF OfTwoWidths
  <2>2. /\ l.width = LlvmWidth(l.type) /\ l.word \in WordsOf(l.type) /\ Denotes(l.type, l.word) = l.meaning
        /\ r.width = LlvmWidth(r.type) /\ r.word \in WordsOf(r.type) /\ Denotes(r.type, r.word) = r.meaning
    BY <1>1, <2>1
  <2>3. l.type.width = l.width /\ r.type.width = l.width
    BY <1>2, <2>1, <2>2, TypesAre
  <2>4. l.type = r.type
    BY <1>2, <2>3, TypesAre
  <2>5. /\ l.word \in Words(l.width) /\ r.word \in Words(l.width)
        /\ l.width \in Widths /\ l.type \in IntegerOf(l.width)
    BY <1>2, <2>2, <2>3, TypesAre
  <2>6. op \in {"lsr", "leq", "geq", "grt", "eq", "neq"}
    BY DEF Comparisons
  <2>7. Predicate(op, l.type, l.width, l.word, r.word)
          = Compares(op, Denotes(l.type, l.word), Denotes(l.type, r.word))
    BY <2>5, <2>6, ComparisonsSound
  <2> QED
    BY <2>2, <2>4, <2>7
<1> HIDE DEF type, word, meaning, misread
<1>8. GoodValue(Val(type, 1, word, meaning, misread))
  BY <1>3, <1>4, <1>5, <1>6, <1>7, GoodVal
<1> QED
  BY <1>8 DEF type, word, meaning, misread

--------------------------------------------------------------------------------
(* The walk. *)

\* Operands are nodes made before; those of an atom and of a unary operation are
\* not visited.
LEMMA OperandsBefore ==
  ASSUME ParseInv, NEW n \in 1..Len(nodes)
  PROVE  /\ VisitedOperands(nodes[n]) \subseteq 1..(n - 1)
         /\ nodes[n].op \in InfixOperators =>
              /\ nodes[n].args[1] \in VisitedOperands(nodes[n])
              /\ nodes[n].op # "as" => nodes[n].args[2] \in VisitedOperands(nodes[n])
<1> DEFINE node == nodes[n]
<1>1. /\ DOMAIN node.args = 1..Len(node.args)
      /\ \A i \in 1..Len(node.args) : node.args[i] \in 1..(n - 1)
      /\ \/ AtomNode(node, input)
         \/ PrefixNode(node, nodes[node.args[1]], input)
         \/ InfixNode(node, nodes[node.args[1]], nodes[node.args[2]], input)
  <2>1. Placed(nodes, input, n)
    BY DEF ParseInv
  <2>2. DOMAIN node.args = 1..Len(node.args)
    BY NodesAre DEF ParseInv
  <2> QED
    BY <2>1, <2>2 DEF Placed
<1> HIDE DEF node
<1>2. "as" \notin PrefixOperators
  <2>1. "as" \in Levels[1] /\ 1 \in 1..12
    BY DEF Levels
  <2>2. Level("as") = 1
    BY <2>1, LevelIs
  <2> QED
    BY <2>2, OperatorLevels DEF PrefixLevel
<1>3. CASE AtomNode(node, input)
  <2>1. node.op = "atom" /\ node.op \notin InfixOperators /\ Len(node.args) = 0
    BY <1>3, OperatorLevels DEF AtomNode, Operators
  <2>2. VisitedOperands(node) = {node.args[i] : i \in DOMAIN node.args}
    BY <2>1 DEF VisitedOperands
  <2>3. VisitedOperands(node) = {}
    BY <1>1, <2>1, <2>2
  <2> QED
    BY <2>1, <2>3 DEF node
<1>4. CASE PrefixNode(node, nodes[node.args[1]], input)
  <2>1. node.op \in PrefixOperators /\ node.op \notin InfixOperators /\ Len(node.args) = 1
    BY <1>4, OperatorLevels DEF PrefixNode
  <2>2. VisitedOperands(node) = {}
    BY <1>2, <2>1 DEF VisitedOperands
  <2> QED
    BY <2>1, <2>2 DEF node
<1>5. CASE InfixNode(node, nodes[node.args[1]], nodes[node.args[2]], input)
  <2>1. Len(node.args) = 2
    BY <1>5 DEF InfixNode
  <2>2. DOMAIN node.args = 1..2 /\ node.args[1] \in 1..(n - 1) /\ node.args[2] \in 1..(n - 1)
    BY <1>1, <2>1
  <2>3. CASE node.op = "as"
    <3>1. VisitedOperands(node) = {node.args[1]}
      BY <2>1, <2>3 DEF VisitedOperands
    <3> QED
      BY <2>2, <2>3, <3>1 DEF node
  <2>4. CASE node.op # "as"
    <3>1. VisitedOperands(node) = {node.args[i] : i \in 1..2}
      BY <2>1, <2>2, <2>4 DEF VisitedOperands
    <3>2. VisitedOperands(node) = {node.args[1], node.args[2]}
      BY <3>1
    <3> QED
      BY <2>2, <2>4, <3>2 DEF node
  <2> QED
    BY <2>3, <2>4
<1> QED
  BY <1>1, <1>3, <1>4, <1>5

LEMMA LastVisited ==
  ASSUME WalkInv, frames # << >>
  PROVE  /\ Len(frames) \in Nat \ {0} /\ Last(frames) = frames[Len(frames)]
         /\ Last(frames) \in 1..Len(nodes) /\ Last(frames) \notin DOMAIN values
<1>1. frames \in Seq(Nat)
  BY DEF WalkInv
<1>2. Len(frames) \in Nat \ {0} /\ Last(frames) = frames[Len(frames)]
  BY <1>1, FrontFacts
<1> QED
  BY <1>2 DEF WalkInv

\* The node visited gets its value, and the one above it goes on.
LEMMA GiveKeeps ==
  ASSUME ParseInv, EvalInv, fate = "walking", frames # << >>, NEW v, GoodValue(v),
         Visiting.op = "atom" => NarrowestValue(v), Give(v)
  PROVE  EvalInv'
<1> DEFINE n == Last(frames)
<1>1. /\ values' = InsertOrAssign(values, n, v) /\ frames' = Front(frames)
      /\ fate' = fate /\ printed' = printed /\ nodes' = nodes /\ operand' = operand /\ expects' = expects
  BY DEF Give, grammarVars
<1>2. /\ Len(frames) \in Nat \ {0} /\ n = frames[Len(frames)]
      /\ n \in 1..Len(nodes) /\ n \notin DOMAIN values
  BY LastVisited DEF EvalInv
<1>3. Visiting = nodes[n]
  BY DEF Visiting
<1> HIDE DEF n
<1>4. /\ DOMAIN values' = DOMAIN values \cup {n} /\ values'[n] = v
      /\ \A m \in DOMAIN values : values'[m] = values[m]
  BY <1>1, <1>2 DEF InsertOrAssign
<1>5. ValuesGood'
  <2> SUFFICES ASSUME NEW m \in DOMAIN values'
               PROVE  /\ m \in 1..Len(nodes) /\ GoodValue(values'[m])
                      /\ nodes[m].op = "atom" => NarrowestValue(values'[m])
    BY <1>1 DEF ValuesGood, GoodValue, NarrowestValue, ValuesOf, IntegerOrBool
  <2>1. CASE m = n
    BY <1>2, <1>3, <1>4, <2>1
  <2>2. CASE m # n
    <3>1. m \in DOMAIN values /\ values'[m] = values[m]
      BY <1>4, <2>2
    <3> QED
      BY <3>1 DEF EvalInv, ValuesGood
  <2> QED
    BY <2>1, <2>2
<1>6. WalkInv'
  <2>1. /\ frames \in Seq(Nat) /\ frames[1] = operand /\ Parsed
        /\ \A k \in 1..Len(frames) : frames[k] \in 1..Len(nodes) /\ frames[k] \notin DOMAIN values
        /\ \A j, k \in 1..Len(frames) : j < k => frames[k] < frames[j]
    BY DEF EvalInv, WalkInv
  <2>2. /\ frames' \in Seq(Nat) /\ Len(frames') = Len(frames) - 1
        /\ \A k \in 1..(Len(frames) - 1) : frames'[k] = frames[k]
    BY <1>1, <2>1, FrontFacts
  <2>3. \A k \in 1..(Len(frames) - 1) : k \in 1..Len(frames) /\ k < Len(frames) /\ Len(frames) \in 1..Len(frames)
    BY <1>2
  <2>4. \A k \in 1..Len(frames') : frames'[k] \in 1..Len(nodes') /\ frames'[k] \notin DOMAIN values'
    <3> SUFFICES ASSUME NEW k \in 1..(Len(frames) - 1)
                 PROVE  frames[k] \in 1..Len(nodes) /\ frames[k] \notin DOMAIN values \cup {n}
      BY <1>1, <1>4, <2>2
    <3>1. frames[Len(frames)] < frames[k] /\ frames[k] \in 1..Len(nodes) /\ frames[k] \notin DOMAIN values
      BY <2>1, <2>3
    <3>2. frames[k] # n
      BY <1>2, <3>1
    <3> QED
      BY <3>1, <3>2
  <2>5. \A j, k \in 1..Len(frames') : j < k => frames'[k] < frames'[j]
    BY <2>1, <2>2, <2>3
  <2>6. IF frames' = << >> THEN operand \in DOMAIN values' ELSE frames'[1] = operand
    <3>1. CASE Len(frames) = 1
      BY <1>2, <1>4, <2>1, <2>2, <3>1, EmptySeq
    <3>2. CASE Len(frames) # 1
      <4>1. 1 \in 1..(Len(frames) - 1) /\ Len(frames') # 0
        BY <1>2, <2>2, <3>2
      <4>2. frames' # << >> /\ frames'[1] = operand
        BY <2>1, <2>2, <4>1, EmptySeq
      <4> QED
        BY <4>2
    <3> QED
      BY <3>1, <3>2
  <2>7. fate' = "walking" /\ operand' = operand /\ Parsed'
    BY <1>1, <2>1 DEF Parsed
  <2> QED
    BY <2>2, <2>4, <2>5, <2>6, <2>7 DEF WalkInv
<1>7. FateInv' /\ UndefinedOnlyIfMeaningless' /\ PrintedIsMeaning'
  BY <1>1 DEF EvalInv, FateInv, UndefinedOnlyIfMeaningless, PrintedIsMeaning, PrintedMeaning
<1> QED
  BY <1>5, <1>6, <1>7 DEF EvalInv

\* The evaluation ends without printing.
LEMMA EndKeeps ==
  ASSUME EvalInv, fate = "walking", NEW how \in {"threw", "reported", "refused"}, End(how)
  PROVE  EvalInv'
<1>1. /\ fate' = how /\ frames' = frames /\ values' = values /\ printed' = printed
      /\ nodes' = nodes /\ operand' = operand /\ expects' = expects
  BY DEF End, grammarVars
<1>2. ValuesGood'
  BY <1>1 DEF EvalInv, ValuesGood, GoodValue, NarrowestValue, ValuesOf, IntegerOrBool
<1>3. WalkInv'
  BY <1>1 DEF EvalInv, WalkInv, Parsed
<1>4. FateInv' /\ UndefinedOnlyIfMeaningless' /\ PrintedIsMeaning'
  BY <1>1 DEF EvalInv, FateInv, UndefinedOnlyIfMeaningless, PrintedIsMeaning, PrintedMeaning
<1> QED
  BY <1>2, <1>3, <1>4 DEF EvalInv

\* It ends in the middle of an operation that has a reason to.
LEMMA UndefinedKeeps ==
  ASSUME EvalInv, fate = "walking", End("undefined"), Excused(Visiting.op, LeftOperand, RightOperand)
  PROVE  EvalInv'
<1>1. /\ fate' = "undefined" /\ frames' = frames /\ values' = values /\ printed' = printed
      /\ nodes' = nodes /\ operand' = operand /\ expects' = expects
  BY DEF End, grammarVars
<1>2. ValuesGood'
  BY <1>1 DEF EvalInv, ValuesGood, GoodValue, NarrowestValue, ValuesOf, IntegerOrBool
<1>3. WalkInv' /\ FateInv' /\ PrintedIsMeaning'
  BY <1>1 DEF EvalInv, WalkInv, FateInv, PrintedIsMeaning, Parsed
<1>4. /\ Visiting' = Visiting /\ LeftOperand' = LeftOperand /\ RightOperand' = RightOperand
  BY <1>1 DEF Visiting, LeftOperand, RightOperand
<1>5. UndefinedOnlyIfMeaningless'
  BY <1>4 DEF UndefinedOnlyIfMeaningless, Excused
<1> QED
  BY <1>2, <1>3, <1>5 DEF EvalInv

LEMMA WalkKeeps == ParseInv /\ EvalInv /\ Walk => EvalInv'
<1> SUFFICES ASSUME ParseInv, EvalInv, Walk PROVE EvalInv'
  OBVIOUS
<1>1. /\ fate = "parsing" /\ Parsed /\ frames' = <<operand>> /\ fate' = "walking"
      /\ values' = values /\ printed' = printed
      /\ nodes' = nodes /\ operand' = operand /\ expects' = expects
  BY DEF Walk, grammarVars
<1>2. operand \in 1..Len(nodes) /\ DOMAIN values = {}
  <2>1. Completed(nodes, input, open, operand, lookahead)
    BY <1>1 DEF ParseInv, Parsed
  <2> QED
    BY <1>1, <2>1 DEF Completed, EvalInv, WalkInv
<1>3. ValuesGood'
  BY <1>1, <1>2 DEF ValuesGood
<1>4. WalkInv'
  <2>1. operand \in Nat
    BY <1>2
  <2>2. frames' \in Seq(Nat) /\ Len(frames') = 1 /\ frames'[1] = operand /\ frames' # << >>
    BY <1>1, <2>1
  <2>3. Parsed'
    BY <1>1 DEF Parsed
  <2> QED
    BY <1>1, <1>2, <2>2, <2>3 DEF WalkInv
<1>5. FateInv' /\ UndefinedOnlyIfMeaningless' /\ PrintedIsMeaning'
  BY <1>1 DEF EvalInv, FateInv, UndefinedOnlyIfMeaningless, PrintedIsMeaning, PrintedMeaning
<1> QED
  BY <1>3, <1>4, <1>5 DEF EvalInv

LEMMA ParseKeeps == EvalInv /\ Parse => EvalInv'
<1> SUFFICES ASSUME EvalInv, Parse PROVE EvalInv'
  OBVIOUS
<1>1. fate = "parsing" /\ UNCHANGED <<frames, values, fate, printed>>
  BY DEF Parse
<1>2. frames = << >> /\ DOMAIN values = {}
  BY <1>1 DEF EvalInv, WalkInv
<1>3. ValuesGood'
  BY <1>1, <1>2 DEF ValuesGood
<1>4. WalkInv'
  BY <1>1, <1>2, EmptySeq DEF EvalInv, WalkInv
<1>5. FateInv' /\ UndefinedOnlyIfMeaningless' /\ PrintedIsMeaning'
  BY <1>1 DEF EvalInv, FateInv, UndefinedOnlyIfMeaningless, PrintedIsMeaning, PrintedMeaning
<1> QED
  BY <1>3, <1>4, <1>5 DEF EvalInv

LEMMA DescendKeeps == ParseInv /\ EvalInv /\ Descend => EvalInv'
<1> SUFFICES ASSUME ParseInv, EvalInv, Descend PROVE EvalInv'
  OBVIOUS
<1> DEFINE n == Last(frames)
           down == CHOOSE m \in Unvisited : \A k \in Unvisited : m <= k
<1>1. /\ fate = "walking" /\ frames # << >> /\ Unvisited # {} /\ frames' = Append(frames, down)
      /\ values' = values /\ fate' = fate /\ printed' = printed
      /\ nodes' = nodes /\ operand' = operand /\ expects' = expects
  BY DEF Descend, grammarVars
<1>2. /\ Len(frames) \in Nat \ {0} /\ n = frames[Len(frames)] /\ n \in 1..Len(nodes)
  BY <1>1, LastVisited DEF EvalInv
<1>3. Unvisited = VisitedOperands(nodes[n]) \ DOMAIN values
  BY DEF Unvisited, Visiting
<1>4. Unvisited \subseteq 1..(n - 1)
  BY <1>2, <1>3, OperandsBefore
<1>5. down \in Unvisited
  <2>1. \E m \in Unvisited : \A k \in Unvisited : m <= k
    <3>1. Unvisited \subseteq Nat
      BY <1>4
    <3>2. PICK m \in Unvisited : \A k \in Unvisited : <<k, m>> \notin OpToRel(<, Nat)
      BY <1>1, <3>1, NatLessThanWellFounded, WFMin, Zenon
    <3>3. \A k \in Unvisited : ~(k < m)
      BY <3>1, <3>2 DEF OpToRel
    <3> QED
      BY <3>1, <3>3
  <2> QED
    BY <2>1
<1> HIDE DEF n, down
<1>6. down \in 1..Len(nodes) /\ down < n /\ down \notin DOMAIN values /\ down \in Nat
  <2>1. Len(nodes) \in Nat
    BY NodesAre DEF ParseInv
  <2>2. down \in 1..(n - 1) /\ n \in 1..Len(nodes)
    BY <1>2, <1>4, <1>5
  <2>3. down \notin DOMAIN values
    BY <1>3, <1>5
  <2> QED
    BY <2>1, <2>2, <2>3
<1>7. ValuesGood'
  BY <1>1 DEF EvalInv, ValuesGood, GoodValue, NarrowestValue, ValuesOf, IntegerOrBool
<1>8. WalkInv'
  <2>1. /\ frames \in Seq(Nat) /\ frames[1] = operand /\ Parsed
        /\ \A k \in 1..Len(frames) : frames[k] \in 1..Len(nodes) /\ frames[k] \notin DOMAIN values
        /\ \A j, k \in 1..Len(frames) : j < k => frames[k] < frames[j]
    BY <1>1 DEF EvalInv, WalkInv
  <2>2. /\ frames' \in Seq(Nat) /\ Len(frames') = Len(frames) + 1 /\ frames'[Len(frames) + 1] = down
        /\ \A k \in 1..Len(frames) : frames'[k] = frames[k]
    BY <1>1, <1>6, <2>1, AppendFacts DEF Extends
  <2>3. \A k \in 1..Len(frames') : k \in 1..Len(frames) \/ k = Len(frames) + 1
    BY <1>2, <2>2
  <2>4. \A k \in 1..Len(frames') : frames'[k] \in 1..Len(nodes') /\ frames'[k] \notin DOMAIN values'
    BY <1>1, <1>6, <2>1, <2>2, <2>3
  <2>5. \A k \in 1..Len(frames) : down < frames[k]
    <3> SUFFICES ASSUME NEW k \in 1..Len(frames) PROVE down < frames[k]
      OBVIOUS
    <3>1. Len(frames) \in 1..Len(frames) /\ (k < Len(frames) \/ k = Len(frames)) /\ Len(nodes) \in Nat
      BY <1>2, NodesAre DEF ParseInv
    <3>2. n <= frames[k] /\ frames[k] \in Nat
      BY <1>2, <2>1, <3>1
    <3>3. down < n /\ down \in Nat /\ n \in Nat
      BY <1>2, <1>6
    <3> QED
      BY <3>2, <3>3
  <2>6. \A j, k \in 1..Len(frames') : j < k => frames'[k] < frames'[j]
    <3> SUFFICES ASSUME NEW j \in 1..Len(frames'), NEW k \in 1..Len(frames'), j < k
                 PROVE  frames'[k] < frames'[j]
      OBVIOUS
    <3>1. j \in 1..Len(frames)
      BY <1>2, <2>2
    <3>2. CASE k \in 1..Len(frames)
      BY <2>1, <2>2, <3>1, <3>2
    <3>3. CASE k = Len(frames) + 1
      BY <2>2, <2>5, <3>1, <3>3
    <3> QED
      BY <2>3, <3>2, <3>3
  <2>7. frames' # << >> /\ frames'[1] = operand
    <3>1. 1 \in 1..Len(frames) /\ Len(frames') # 0
      BY <1>2, <2>2
    <3> QED
      BY <2>1, <2>2, <3>1, EmptySeq
  <2>8. Parsed'
    BY <1>1, <2>1 DEF Parsed
  <2> QED
    BY <1>1, <2>2, <2>4, <2>6, <2>7, <2>8 DEF WalkInv
<1>9. FateInv' /\ UndefinedOnlyIfMeaningless' /\ PrintedIsMeaning'
  BY <1>1 DEF EvalInv, FateInv, UndefinedOnlyIfMeaningless, PrintedIsMeaning, PrintedMeaning
<1> QED
  BY <1>7, <1>8, <1>9 DEF EvalInv

\* The operands of the node visited have values by the time it is given one.
LEMMA OperandsHaveValues ==
  ASSUME ParseInv, EvalInv, NEW op \in InfixOperators, At(op)
  PROVE  /\ fate = "walking" /\ frames # << >> /\ Visiting.op = op /\ op # "atom"
         /\ GoodValue(LeftOperand) /\ (\E m \in DOMAIN values : LeftOperand = values[m])
         /\ op # "as" =>
              GoodValue(RightOperand) /\ (\E m \in DOMAIN values : RightOperand = values[m])
<1> DEFINE n == Last(frames)
<1>1. fate = "walking" /\ frames # << >> /\ Unvisited = {} /\ Visiting.op = op
  BY DEF At
<1>2. n \in 1..Len(nodes) /\ Visiting = nodes[n]
  BY <1>1, LastVisited DEF EvalInv, Visiting
<1>3. VisitedOperands(nodes[n]) \subseteq DOMAIN values
  BY <1>1, <1>2 DEF Unvisited
<1>4. /\ nodes[n].args[1] \in DOMAIN values
      /\ op # "as" => nodes[n].args[2] \in DOMAIN values
  BY <1>1, <1>2, <1>3, OperandsBefore
<1>5. \A m \in DOMAIN values : GoodValue(values[m])
  BY DEF EvalInv, ValuesGood
<1>6. op # "atom"
  BY OperatorLevels DEF Operators
<1> QED
  BY <1>1, <1>2, <1>4, <1>5, <1>6 DEF LeftOperand, RightOperand

LEMMA LiteralKeeps ==
  ASSUME ParseInv, EvalInv, NEW signed \in BOOLEAN, NEW i \in Int, Fits(signed, 64, i), VisitLiteral(signed, i)
  PROVE  EvalInv'
<1> DEFINE type == LiteralType(BuiltinTypes, signed, i)
           v == Val(type, type.width, LiteralWord(type, i), i, {})
<1>1. fate = "walking" /\ frames # << >> /\ Give(v)
  BY DEF VisitLiteral, At
<1>2. GoodValue(v) /\ NarrowestValue(v)
  BY LiteralGood
<1> HIDE DEF v
<1> QED
  BY <1>1, <1>2, GiveKeeps

LEMMA HintedTypes ==
  \A hint \in Hints, t \in IntegerOrBool :
    TrySubtype(t, LookupType(BuiltinTypes, hint)) # NoRule
      => LookupType(BuiltinTypes, hint) \in IntegerOrBool
<1> SUFFICES ASSUME NEW hint \in Hints, NEW t \in IntegerOrBool,
                    TrySubtype(t, LookupType(BuiltinTypes, hint)) # NoRule
             PROVE  LookupType(BuiltinTypes, hint) \in IntegerOrBool
  OBVIOUS
<1> DEFINE target == LookupType(BuiltinTypes, hint)
<1>1. target \notin {SingleFp, DoubleFp}
  BY EvaluationAssumption
<1>2. target \in {Void, Bool, UInt(8), UInt(16), UInt(32), UInt(64), SInt(8), SInt(16), SInt(32),
                  SInt(64), SingleFp, DoubleFp, Nullopt}
  BY DEF LookupType, BuiltinTypes
<1>3. target \notin {Void, Nullopt}
  <2>1. t \notin {Void, Nullopt} /\ Void # Bool /\ Nullopt # Bool
    BY TypesAre DEF IntegerOrBool, Void, Nullopt
  <2>2. \A rule \in SubtypingRule : ~Allows(rule, t, Void) /\ ~Allows(rule, t, Nullopt)
    BY <2>1 DEF SubtypingRule, Allows, Void, Nullopt, SingleFp, DoubleFp
  <2> QED
    BY <2>2, TrySubtypeAllowed
<1> HIDE DEF target
<1>4. 8 \in Widths /\ 16 \in Widths /\ 32 \in Widths /\ 64 \in Widths
  BY DEF Widths
<1> QED
  BY <1>1, <1>2, <1>3, <1>4 DEF IntegerOrBool, IntegerTypes, target

LEMMA CastKeeps ==
  ASSUME ParseInv, EvalInv, CastAs, "as" \in InfixOperators
  PROVE  EvalInv'
<1>1. PICK hint \in Hints :
        LET target == LookupType(BuiltinTypes, hint)
        IN  IF TrySubtype(LeftOperand.type, target) = NoRule
            THEN End("threw")
            ELSE Give(Subtyped(LeftOperand, target))
  BY DEF CastAs
<1>2. At("as")
  BY DEF CastAs
<1>3. fate = "walking" /\ frames # << >> /\ Visiting.op = "as" /\ GoodValue(LeftOperand)
  BY <1>2, OperandsHaveValues
<1> DEFINE target == LookupType(BuiltinTypes, hint)
<1>4. CASE TrySubtype(LeftOperand.type, target) = NoRule
  BY <1>1, <1>3, <1>4, EndKeeps
<1>5. CASE TrySubtype(LeftOperand.type, target) # NoRule
  <2>1. target \in IntegerOrBool
    BY <1>3, <1>5, HintedTypes DEF GoodValue
  <2>2. GoodValue(Subtyped(LeftOperand, target)) /\ Give(Subtyped(LeftOperand, target))
    BY <1>1, <1>3, <1>5, <2>1, SubtypedGood
  <2> QED
    BY <1>3, <2>2, GiveKeeps
<1> QED
  BY <1>4, <1>5

\* An operation of type bool is a shift of a bool by an unsigned integer.
LEMMA BoolShifted ==
  ASSUME NEW l, NEW r, GoodValue(l), GoodValue(r), NEW op \in ArithmeticOps \cup ShiftOps,
         InferBinary(BuiltinTypes, op, l.type, r.type) = Bool
  PROVE  /\ l.type = Bool /\ l.width = 1 /\ r.width # 1
         /\ Misread(op, Bool, l, r) \in SUBSET {"sign", "width"} /\ "width" \in Misread(op, Bool, l, r)
<1>1. Bool.tag = "boolean" /\ Bool # Nullopt /\ Bool \notin IntegerTypes(Widths)
  BY TypesAre DEF Nullopt
<1>2. /\ l.type \in IntegerOrBool /\ r.type \in IntegerOrBool
      /\ l.misread \in SUBSET {"sign", "width"} /\ r.misread \in SUBSET {"sign", "width"}
      /\ (l.width = 1 <=> l.type = Bool) /\ (r.width = 1 <=> r.type = Bool)
  BY DEF GoodValue
<1>3. l.type # Nullopt /\ r.type # Nullopt
  BY <1>2, TypesAre DEF IntegerOrBool, Nullopt
<1>4. l.type = Bool /\ r.type.tag = "uint"
  <2>1. CASE op \in ArithmeticOps
    <3>1. InferBinary(BuiltinTypes, op, l.type, r.type) = InferArithmetic(l.type, r.type)
      BY <1>3, <2>1 DEF InferBinary, ArithmeticOps, ShiftOps, BooleanOps
    <3>2. InferArithmetic(l.type, r.type) # Bool
      BY <1>1, <1>2 DEF InferArithmetic, LargerOr, IsInteger
    <3> QED
      BY <3>1, <3>2
  <2>2. CASE op \in ShiftOps
    <3>1. InferBinary(BuiltinTypes, op, l.type, r.type) = InferShift(l.type, r.type)
      BY <1>3, <2>2 DEF InferBinary, ArithmeticOps, ShiftOps, BooleanOps
    <3> QED
      BY <1>1, <3>1 DEF InferShift
  <2> QED
    BY <2>1, <2>2
<1>5. l.width = 1 /\ r.width # 1
  BY <1>1, <1>2, <1>4
<1>6. Misread(op, Bool, l, r) = l.misread \cup r.misread \cup {"width"}
  <2>1. ~SignBitRead(op, Bool, l.word, r.word)
    BY <1>1 DEF SignBitRead
  <2> QED
    BY <1>5, <2>1 DEF Misread, OfTwoWidths
<1> QED
  BY <1>2, <1>4, <1>5, <1>6

LEMMA ArithmeticKeeps ==
  ASSUME ParseInv, EvalInv, NEW op \in InfixOperators, VisitArithmetic(op)
  PROVE  EvalInv'
<1> DEFINE l == LeftOperand
           r == RightOperand
           type == InferBinary(BuiltinTypes, op, l.type, r.type)
           undefined == NoResultDefined(Instruction[op], l.width, r.width, l.word, r.word)
           folds == Folds(Instruction[op], l.width, r.width, l.word, r.word)
           meaning == ArithmeticMeaning(op, type, l, r)
           misread == Misread(op, type, l, r)
<1>1. /\ At(op) /\ op \in ArithmeticOps \cup ShiftOps
      /\ \/ l.width # r.width /\ End("undefined")
         \/ type = Nullopt /\ End("threw")
         \/ /\ IsInteger(type)
            /\ IF undefined THEN End("undefined")
               ELSE \E folded \in folds : Give(Val(type, folded.width, folded.word, meaning, misread))
         \/ type = Bool /\ r.word = 0 /\ Give(Val(Bool, 1, l.word, l.meaning, misread))
  BY DEF VisitArithmetic
<1>2. op # "as"
  BY <1>1 DEF ArithmeticOps, ShiftOps
<1>3. /\ fate = "walking" /\ frames # << >> /\ Visiting.op = op /\ op # "atom"
      /\ GoodValue(l) /\ GoodValue(r)
  BY <1>1, <1>2, OperandsHaveValues
<1> HIDE DEF l, r, type, undefined, folds, meaning, misread
<1>4. CASE l.width # r.width /\ End("undefined")
  <2>1. Excused(Visiting.op, LeftOperand, RightOperand)
    BY <1>4 DEF Excused, l, r
  <2> QED
    BY <1>3, <1>4, <2>1, UndefinedKeeps
<1>5. CASE End("threw")
  BY <1>3, <1>5, EndKeeps
<1>6. CASE IsInteger(type) /\ undefined /\ End("undefined")
  <2>1. Excused(op, l, r)
    BY <1>1, <1>3, <1>6, ArithmeticGood DEF type, undefined
  <2>2. Excused(Visiting.op, LeftOperand, RightOperand)
    BY <1>3, <2>1 DEF l, r
  <2> QED
    BY <1>3, <1>6, <2>2, UndefinedKeeps
<1>7. ASSUME IsInteger(type), ~undefined, NEW folded \in folds,
             Give(Val(type, folded.width, folded.word, meaning, misread))
      PROVE  EvalInv'
  <2>1. GoodValue(Val(type, folded.width, folded.word, meaning, misread))
    BY <1>1, <1>3, <1>7, ArithmeticGood DEF type, undefined, folds, meaning, misread
  <2> QED
    BY <1>3, <1>7, <2>1, GiveKeeps
<1>8. CASE type = Bool /\ Give(Val(Bool, 1, l.word, l.meaning, misread))
  <2>1. /\ l.type = Bool /\ l.width = 1 /\ r.width # 1
        /\ misread \in SUBSET {"sign", "width"} /\ "width" \in misread
    BY <1>1, <1>3, <1>8, BoolShifted DEF type, misread
  <2>2. Bool \in IntegerOrBool /\ l.word \in WordsAt(1) /\ l.meaning \in ValuesOf(Bool)
    BY <1>3, <2>1 DEF GoodValue, IntegerOrBool
  <2>3. GoodValue(Val(Bool, 1, l.word, l.meaning, misread))
    BY <2>1, <2>2, GoodVal
  <2> QED
    BY <1>3, <1>8, <2>3, GiveKeeps
<1> QED
  BY <1>1, <1>4, <1>5, <1>6, <1>7, <1>8

LEMMA BooleanKeeps ==
  ASSUME ParseInv, EvalInv, NEW op \in InfixOperators, VisitBoolean(op)
  PROVE  EvalInv'
<1> DEFINE l == Subtyped(LeftOperand, Bool)
           r == Subtyped(RightOperand, Bool)
           v == Val(Bool, 1, Select(op, l.word, r.word), Select(op, l.meaning, r.meaning),
                    l.misread \cup r.misread)
<1>1. At(op) /\ op \in BooleanOps /\ Give(v)
  BY DEF VisitBoolean
<1>2. op # "as"
  BY <1>1 DEF BooleanOps
<1>3. /\ fate = "walking" /\ frames # << >> /\ Visiting.op = op /\ op # "atom"
      /\ GoodValue(LeftOperand) /\ GoodValue(RightOperand)
  BY <1>1, <1>2, OperandsHaveValues
<1>4. GoodValue(v)
  BY <1>3, BooleanGood
<1> HIDE DEF v
<1> QED
  BY <1>1, <1>3, <1>4, GiveKeeps

LEMMA ComparisonKeeps ==
  ASSUME ParseInv, EvalInv, NEW op \in InfixOperators, VisitComparison(op)
  PROVE  EvalInv'
<1> DEFINE l == LeftOperand
           r == RightOperand
           v == Val(InferComparison(BuiltinTypes, l.type, r.type), 1,
                    Truth(Predicate(op, l.type, l.width, l.word, r.word)),
                    Truth(Compares(op, l.meaning, r.meaning)),
                    l.misread \cup r.misread \cup OfTwoWidths(l, r))
<1>1. /\ At(op) /\ op \in Comparisons
      /\ IF l.type.tag # r.type.tag \/ ~IsInteger(l.type) THEN End("threw")
         ELSE (l.width # r.width /\ End("undefined")) \/ Give(v)
  BY DEF VisitComparison
<1>2. op # "as"
  BY <1>1 DEF Comparisons
<1>3. /\ fate = "walking" /\ frames # << >> /\ Visiting.op = op /\ op # "atom"
      /\ GoodValue(l) /\ GoodValue(r)
  BY <1>1, <1>2, OperandsHaveValues
<1>4. CASE End("threw")
  BY <1>3, <1>4, EndKeeps
<1>5. CASE l.width # r.width /\ End("undefined")
  <2>1. Excused(Visiting.op, LeftOperand, RightOperand)
    BY <1>5 DEF Excused
  <2> QED
    BY <1>3, <1>5, <2>1, UndefinedKeeps
<1>6. CASE l.type.tag = r.type.tag /\ IsInteger(l.type) /\ Give(v)
  <2>1. GoodValue(v)
    BY <1>1, <1>3, <1>6, ComparisonGood
  <2> HIDE DEF v
  <2> QED
    BY <1>3, <1>6, <2>1, GiveKeeps
<1> QED
  BY <1>1, <1>4, <1>5, <1>6

\* Visits that give no value: of unary operations, and of powers.
LEMMA ReportKeeps == EvalInv /\ (VisitUnary \/ VisitPower) => EvalInv'
<1> SUFFICES ASSUME EvalInv, VisitUnary \/ VisitPower PROVE EvalInv'
  OBVIOUS
<1>1. fate = "walking" /\ End("reported")
  BY DEF VisitUnary, VisitPower, At
<1> QED
  BY <1>1, EndKeeps

LEMMA PrintKeeps ==
  ASSUME ParseInv, EvalInv, NEW printer \in Printers, PrintWith(printer)
  PROVE  EvalInv'
<1> DEFINE argument == values[operand]
           target == BuiltinSymbols[printer].parameters[1]
           v == Subtyped(argument, target)
           prints == Implementation[BuiltinFunction[printer].address].prints
           what == IF prints = "signed" THEN AsSigned(target.width, v.word) ELSE v.word
           meaning == ConvertedValue(target, argument.meaning)
<1>1. /\ fate = "walking" /\ frames = << >>
      /\ \/ TrySubtype(argument.type, target) = NoRule /\ End("threw")
         \/ End("refused")
         \/ /\ TrySubtype(argument.type, target) # NoRule
            /\ printed' = [by |-> printer, what |-> what] /\ fate' = "printed"
            /\ UNCHANGED <<grammarVars, frames, values>>
  BY DEF PrintWith
<1>2. GoodValue(argument)
  BY <1>1 DEF EvalInv, WalkInv, ValuesGood
<1>3. printer \in {"put_i64", "put_u64"}
  BY EvaluationAssumption
<1>4. CASE End("threw") \/ End("refused")
  BY <1>1, <1>4, EndKeeps
<1>5. CASE /\ TrySubtype(argument.type, target) # NoRule
           /\ printed' = [by |-> printer, what |-> what] /\ fate' = "printed"
           /\ UNCHANGED <<grammarVars, frames, values>>
  <2>1. /\ target = IF printer = "put_i64" THEN SInt(64) ELSE UInt(64)
        /\ prints = "signed"
    BY <1>3 DEF BuiltinSymbols, FunctionSignature, BuiltinFunction, Implementation
  <2>2. 64 \in Widths /\ target \in IntegerTypes(Widths) /\ target.width = 64
    <3>1. 64 \in Widths
      BY DEF Widths
    <3> QED
      BY <2>1, <3>1, TypesOf DEF IntegerTypes
  <2>3. target \in IntegerOrBool /\ WordsOf(target) = Words(64) /\ LlvmWidth(target) = 64
    BY <2>2, TypesAre DEF IntegerOrBool
  <2>4. GoodValue(v) /\ v.type = target /\ v.misread = argument.misread /\ v.meaning = meaning
    BY <1>2, <1>5, <2>3, SubtypedGood
  <2>5. what = AsSigned(64, v.word)
    BY <2>1, <2>2
  <2>6. /\ printed'.by = printer /\ printed'.what = what /\ fate' = "printed"
        /\ frames' = frames /\ values' = values
        /\ nodes' = nodes /\ operand' = operand /\ expects' = expects
    BY <1>1, <1>5 DEF grammarVars
  <2> HIDE DEF target, what, meaning, v, argument
  <2>7. argument.misread = {} => v.word \in Words(64) /\ Denotes(target, v.word) = meaning
    <3> SUFFICES ASSUME v.misread = {} PROVE v.word \in Words(64) /\ Denotes(target, v.word) = meaning
      BY <2>4
    <3>1. v.width = 64 /\ v.word \in WordsAt(v.width) /\ Denotes(v.type, v.word) = v.meaning
      BY <2>3, <2>4 DEF GoodValue
    <3> QED
      BY <2>2, <2>4, <3>1, WidthsAre
  <2>8. argument.misread = {} => what = meaning \/ (printer = "put_u64" /\ meaning >= Half[64])
    <3> SUFFICES ASSUME argument.misread = {}
                 PROVE  what = meaning \/ (printer = "put_u64" /\ meaning >= Half[64])
      OBVIOUS
    <3>1. CASE printer = "put_i64"
      <4>1. Denotes(target, v.word) = AsSigned(64, v.word)
        BY <2>1, <3>1, TypesOf DEF Denotes
      <4> QED
        BY <2>5, <2>7, <4>1
    <3>2. CASE printer = "put_u64"
      <4>1. Denotes(target, v.word) = v.word
        BY <2>1, <3>2, TypesOf DEF Denotes
      <4>2. meaning = v.word /\ v.word \in Int /\ Half[64] \in Nat
        BY <2>2, <2>7, <4>1, SignedWord, Sizes
      <4> QED
        BY <2>5, <3>2, <4>2 DEF AsSigned
    <3> QED
      BY <1>3, <3>1, <3>2
  <2>9. PrintedIsMeaning'
    <3>1. PrintedMeaning' = meaning /\ values'[operand'] = argument
      BY <2>6 DEF target, argument, meaning, PrintedMeaning
    <3> QED
      BY <2>6, <2>8, <3>1 DEF PrintedIsMeaning
  <2>10. ValuesGood'
    BY <2>6 DEF EvalInv, ValuesGood, GoodValue, NarrowestValue, ValuesOf, IntegerOrBool
  <2>11. WalkInv' /\ FateInv' /\ UndefinedOnlyIfMeaningless'
    BY <1>1, <2>6 DEF EvalInv, WalkInv, FateInv, UndefinedOnlyIfMeaningless, Parsed
  <2> QED
    BY <2>9, <2>10, <2>11 DEF EvalInv
<1> QED
  BY <1>1, <1>4, <1>5

--------------------------------------------------------------------------------
(* The theorems. *)

\* Whatever the evaluation does, the parser does a step of its own or none.
LEMMA ParserInside == Spec => ParseSpec
<1>1. Init => ParseInit
  BY DEF Init
<1>2. [Next]_vars => [ParseNext]_grammarVars
  <2> SUFFICES ASSUME [Next]_vars PROVE ParseNext \/ UNCHANGED grammarVars
    OBVIOUS
  <2>1. CASE Parse
    BY <2>1 DEF Parse
  <2>2. CASE Walk \/ Descend
    BY <2>2 DEF Walk, Descend
  <2>3. ASSUME NEW signed, NEW i, VisitLiteral(signed, i) PROVE UNCHANGED grammarVars
    BY <2>3 DEF VisitLiteral, Give
  <2>4. CASE VisitUnary \/ CastAs \/ VisitPower
    BY <2>4 DEF VisitUnary, CastAs, VisitPower, Give, End
  <2>5. ASSUME NEW op, VisitArithmetic(op) \/ VisitBoolean(op) \/ VisitComparison(op)
        PROVE  UNCHANGED grammarVars
    BY <2>5 DEF VisitArithmetic, VisitBoolean, VisitComparison, Give, End
  <2>6. ASSUME NEW printer, PrintWith(printer) PROVE UNCHANGED grammarVars
    BY <2>6 DEF PrintWith, End
  <2>7. CASE UNCHANGED vars
    BY <2>7 DEF vars
  <2> QED
    BY <2>1, <2>2, <2>3, <2>4, <2>5, <2>6, <2>7 DEF Next
<1> QED
  BY <1>1, <1>2, PTL DEF Spec, ParseSpec

LEMMA EvalInit == Init => EvalInv
<1> SUFFICES ASSUME Init PROVE EvalInv
  OBVIOUS
<1>1. frames = << >> /\ values = EmptyTable /\ fate = "parsing" /\ printed = NotPrinted
  BY DEF Init
<1>2. DOMAIN values = {}
  BY <1>1 DEF EmptyTable
<1>3. printed.by = "nobody"
  BY <1>1 DEF NotPrinted
<1>4. << >> \in Seq(Nat) /\ Len(<< >>) = 0
  OBVIOUS
<1>5. ValuesGood
  BY <1>2 DEF ValuesGood
<1>6. WalkInv
  BY <1>1, <1>2, <1>4 DEF WalkInv
<1>7. FateInv /\ UndefinedOnlyIfMeaningless /\ PrintedIsMeaning
  BY <1>1, <1>3 DEF FateInv, UndefinedOnlyIfMeaningless, PrintedIsMeaning
<1> QED
  BY <1>5, <1>6, <1>7 DEF EvalInv

\* The parser takes the literals of a program for 64-bit integers.
LEMMA LiteralsFit ==
  /\ \A i \in UnsignedLiterals : i \in Int /\ Fits(FALSE, 64, i)
  /\ \A i \in SignedLiterals : i \in Int /\ Fits(TRUE, 64, i)
<1>1. 64 \in Widths
  BY DEF Widths
<1>2. Half[64] \in Nat /\ Modulus(64) \in Nat
  BY <1>1, Sizes
<1>3. \A i \in Words(64) : i \in Int /\ 0 <= i /\ i < Modulus(64)
  BY <1>2 DEF Words
<1>4. \A i \in UnsignedLiterals : i \in Int /\ Fits(FALSE, 64, i)
  BY <1>3, EvaluationAssumption DEF Fits
<1>5. \A i \in (-Half[64])..(Half[64] - 1) : i \in Int /\ Fits(TRUE, 64, i)
  BY <1>2 DEF Fits
<1> QED
  BY <1>4, <1>5, EvaluationAssumption

\* A node of `as` is one of an infix operator.
LEMMA AsIsInfix ==
  ASSUME ParseInv, EvalInv, At("as")
  PROVE  "as" \in InfixOperators
<1>1. fate = "walking" /\ frames # << >> /\ Visiting.op = "as"
  BY DEF At
<1>2. Last(frames) \in 1..Len(nodes)
  BY <1>1, LastVisited DEF EvalInv
<1>3. Visiting.op \in Tokens
  BY <1>2, NodesAre DEF Visiting, ParseInv, NodeSet
<1>4. "as" \notin PrefixOperators
  <2>1. "as" \in Levels[1] /\ 1 \in 1..12
    BY DEF Levels
  <2>2. Level("as") = 1
    BY <2>1, LevelIs
  <2> QED
    BY <2>2, OperatorLevels DEF PrefixLevel
<1> QED
  BY <1>1, <1>3, <1>4 DEF Tokens, Operators

LEMMA EvalStep == ParseInv /\ EvalInv /\ [Next]_vars => EvalInv'
<1> SUFFICES ASSUME ParseInv, EvalInv, [Next]_vars PROVE EvalInv'
  OBVIOUS
<1>1. CASE Parse
  BY <1>1, ParseKeeps
<1>2. CASE Walk
  BY <1>2, WalkKeeps
<1>3. CASE Descend
  BY <1>3, DescendKeeps
<1>4. ASSUME NEW i \in UnsignedLiterals, VisitLiteral(FALSE, i) PROVE EvalInv'
  BY <1>4, LiteralsFit, LiteralKeeps
<1>5. ASSUME NEW i \in SignedLiterals, VisitLiteral(TRUE, i) PROVE EvalInv'
  BY <1>5, LiteralsFit, LiteralKeeps
<1>6. CASE VisitUnary \/ VisitPower
  BY <1>6, ReportKeeps
<1>7. CASE CastAs
  BY <1>7, AsIsInfix, CastKeeps DEF CastAs
<1>8. ASSUME NEW op \in InfixOperators, VisitArithmetic(op) PROVE EvalInv'
  BY <1>8, ArithmeticKeeps
<1>9. ASSUME NEW op \in InfixOperators, VisitBoolean(op) PROVE EvalInv'
  BY <1>9, BooleanKeeps
<1>10. ASSUME NEW op \in InfixOperators, VisitComparison(op) PROVE EvalInv'
  BY <1>10, ComparisonKeeps
<1>11. ASSUME NEW printer \in Printers, PrintWith(printer) PROVE EvalInv'
  BY <1>11, PrintKeeps
<1>12. CASE UNCHANGED vars
  <2>1. /\ frames' = frames /\ values' = values /\ fate' = fate /\ printed' = printed
        /\ nodes' = nodes /\ operand' = operand /\ expects' = expects
    BY <1>12 DEF vars, grammarVars
  <2>2. ValuesGood'
    BY <2>1 DEF EvalInv, ValuesGood, GoodValue, NarrowestValue, ValuesOf, IntegerOrBool
  <2>3. WalkInv' /\ FateInv'
    BY <2>1 DEF EvalInv, WalkInv, FateInv, Parsed
  <2>4. /\ Visiting' = Visiting /\ LeftOperand' = LeftOperand /\ RightOperand' = RightOperand
    BY <2>1 DEF Visiting, LeftOperand, RightOperand
  <2>5. UndefinedOnlyIfMeaningless' /\ PrintedIsMeaning'
    BY <2>1, <2>4 DEF EvalInv, UndefinedOnlyIfMeaningless, PrintedIsMeaning, PrintedMeaning
  <2> QED
    BY <2>2, <2>3, <2>5 DEF EvalInv
<1> QED
  BY <1>1, <1>2, <1>3, <1>4, <1>5, <1>6, <1>7, <1>8, <1>9, <1>10, <1>11, <1>12 DEF Next

\* The walk of any expression keeps to the tree, and every value it has found is a
\* word that stands for the value's meaning, unless an operation of it was misread.
THEOREM EvaluationInvariant == Spec => [](ParseInv /\ EvalInv)
<1>1. Spec => []ParseInv
  BY ParserInside, ParserInvariant
<1> QED
  BY <1>1, EvalInit, EvalStep, PTL DEF Spec

\* The visits of code generation find the value of every operand, and the call of
\* the printer that of its argument; every value is a word of its constant's width, which is that
\* of its inferred type unless operands of two widths were folded.
THEOREM EvaluationTypeCorrect == Spec => []TypeOK
<1>1. ParseInv /\ EvalInv => TypeOK
  <2> SUFFICES ASSUME ParseInv, EvalInv PROVE TypeOK
    OBVIOUS
  <2>1. /\ fate \in {"parsing", "walking", "printed", "threw", "reported", "refused", "undefined"}
        /\ printed.by \in Printers \cup {"nobody"}
    BY DEF EvalInv, FateInv
  <2>2. \A n \in DOMAIN values :
          /\ values[n].type \in IntegerTypes(Widths) \cup {Bool}
          /\ values[n].width \in Widths \cup {1} /\ values[n].word \in WordsAt(values[n].width)
          /\ values[n].width = 1 <=> values[n].type = Bool
          /\ values[n].meaning \in {Denotes(values[n].type, word) : word \in WordsOf(values[n].type)}
          /\ values[n].misread \subseteq {"sign", "width"}
          /\ "width" \notin values[n].misread => values[n].width = LlvmWidth(values[n].type)
    BY DEF EvalInv, ValuesGood, GoodValue, ValuesOf, IntegerOrBool
  <2>3. \A k \in DOMAIN frames : frames[k] \in DOMAIN nodes \ DOMAIN values
    <3>1. DOMAIN nodes = 1..Len(nodes)
      BY NodesAre DEF ParseInv
    <3>2. DOMAIN frames = 1..Len(frames)
      BY DEF EvalInv, WalkInv
    <3> QED
      BY <3>1, <3>2 DEF EvalInv, WalkInv
  <2>4. fate = "walking" /\ frames = << >> => operand \in DOMAIN values
    BY DEF EvalInv, WalkInv
  <2> QED
    BY <2>1, <2>2, <2>3, <2>4 DEF TypeOK
<1> QED
  BY <1>1, EvaluationInvariant, PTL

\* For words of any sizes and expressions of any size: the word computed for an
\* expression stands for its value, through every mixture of signs and conversions
\* code generation makes, where no operation below it had operands of two widths, which
\* no visit promotes, or read a sign bit that is none.
THEOREM ValuesSound == Spec => []ValueSound
<1>1. EvalInv => ValueSound
  BY DEF EvalInv, ValuesGood, GoodValue, ValueSound
<1> QED
  BY <1>1, EvaluationInvariant, PTL

\* Every literal of an expression has the narrowest type that inference's limits
\* leave its value, and keeps it.
THEOREM LiteralsNarrowest == Spec => []LiteralNarrowest
<1>1. EvalInv => LiteralNarrowest
  BY DEF EvalInv, ValuesGood, NarrowestValue, LiteralNarrowest
<1> QED
  BY <1>1, EvaluationInvariant, PTL

\* An operation has no defined result only where it means nothing, or it or one below
\* it had operands of two widths or read a sign bit that is none.
THEOREM UndefinedIsMeaningless == Spec => []UndefinedOnlyIfMeaningless
<1>1. EvalInv => UndefinedOnlyIfMeaningless
  BY DEF EvalInv
<1> QED
  BY <1>1, EvaluationInvariant, PTL

\* put_i64 and put_u64 print the value of their argument, if no operation of it was
\* misread, but for values of put_u64 that have no i64 (backend/builtin.cpp gives it
\* put_i64's address).
THEOREM PrintedAreMeanings == Spec => []PrintedIsMeaning
<1>1. EvalInv => PrintedIsMeaning
  BY DEF EvalInv
<1> QED
  BY <1>1, EvaluationInvariant, PTL

\* Without the operators that are emitted as the signed instruction of an unsigned
\* operation, no operation reads a sign where there is none.
SignReaders == {"divide", "modulo", "bitshift_right_"}
NoSignMisread == \A n \in DOMAIN values : "sign" \notin values[n].misread

LEMMA NoSignStep ==
  ASSUME ParseInv, EvalInv, NoSignMisread, InfixOperators \cap SignReaders = {}, [Next]_vars
  PROVE  NoSignMisread'
<1>1. ASSUME NEW v, Give(v), "sign" \notin v.misread PROVE NoSignMisread'
  <2>1. \A n \in DOMAIN values' : values'[n] = v \/ (n \in DOMAIN values /\ values'[n] = values[n])
    BY <1>1 DEF Give, InsertOrAssign
  <2> QED
    BY <1>1, <2>1 DEF NoSignMisread
<1>2. CASE values' = values
  BY <1>2 DEF NoSignMisread
<1>3. \A how : End(how) => values' = values
  BY DEF End
<1>4. \A type, width, word, meaning, misread : Val(type, width, word, meaning, misread).misread = misread
  BY ValIs
<1>5. \A v, target : Subtyped(v, target).misread = v.misread
  BY <1>4 DEF Subtyped
<1>6. \A op \in InfixOperators :
        At(op) => "sign" \notin LeftOperand.misread /\ (op # "as" => "sign" \notin RightOperand.misread)
  BY OperandsHaveValues DEF NoSignMisread
<1>7. CASE Parse \/ Walk \/ Descend \/ UNCHANGED vars
  BY <1>2, <1>7 DEF Parse, Walk, Descend, vars
<1>8. ASSUME NEW signed, NEW i, VisitLiteral(signed, i) PROVE NoSignMisread'
  <2> DEFINE type == LiteralType(BuiltinTypes, signed, i)
             v == Val(type, type.width, LiteralWord(type, i), i, {})
  <2>1. Give(v) /\ v.misread = {}
    BY <1>4, <1>8 DEF VisitLiteral
  <2> HIDE DEF v
  <2> QED
    BY <1>1, <2>1
<1>9. CASE VisitUnary \/ VisitPower
  BY <1>2, <1>3, <1>9 DEF VisitUnary, VisitPower
<1>10. CASE CastAs
  <2>1. "sign" \notin LeftOperand.misread
    BY <1>6, <1>10, AsIsInfix DEF CastAs
  <2>2. PICK hint \in Hints :
          End("threw") \/ Give(Subtyped(LeftOperand, LookupType(BuiltinTypes, hint)))
    BY <1>10 DEF CastAs
  <2> QED
    BY <1>1, <1>2, <1>3, <1>5, <2>1, <2>2
<1>11. ASSUME NEW op \in InfixOperators, VisitArithmetic(op) PROVE NoSignMisread'
  <2>1. "sign" \notin LeftOperand.misread /\ "sign" \notin RightOperand.misread
    BY <1>6, <1>11 DEF VisitArithmetic, ArithmeticOps, ShiftOps
  <2> DEFINE type == InferBinary(BuiltinTypes, op, LeftOperand.type, RightOperand.type)
             misread == Misread(op, type, LeftOperand, RightOperand)
  <2>2. ~SignBitRead(op, type, LeftOperand.word, RightOperand.word)
    BY DEF SignBitRead, SignReaders
  <2>3. "sign" \notin misread
    BY <2>1, <2>2 DEF Misread, OfTwoWidths
  <2>4. \/ \E how : End(how)
        \/ \E width, word, meaning : Give(Val(type, width, word, meaning, misread))
        \/ \E width, word, meaning : Give(Val(Bool, width, word, meaning, misread))
    BY <1>11 DEF VisitArithmetic
  <2> HIDE DEF misread, type
  <2> QED
    BY <1>1, <1>2, <1>3, <1>4, <2>3, <2>4
<1>12. ASSUME NEW op \in InfixOperators, VisitBoolean(op) PROVE NoSignMisread'
  <2>1. "sign" \notin LeftOperand.misread /\ "sign" \notin RightOperand.misread
    BY <1>6, <1>12 DEF VisitBoolean, BooleanOps
  <2> DEFINE l == Subtyped(LeftOperand, Bool)
             r == Subtyped(RightOperand, Bool)
  <2>2. "sign" \notin l.misread \cup r.misread
    BY <1>5, <2>1
  <2>3. \E word, meaning : Give(Val(Bool, 1, word, meaning, l.misread \cup r.misread))
    BY <1>12 DEF VisitBoolean
  <2> HIDE DEF l, r
  <2> QED
    BY <1>1, <1>4, <2>2, <2>3
<1>13. ASSUME NEW op \in InfixOperators, VisitComparison(op) PROVE NoSignMisread'
  <2> DEFINE misread == LeftOperand.misread \cup RightOperand.misread \cup OfTwoWidths(LeftOperand, RightOperand)
  <2>1. "sign" \notin LeftOperand.misread /\ "sign" \notin RightOperand.misread
    BY <1>6, <1>13 DEF VisitComparison, Comparisons
  <2>2. "sign" \notin misread
    BY <2>1 DEF OfTwoWidths
  <2>3. (\E how : End(how)) \/ \E type, word, meaning : Give(Val(type, 1, word, meaning, misread))
    BY <1>13 DEF VisitComparison
  <2> HIDE DEF misread
  <2> QED
    BY <1>1, <1>2, <1>3, <1>4, <2>2, <2>3
<1>14. ASSUME NEW printer, PrintWith(printer) PROVE NoSignMisread'
  BY <1>2, <1>3, <1>14 DEF PrintWith
<1> QED
  BY <1>7, <1>8, <1>9, <1>10, <1>11, <1>12, <1>13, <1>14 DEF Next

\* What the words and the printers promise of operands of one width, with no sign bit
\* to be wary of
RightAtOneWidth ==
  /\ \A n \in DOMAIN values :
       "width" \notin values[n].misread => Denotes(values[n].type, values[n].word) = values[n].meaning
  /\ fate = "printed" /\ "width" \notin values[operand].misread =>
       printed.what = PrintedMeaning \/ (printed.by = "put_u64" /\ PrintedMeaning >= Half[64])

\* Expressions without `/`, `%` and `>>`, of any size and in any mixture of signs and
\* conversions, compute the words of their values and print them, as long as every
\* operation has operands of one width: the ones that are not, no visit promotes.
THEOREM RightWithoutDivision ==
  ASSUME InfixOperators \cap SignReaders = {}
  PROVE  Spec => []RightAtOneWidth
<1>1. Init => NoSignMisread
  BY DEF Init, EmptyTable, NoSignMisread
<1>2. ParseInv /\ EvalInv /\ NoSignMisread /\ [Next]_vars => NoSignMisread'
  BY NoSignStep
<1>3. ParseInv /\ EvalInv /\ NoSignMisread => RightAtOneWidth
  <2> SUFFICES ASSUME ParseInv, EvalInv, NoSignMisread PROVE RightAtOneWidth
    OBVIOUS
  <2>1. \A n \in DOMAIN values : "width" \notin values[n].misread => values[n].misread = {}
    BY DEF NoSignMisread, EvalInv, ValuesGood, GoodValue
  <2>2. \A n \in DOMAIN values :
          values[n].misread = {} => Denotes(values[n].type, values[n].word) = values[n].meaning
    BY DEF EvalInv, ValuesGood, GoodValue
  <2>3. fate = "printed" => operand \in DOMAIN values
    BY DEF EvalInv, WalkInv
  <2> QED
    BY <2>1, <2>2, <2>3 DEF EvalInv, PrintedIsMeaning, RightAtOneWidth
<1> QED
  BY <1>1, <1>2, <1>3, EvaluationInvariant, PTL DEF Spec

\* What holds of every parse holds of the parse of an argument that is evaluated.
THEOREM EvaluatedTreeGrouped == Spec => [](SameRankGrouping /\ TableRespectedElsewhere)
BY ParserInside, TreeGroupsSameRank, TreeRespectsTableElsewhere, PTL
================================================================================
