------------------------------- MODULE Evaluation -------------------------------
(***************************************************************************)
(* What a program prints: `put_i64(e)` or `put_u64(e)` for an expression e *)
(* of integer literals and operators, from its text to the word its        *)
(* argument is.  The grammar gives the tree (ExpressionGrammar); the visit *)
(* of codegen_visitor goes through it in post-order, and inference types   *)
(* every node on the way (Inference).  All operands are constants, so that *)
(* IRBuilder folds every operation and no instruction is emitted; the      *)
(* words are those IntegerOps says the folding gives.                      *)
(*                                                                         *)
(* Beside every word goes the value the expression means: exact arithmetic *)
(* on the values of the operands, in the type inference gives it.          *)
(***************************************************************************)
EXTENDS ExpressionGrammar, IntegerOps, Inference, Builtins

CONSTANTS UnsignedLiterals,   \* the values of literals without a sign
          SignedLiterals,     \* and of those with one
          Hints,              \* type names after `as`
          Printers,           \* the builtin functions that print
          MaxWalked           \* bound on the operators of an expression evaluated

\* Literals are the ones the parser takes for 64-bit integers; the builtin functions
\* that print floating-point values have no argument here, nor have casts to them
ASSUME EvaluationAssumption ==
  /\ UnsignedLiterals \subseteq Words(64)
  /\ SignedLiterals \subseteq (-Half[64])..(Half[64] - 1)
  /\ \A hint \in Hints : LookupType(BuiltinTypes, hint) \notin {SingleFp, DoubleFp}
  /\ Printers \subseteq {"put_i64", "put_u64"}

VARIABLES
  frames,     \* the nodes being visited, the calls of visit(), the last one innermost
  values,     \* what the visits that have returned gave, by node
  fate,       \* "parsing", "walking", or how it ended
  printed     \* the printer and what it wrote

vars == <<grammarVars, frames, values, fate, printed>>

\* A value: its inferred type, the width of its constant and its word, what it means,
\* and how an operation at or below it was misread: a "sign" bit that is none
\* (SignBitRead), or operands of two widths
Val(type, width, word, meaning, misread) ==
  [type |-> type, width |-> width, word |-> word, meaning |-> meaning, misread |-> misread]

NotPrinted == [by |-> "nobody", what |-> 0]

Parse == fate = "parsing" /\ ParseNext /\ UNCHANGED <<frames, values, fate, printed>>

\* The argument of the call is visited: the node completed last
Walk ==
  /\ fate = "parsing" /\ Parsed /\ OperatorsRead <= MaxWalked
  /\ frames' = <<operand>> /\ fate' = "walking"
  /\ UNCHANGED <<grammarVars, values, printed>>

\* The right side of `as` is a name, and the operand of a unary operation is not
\* visited
VisitedOperands(node) ==
  CASE node.op = "as" -> {node.args[1]}
    [] Len(node.args) = 1 -> {}
    [] node.op # "as" /\ Len(node.args) # 1 -> {node.args[i] : i \in DOMAIN node.args}

Visiting == nodes[Last(frames)]
Unvisited == VisitedOperands(Visiting) \ DOMAIN values

\* The operands are visited from left to right, as their nodes were made
Descend ==
  /\ fate = "walking" /\ frames # << >> /\ Unvisited # {}
  /\ frames' = Append(frames, CHOOSE n \in Unvisited : \A m \in Unvisited : n <= m)
  /\ UNCHANGED <<grammarVars, values, fate, printed>>

At(op) == fate = "walking" /\ frames # << >> /\ Unvisited = {} /\ Visiting.op = op

\* visit() returns the value of the node
Give(v) ==
  /\ values' = InsertOrAssign(values, Last(frames), v) /\ frames' = Front(frames)
  /\ UNCHANGED <<grammarVars, fate, printed>>

\* How an evaluation ends before it prints: "threw", "reported" (a null value),
\* "refused" (the verifier's rule on the types of arguments), or "undefined"
End(how) == fate' = how /\ UNCHANGED <<grammarVars, frames, values, printed>>

VisitLiteral(signed, i) ==
  /\ At("atom")
  /\ LET type == LiteralType(BuiltinTypes, signed, i)
     IN  Give(Val(type, type.width, LiteralWord(type, i), i, {}))

VisitUnary == \E op \in PrefixOperators : At(op) /\ End("reported")

\* this->subtype(): a value as one of another type; the identity keeps the constant
Subtyped(v, target) ==
  LET rule == TrySubtype(v.type, target)
  IN  Val(target,
          IF rule = "identity" THEN v.width ELSE LlvmWidth(target),
          ConvertWord(rule, v.width, target, v.word),
          ConvertedValue(target, v.meaning), v.misread)

LeftOperand  == values[Visiting.args[1]]
RightOperand == values[Visiting.args[2]]

CastAs ==
  /\ At("as")
  /\ \E hint \in Hints :
       LET target == LookupType(BuiltinTypes, hint)
       IN  IF TrySubtype(LeftOperand.type, target) = NoRule
           THEN End("threw")
           ELSE Give(Subtyped(LeftOperand, target))

\* Operands of integer types are reported, and have no value
VisitPower == At("pow") /\ End("reported")

\* The values of the operands in the type of the operation; the right operand of a
\* shift counts, whatever its type
LeftMeaning(type, l) == Wrapped(type, l.meaning)
RightMeaning(op, type, r) == IF op \in ShiftOps THEN r.meaning ELSE Wrapped(type, r.meaning)

OfTwoWidths(l, r) == IF l.width # r.width THEN {"width"} ELSE {}

Misread(op, type, l, r) ==
  l.misread \cup r.misread \cup OfTwoWidths(l, r)
  \cup IF SignBitRead(op, type, l.word, r.word) THEN {"sign"} ELSE {}

ArithmeticMeaning(op, type, l, r) ==
  LET x == LeftMeaning(type, l)
      y == RightMeaning(op, type, r)
  IN  IF Meaningless(op, type, x, y) THEN 0 ELSE Wrapped(type, Exact(op, type, x, y))

\* No operand is promoted: constants of two widths fail an assertion of LLVM's, or
\* are folded all the same.  Whoever asks for a type that inference has not throws.
VisitArithmetic(op) ==
  /\ At(op) /\ op \in ArithmeticOps \cup ShiftOps
  /\ LET l == LeftOperand
         r == RightOperand
         type == InferBinary(BuiltinTypes, op, l.type, r.type)
     IN  \/ l.width # r.width /\ End("undefined")
         \/ type = Nullopt /\ End("threw")
         \/ /\ IsInteger(type)
            /\ IF NoResultDefined(Instruction[op], l.width, r.width, l.word, r.word)
               THEN End("undefined")
               ELSE \E folded \in Folds(Instruction[op], l.width, r.width, l.word, r.word) :
                      Give(Val(type, folded.width, folded.word,
                               ArithmeticMeaning(op, type, l, r), Misread(op, type, l, r)))
         \/ /\ type = Bool /\ r.word = 0  \* an i1, shifted by nothing
            /\ Give(Val(Bool, 1, l.word, l.meaning, Misread(op, type, l, r)))

Select(op, a, b) ==
  IF op = "booland" THEN IF a = 1 THEN b ELSE 0
                    ELSE IF a = 1 THEN 1 ELSE b

\* Both operands have been evaluated by now, whatever the left one is
VisitBoolean(op) ==
  /\ At(op) /\ op \in BooleanOps
  /\ LET l == Subtyped(LeftOperand, Bool)
         r == Subtyped(RightOperand, Bool)
     IN  Give(Val(Bool, 1, Select(op, l.word, r.word), Select(op, l.meaning, r.meaning),
                  l.misread \cup r.misread))

Truth(b) == IF b THEN 1 ELSE 0

\* Operands of one tag are compared, as words; no operand is promoted here either
VisitComparison(op) ==
  /\ At(op) /\ op \in Comparisons
  /\ LET l == LeftOperand
         r == RightOperand
     IN  IF l.type.tag # r.type.tag \/ ~IsInteger(l.type) THEN End("threw")
         ELSE \/ l.width # r.width /\ End("undefined")
              \/ Give(Val(InferComparison(BuiltinTypes, l.type, r.type), 1,
                          Truth(Predicate(op, l.type, l.width, l.word, r.word)),
                          Truth(Compares(op, l.meaning, r.meaning)),
                          l.misread \cup r.misread \cup OfTwoWidths(l, r)))

\* The argument is converted to the parameter's type, and the function at the
\* builtin's address gets the word; the verifier refuses one of another width
PrintWith(printer) ==
  /\ fate = "walking" /\ frames = << >>
  /\ LET argument == values[operand]
         target == BuiltinSymbols[printer].parameters[1]
         passed == Subtyped(argument, target)
         prints == Implementation[BuiltinFunction[printer].address].prints
     IN  IF TrySubtype(argument.type, target) = NoRule THEN End("threw")
         ELSE IF passed.width # target.width THEN End("refused")
         ELSE /\ printed' = [by |-> printer,
                             what |-> IF prints = "signed"
                                      THEN AsSigned(target.width, passed.word) ELSE passed.word]
              /\ fate' = "printed"
              /\ UNCHANGED <<grammarVars, frames, values>>

Init ==
  /\ ParseInit
  /\ frames = << >> /\ values = EmptyTable /\ fate = "parsing" /\ printed = NotPrinted

Next ==
  \/ Parse \/ Walk \/ Descend
  \/ \E i \in UnsignedLiterals : VisitLiteral(FALSE, i)
  \/ \E i \in SignedLiterals : VisitLiteral(TRUE, i)
  \/ VisitUnary \/ CastAs \/ VisitPower
  \/ \E op \in InfixOperators : VisitArithmetic(op) \/ VisitBoolean(op) \/ VisitComparison(op)
  \/ \E printer \in Printers : PrintWith(printer)

Spec == Init /\ [][Next]_vars
--------------------------------------------------------------------------------
\* Every value is a word of its width, which is that of its type unless operands of
\* two widths were folded, and its meaning is a value of its type; whoever asks for a
\* value finds it: an operation those of its operands, the call its argument.
TypeOK ==
  /\ fate \in {"parsing", "walking", "printed", "threw", "reported", "refused", "undefined"}
  /\ \A n \in DOMAIN values :
       /\ values[n].type \in IntegerTypes(Widths) \cup {Bool}
       /\ values[n].width \in Widths \cup {1} /\ values[n].word \in WordsAt(values[n].width)
       /\ values[n].width = 1 <=> values[n].type = Bool
       /\ values[n].meaning \in {Denotes(values[n].type, word) : word \in WordsOf(values[n].type)}
       /\ values[n].misread \subseteq {"sign", "width"}
       /\ "width" \notin values[n].misread => values[n].width = LlvmWidth(values[n].type)
  /\ \A k \in DOMAIN frames : frames[k] \in DOMAIN nodes \ DOMAIN values
  /\ fate = "walking" /\ frames = << >> => operand \in DOMAIN values
  /\ printed.by \in Printers \cup {"nobody"}

\* The word computed for an expression stands for the value the expression has
\* in the type inference gives it, through any mixture of signs and conversions,
\* unless below it operands of two widths were folded, which none of the visits
\* promotes, or an unsigned division, remainder or right shift had an operand with
\* its highest bit set: those are the signed operations.
ValueSound ==
  \A n \in DOMAIN values :
    values[n].misread = {} => Denotes(values[n].type, values[n].word) = values[n].meaning

\* A literal keeps its value, in the narrowest type of its sign that has it.
LiteralNarrowest ==
  \A n \in DOMAIN values :
    nodes[n].op = "atom" =>
      LET v == values[n]
      IN  /\ Denotes(v.type, v.word) = v.meaning
          /\ \A w \in Widths :
               w < v.type.width =>
                 \A word \in Words(w) : Denotes([v.type EXCEPT !.width = w], word) # v.meaning

\* An operation has no defined result only where it has no meaning, operands of two
\* widths and the highest bit of an unsigned division's operand apart.
UndefinedOnlyIfMeaningless ==
  fate = "undefined" =>
    LET op == Visiting.op
        l == LeftOperand
        r == RightOperand
        type == InferBinary(BuiltinTypes, op, l.type, r.type)
    IN  \/ l.width # r.width \/ l.misread # {} \/ r.misread # {}
        \/ Meaningless(op, type, LeftMeaning(type, l), RightMeaning(op, type, r))
        \/ SignBitRead(op, type, l.word, r.word)

PrintedMeaning ==
  ConvertedValue(BuiltinSymbols[printed.by].parameters[1], values[operand].meaning)

\* What is printed is the value of the expression, if no operation of it was misread,
\* but for values of put_u64 that have no i64: it has the address of put_i64's
\* implementation.
PrintedIsMeaning ==
  fate = "printed" /\ values[operand].misread = {} =>
    \/ printed.what = PrintedMeaning
    \/ printed.by = "put_u64" /\ PrintedMeaning >= Half[64]
================================================================================
