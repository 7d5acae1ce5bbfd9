------------------------------- MODULE IntegerOps -------------------------------
(***************************************************************************)
(* What integers are at run time: the words code generation computes with  *)
(* (backend/llvm.cpp, backend/typing.cpp), which have no sign, and the     *)
(* values they stand for by the type that inference gives an expression    *)
(* (type_system/inference.cpp).                                            *)
(*                                                                         *)
(* The width of a type is its name; how many bits a word of that width has *)
(* is a constant, so that an instance may check small words and a proof    *)
(* need not know them.                                                     *)
(***************************************************************************)
EXTENDS Environment, Integers

CONSTANTS BitWidth,   \* the bits of a word of each width
          Half        \* half the number of its words: 2^(bits - 1)

Widths == {8, 16, 32, 64}

ASSUME WordsAssumption ==
  /\ BitWidth \in [Widths -> Nat \ {0, 1}] /\ Half \in [Widths -> Nat \ {0, 1}]
  /\ \A v, w \in Widths : v < w => 2 * Half[v] <= Half[w]

\* The powers of two
PowerOf2[k \in Nat] == IF k = 0 THEN 1 ELSE 2 * PowerOf2[k - 1]

ASSUME HalfAssumption == \A w \in Widths : Half[w] = PowerOf2[BitWidth[w] - 1]

(******************************* Words and values **************************)

Modulus(w) == 2 * Half[w]
Words(w)   == 0..(Modulus(w) - 1)

AsSigned(w, n) == IF n < Half[w] THEN n ELSE n - Modulus(w)

\* The value a word stands for in an expression of a type, and the words of it
Denotes(t, n) == IF t.tag = "sint" THEN AsSigned(t.width, n) ELSE n
WordsOf(t) == IF t = Bool THEN {0, 1} ELSE Words(t.width)

\* The width of a type in LLVM, and the words of a width there
LlvmWidth(t) == IF t = Bool THEN 1 ELSE t.width
WordsAt(w)   == IF w = 1 THEN {0, 1} ELSE Words(w)

\* The value of type t that is congruent to i
Wrapped(t, i) == Denotes(t, i % Modulus(t.width))

(********************************** Literals *******************************)

\* (mutant) the comparisons with std::numeric_limits are strict
FitsStrictly(signed, w, i) ==
  IF signed THEN -Half[w] < i /\ i < Half[w] ELSE 0 <= i /\ i < Modulus(w) - 1

Fits(signed, w, i) ==
  IF signed THEN -Half[w] <= i /\ i < Half[w] ELSE 0 <= i /\ i < Modulus(w)

\* The first width whose limits hold the value, or 64
LiteralType(types, signed, i) ==
  LookupType(types,
             CASE Fits(signed, 8, i)                          -> IF signed THEN "i8"  ELSE "u8"
               [] ~Fits(signed, 8, i) /\ Fits(signed, 16, i)  -> IF signed THEN "i16" ELSE "u16"
               [] ~Fits(signed, 16, i) /\ Fits(signed, 32, i) -> IF signed THEN "i32" ELSE "u32"
               [] OTHER                                       -> IF signed THEN "i64" ELSE "u64")

\* llvm::ConstantInt::get
LiteralWord(t, i) == i % Modulus(t.width)

(********************************* Conversions *****************************)

\* (mutants) integers are extended with zeros, whatever their sign; the
\* conversion to bool keeps the word
ExtendWithZeros(rule, w, to, n) ==
  IF rule = "numeric_to_bool" THEN IF n = 0 THEN 0 ELSE 1 ELSE n
CastWithoutTest(rule, w, to, n) ==
  IF rule = "sint_promotion" THEN AsSigned(w, n) % Modulus(to.width) ELSE n

\* What the converter of a rule between integers and bool does to a word of width w;
\* a word that is wider than the target loses its upper bits
ConvertWord(rule, w, to, n) ==
  CASE rule = "identity"                            -> n
    [] rule \in {"uint_promotion", "bool_int_prom"} -> n % Modulus(to.width)
    [] rule = "sint_promotion"  -> AsSigned(w, n) % Modulus(to.width)
    [] rule = "numeric_to_bool" -> IF n = 0 THEN 0 ELSE 1

\* A conversion keeps the value; one to bool keeps whether it is zero
ConvertedValue(to, i) == IF to = Bool THEN IF i = 0 THEN 0 ELSE 1 ELSE i

(******************************** Instructions *****************************)

\* Division towards zero, as C and LLVM divide, and its remainder
Absolute(i) == IF i < 0 THEN -i ELSE i
Quotient(i, j) ==
  LET q == Absolute(i) \div Absolute(j) IN IF (i < 0) = (j < 0) THEN q ELSE -q
Remainder(i, j) == i - j * Quotient(i, j)

\* (mutant) two neighbouring cases of the switch change places
ProductsSwapped ==
  [multiply |-> "sdiv", divide |-> "mul", modulo |-> "srem", plus |-> "add", minus |-> "sub",
   bitshift_right_ |-> "ashr", bitshift_left_ |-> "shl",
   bitand_ |-> "and", bitxor_ |-> "xor", bitor_ |-> "or"]

\* The instruction of each operator, whatever the type of its operands
Instruction ==
  [multiply |-> "mul", divide |-> "sdiv", modulo |-> "srem", plus |-> "add", minus |-> "sub",
   bitshift_right_ |-> "ashr", bitshift_left_ |-> "shl",
   bitand_ |-> "and", bitxor_ |-> "xor", bitor_ |-> "or"]

\* The language reference of LLVM: division by zero and of the least word by -1
\* are undefined, and so is what a shift by the width or more gives.  Here and below
\* a is a word of width w and b one of width v.
NoResultDefined(instruction, w, v, a, b) ==
  \/ instruction \in {"sdiv", "srem"} /\ (b = 0 \/ (a = Half[w] /\ b = Modulus(v) - 1))
  \/ instruction \in {"ashr", "shl"} /\ b >= BitWidth[w]

\* The bits of an integer in two's complement, as many as a word has; and a word
\* by its bits
BitsOf(w, i) == [k \in 0..(BitWidth[w] - 1) |-> (i \div PowerOf2[k]) % 2]
WordOf(w, bits) == CHOOSE n \in Words(w) : BitsOf(w, n) = bits

Connect(connective, p, q) ==
  [k \in DOMAIN p |-> CASE connective = "and" -> IF p[k] = 1 THEN q[k] ELSE 0
                        [] connective = "or"  -> IF p[k] = 1 THEN 1 ELSE q[k]
                        [] connective = "xor" -> IF p[k] = q[k] THEN 0 ELSE 1]
OnBits(connective, w, i, j) == WordOf(w, Connect(connective, BitsOf(w, i), BitsOf(w, j)))

\* On words of one width this is the instruction; constants of two widths are folded
\* in that of the left one
Execute(instruction, w, v, a, b) ==
  CASE instruction = "mul"  -> (a * b) % Modulus(w)
    [] instruction = "add"  -> (a + b) % Modulus(w)
    [] instruction = "sub"  -> (a - b) % Modulus(w)
    [] instruction = "sdiv" -> Quotient(AsSigned(w, a), AsSigned(v, b)) % Modulus(w)
    [] instruction = "srem" -> Remainder(AsSigned(w, a), AsSigned(v, b)) % Modulus(w)
    [] instruction = "ashr" -> (AsSigned(w, a) \div PowerOf2[b]) % Modulus(w)
    [] instruction = "shl"  -> (a * PowerOf2[b]) % Modulus(w)
    [] instruction \in {"and", "or", "xor"} -> OnBits(instruction, w, a, b)

Folded(w, n) == [width |-> w, word |-> n]

\* The left constant leaves the right one as it is, or the right one decides alone
RightIsResult(instruction, w, v, a, b) ==
  \/ instruction \in {"add", "or", "xor"} /\ a = 0
  \/ instruction = "mul" /\ (a = 1 \/ b = 0)
  \/ instruction = "and" /\ (a = Modulus(w) - 1 \/ b = 0)
  \/ instruction = "or" /\ b = Modulus(v) - 1

\* What LLVM 16, built without assertions, makes of two constants: for widths that
\* differ, some come out as they are, width included, and `or` and `xor` leave the
\* right one's bits above the left one's width to whoever uses the result
Folds(instruction, w, v, a, b) ==
  CASE w # v /\ RightIsResult(instruction, w, v, a, b) -> {Folded(v, b)}
    [] w # v /\ instruction = "srem" /\ b = 1 -> {Folded(v, 0)}
    [] w # v /\ instruction = "and" /\ a # Modulus(w) - 1 /\ b = Modulus(v) - 1 -> {Folded(w, a)}
    [] OTHER -> {Folded(w, Execute(instruction, w, v, a, b))}
                \cup IF w < v /\ instruction \in {"or", "xor"}
                     THEN {Folded(v, OnBits(instruction, v, a, b))} ELSE {}

\* sint_comp_table and uint_comp_table: whether the order is of signed values, which
\* are those of the left operand's width
Predicate(op, t, w, a, b) ==
  LET x == IF t.tag = "sint" THEN AsSigned(w, a) ELSE a
      y == IF t.tag = "sint" THEN AsSigned(w, b % Modulus(w)) ELSE b
  IN  CASE op = "lsr" -> x < y
        [] op = "leq" -> x <= y
        [] op = "geq" -> x >= y
        [] op = "grt" -> x > y
        [] op = "eq"  -> a = b
        [] op = "neq" -> a # b

(********************************* Meanings ********************************)

\* What an operator means for values of the type t that inference gives the
\* operation: the exact result, still to be wrapped into the type
Exact(op, t, x, y) ==
  CASE op = "multiply"        -> x * y
    [] op = "plus"            -> x + y
    [] op = "minus"           -> x - y
    [] op = "divide"          -> Quotient(x, y)
    [] op = "modulo"          -> Remainder(x, y)
    [] op = "bitshift_right_" -> x \div PowerOf2[y]
    [] op = "bitshift_left_"  -> x * PowerOf2[y]
    [] op = "bitand_"         -> OnBits("and", t.width, x, y)
    [] op = "bitxor_"         -> OnBits("xor", t.width, x, y)
    [] op = "bitor_"          -> OnBits("or", t.width, x, y)

\* What a comparison means
Compares(op, x, y) ==
  CASE op = "lsr" -> x < y
    [] op = "leq" -> x <= y
    [] op = "geq" -> x >= y
    [] op = "grt" -> x > y
    [] op = "eq"  -> x = y
    [] op = "neq" -> x # y

Meaningless(op, t, x, y) ==
  \/ op \in {"divide", "modulo"} /\ (y = 0 \/ (t.tag = "sint" /\ x = -Half[t.width] /\ y = -1))
  \/ op \in {"bitshift_right_", "bitshift_left_"} /\ y >= BitWidth[t.width]

\* Where the signed instruction is not the unsigned operation: an operand of an
\* unsigned type has the bit set that is the sign of a signed one
SignBitRead(op, t, a, b) ==
  /\ t.tag = "uint"
  /\ \/ op \in {"divide", "modulo"} /\ (a >= Half[t.width] \/ b >= Half[t.width])
     \/ op = "bitshift_right_" /\ a >= Half[t.width]
================================================================================
