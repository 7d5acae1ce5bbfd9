---------------------------- MODULE IntegerOpsProofs ----------------------------
(***************************************************************************)
(* Proofs about the words of IntegerOps, for words of any size: literals   *)
(* are exact in the narrowest type that has them, conversions keep values, *)
(* comparisons compare values, and the arithmetic of words is the one of   *)
(* the values they stand for, but where a sign bit is read that is none.   *)
(***************************************************************************)
EXTENDS IntegerOps, BythonTypesProofs, WellFoundedInduction

(****************************** Division and rest **************************)

LEMMA DivMod ==
  \A m \in Nat \ {0}, n \in Int :
    /\ n \div m \in Int /\ n % m \in Int /\ 0 <= n % m /\ n % m < m
    /\ n = m * (n \div m) + (n % m)
BY SMT

LEMMA ModSmall == \A m \in Nat \ {0}, n \in Int : 0 <= n /\ n < m => n % m = n
BY SMT

\* A number has one rest.
LEMMA OneRest ==
  \A m \in Nat \ {0}, p, q, r, s \in Int :
    m * p + r = m * q + s /\ 0 <= r /\ r < m /\ 0 <= s /\ s < m => r = s
BY SMT

\* Numbers that differ by a multiple of m have the same rest.
LEMMA SameRest == \A m \in Nat \ {0}, n, k \in Int : (n + m * k) % m = n % m
<1> SUFFICES ASSUME NEW m \in Nat \ {0}, NEW n \in Int, NEW k \in Int
             PROVE  (n + m * k) % m = n % m
  OBVIOUS
<1>1. m * k \in Int /\ n + m * k \in Int
  OBVIOUS
<1> DEFINE q == n \div m
           p == (n + m * k) \div m
           r == n % m
           s == (n + m * k) % m
<1>2. /\ q \in Int /\ r \in Int /\ 0 <= r /\ r < m /\ n = m * q + r
      /\ p \in Int /\ s \in Int /\ 0 <= s /\ s < m /\ n + m * k = m * p + s
  BY <1>1, DivMod
<1> HIDE DEF q, p, r, s
<1>3. m * (q + k) = m * q + m * k
  BY <1>2
<1>4. m * (q + k) + r = m * p + s /\ q + k \in Int
  BY <1>1, <1>2, <1>3
<1>5. r = s
  BY <1>2, <1>4, OneRest
<1> QED
  BY <1>5 DEF r, s

\* The same with a difference.
LEMMA RestOfSums ==
  \A m \in Nat \ {0}, n, k \in Int : (n - m * k) % m = n % m
<1> SUFFICES ASSUME NEW m \in Nat \ {0}, NEW n \in Int, NEW k \in Int
             PROVE  (n - m * k) % m = n % m
  OBVIOUS
<1>1. n - m * k = n + m * (-k) /\ -k \in Int
  OBVIOUS
<1> QED
  BY <1>1, SameRest

(******************************* Powers of two *****************************)

\* Induction over a set: what has 0 and, with each number, the next has all.
LEMMA AllNumbers ==
  ASSUME NEW S, 0 \in S, \A n \in Nat : n \in S => n + 1 \in S
  PROVE  \A n \in Nat : n \in S
<1> DEFINE R == OpToRel(<, Nat)
           rest == {n \in Nat : n \notin S}
<1>1. SUFFICES ASSUME rest # {} PROVE FALSE
  OBVIOUS
<1>2. IsWellFoundedOn(R, Nat)
  BY NatLessThanWellFounded
<1>3. PICK least \in rest : \A n \in rest : <<n, least>> \notin R
  <2>1. rest \subseteq Nat
    OBVIOUS
  <2> HIDE DEF rest, R
  <2> QED
    BY <1>1, <1>2, <2>1, WFMin, Zenon
<1>4. least \in Nat \ {0}
  OBVIOUS
<1>5. least - 1 \in Nat /\ least - 1 + 1 = least
  BY <1>4
<1>6. least - 1 \in rest
  BY <1>5
<1>7. <<least - 1, least>> \in R
  BY <1>4, <1>5 DEF OpToRel
<1> QED
  BY <1>3, <1>6, <1>7

\* A table of the powers of two up to n
Powers(n, f) == f \in [0..n -> Nat \ {0}] /\ f[0] = 1 /\ \A k \in 1..n : f[k] = 2 * f[k - 1]

LEMMA PowersExist == \A n \in Nat : \E f : Powers(n, f)
<1> DEFINE S == {n \in Nat : \E f : Powers(n, f)}
<1>1. 0 \in S
  <2>1. Powers(0, [k \in 0..0 |-> 1])
    BY DEF Powers
  <2> QED
    BY <2>1
<1>2. ASSUME NEW n \in Nat, n \in S PROVE n + 1 \in S
  <2>1. PICK f : Powers(n, f)
    BY <1>2
  <2> DEFINE g == [k \in 0..(n + 1) |-> IF k = n + 1 THEN 2 * f[n] ELSE f[k]]
  <2>2. /\ f \in [0..n -> Nat \ {0}] /\ f[0] = 1 /\ \A k \in 1..n : f[k] = 2 * f[k - 1]
    BY <2>1 DEF Powers
  <2>3. g \in [0..(n + 1) -> Nat \ {0}]
    <3> SUFFICES ASSUME NEW k \in 0..(n + 1) PROVE (IF k = n + 1 THEN 2 * f[n] ELSE f[k]) \in Nat \ {0}
      OBVIOUS
    <3>1. n \in 0..n /\ (k # n + 1 => k \in 0..n)
      OBVIOUS
    <3>2. f[n] \in Nat \ {0} /\ (k # n + 1 => f[k] \in Nat \ {0})
      BY <2>2, <3>1
    <3> QED
      BY <3>2
  <2>4. g[0] = 1 /\ \A k \in 1..(n + 1) : g[k] = 2 * g[k - 1]
    BY <2>2
  <2>5. Powers(n + 1, g)
    BY <2>3, <2>4 DEF Powers
  <2> HIDE DEF g
  <2> QED
    BY <2>5
<1> HIDE DEF S
<1>3. \A n \in Nat : n \in S
  BY <1>1, <1>2, AllNumbers
<1> QED
  BY <1>3 DEF S

LEMMA PowersAgree ==
  ASSUME NEW n \in Nat, NEW m \in Nat, NEW f, NEW g, Powers(n, f), Powers(m, g)
  PROVE  \A k \in 0..n : k \in 0..m => f[k] = g[k]
<1> DEFINE S == {k \in Nat : k \in 0..n /\ k \in 0..m => f[k] = g[k]}
<1>1. 0 \in S
  BY DEF Powers
<1>2. ASSUME NEW k \in Nat, k \in S PROVE k + 1 \in S
  <2> SUFFICES ASSUME k + 1 \in 0..n, k + 1 \in 0..m PROVE f[k + 1] = g[k + 1]
    OBVIOUS
  <2>1. k + 1 \in 1..n /\ k + 1 \in 1..m /\ k + 1 - 1 = k /\ k \in 0..n /\ k \in 0..m
    OBVIOUS
  <2>2. f[k + 1] = 2 * f[k] /\ g[k + 1] = 2 * g[k]
    BY <2>1 DEF Powers
  <2> QED
    BY <1>2, <2>1, <2>2
<1> HIDE DEF S
<1>3. \A k \in Nat : k \in S
  BY <1>1, <1>2, AllNumbers
<1> QED
  BY <1>3 DEF S

LEMMA PowerOf2Is ==
  /\ PowerOf2[0] = 1
  /\ \A k \in Nat : PowerOf2[k] \in Nat \ {0} /\ PowerOf2[k + 1] = 2 * PowerOf2[k]
<1> DEFINE table(n) == CHOOSE f : Powers(n, f)
           F == [k \in Nat |-> table(k)[k]]
<1>1. \A n \in Nat : Powers(n, table(n))
  BY PowersExist
<1> HIDE DEF table
<1>2. F[0] = 1
  BY <1>1 DEF Powers
<1>3. ASSUME NEW k \in Nat PROVE F[k] \in Nat \ {0} /\ F[k + 1] = 2 * F[k]
  <2>1. Powers(k, table(k)) /\ Powers(k + 1, table(k + 1)) /\ k + 1 \in Nat
    BY <1>1
  <2>2. k \in 0..k /\ k \in 0..(k + 1) /\ k + 1 \in 1..(k + 1) /\ k + 1 - 1 = k
    OBVIOUS
  <2>3. table(k)[k] = table(k + 1)[k]
    BY <2>1, <2>2, PowersAgree
  <2>4. table(k)[k] \in Nat \ {0} /\ table(k + 1)[k + 1] = 2 * table(k + 1)[k]
    BY <2>1, <2>2 DEF Powers
  <2> QED
    BY <2>1, <2>3, <2>4
<1>4. F = [k \in Nat |-> IF k = 0 THEN 1 ELSE 2 * F[k - 1]]
  <2> SUFFICES ASSUME NEW k \in Nat PROVE F[k] = IF k = 0 THEN 1 ELSE 2 * F[k - 1]
    OBVIOUS
  <2>1. k # 0 => k - 1 \in Nat /\ k - 1 + 1 = k
    OBVIOUS
  <2> HIDE DEF F
  <2> QED
    BY <1>2, <1>3, <2>1
<1> HIDE DEF F
<1>5. PowerOf2 = [k \in Nat |-> IF k = 0 THEN 1 ELSE 2 * PowerOf2[k - 1]]
  BY <1>4, Zenon DEF PowerOf2
<1>6. \A k \in Nat : PowerOf2[k] = IF k = 0 THEN 1 ELSE 2 * PowerOf2[k - 1]
  BY <1>5
<1> DEFINE S == {k \in Nat : PowerOf2[k] \in Nat \ {0}}
<1>7. 0 \in S
  BY <1>6
<1>8. \A k \in Nat : k + 1 \in Nat /\ k + 1 # 0 /\ k + 1 - 1 = k
  OBVIOUS
<1>9. \A k \in Nat : PowerOf2[k + 1] = 2 * PowerOf2[k]
  BY <1>6, <1>8
<1>10. \A k \in Nat : k \in S => k + 1 \in S
  BY <1>8, <1>9
<1> HIDE DEF S
<1>11. \A k \in Nat : k \in S
  BY <1>7, <1>10, AllNumbers
<1> QED
  BY <1>6, <1>9, <1>11 DEF S

\* Every smaller power of two is less than every larger one, and divides half of it.
LEMMA PowersDivide ==
  \A n \in Nat : \A k \in 0..(n - 1) : \E q \in Nat : PowerOf2[n] = PowerOf2[k] * (2 * q)
<1> DEFINE S == {n \in Nat : \A k \in 0..(n - 1) : \E q \in Nat : PowerOf2[n] = PowerOf2[k] * (2 * q)}
<1>1. 0 \in S
  OBVIOUS
<1>2. ASSUME NEW n \in Nat, n \in S PROVE n + 1 \in S
  <2>1. PowerOf2[n + 1] = 2 * PowerOf2[n] /\ \A k \in Nat : PowerOf2[k] \in Nat
    BY PowerOf2Is
  <2>2. ASSUME NEW k \in 0..n PROVE \E q \in Nat : PowerOf2[n + 1] = PowerOf2[k] * (2 * q)
    <3>1. CASE k = n
      <4>1. PowerOf2[n + 1] = PowerOf2[k] * (2 * 1)
        BY <2>1, <3>1
      <4> QED
        BY <4>1
    <3>2. CASE k # n
      <4>1. k \in 0..(n - 1)
        BY <3>2
      <4>2. PICK q \in Nat : PowerOf2[n] = PowerOf2[k] * (2 * q)
        BY <1>2, <4>1
      <4> DEFINE d == PowerOf2[k]
      <4>3. d \in Nat /\ PowerOf2[n + 1] = 2 * (d * (2 * q))
        BY <2>1, <4>2
      <4> HIDE DEF d
      <4>4. 2 * (d * (2 * q)) = d * (2 * (2 * q))
        BY <4>3
      <4>5. 2 * q \in Nat
        OBVIOUS
      <4> QED
        BY <4>3, <4>4, <4>5 DEF d
    <3> QED
      BY <3>1, <3>2
  <2>3. n + 1 - 1 = n /\ n + 1 \in Nat
    OBVIOUS
  <2> QED
    BY <2>2, <2>3
<1> HIDE DEF S
<1>3. \A n \in Nat : n \in S
  BY <1>1, <1>2, AllNumbers
<1> QED
  BY <1>3 DEF S

\* The quotient of a number a multiple of d larger
LEMMA QuotientOfSums ==
  \A d \in Nat \ {0}, e, r \in Int : (d * e + r) \div d = e + (r \div d)
<1> SUFFICES ASSUME NEW d \in Nat \ {0}, NEW e \in Int, NEW r \in Int
             PROVE  (d * e + r) \div d = e + (r \div d)
  OBVIOUS
<1> DEFINE p == r \div d
           s == r % d
           q == (d * e + r) \div d
           u == (d * e + r) % d
<1>1. d * e \in Int /\ d * e + r \in Int
  OBVIOUS
<1>2. /\ p \in Int /\ s \in Int /\ 0 <= s /\ s < d /\ r = d * p + s
      /\ q \in Int /\ u \in Int /\ d * e + r = d * q + u
  BY <1>1, DivMod
<1>3. u = s
  <2>1. (r + d * e) % d = r % d
    BY SameRest
  <2>2. r + d * e = d * e + r
    BY <1>1
  <2> QED
    BY <2>1, <2>2
<1> HIDE DEF p, s, q, u
<1>4. d * q = d * e + d * p
  BY <1>1, <1>2, <1>3
<1>5. d * (q - (e + p)) = 0
  <2>1. d * (q - (e + p)) = d * q - (d * e + d * p)
    BY <1>2
  <2> QED
    BY <1>4, <2>1, <1>2
<1>6. q - (e + p) = 0
  <2>1. \A a, b \in Int : a * b = 0 => a = 0 \/ b = 0
    OBVIOUS
  <2>2. q - (e + p) \in Int /\ d \in Int /\ d # 0
    BY <1>2
  <2> QED
    BY <1>5, <2>1, <2>2
<1> QED
  BY <1>2, <1>6 DEF p, q

\* A bit does not change when a multiple of a larger power of two is added.
LEMMA BitOfSum ==
  ASSUME NEW n \in Nat, NEW k \in 0..(n - 1), NEW p \in Int, NEW r \in Int
  PROVE  ((PowerOf2[n] * p + r) \div PowerOf2[k]) % 2 = (r \div PowerOf2[k]) % 2
<1> DEFINE d == PowerOf2[k]
<1>1. d \in Nat \ {0} /\ \E q \in Nat : PowerOf2[n] = d * (2 * q)
  <2>1. k \in Nat
    OBVIOUS
  <2>2. d \in Nat \ {0}
    BY <2>1, PowerOf2Is
  <2>3. \E q \in Nat : PowerOf2[n] = d * (2 * q)
    BY PowersDivide, Zenon
  <2> QED
    BY <2>2, <2>3
<1>2. PICK q \in Nat : PowerOf2[n] = d * (2 * q)
  BY <1>1
<1> HIDE DEF d
<1>3. /\ (d * (2 * q)) * p + r = d * (2 * (q * p)) + r
      /\ 2 * (q * p) \in Int /\ q * p \in Int
  BY <1>1
<1>4. (d * (2 * (q * p)) + r) \div d = 2 * (q * p) + (r \div d)
  BY <1>1, <1>3, QuotientOfSums
<1>5. r \div d \in Int
  BY <1>1, DivMod
<1>6. (r \div d + 2 * (q * p)) % 2 = (r \div d) % 2
  <2>1. \A a, b \in Int : (a + 2 * b) % 2 = a % 2
    OBVIOUS
  <2> QED
    BY <1>3, <1>5, <2>1
<1>7. 2 * (q * p) + (r \div d) = r \div d + 2 * (q * p)
  BY <1>3, <1>5
<1> QED
  BY <1>2, <1>3, <1>4, <1>6, <1>7 DEF d

\* Any bits are those of a number.
LEMMA NumberOfBits ==
  \A n \in Nat : \A bits \in [0..(n - 1) -> {0, 1}] :
    \E word \in 0..(PowerOf2[n] - 1) :
      \A k \in 0..(n - 1) : (word \div PowerOf2[k]) % 2 = bits[k]
<1> DEFINE Has(n, bits) == \E word \in 0..(PowerOf2[n] - 1) :
                             \A k \in 0..(n - 1) : (word \div PowerOf2[k]) % 2 = bits[k]
           S == {n \in Nat : \A bits \in [0..(n - 1) -> {0, 1}] : Has(n, bits)}
<1>1. 0 \in S
  <2>1. 0 \in 0..(PowerOf2[0] - 1)
    BY PowerOf2Is
  <2> QED
    BY <2>1
<1>2. ASSUME NEW n \in Nat, n \in S PROVE n + 1 \in S
  <2> SUFFICES ASSUME NEW bits \in [0..n -> {0, 1}]
               PROVE  Has(n + 1, bits)
    OBVIOUS
  <2> DEFINE low == [k \in 0..(n - 1) |-> bits[k]]
  <2>1. low \in [0..(n - 1) -> {0, 1}] /\ \A k \in 0..(n - 1) : low[k] = bits[k]
    OBVIOUS
  <2> HIDE DEF low
  <2>2. Has(n, low)
    BY <1>2, <2>1
  <2>3. PICK word \in 0..(PowerOf2[n] - 1) : \A k \in 0..(n - 1) : (word \div PowerOf2[k]) % 2 = low[k]
    BY <2>2
  <2> DEFINE m == PowerOf2[n]
             b == bits[n]
             more == m * b + word
  <2>4. m \in Nat \ {0} /\ PowerOf2[n + 1] = 2 * m /\ b \in {0, 1} /\ word \in 0..(m - 1)
    <3>1. m \in Nat \ {0} /\ PowerOf2[n + 1] = 2 * m
      BY PowerOf2Is
    <3>2. b \in {0, 1}
      OBVIOUS
    <3> QED
      BY <3>1, <3>2
  <2>5. ASSUME NEW k \in 0..(n - 1)
        PROVE  (more \div PowerOf2[k]) % 2 = bits[k]
    <3>1. word \in Int /\ b \in Int
      BY <2>4
    <3>2. (more \div PowerOf2[k]) % 2 = (word \div PowerOf2[k]) % 2
      BY <3>1, BitOfSum
    <3> QED
      BY <2>1, <2>3, <3>2
  <2> HIDE DEF m, b
  <2>6. more \in 0..(2 * m - 1)
    BY <2>4
  <2>7. (more \div m) % 2 = b
    <3>1. more \div m = b + (word \div m)
      BY <2>4, QuotientOfSums
    <3>2. word \div m = 0
      BY <2>4
    <3> QED
      BY <2>4, <3>1, <3>2
  <2>8. \A k \in 0..n : k \in 0..(n - 1) \/ k = n
    OBVIOUS
  <2> HIDE DEF more
  <2>9. \A k \in 0..n : (more \div PowerOf2[k]) % 2 = bits[k]
    BY <2>5, <2>7, <2>8 DEF m, b
  <2>10. more \in 0..(PowerOf2[n + 1] - 1) /\ n + 1 - 1 = n
    BY <2>4, <2>6
  <2> QED
    BY <2>9, <2>10
<1> HIDE DEF S
<1>3. \A n \in Nat : n \in S
  BY <1>1, <1>2, AllNumbers
<1> QED
  BY <1>3 DEF S

(*********************************** Words *********************************)

LEMMA Sizes ==
  \A w \in Widths :
    /\ Half[w] \in Nat \ {0, 1} /\ Modulus(w) \in Nat \ {0} /\ Modulus(w) = 2 * Half[w]
    /\ Half[w] < Modulus(w)
    /\ \A v \in Widths : v < w => Modulus(v) <= Half[w]
BY WordsAssumption DEF Modulus

IntegerOf(w) == {UInt(w), SInt(w)}

\* A word read as a signed value differs from it by none or one modulus.
LEMMA SignedWord ==
  \A w \in Widths : \A n \in Words(w) :
    /\ n \in Int /\ 0 <= n /\ n < Modulus(w)
    /\ AsSigned(w, n) \in Int
    /\ -Half[w] <= AsSigned(w, n) /\ AsSigned(w, n) < Half[w]
    /\ \E k \in Int : AsSigned(w, n) = n - Modulus(w) * k
    /\ AsSigned(w, n) % Modulus(w) = n
<1> SUFFICES ASSUME NEW w \in Widths, NEW n \in Words(w)
             PROVE  /\ n \in Int /\ 0 <= n /\ n < Modulus(w)
                    /\ AsSigned(w, n) \in Int
                    /\ -Half[w] <= AsSigned(w, n) /\ AsSigned(w, n) < Half[w]
                    /\ \E k \in Int : AsSigned(w, n) = n - Modulus(w) * k
                    /\ AsSigned(w, n) % Modulus(w) = n
  OBVIOUS
<1>1. n \in Int /\ 0 <= n /\ n < Modulus(w)
  BY Sizes DEF Words
<1>2. CASE n < Half[w]
  <2>1. AsSigned(w, n) = n /\ n = n - Modulus(w) * 0
    BY <1>1, <1>2, Sizes DEF AsSigned
  <2>2. n % Modulus(w) = n
    BY <1>1, Sizes, ModSmall
  <2> QED
    BY <1>1, <1>2, <2>1, <2>2, Sizes
<1>3. CASE ~(n < Half[w])
  <2>1. AsSigned(w, n) = n - Modulus(w) /\ n - Modulus(w) = n - Modulus(w) * 1
    BY <1>1, <1>3, Sizes DEF AsSigned
  <2>2. (n - Modulus(w) * 1) % Modulus(w) = n % Modulus(w)
    <3>1. Modulus(w) \in Nat \ {0} /\ 1 \in Int
      BY Sizes
    <3> QED
      BY <1>1, <3>1, RestOfSums, Zenon
  <2>3. n % Modulus(w) = n
    BY <1>1, Sizes, ModSmall
  <2>4. /\ AsSigned(w, n) \in Int /\ -Half[w] <= AsSigned(w, n) /\ AsSigned(w, n) < Half[w]
    BY <1>1, <1>3, <2>1, Sizes
  <2>5. AsSigned(w, n) % Modulus(w) = n
    BY <2>1, <2>2, <2>3, Zenon
  <2>6. \E k \in Int : AsSigned(w, n) = n - Modulus(w) * k
    <3>1. 1 \in Int
      OBVIOUS
    <3> QED
      BY <2>1, <3>1, Zenon
  <2> QED
    BY <1>1, <2>4, <2>5, <2>6
<1> QED
  BY <1>2, <1>3

LEMMA TypesOf ==
  \A w : /\ UInt(w).tag = "uint" /\ SInt(w).tag = "sint"
         /\ UInt(w).width = w /\ SInt(w).width = w
BY DEF UInt, SInt

\* What a word stands for is congruent to it, whatever the sign of its type.
LEMMA DenotesWord ==
  \A w \in Widths : \A t \in IntegerOf(w), n \in Words(w) :
    /\ Denotes(t, n) \in Int
    /\ \E k \in Int : Denotes(t, n) = n - Modulus(w) * k
    /\ Denotes(t, n) % Modulus(w) = n
<1> SUFFICES ASSUME NEW w \in Widths, NEW t \in IntegerOf(w), NEW n \in Words(w)
             PROVE  /\ Denotes(t, n) \in Int
                    /\ \E k \in Int : Denotes(t, n) = n - Modulus(w) * k
                    /\ Denotes(t, n) % Modulus(w) = n
  OBVIOUS
<1>1. CASE t = SInt(w)
  BY <1>1, SignedWord, TypesOf DEF Denotes
<1>2. CASE t = UInt(w)
  <2>1. Denotes(t, n) = n
    BY <1>2, TypesOf DEF Denotes
  <2>2. n \in Int /\ 0 <= n /\ n < Modulus(w) /\ n = n - Modulus(w) * 0
    BY SignedWord, Sizes
  <2>3. n % Modulus(w) = n
    BY <2>2, Sizes, ModSmall
  <2> QED
    BY <2>1, <2>2, <2>3
<1> QED
  BY <1>1, <1>2 DEF IntegerOf

\* A value read as one of the other sign is the value the same word stands for.
LEMMA WrappedDenotes ==
  \A w \in Widths : \A s, t \in IntegerOf(w), n \in Words(w) :
    Wrapped(t, Denotes(s, n)) = Denotes(t, n)
BY DenotesWord, TypesOf DEF Wrapped, IntegerOf

\* The values a type has are the ones that fit into it.
LEMMA FitsDenoted ==
  \A w \in Widths : \A i \in Int :
    /\ Fits(TRUE, w, i) => /\ i % Modulus(w) \in Words(w)
                           /\ Denotes(SInt(w), i % Modulus(w)) = i
    /\ Fits(FALSE, w, i) => /\ i % Modulus(w) \in Words(w)
                            /\ Denotes(UInt(w), i % Modulus(w)) = i
    /\ \A n \in Words(w) : Denotes(SInt(w), n) = i => Fits(TRUE, w, i)
    /\ \A n \in Words(w) : Denotes(UInt(w), n) = i => Fits(FALSE, w, i)
<1> SUFFICES ASSUME NEW w \in Widths, NEW i \in Int
             PROVE  /\ Fits(TRUE, w, i) => /\ i % Modulus(w) \in Words(w)
                                           /\ Denotes(SInt(w), i % Modulus(w)) = i
                    /\ Fits(FALSE, w, i) => /\ i % Modulus(w) \in Words(w)
                                            /\ Denotes(UInt(w), i % Modulus(w)) = i
                    /\ \A n \in Words(w) : Denotes(SInt(w), n) = i => Fits(TRUE, w, i)
                    /\ \A n \in Words(w) : Denotes(UInt(w), n) = i => Fits(FALSE, w, i)
  OBVIOUS
<1>1. /\ Half[w] \in Nat \ {0, 1} /\ Modulus(w) \in Nat \ {0} /\ Modulus(w) = 2 * Half[w]
  BY Sizes
<1>2. \A n : Denotes(SInt(w), n) = AsSigned(w, n) /\ Denotes(UInt(w), n) = n
  BY TypesOf DEF Denotes
<1>3. i % Modulus(w) \in Words(w)
  <2>1. i % Modulus(w) \in Int /\ 0 <= i % Modulus(w) /\ i % Modulus(w) < Modulus(w)
    BY <1>1, DivMod
  <2> QED
    BY <1>1, <2>1 DEF Words
<1>4. ASSUME 0 <= i, i < Modulus(w) PROVE i % Modulus(w) = i
  BY <1>1, <1>4, ModSmall
<1>5. ASSUME i < 0, -Half[w] <= i PROVE i % Modulus(w) = i + Modulus(w)
  <2>1. (i + Modulus(w) * 1) % Modulus(w) = i % Modulus(w)
    <3>1. Modulus(w) \in Nat \ {0} /\ 1 \in Int
      BY <1>1
    <3> QED
      BY <3>1, SameRest, Zenon
  <2>2. i + Modulus(w) * 1 = i + Modulus(w)
    BY <1>1
  <2>3. i + Modulus(w) \in Int /\ 0 <= i + Modulus(w) /\ i + Modulus(w) < Modulus(w)
    BY <1>1, <1>5
  <2>4. (i + Modulus(w)) % Modulus(w) = i + Modulus(w)
    BY <1>1, <2>3, ModSmall
  <2> QED
    BY <2>1, <2>2, <2>4
<1>6. Fits(FALSE, w, i) => i % Modulus(w) = i
  BY <1>4 DEF Fits
<1>7. Fits(TRUE, w, i) => AsSigned(w, i % Modulus(w)) = i
  <2> SUFFICES ASSUME -Half[w] <= i, i < Half[w] PROVE AsSigned(w, i % Modulus(w)) = i
    BY DEF Fits
  <2>1. CASE 0 <= i
    <3>1. i % Modulus(w) = i
      BY <1>1, <1>4, <2>1
    <3> QED
      BY <3>1 DEF AsSigned
  <2>2. CASE i < 0
    <3>1. i % Modulus(w) = i + Modulus(w)
      BY <1>5, <2>2
    <3> QED
      BY <1>1, <3>1 DEF AsSigned
  <2> QED
    BY <2>1, <2>2
<1>8. \A n \in Words(w) : /\ AsSigned(w, n) = i => Fits(TRUE, w, i)
                          /\ n = i => Fits(FALSE, w, i)
  BY SignedWord DEF Fits
<1>9. /\ Denotes(SInt(w), i % Modulus(w)) = AsSigned(w, i % Modulus(w))
      /\ Denotes(UInt(w), i % Modulus(w)) = i % Modulus(w)
  BY <1>2
<1>10. /\ \A n \in Words(w) : Denotes(SInt(w), n) = i => Fits(TRUE, w, i)
       /\ \A n \in Words(w) : Denotes(UInt(w), n) = i => Fits(FALSE, w, i)
  BY <1>2, <1>8
<1> QED
  BY <1>3, <1>6, <1>7, <1>9, <1>10

\* The words of a width have all its bits.
LEMMA WordsHaveBits ==
  \A w \in Widths :
    /\ BitWidth[w] \in Nat \ {0, 1} /\ Modulus(w) = PowerOf2[BitWidth[w]]
    /\ Words(w) = 0..(PowerOf2[BitWidth[w]] - 1)
<1> SUFFICES ASSUME NEW w \in Widths
             PROVE  BitWidth[w] \in Nat \ {0, 1} /\ Modulus(w) = PowerOf2[BitWidth[w]]
  BY DEF Words
<1>1. BitWidth[w] \in Nat \ {0, 1} /\ Half[w] = PowerOf2[BitWidth[w] - 1]
  BY WordsAssumption, HalfAssumption
<1>2. BitWidth[w] - 1 \in Nat /\ BitWidth[w] - 1 + 1 = BitWidth[w]
  BY <1>1
<1>3. PowerOf2[BitWidth[w]] = 2 * PowerOf2[BitWidth[w] - 1]
  BY <1>2, PowerOf2Is
<1> QED
  BY <1>1, <1>3 DEF Modulus

\* The bits of an integer are those of the word congruent to it.
LEMMA BitsOfRest ==
  \A w \in Widths, i \in Int : BitsOf(w, i) = BitsOf(w, i % Modulus(w))
<1> SUFFICES ASSUME NEW w \in Widths, NEW i \in Int
             PROVE  BitsOf(w, i) = BitsOf(w, i % Modulus(w))
  OBVIOUS
<1> DEFINE n == BitWidth[w]
           m == PowerOf2[n]
           p == i \div m
           r == i % m
<1>1. n \in Nat /\ m \in Nat \ {0} /\ Modulus(w) = m
  BY WordsHaveBits, PowerOf2Is
<1>2. p \in Int /\ r \in Int /\ i = m * p + r
  BY <1>1, DivMod
<1> HIDE DEF p, r
<1>3. \A k \in 0..(n - 1) : (i \div PowerOf2[k]) % 2 = (r \div PowerOf2[k]) % 2
  BY <1>1, <1>2, BitOfSum
<1>4. BitsOf(w, i) = BitsOf(w, r)
  BY <1>3 DEF BitsOf
<1> QED
  BY <1>1, <1>4 DEF r

\* Bit operators give a word, whatever the integers.
LEMMA OnBitsIsWord ==
  \A w \in Widths, i, j \in Int, connective \in {"and", "or", "xor"} :
    OnBits(connective, w, i, j) \in Words(w)
<1> SUFFICES ASSUME NEW w \in Widths, NEW i \in Int, NEW j \in Int, NEW connective \in {"and", "or", "xor"}
             PROVE  OnBits(connective, w, i, j) \in Words(w)
  OBVIOUS
<1> DEFINE n == BitWidth[w]
           p == BitsOf(w, i)
           q == BitsOf(w, j)
           bits == Connect(connective, p, q)
<1>1. n \in Nat /\ Words(w) = 0..(PowerOf2[n] - 1)
  BY WordsHaveBits
<1>2. \A l \in Int : BitsOf(w, l) \in [0..(n - 1) -> {0, 1}]
  <2> SUFFICES ASSUME NEW l \in Int, NEW k \in 0..(n - 1)
               PROVE  (l \div PowerOf2[k]) % 2 \in {0, 1}
    BY DEF BitsOf
  <2>1. PowerOf2[k] \in Nat \ {0}
    BY <1>1, PowerOf2Is
  <2>2. l \div PowerOf2[k] \in Int
    BY <2>1, DivMod
  <2> QED
    BY <2>2
<1>3. p \in [0..(n - 1) -> {0, 1}] /\ q \in [0..(n - 1) -> {0, 1}]
  BY <1>2
<1> HIDE DEF p, q, n
<1>4. bits \in [0..(n - 1) -> {0, 1}]
  <2>1. CASE connective = "and"
    BY <1>3, <2>1 DEF Connect
  <2>2. CASE connective = "or"
    BY <1>3, <2>2 DEF Connect
  <2>3. CASE connective = "xor"
    BY <1>3, <2>3 DEF Connect
  <2> QED
    BY <2>1, <2>2, <2>3
<1> HIDE DEF bits
<1>5. PICK word \in Words(w) : \A k \in 0..(n - 1) : (word \div PowerOf2[k]) % 2 = bits[k]
  BY <1>1, <1>4, NumberOfBits
<1>6. BitsOf(w, word) = bits
  BY <1>4, <1>5 DEF BitsOf, n
<1>7. WordOf(w, bits) \in Words(w)
  BY <1>6 DEF WordOf
<1> QED
  BY <1>7 DEF OnBits, bits, p, q

\* What a bit operator gives for values is what it gives for their words.
LEMMA OnBitsOfValues ==
  \A w \in Widths : \A t \in IntegerOf(w), a, b \in Words(w), connective \in {"and", "or", "xor"} :
    OnBits(connective, w, Denotes(t, a), Denotes(t, b)) = OnBits(connective, w, a, b)
<1>1. \A w \in Widths : \A t \in IntegerOf(w), a \in Words(w) : BitsOf(w, Denotes(t, a)) = BitsOf(w, a)
  <2> SUFFICES ASSUME NEW w \in Widths, NEW t \in IntegerOf(w), NEW a \in Words(w)
               PROVE  BitsOf(w, Denotes(t, a)) = BitsOf(w, a)
    OBVIOUS
  <2>1. Denotes(t, a) \in Int /\ Denotes(t, a) % Modulus(w) = a
    BY DenotesWord
  <2> QED
    BY <2>1, BitsOfRest, Zenon
<1> QED
  BY <1>1 DEF OnBits

--------------------------------------------------------------------------------
(******************************** The theorems *****************************)

\* A literal that 64 bits hold has a type of its sign, keeps its value in it, and
\* there is no narrower type with that value: no limit is off by one.
THEOREM LiteralsExact ==
  ASSUME NEW signed \in BOOLEAN, NEW i \in Int, Fits(signed, 64, i)
  PROVE  LET t == LiteralType(BuiltinTypes, signed, i)
         IN  /\ t.width \in Widths /\ t = IF signed THEN SInt(t.width) ELSE UInt(t.width)
             /\ LiteralWord(t, i) \in Words(t.width)
             /\ Denotes(t, LiteralWord(t, i)) = i
             /\ \A w \in Widths :
                  w < t.width =>
                    \A n \in Words(w) : Denotes(IF signed THEN SInt(w) ELSE UInt(w), n) # i
<1> DEFINE T(w) == IF signed THEN SInt(w) ELSE UInt(w)
           t == LiteralType(BuiltinTypes, signed, i)
<1>1. /\ LookupType(BuiltinTypes, IF signed THEN "i8" ELSE "u8") = T(8)
      /\ LookupType(BuiltinTypes, IF signed THEN "i16" ELSE "u16") = T(16)
      /\ LookupType(BuiltinTypes, IF signed THEN "i32" ELSE "u32") = T(32)
      /\ LookupType(BuiltinTypes, IF signed THEN "i64" ELSE "u64") = T(64)
  BY DEF LookupType, BuiltinTypes
<1>2. PICK width \in Widths :
        /\ t = T(width) /\ Fits(signed, width, i)
        /\ \A w \in Widths : w < width => ~Fits(signed, w, i)
  <2>0. 8 \in Widths /\ 16 \in Widths /\ 32 \in Widths /\ 64 \in Widths
    BY DEF Widths
  <2>1. Fits(signed, 8, i) => Fits(signed, 16, i)
    BY <2>0, WordsAssumption DEF Fits, Modulus
  <2>2. CASE Fits(signed, 8, i)
    <3>1. t = T(8)
      BY <1>1, <2>1, <2>2 DEF LiteralType
    <3> QED
      BY <2>0, <2>2, <3>1 DEF Widths
  <2>3. CASE ~Fits(signed, 8, i) /\ Fits(signed, 16, i)
    <3>1. t = T(16)
      BY <1>1, <2>3 DEF LiteralType
    <3> QED
      BY <2>0, <2>3, <3>1 DEF Widths
  <2>4. CASE ~Fits(signed, 8, i) /\ ~Fits(signed, 16, i) /\ Fits(signed, 32, i)
    <3>1. t = T(32)
      BY <1>1, <2>4 DEF LiteralType
    <3> QED
      BY <2>0, <2>4, <3>1 DEF Widths
  <2>5. CASE ~Fits(signed, 8, i) /\ ~Fits(signed, 16, i) /\ ~Fits(signed, 32, i)
    <3>1. t = T(64)
      BY <1>1, <2>5 DEF LiteralType
    <3> QED
      BY <2>0, <2>5, <3>1 DEF Widths
  <2> QED
    BY <2>1, <2>2, <2>3, <2>4, <2>5
<1>3. t.width = width
  BY <1>2, TypesOf
<1>4. i % Modulus(width) \in Words(width) /\ Denotes(T(width), i % Modulus(width)) = i
  BY <1>2, FitsDenoted
<1>5. \A w \in Widths : w < width => \A n \in Words(w) : Denotes(T(w), n) # i
  BY <1>2, FitsDenoted
<1> QED
  BY <1>2, <1>3, <1>4, <1>5 DEF LiteralWord

\* The words of integer types are those of their width.
LEMMA WordsOfTypes ==
  \A w \in Widths : WordsOf(UInt(w)) = Words(w) /\ WordsOf(SInt(w)) = Words(w)
BY TypesOf DEF WordsOf, Bool, UInt, SInt

LEMMA WordItself == \A w \in Widths : \A n \in Words(w) : n % Modulus(w) = n
BY SignedWord, Sizes, ModSmall

\* A conversion that subtyping chooses between integers and bool gives a word of
\* the target, for the same value, or for whether it is zero.
THEOREM ConversionsKeepValues ==
  ASSUME NEW from \in IntegerTypes(Widths) \cup {Bool}, NEW to \in IntegerTypes(Widths) \cup {Bool},
         NEW n \in WordsOf(from), TrySubtype(from, to) # NoRule
  PROVE  LET c == ConvertWord(TrySubtype(from, to), LlvmWidth(from), to, n)
         IN  /\ c \in WordsOf(to)
             /\ Denotes(to, c) = ConvertedValue(to, Denotes(from, n))
<1> DEFINE rule == TrySubtype(from, to)
           c == ConvertWord(rule, LlvmWidth(from), to, n)
<1>1. rule \in SubtypingRule /\ Allows(rule, from, to)
  BY TrySubtypeAllowed
<1>2. /\ WordsOf(Bool) = {0, 1} /\ \A i : Denotes(Bool, i) = i
      /\ Bool.tag = "boolean"
  BY DEF WordsOf, Denotes, Bool
<1>3. \A t \in IntegerTypes(Widths) :
        /\ t.width \in Widths /\ t \in IntegerOf(t.width) /\ t.tag \in {"uint", "sint"} /\ t # Bool
        /\ WordsOf(t) = Words(t.width)
        /\ t.tag = "uint" => t = UInt(t.width)
        /\ t.tag = "sint" => t = SInt(t.width)
  BY TypesOf, WordsOfTypes, <1>2 DEF IntegerTypes, IntegerOf
<1> HIDE DEF rule
<1>4. CASE rule = "identity"
  <2>1. to = from /\ c = n
    BY <1>1, <1>4 DEF Allows, ConvertWord
  <2>2. CASE from = Bool
    BY <2>1, <2>2, <1>2 DEF ConvertedValue, rule
  <2>3. CASE from # Bool
    BY <2>1, <2>3 DEF ConvertedValue, rule
  <2> QED
    BY <2>2, <2>3
<1>5. CASE rule = "uint_promotion"
  <2>1. /\ from \in IntegerTypes(Widths) /\ to \in IntegerTypes(Widths)
        /\ from.tag = "uint" /\ to.tag = "uint" /\ from.width < to.width
        /\ c = n % Modulus(to.width)
    BY <1>1, <1>2, <1>5 DEF Allows, ConvertWord
  <2>2. n \in Words(from.width) /\ Modulus(from.width) <= Half[to.width] /\ Half[to.width] < Modulus(to.width)
    BY <1>3, <2>1, Sizes
  <2>3. n \in Words(to.width)
    BY <1>3, <2>1, <2>2, Sizes DEF Words
  <2>4. c = n
    BY <1>3, <2>1, <2>3, WordItself
  <2>5. Denotes(to, c) = n /\ Denotes(from, n) = n /\ to # Bool
    BY <2>1, <2>4, <1>3 DEF Denotes
  <2> QED
    BY <1>3, <2>1, <2>3, <2>4, <2>5 DEF ConvertedValue, rule
<1>6. CASE rule = "bool_int_prom"
  <2>1. to \in IntegerTypes(Widths) /\ from = Bool /\ c = n % Modulus(to.width) /\ n \in {0, 1}
    BY <1>1, <1>2, <1>6 DEF Allows, ConvertWord
  <2>2. Half[to.width] \in Nat \ {0, 1} /\ Modulus(to.width) = 2 * Half[to.width]
    BY <1>3, <2>1, Sizes
  <2>3. n \in Words(to.width) /\ AsSigned(to.width, n) = n
    BY <2>1, <2>2 DEF Words, AsSigned
  <2>4. c = n
    BY <1>3, <2>1, <2>3, WordItself
  <2>5. Denotes(to, c) = n /\ Denotes(from, n) = n /\ to # Bool
    BY <1>2, <1>3, <2>1, <2>3, <2>4 DEF Denotes
  <2> QED
    BY <1>3, <2>1, <2>3, <2>4, <2>5 DEF ConvertedValue, rule
<1>7. CASE rule = "sint_promotion"
  <2>1. /\ from \in IntegerTypes(Widths) /\ to \in IntegerTypes(Widths)
        /\ from.tag = "sint" /\ to.tag = "sint" /\ from.width < to.width
    BY <1>1, <1>2, <1>7 DEF Allows
  <2> DEFINE i == AsSigned(from.width, n)
  <2>2. n \in Words(from.width) /\ i \in Int /\ -Half[from.width] <= i /\ i < Half[from.width]
    BY <1>3, <2>1, SignedWord
  <2>3. /\ Half[from.width] \in Nat /\ Half[to.width] \in Nat
        /\ Half[from.width] < Modulus(from.width) /\ Modulus(from.width) <= Half[to.width]
        /\ Modulus(from.width) \in Nat
    BY <1>3, <2>1, Sizes
  <2>4. Fits(TRUE, to.width, i)
    BY <2>2, <2>3 DEF Fits
  <2>5. c = i % Modulus(to.width)
    BY <1>3, <1>7, <2>1 DEF ConvertWord, LlvmWidth
  <2>6. c \in Words(to.width) /\ Denotes(to, c) = i
    BY <1>3, <2>1, <2>2, <2>4, <2>5, FitsDenoted, Zenon
  <2>7. Denotes(from, n) = i /\ to # Bool
    BY <1>3, <2>1 DEF Denotes
  <2> QED
    BY <1>3, <2>1, <2>6, <2>7 DEF ConvertedValue, rule
<1>8. CASE rule = "numeric_to_bool"
  <2>1. from \in IntegerTypes(Widths) /\ to = Bool /\ c = IF n = 0 THEN 0 ELSE 1
    BY <1>1, <1>8 DEF Allows, ConvertWord
  <2>2. n \in Words(from.width)
    BY <1>3, <2>1
  <2>3. Denotes(from, n) = 0 <=> n = 0
    <3>1. /\ n \in Int /\ 0 <= n /\ n < Modulus(from.width) /\ Half[from.width] \in Nat \ {0, 1}
          /\ Modulus(from.width) \in Nat
      BY <1>3, <2>1, <2>2, SignedWord, Sizes
    <3>2. AsSigned(from.width, n) = 0 <=> n = 0
      BY <3>1 DEF AsSigned
    <3> QED
      BY <3>2 DEF Denotes
  <2> QED
    BY <1>2, <2>1, <2>3 DEF ConvertedValue, rule
<1>9. ~(rule \in {"uint_to_single", "uint_to_double", "sint_to_single", "sint_to_double",
                  "single_to_double", "bool_fp_prom"})
  <2>1. to.tag \in {"uint", "sint", "boolean"} /\ SingleFp.tag = "single_fp" /\ DoubleFp.tag = "double_fp"
    BY <1>2, <1>3 DEF SingleFp, DoubleFp
  <2> QED
    BY <1>1, <2>1 DEF Allows
<1> QED
  BY <1>1, <1>4, <1>5, <1>6, <1>7, <1>8, <1>9 DEF SubtypingRule

\* Operands of one integer type are compared by their values, whatever the type.
THEOREM ComparisonsSound ==
  ASSUME NEW w \in Widths, NEW t \in IntegerOf(w), NEW a \in Words(w), NEW b \in Words(w),
         NEW op \in {"lsr", "leq", "geq", "grt", "eq", "neq"}
  PROVE  Predicate(op, t, w, a, b) = Compares(op, Denotes(t, a), Denotes(t, b))
<1>1. t.width = w
  BY TypesOf DEF IntegerOf
<1>2. \A n : Denotes(t, n) = IF t.tag = "sint" THEN AsSigned(w, n) ELSE n
  BY <1>1 DEF Denotes
<1>3. Denotes(t, a) = Denotes(t, b) <=> a = b
  BY DenotesWord, Zenon
<1>4. b % Modulus(w) = b
  BY SignedWord, Sizes, ModSmall
<1> QED
  BY <1>1, <1>2, <1>3, <1>4 DEF Predicate, Compares

\* Congruent operands have congruent results.
LEMMA RestOfOperands ==
  \A m \in Nat \ {0} : \A a, b, x, y \in Int :
    x % m = a % m /\ y % m = b % m =>
      /\ (x + y) % m = (a + b) % m
      /\ (x - y) % m = (a - b) % m
      /\ (x * y) % m = (a * b) % m
<1> TAKE m \in Nat \ {0}
<1> TAKE a, b, x, y \in Int
<1> HAVE x % m = a % m /\ y % m = b % m
<1>1. PICK j \in Int, k \in Int : x = a - m * j /\ y = b - m * k
  <2>1. \A u, v \in Int : u % m = v % m => \E j \in Int : u = v - m * j
    <3> SUFFICES ASSUME NEW u \in Int, NEW v \in Int, u % m = v % m
                 PROVE  \E j \in Int : u = v - m * j
      BY Zenon
    <3> DEFINE p == u \div m
               q == v \div m
               r == u % m
    <3>1. p \in Int /\ q \in Int /\ r \in Int /\ u = m * p + r /\ v = m * q + r
      BY DivMod
    <3> HIDE DEF p, q, r
    <3>2. m * (q - p) = m * q - m * p /\ q - p \in Int
      BY <3>1
    <3>3. u = v - m * (q - p)
      BY <3>1, <3>2
    <3> QED
      BY <3>2, <3>3
  <2>2. \E j \in Int : x = a - m * j
    BY <2>1, Zenon
  <2>3. \E k \in Int : y = b - m * k
    BY <2>1, Zenon
  <2> QED
    BY <2>2, <2>3, Zenon
<1>2. /\ (a - m * j) + (b - m * k) = (a + b) - m * (j + k)
      /\ (a - m * j) - (b - m * k) = (a - b) - m * (j - k)
  OBVIOUS
<1>3. (a - m * j) * (b - m * k) = (a * b) - m * ((a * k + b * j) - m * (j * k))
  OBVIOUS
<1>4. /\ a + b \in Int /\ a - b \in Int /\ a * b \in Int /\ j + k \in Int /\ j - k \in Int
      /\ (a * k + b * j) - m * (j * k) \in Int
  OBVIOUS
<1>5. /\ ((a + b) - m * (j + k)) % m = (a + b) % m
      /\ ((a - b) - m * (j - k)) % m = (a - b) % m
      /\ ((a * b) - m * ((a * k + b * j) - m * (j * k))) % m = (a * b) % m
  BY <1>4, RestOfSums, Zenon
<1> QED
  BY <1>1, <1>2, <1>3, <1>5

\* The arithmetic of words is the one of the values they stand for in the type
\* inference gives the operation, wrapped into that type: operands of either sign,
\* and no result that is undefined for the words and not for the values, unless an
\* unsigned division or remainder has an operand with the highest bit set.
THEOREM ArithmeticSound ==
  ASSUME NEW w \in Widths, NEW l \in IntegerOf(w), NEW r \in IntegerOf(w), NEW t \in IntegerOf(w),
         NEW a \in Words(w), NEW b \in Words(w),
         NEW op \in {"multiply", "divide", "modulo", "plus", "minus"}
  PROVE  LET x == Wrapped(t, Denotes(l, a))
             y == Wrapped(t, Denotes(r, b))
         IN  ~Meaningless(op, t, x, y) /\ ~SignBitRead(op, t, a, b) =>
               /\ ~NoResultDefined(Instruction[op], w, w, a, b)
               /\ Denotes(t, Execute(Instruction[op], w, w, a, b)) = Wrapped(t, Exact(op, t, x, y))
<1> DEFINE x == Denotes(t, a)
           y == Denotes(t, b)
<1>1. Wrapped(t, Denotes(l, a)) = x /\ Wrapped(t, Denotes(r, b)) = y
  BY WrappedDenotes
<1> SUFFICES ASSUME ~Meaningless(op, t, x, y), ~SignBitRead(op, t, a, b)
             PROVE  /\ ~NoResultDefined(Instruction[op], w, w, a, b)
                    /\ Denotes(t, Execute(Instruction[op], w, w, a, b)) = Wrapped(t, Exact(op, t, x, y))
  BY <1>1, Zenon
<1>2. /\ t.width = w /\ t.tag \in {"uint", "sint"}
      /\ x = IF t.tag = "sint" THEN AsSigned(w, a) ELSE a
      /\ y = IF t.tag = "sint" THEN AsSigned(w, b) ELSE b
  BY TypesOf DEF IntegerOf, Denotes
<1>3. x % Modulus(w) = a /\ y % Modulus(w) = b
  BY DenotesWord, Zenon
<1>4. /\ a \in Int /\ 0 <= a /\ a < Modulus(w) /\ b \in Int /\ 0 <= b /\ b < Modulus(w)
      /\ x \in Int /\ y \in Int /\ AsSigned(w, a) \in Int /\ AsSigned(w, b) \in Int
      /\ Half[w] \in Nat \ {0, 1} /\ Modulus(w) \in Nat \ {0} /\ Modulus(w) = 2 * Half[w]
  BY SignedWord, DenotesWord, Sizes
<1>5. /\ Instruction["multiply"] = "mul" /\ Instruction["plus"] = "add" /\ Instruction["minus"] = "sub"
      /\ Instruction["divide"] = "sdiv" /\ Instruction["modulo"] = "srem"
  BY DEF Instruction
<1> HIDE DEF x, y
<1>6. /\ (x + y) % Modulus(w) = (a + b) % Modulus(w)
      /\ (x - y) % Modulus(w) = (a - b) % Modulus(w)
      /\ (x * y) % Modulus(w) = (a * b) % Modulus(w)
  <2>1. Modulus(w) \in Nat \ {0}
    BY <1>4
  <2>2. a % Modulus(w) = a /\ b % Modulus(w) = b
    BY <1>4, ModSmall
  <2>3. \A c, d, u, v \in Int :
          u % Modulus(w) = c % Modulus(w) /\ v % Modulus(w) = d % Modulus(w) =>
            /\ (u + v) % Modulus(w) = (c + d) % Modulus(w)
            /\ (u - v) % Modulus(w) = (c - d) % Modulus(w)
            /\ (u * v) % Modulus(w) = (c * d) % Modulus(w)
    BY <2>1, RestOfOperands, Zenon
  <2>4. /\ x % Modulus(w) = a % Modulus(w) /\ y % Modulus(w) = b % Modulus(w)
        /\ a \in Int /\ b \in Int /\ x \in Int /\ y \in Int
    BY <1>3, <1>4, <2>2, Zenon
  <2>5. \A u, v \in Int :
          u % Modulus(w) = a % Modulus(w) /\ v % Modulus(w) = b % Modulus(w) =>
            /\ (u + v) % Modulus(w) = (a + b) % Modulus(w)
            /\ (u - v) % Modulus(w) = (a - b) % Modulus(w)
            /\ (u * v) % Modulus(w) = (a * b) % Modulus(w)
    BY <2>3, <2>4, Zenon
  <2> QED
    BY <2>4, <2>5, Zenon
<1>7. \A i : Wrapped(t, i) = Denotes(t, i % Modulus(w))
  BY <1>2 DEF Wrapped
<1>8. CASE op \in {"multiply", "plus", "minus"}
  <2>1. ~NoResultDefined(Instruction[op], w, w, a, b)
    BY <1>5, <1>8 DEF NoResultDefined
  <2>2. CASE op = "multiply"
    <3>1. Execute("mul", w, w, a, b) = (a * b) % Modulus(w) /\ Exact(op, t, x, y) = x * y
      BY <2>2 DEF Execute, Exact
    <3> QED
      BY <1>5, <1>6, <1>7, <2>1, <2>2, <3>1, Zenon
  <2>3. CASE op = "plus"
    <3>1. Execute("add", w, w, a, b) = (a + b) % Modulus(w) /\ Exact(op, t, x, y) = x + y
      BY <2>3 DEF Execute, Exact
    <3> QED
      BY <1>5, <1>6, <1>7, <2>1, <2>3, <3>1, Zenon
  <2>4. CASE op = "minus"
    <3>1. Execute("sub", w, w, a, b) = (a - b) % Modulus(w) /\ Exact(op, t, x, y) = x - y
      BY <2>4 DEF Execute, Exact
    <3> QED
      BY <1>5, <1>6, <1>7, <2>1, <2>4, <3>1, Zenon
  <2> QED
    BY <1>8, <2>2, <2>3, <2>4
<1>9. CASE op \in {"divide", "modulo"}
  <2>1. AsSigned(w, a) = x /\ AsSigned(w, b) = y
    BY <1>2, <1>4, <1>9 DEF SignBitRead, AsSigned
  <2>2. ~NoResultDefined(Instruction[op], w, w, a, b)
    <3>1. b # 0
      <4>1. y # 0
        BY <1>9 DEF Meaningless
      <4>2. AsSigned(w, 0) = 0
        BY <1>4 DEF AsSigned
      <4> QED
        BY <2>1, <4>1, <4>2
    <3>2. ~(a = Half[w] /\ b = Modulus(w) - 1)
      <4> SUFFICES ASSUME a = Half[w], b = Modulus(w) - 1 PROVE FALSE
        OBVIOUS
      <4>1. AsSigned(w, a) = -Half[w] /\ AsSigned(w, b) = -1
        BY <1>4 DEF AsSigned
      <4>2. t.tag = "sint"
        BY <1>2, <1>4, <1>9 DEF SignBitRead
      <4> QED
        BY <1>2, <1>9, <2>1, <4>1, <4>2 DEF Meaningless
    <3> QED
      BY <1>5, <1>9, <3>1, <3>2 DEF NoResultDefined
  <2>3. CASE op = "divide"
    <3>1. Execute("sdiv", w, w, a, b) = Quotient(x, y) % Modulus(w) /\ Exact(op, t, x, y) = Quotient(x, y)
      BY <2>1, <2>3 DEF Execute, Exact
    <3> QED
      BY <1>5, <1>7, <2>2, <2>3, <3>1, Zenon
  <2>4. CASE op = "modulo"
    <3>1. Execute("srem", w, w, a, b) = Remainder(x, y) % Modulus(w) /\ Exact(op, t, x, y) = Remainder(x, y)
      BY <2>1, <2>4 DEF Execute, Exact
    <3> QED
      BY <1>5, <1>7, <2>2, <2>4, <3>1, Zenon
  <2> QED
    BY <1>9, <2>3, <2>4
<1> QED
  BY <1>8, <1>9

\* The bit operators on words are the ones on the values they stand for.
THEOREM BitOperatorsSound ==
  ASSUME NEW w \in Widths, NEW l \in IntegerOf(w), NEW r \in IntegerOf(w), NEW t \in IntegerOf(w),
         NEW a \in Words(w), NEW b \in Words(w), NEW op \in {"bitand_", "bitxor_", "bitor_"}
  PROVE  LET x == Wrapped(t, Denotes(l, a))
             y == Wrapped(t, Denotes(r, b))
         IN  /\ ~NoResultDefined(Instruction[op], w, w, a, b)
             /\ Denotes(t, Execute(Instruction[op], w, w, a, b)) = Wrapped(t, Exact(op, t, x, y))
<1> DEFINE x == Denotes(t, a)
           y == Denotes(t, b)
<1>1. Wrapped(t, Denotes(l, a)) = x /\ Wrapped(t, Denotes(r, b)) = y /\ t.width = w
  BY WrappedDenotes, TypesOf DEF IntegerOf
<1>2. \A n \in Words(w) : Wrapped(t, n) = Denotes(t, n)
  <2> SUFFICES ASSUME NEW n \in Words(w) PROVE n % Modulus(w) = n
    BY <1>1 DEF Wrapped
  <2>1. n \in Int /\ 0 <= n /\ n < Modulus(w) /\ Modulus(w) \in Nat \ {0}
    BY SignedWord, Sizes
  <2> QED
    BY <2>1, ModSmall
<1>3. a \in Int /\ b \in Int
  BY SignedWord
<1>4. PICK connective \in {"and", "or", "xor"} :
        /\ Instruction[op] = connective /\ Execute(connective, w, w, a, b) = OnBits(connective, w, a, b)
        /\ Exact(op, t, x, y) = OnBits(connective, w, x, y)
        /\ ~NoResultDefined(connective, w, w, a, b)
  <2> HIDE DEF x, y
  <2>1. CASE op = "bitand_"
    BY <1>1, <2>1 DEF Instruction, Execute, Exact, NoResultDefined
  <2>2. CASE op = "bitxor_"
    BY <1>1, <2>2 DEF Instruction, Execute, Exact, NoResultDefined
  <2>3. CASE op = "bitor_"
    BY <1>1, <2>3 DEF Instruction, Execute, Exact, NoResultDefined
  <2> QED
    BY <2>1, <2>2, <2>3
<1>5. OnBits(connective, w, x, y) = OnBits(connective, w, a, b) /\ OnBits(connective, w, a, b) \in Words(w)
  BY <1>3, OnBitsOfValues, OnBitsIsWord
<1> QED
  BY <1>1, <1>2, <1>4, <1>5, Zenon

\* A shift by less than the width shifts the value, unless it goes to the right and
\* reads a sign bit that is none.
THEOREM ShiftsSound ==
  ASSUME NEW w \in Widths, NEW t \in IntegerOf(w), NEW a \in Words(w), NEW b \in Words(w),
         NEW op \in {"bitshift_right_", "bitshift_left_"}
  PROVE  LET x == Wrapped(t, Denotes(t, a))
         IN  ~Meaningless(op, t, x, b) /\ ~SignBitRead(op, t, a, b) =>
               /\ ~NoResultDefined(Instruction[op], w, w, a, b)
               /\ Denotes(t, Execute(Instruction[op], w, w, a, b)) = Wrapped(t, Exact(op, t, x, b))
<1> DEFINE x == Denotes(t, a)
<1>1. Wrapped(t, Denotes(t, a)) = x
  BY WrappedDenotes
<1> SUFFICES ASSUME ~Meaningless(op, t, x, b), ~SignBitRead(op, t, a, b)
             PROVE  /\ ~NoResultDefined(Instruction[op], w, w, a, b)
                    /\ Denotes(t, Execute(Instruction[op], w, w, a, b)) = Wrapped(t, Exact(op, t, x, b))
  BY <1>1, Zenon
<1>2. /\ t.width = w /\ t.tag \in {"uint", "sint"}
      /\ x = IF t.tag = "sint" THEN AsSigned(w, a) ELSE a
  BY TypesOf DEF IntegerOf, Denotes
<1>3. /\ x % Modulus(w) = a /\ x \in Int /\ a \in Int /\ b \in Nat
      /\ Half[w] \in Nat \ {0, 1} /\ Modulus(w) \in Nat \ {0}
  <2>1. Half[w] \in Nat \ {0, 1} /\ Modulus(w) \in Nat \ {0}
    BY Sizes
  <2>2. a \in Int /\ b \in Nat
    BY <2>1 DEF Words
  <2>3. x \in Int /\ x % Modulus(w) = a
    BY DenotesWord
  <2> QED
    BY <2>1, <2>2, <2>3
<1>4. PowerOf2[b] \in Nat \ {0}
  BY <1>3, PowerOf2Is
<1>5. \A i : Wrapped(t, i) = Denotes(t, i % Modulus(w))
  BY <1>2 DEF Wrapped
<1>6. Instruction["bitshift_right_"] = "ashr" /\ Instruction["bitshift_left_"] = "shl"
  BY DEF Instruction
<1> HIDE DEF x
<1>7. ~NoResultDefined(Instruction[op], w, w, a, b)
  BY <1>2, <1>6 DEF Meaningless, NoResultDefined
<1>8. CASE op = "bitshift_right_"
  <2>1. AsSigned(w, a) = x
    BY <1>2, <1>3, <1>8 DEF SignBitRead, AsSigned
  <2>2. /\ Execute("ashr", w, w, a, b) = (x \div PowerOf2[b]) % Modulus(w)
        /\ Exact("bitshift_right_", t, x, b) = x \div PowerOf2[b]
    BY <2>1 DEF Execute, Exact
  <2> QED
    BY <1>5, <1>6, <1>7, <1>8, <2>2, Zenon
<1>9. CASE op = "bitshift_left_"
  <2>1. /\ Execute("shl", w, w, a, b) = (a * PowerOf2[b]) % Modulus(w)
        /\ Exact("bitshift_left_", t, x, b) = x * PowerOf2[b]
    BY DEF Execute, Exact
  <2>2. (x * PowerOf2[b]) % Modulus(w) = (a * PowerOf2[b]) % Modulus(w)
    <3> DEFINE m == Modulus(w)
               d == PowerOf2[b]
    <3>1. m \in Nat \ {0} /\ d \in Int /\ a \in Int
      BY <1>3, <1>4
    <3>2. x = a \/ x = a - m
      BY <1>2, <1>3 DEF AsSigned
    <3> HIDE DEF m, d
    <3>3. (a * d - m * d) % m = (a * d) % m
      <4>1. a * d \in Int
        BY <3>1
      <4> QED
        BY <3>1, <4>1, RestOfSums, Zenon
    <3>4. (a - m) * d = a * d - m * d
      BY <3>1
    <3>5. (x * d) % m = (a * d) % m
      BY <3>2, <3>3, <3>4, Zenon
    <3> QED
      BY <3>5 DEF m, d
  <2> QED
    BY <1>5, <1>6, <1>7, <1>9, <2>1, <2>2, Zenon
<1> QED
  BY <1>8, <1>9

\* The division towards zero, and its remainder, of integers are integers.
LEMMA QuotientIsInteger ==
  \A i \in Int, j \in Int \ {0} : Quotient(i, j) \in Int /\ Remainder(i, j) \in Int
<1> SUFFICES ASSUME NEW i \in Int, NEW j \in Int \ {0}
             PROVE  Quotient(i, j) \in Int /\ Remainder(i, j) \in Int
  OBVIOUS
<1>1. Absolute(i) \in Int /\ Absolute(j) \in Nat \ {0}
  BY DEF Absolute
<1>2. Absolute(i) \div Absolute(j) \in Int
  BY <1>1, DivMod
<1>3. Quotient(i, j) \in Int
  BY <1>2 DEF Quotient
<1> QED
  BY <1>3 DEF Remainder

LEMMA RestIsWord == \A w \in Widths, i \in Int : i % Modulus(w) \in Words(w)
<1> SUFFICES ASSUME NEW w \in Widths, NEW i \in Int PROVE i % Modulus(w) \in Words(w)
  OBVIOUS
<1>1. Modulus(w) \in Nat \ {0}
  BY Sizes
<1>2. i % Modulus(w) \in Int /\ 0 <= i % Modulus(w) /\ i % Modulus(w) < Modulus(w)
  BY <1>1, DivMod
<1> QED
  BY <1>1, <1>2 DEF Words

IntegerInstructions == {"mul", "add", "sub", "sdiv", "srem", "ashr", "shl", "and", "or", "xor"}

\* An instruction that has a defined result gives a word.
LEMMA ExecuteGivesWord ==
  ASSUME NEW w \in Widths, NEW v \in Widths, NEW a \in Words(w), NEW b \in Words(v),
         NEW instruction \in IntegerInstructions, ~NoResultDefined(instruction, w, v, a, b)
  PROVE  Execute(instruction, w, v, a, b) \in Words(w)
<1>1. /\ a \in Int /\ b \in Nat /\ AsSigned(w, a) \in Int /\ AsSigned(v, b) \in Int
  BY SignedWord DEF Words
<1>2. PowerOf2[b] \in Nat \ {0}
  BY <1>1, PowerOf2Is
<1>3. CASE instruction \in {"mul", "add", "sub"}
  <2>1. a * b \in Int /\ a + b \in Int /\ a - b \in Int
    BY <1>1
  <2>2. /\ (a * b) % Modulus(w) \in Words(w) /\ (a + b) % Modulus(w) \in Words(w)
        /\ (a - b) % Modulus(w) \in Words(w)
    BY <2>1, RestIsWord
  <2> QED
    BY <1>3, <2>2 DEF Execute
<1>4. CASE instruction \in {"sdiv", "srem"}
  <2>1. b # 0
    BY <1>4 DEF NoResultDefined
  <2>2. AsSigned(v, b) # 0
    BY <1>1, <2>1, Sizes DEF AsSigned, Words
  <2>3. /\ Quotient(AsSigned(w, a), AsSigned(v, b)) \in Int
        /\ Remainder(AsSigned(w, a), AsSigned(v, b)) \in Int
    BY <1>1, <2>2, QuotientIsInteger
  <2>4. /\ Quotient(AsSigned(w, a), AsSigned(v, b)) % Modulus(w) \in Words(w)
        /\ Remainder(AsSigned(w, a), AsSigned(v, b)) % Modulus(w) \in Words(w)
    BY <2>3, RestIsWord
  <2> QED
    BY <1>4, <2>4 DEF Execute
<1>5. CASE instruction = "ashr"
  <2>1. AsSigned(w, a) \div PowerOf2[b] \in Int
    BY <1>1, <1>2, DivMod
  <2>2. (AsSigned(w, a) \div PowerOf2[b]) % Modulus(w) \in Words(w)
    BY <2>1, RestIsWord
  <2> QED
    BY <1>5, <2>2 DEF Execute
<1>6. CASE instruction = "shl"
  <2>1. a * PowerOf2[b] \in Int
    BY <1>1, <1>2
  <2>2. (a * PowerOf2[b]) % Modulus(w) \in Words(w)
    BY <2>1, RestIsWord
  <2> QED
    BY <1>6, <2>2 DEF Execute
<1>7. CASE instruction \in {"and", "or", "xor"}
  <2>1. OnBits(instruction, w, a, b) \in Words(w)
    BY <1>1, <1>7, OnBitsIsWord
  <2> QED
    BY <1>7, <2>1 DEF Execute
<1> QED
  BY <1>3, <1>4, <1>5, <1>6, <1>7 DEF IntegerInstructions

\* Constants are folded to words; those of one width as the instruction would.
LEMMA FoldsAreWords ==
  ASSUME NEW w \in Widths, NEW v \in Widths, NEW a \in Words(w), NEW b \in Words(v),
         NEW instruction \in IntegerInstructions, ~NoResultDefined(instruction, w, v, a, b),
         NEW folded \in Folds(instruction, w, v, a, b)
  PROVE  /\ folded.width \in Widths /\ folded.word \in Words(folded.width)
         /\ w = v => folded.width = w /\ folded.word = Execute(instruction, w, w, a, b)
<1>1. \A u, n : Folded(u, n).width = u /\ Folded(u, n).word = n
  BY Zenon DEF Folded
<1>2. \A u \in Widths : \A n \in Words(u) :
        Folded(u, n).width \in Widths /\ Folded(u, n).word \in Words(Folded(u, n).width)
  BY <1>1
<1>3. Execute(instruction, w, v, a, b) \in Words(w)
  BY ExecuteGivesWord
<1>4. CASE w # v /\ folded = Folded(v, b)
  BY <1>2, <1>4
<1>5. CASE w # v /\ folded = Folded(v, 0)
  <2>1. 0 \in Words(v)
    BY Sizes DEF Words
  <2> QED
    BY <1>2, <1>5, <2>1
<1>6. CASE w # v /\ folded = Folded(w, a)
  BY <1>2, <1>6
<1>7. CASE folded = Folded(w, Execute(instruction, w, v, a, b))
  BY <1>1, <1>2, <1>3, <1>7
<1>8. CASE w < v /\ instruction \in {"or", "xor"} /\ folded = Folded(v, OnBits(instruction, v, a, b))
  <2>1. OnBits(instruction, v, a, b) \in Words(v)
    BY <1>8, SignedWord, OnBitsIsWord
  <2>2. w # v
    BY <1>8 DEF Widths
  <2> QED
    BY <1>2, <1>8, <2>1, <2>2
<1>9. \/ w # v /\ folded = Folded(v, b)
      \/ w # v /\ folded = Folded(v, 0)
      \/ w # v /\ folded = Folded(w, a)
      \/ folded = Folded(w, Execute(instruction, w, v, a, b))
      \/ w < v /\ instruction \in {"or", "xor"} /\ folded = Folded(v, OnBits(instruction, v, a, b))
  <2> HIDE DEF Folded
  <2> DEFINE decided == w # v /\ RightIsResult(instruction, w, v, a, b)
             least == w # v /\ instruction = "srem" /\ b = 1
             whole == w # v /\ instruction = "and" /\ a # Modulus(w) - 1 /\ b = Modulus(v) - 1
  <2>1. CASE decided
    <3>1. ~least /\ ~whole
      <4>1. Modulus(v) - 1 # 0
        BY Sizes
      <4> QED
        BY <2>1, <4>1 DEF RightIsResult
    <3> QED
      BY <2>1, <3>1 DEF Folds
  <2>2. CASE ~decided /\ least
    BY <2>2 DEF Folds
  <2>3. CASE ~decided /\ whole
    BY <2>3 DEF Folds
  <2>4. CASE ~decided /\ ~least /\ ~whole
    <3>1. folded \in {Folded(w, Execute(instruction, w, v, a, b))}
                     \cup IF w < v /\ instruction \in {"or", "xor"}
                          THEN {Folded(v, OnBits(instruction, v, a, b))} ELSE {}
      BY <2>4 DEF Folds
    <3> QED
      BY <3>1
  <2> QED
    BY <2>1, <2>2, <2>3, <2>4
<1> QED
  BY <1>4, <1>5, <1>6, <1>7, <1>8, <1>9

\* A conversion gives a word of the width it has in LLVM, whatever width the word
\* converted has: the identity leaves it alone.
LEMMA ConversionsGiveWords ==
  ASSUME NEW from \in IntegerTypes(Widths) \cup {Bool}, NEW to \in IntegerTypes(Widths) \cup {Bool},
         NEW w \in Widths \cup {1}, w = 1 <=> from = Bool, NEW n \in WordsAt(w),
         TrySubtype(from, to) # NoRule
  PROVE  LET rule == TrySubtype(from, to)
             u == IF rule = "identity" THEN w ELSE LlvmWidth(to)
         IN  /\ u \in Widths \cup {1} /\ (u = 1 <=> to = Bool)
             /\ ConvertWord(rule, w, to, n) \in WordsAt(u)
<1> DEFINE rule == TrySubtype(from, to)
           u == IF rule = "identity" THEN w ELSE LlvmWidth(to)
           c == ConvertWord(rule, w, to, n)
<1>1. rule \in SubtypingRule /\ Allows(rule, from, to)
  BY TrySubtypeAllowed
<1>2. /\ Bool.tag = "boolean" /\ LlvmWidth(Bool) = 1 /\ WordsAt(1) = {0, 1} /\ 1 \notin Widths
      /\ \A v \in Widths : WordsAt(v) = Words(v)
  BY DEF Bool, LlvmWidth, WordsAt, Widths
<1>3. \A t \in IntegerTypes(Widths) :
        t.width \in Widths /\ t.tag \in {"uint", "sint"} /\ t # Bool /\ LlvmWidth(t) = t.width
  BY TypesOf, <1>2 DEF IntegerTypes, IntegerOf, LlvmWidth
<1>4. n \in Int
  BY <1>2, SignedWord
<1> HIDE DEF rule
<1>5. CASE rule = "identity"
  <2>1. to = from /\ c = n /\ u = w
    BY <1>1, <1>5 DEF Allows, ConvertWord
  <2> QED
    BY <2>1 DEF rule
<1>6. CASE rule \in {"uint_promotion", "bool_int_prom"}
  <2>1. to \in IntegerTypes(Widths) /\ c = n % Modulus(to.width) /\ u = LlvmWidth(to)
    BY <1>1, <1>2, <1>6 DEF Allows, ConvertWord
  <2>2. c \in Words(to.width)
    BY <1>3, <1>4, <2>1, RestIsWord
  <2> QED
    BY <1>2, <1>3, <2>1, <2>2 DEF rule
<1>7. CASE rule = "sint_promotion"
  <2>1. /\ to \in IntegerTypes(Widths) /\ from \in IntegerTypes(Widths)
        /\ c = AsSigned(w, n) % Modulus(to.width) /\ u = LlvmWidth(to)
    BY <1>1, <1>2, <1>7 DEF Allows, ConvertWord
  <2>2. w \in Widths /\ n \in Words(w)
    BY <1>2, <1>3, <2>1
  <2>3. AsSigned(w, n) \in Int
    BY <2>2, SignedWord
  <2>4. c \in Words(to.width)
    BY <1>3, <2>1, <2>3, RestIsWord
  <2> QED
    BY <1>2, <1>3, <2>1, <2>4 DEF rule
<1>8. CASE rule = "numeric_to_bool"
  <2>1. to = Bool /\ c = (IF n = 0 THEN 0 ELSE 1) /\ u = LlvmWidth(to)
    BY <1>1, <1>8 DEF Allows, ConvertWord
  <2> QED
    BY <1>2, <2>1 DEF rule
<1>9. ~(rule \in {"uint_to_single", "uint_to_double", "sint_to_single", "sint_to_double",
                  "single_to_double", "bool_fp_prom"})
  <2>1. to.tag \in {"uint", "sint", "boolean"} /\ SingleFp.tag = "single_fp" /\ DoubleFp.tag = "double_fp"
    BY <1>2, <1>3 DEF SingleFp, DoubleFp
  <2> QED
    BY <1>1, <2>1 DEF Allows
<1> QED
  BY <1>1, <1>5, <1>6, <1>7, <1>8, <1>9 DEF SubtypingRule

IntegerOperators == {"multiply", "divide", "modulo", "plus", "minus", "bitshift_right_",
                     "bitshift_left_", "bitand_", "bitxor_", "bitor_"}

\* What an operation means, where it means something, is an integer.
LEMMA ExactIsInteger ==
  ASSUME NEW w \in Widths, NEW t \in IntegerOf(w), NEW x \in Int, NEW y \in Int,
         NEW op \in IntegerOperators, ~Meaningless(op, t, x, y),
         op \in {"bitshift_right_", "bitshift_left_"} => y \in Nat
  PROVE  Exact(op, t, x, y) \in Int
<1>1. CASE op \in {"multiply", "plus", "minus"}
  BY <1>1 DEF Exact
<1>2. CASE op \in {"divide", "modulo"}
  <2>1. y # 0
    BY <1>2 DEF Meaningless
  <2>2. Quotient(x, y) \in Int /\ Remainder(x, y) \in Int
    BY <2>1, QuotientIsInteger
  <2> QED
    BY <1>2, <2>2 DEF Exact
<1>3. CASE op = "bitshift_right_"
  <2>1. PowerOf2[y] \in Nat \ {0}
    BY <1>3, PowerOf2Is
  <2>2. x \div PowerOf2[y] \in Int
    BY <2>1, DivMod
  <2> QED
    BY <1>3, <2>2 DEF Exact
<1>4. CASE op = "bitshift_left_"
  <2>1. PowerOf2[y] \in Nat \ {0}
    BY <1>4, PowerOf2Is
  <2>2. x * PowerOf2[y] \in Int
    BY <2>1
  <2> QED
    BY <1>4, <2>2 DEF Exact
<1>5. CASE op \in {"bitand_", "bitxor_", "bitor_"}
  <2>1. t.width = w
    BY TypesOf DEF IntegerOf
  <2>2. \A connective \in {"and", "or", "xor"} : OnBits(connective, w, x, y) \in Int
    BY OnBitsIsWord DEF Words
  <2> QED
    BY <1>5, <2>1, <2>2 DEF Exact
<1> QED
  BY <1>1, <1>2, <1>3, <1>4, <1>5 DEF IntegerOperators

\* A value wrapped into a type is one that a word of it stands for.
LEMMA WrappedIsValue ==
  ASSUME NEW w \in Widths, NEW t \in IntegerOf(w), NEW i \in Int
  PROVE  Wrapped(t, i) \in {Denotes(t, word) : word \in Words(w)}
<1>1. t.width = w
  BY TypesOf DEF IntegerOf
<1> QED
  BY <1>1, RestIsWord DEF Wrapped

LEMMA InstructionsAre == \A op \in IntegerOperators : Instruction[op] \in IntegerInstructions
BY DEF IntegerOperators, IntegerInstructions, Instruction

\* An operation that means nothing is an instruction without a defined result.
LEMMA MeaninglessIsUndefined ==
  ASSUME NEW w \in Widths, NEW t \in IntegerOf(w), NEW a \in Words(w), NEW b \in Words(w),
         NEW op \in IntegerOperators,
         Meaningless(op, t, Denotes(t, a),
                     IF op \in {"bitshift_right_", "bitshift_left_"} THEN b ELSE Denotes(t, b))
  PROVE  NoResultDefined(Instruction[op], w, w, a, b)
<1>1. t.width = w /\ \A n : Denotes(t, n) = IF t.tag = "sint" THEN AsSigned(w, n) ELSE n
  BY TypesOf DEF IntegerOf, Denotes
<1>2. /\ a \in Int /\ 0 <= a /\ a < Modulus(w) /\ b \in Int /\ 0 <= b /\ b < Modulus(w)
      /\ Half[w] \in Nat \ {0, 1} /\ Modulus(w) = 2 * Half[w]
  BY SignedWord, Sizes
<1>3. CASE op \in {"bitshift_right_", "bitshift_left_"}
  <2>1. b >= BitWidth[w] /\ Instruction[op] \in {"ashr", "shl"}
    BY <1>1, <1>3 DEF Meaningless, Instruction
  <2> QED
    BY <2>1 DEF NoResultDefined
<1>4. CASE op \notin {"bitshift_right_", "bitshift_left_"}
  <2>1. /\ op \in {"divide", "modulo"}
        /\ \/ Denotes(t, b) = 0
           \/ t.tag = "sint" /\ Denotes(t, a) = -Half[w] /\ Denotes(t, b) = -1
    BY <1>1, <1>4 DEF Meaningless
  <2>2. Instruction[op] \in {"sdiv", "srem"}
    BY <2>1 DEF Instruction
  <2>3. Denotes(t, b) = 0 => b = 0
    BY <1>1, <1>2 DEF AsSigned
  <2>4. t.tag = "sint" /\ Denotes(t, a) = -Half[w] => a = Half[w]
    BY <1>1, <1>2 DEF AsSigned
  <2>5. t.tag = "sint" /\ Denotes(t, b) = -1 => b = Modulus(w) - 1
    BY <1>1, <1>2 DEF AsSigned
  <2> QED
    BY <2>1, <2>2, <2>3, <2>4, <2>5 DEF NoResultDefined
<1> QED
  BY <1>3, <1>4
================================================================================
