------------------------ MODULE ExpressionGrammarProofs ------------------------
(***************************************************************************)
(* Proofs about the parser of expressions, for inputs of any length: one   *)
(* operator read ahead is enough to give the tree that the levels derive.  *)
(***************************************************************************)
EXTENDS ExpressionGrammar, SequenceTheorems, TLAPS

Operators == InfixOperators \cup PrefixOperators
Tokens == Operators \cup {"atom"}

NodeSet == [op : Tokens, args : Seq(Nat), from : Nat, to : Nat]
WaitingSet == [op : Operators, at : Nat, left : Nat]

(******************************** The levels *******************************)

\* Each operator is of one level, so that Level finds the one it stands in.
LEMMA LevelIs == \A i \in 1..12 : \A op \in Levels[i] : Level(op) = i
<1>1. DOMAIN Levels = 1..12
  BY DEF Levels
<1>2. \A i, j \in 1..12 : \A op \in Levels[i] : op \in Levels[j] => i = j
  BY DEF Levels, Comparisons
<1> SUFFICES ASSUME NEW i \in 1..12, NEW op \in Levels[i] PROVE Level(op) = i
  OBVIOUS
<1>3. \A j : j \in DOMAIN Levels /\ op \in Levels[j] <=> j = i
  BY <1>1, <1>2
<1> QED
  BY <1>3 DEF Level

LEMMA OperatorLevels ==
  /\ \A op \in Operators : Level(op) \in 1..12 /\ op \in Levels[Level(op)]
  /\ \A op \in InfixOperators : Level(op) # PrefixLevel
  /\ \A op \in PrefixOperators : Level(op) = PrefixLevel
  /\ "atom" \notin Operators /\ "end" \notin Operators /\ "none" \notin Operators
<1>1. DOMAIN Levels = 1..12 /\ PrefixLevel = 3
  BY DEF Levels, PrefixLevel
<1>2. \A op \in Operators : \E i \in 1..12 : op \in Levels[i]
  BY <1>1, GrammarAssumption DEF Operators
<1>3. \A op \in InfixOperators : \E i \in 1..12 : op \in Levels[i] /\ i # 3
  BY <1>1, GrammarAssumption
<1>4. \A i \in 1..12 : \A op \in Levels[i] : op # "atom" /\ op # "end" /\ op # "none"
  <2>1. \A i \in 1..12 : \A op \in Levels[i] : op # "atom"
    BY DEF Levels, Comparisons
  <2>2. \A i \in 1..12 : \A op \in Levels[i] : op # "end"
    BY DEF Levels, Comparisons
  <2>3. \A i \in 1..12 : \A op \in Levels[i] : op # "none"
    BY DEF Levels, Comparisons
  <2> QED
    BY <2>1, <2>2, <2>3
<1>5. \A op \in PrefixOperators : op \in Levels[3] /\ 3 \in 1..12
  BY <1>1, GrammarAssumption
<1>6. \A op \in Operators : Level(op) \in 1..12 /\ op \in Levels[Level(op)]
  BY <1>2, LevelIs
<1>7. \A op \in InfixOperators : Level(op) # PrefixLevel
  BY <1>1, <1>3, LevelIs
<1>8. \A op \in PrefixOperators : Level(op) = PrefixLevel
  BY <1>1, <1>5, LevelIs
<1>9. \A op \in Operators : op # "atom" /\ op # "end" /\ op # "none"
  BY <1>2, <1>4
<1> QED
  BY <1>6, <1>7, <1>8, <1>9

--------------------------------------------------------------------------------
(***************************************************************************)
(* The invariant of the parser.  Its parts are stated of sequences, so     *)
(* that what a longer input or one more node leaves alone is a lemma.      *)
(***************************************************************************)

\* What the levels allow below an operator, whatever way they are parsed: operands
\* of a tighter level, or, on the side to which the level associates, of the level
\* itself.
NodeLevel(node) == IF node.op = "atom" THEN 0 ELSE Level(node.op)

FitsLeft(node, op) ==
  NodeLevel(node) < Level(op) \/ (NodeLevel(node) = Level(op) /\ ~RightAssociative(Level(op)))
FitsRight(node, op) ==
  NodeLevel(node) < Level(op) \/ (NodeLevel(node) = Level(op) /\ RightAssociative(Level(op)))

\* A node as the levels derive it, read from its part of the input
AtomNode(node, word) ==
  Len(node.args) = 0 /\ node.op = "atom" /\ node.from = node.to /\ word[node.from] = "atom"

PrefixNode(node, right, word) ==
  /\ Len(node.args) = 1 /\ node.op \in PrefixOperators /\ FitsRight(right, node.op)
  /\ word[node.from] = node.op /\ right.from = node.from + 1 /\ right.to = node.to

InfixNode(node, left, right, word) ==
  /\ Len(node.args) = 2 /\ node.op \in InfixOperators
  /\ FitsLeft(left, node.op) /\ FitsRight(right, node.op)
  /\ left.from = node.from /\ word[left.to + 1] = node.op
  /\ right.from = left.to + 2 /\ right.to = node.to

Placed(ns, word, n) ==
  /\ ns[n].from \in 1..ns[n].to /\ ns[n].to \in 1..Len(word)
  /\ \A i \in 1..Len(ns[n].args) : ns[n].args[i] \in 1..(n - 1)
  /\ \/ AtomNode(ns[n], word)
     \/ PrefixNode(ns[n], ns[ns[n].args[1]], word)
     \/ InfixNode(ns[n], ns[ns[n].args[1]], ns[ns[n].args[2]], word)

\* Where the part of the input behind the first k waiting operators starts
Behind(os, k) == IF k = 0 THEN 1 ELSE os[k].at + 1

\* The k-th waiting operator stands behind its left operand, which fits it, and the
\* one before it does not take its operand away
Waits(ns, word, os, k) ==
  /\ os[k].at \in 1..Len(word) /\ word[os[k].at] = os[k].op
  /\ \/ os[k].left = 0 /\ os[k].op \in PrefixOperators /\ os[k].at = Behind(os, k - 1)
     \/ /\ os[k].left \in 1..Len(ns) /\ os[k].op \in InfixOperators
        /\ ns[os[k].left].from = Behind(os, k - 1) /\ ns[os[k].left].to + 1 = os[k].at
        /\ FitsLeft(ns[os[k].left], os[k].op)
  /\ k > 1 => ~BindsBefore(os[k - 1].op, os[k].op)

\* The node just completed reaches from the last waiting operator to the end of what
\* has been read, and fits that operator; the operator read ahead may take it
Completed(ns, word, os, n, ahead) ==
  /\ n \in 1..Len(ns)
  /\ ns[n].from = Behind(os, Len(os)) /\ ns[n].to = Len(word)
  /\ Len(os) > 0 => FitsRight(ns[n], os[Len(os)].op)
  /\ ns[n].op = "atom" \/ (ahead # "none" /\ BindsBefore(ns[n].op, ahead))

ParseTypeOK ==
  /\ nodes \in Seq(NodeSet) /\ open \in Seq(WaitingSet) /\ input \in Seq(Tokens)
  /\ operand \in Nat /\ lookahead \in InfixOperators \cup {"none", "end"}
  /\ expects \in {"operand", "operator", "nothing"}

ParseInv ==
  /\ ParseTypeOK
  /\ \A n \in 1..Len(nodes) : Placed(nodes, input, n)
  /\ \A k \in 1..Len(open) : Waits(nodes, input, open, k)
  /\ expects = "operand" =>
       operand = 0 /\ lookahead = "none" /\ Len(input) + 1 = Behind(open, Len(open))
  /\ expects # "operand" => Completed(nodes, input, open, operand, lookahead)
  /\ expects = "nothing" => open = << >> /\ lookahead = "end"

--------------------------------------------------------------------------------
(* What more nodes and more input leave alone. *)

Extends(t, s) ==
  /\ Len(s) \in Nat /\ Len(t) \in Nat /\ Len(s) <= Len(t)
  /\ \A i \in 1..Len(s) : t[i] = s[i]

LEMMA AppendExtends ==
  ASSUME NEW S, NEW s \in Seq(S), NEW e \in S
  PROVE  Extends(s, s) /\ Extends(Append(s, e), s)
BY AppendProperties, LenProperties DEF Extends

LEMMA PlacedKept ==
  ASSUME NEW ns, NEW ms, Extends(ms, ns), NEW word, NEW text, Extends(text, word),
         \A n \in 1..Len(ns) : Placed(ns, word, n)
  PROVE  \A n \in 1..Len(ns) : Placed(ms, text, n)
<1> SUFFICES ASSUME NEW n \in 1..Len(ns) PROVE Placed(ms, text, n)
  OBVIOUS
<1>1. /\ Len(ns) \in Nat /\ Len(word) \in Nat /\ Len(text) \in Nat /\ Len(word) <= Len(text)
      /\ \A i \in 1..Len(word) : text[i] = word[i]
      /\ \A m \in 1..Len(ns) : ms[m] = ns[m]
  BY DEF Extends
<1>2. ms[n] = ns[n] /\ Placed(ns, word, n)
  BY <1>1
<1>3. /\ ns[n].from \in 1..ns[n].to /\ ns[n].to \in 1..Len(word)
      /\ \A i \in 1..Len(ns[n].args) : ns[n].args[i] \in 1..(n - 1)
  BY <1>2 DEF Placed
<1>4. ns[n].from \in 1..Len(word) /\ ns[n].to \in 1..Len(text)
  BY <1>1, <1>3
<1>5. text[ns[n].from] = word[ns[n].from]
  BY <1>1, <1>4
<1>6. ASSUME NEW i \in 1..Len(ns[n].args)
      PROVE  ms[ns[n].args[i]] = ns[ns[n].args[i]] /\ Placed(ns, word, ns[n].args[i])
  <2>1. ns[n].args[i] \in 1..Len(ns)
    BY <1>1, <1>3
  <2> QED
    BY <1>1, <2>1
<1>7. CASE AtomNode(ns[n], word)
  <2>1. AtomNode(ns[n], text)
    BY <1>5, <1>7 DEF AtomNode
  <2> QED
    BY <1>2, <1>3, <1>4, <2>1 DEF Placed
<1>8. CASE PrefixNode(ns[n], ns[ns[n].args[1]], word)
  <2>1. 1 \in 1..Len(ns[n].args)
    BY <1>8 DEF PrefixNode
  <2>2. ms[ns[n].args[1]] = ns[ns[n].args[1]]
    BY <1>6, <2>1
  <2>3. PrefixNode(ns[n], ns[ns[n].args[1]], text)
    BY <1>5, <1>8 DEF PrefixNode
  <2> QED
    BY <1>2, <1>3, <1>4, <2>2, <2>3 DEF Placed
<1>9. CASE InfixNode(ns[n], ns[ns[n].args[1]], ns[ns[n].args[2]], word)
  <2>1. 1 \in 1..Len(ns[n].args) /\ 2 \in 1..Len(ns[n].args)
    BY <1>9 DEF InfixNode
  <2>2. /\ ms[ns[n].args[1]] = ns[ns[n].args[1]] /\ ms[ns[n].args[2]] = ns[ns[n].args[2]]
        /\ Placed(ns, word, ns[n].args[1]) /\ Placed(ns, word, ns[n].args[2])
    BY <1>6, <2>1
  <2>3. \A left, right : /\ InfixNode(ns[n], left, right, word)
                         /\ left.to \in 1..Len(word) /\ right.from \in 1..right.to
                         => InfixNode(ns[n], left, right, text)
    <3> SUFFICES ASSUME NEW left, NEW right, InfixNode(ns[n], left, right, word),
                        left.to \in 1..Len(word), right.from \in 1..right.to
                 PROVE  text[left.to + 1] = word[left.to + 1]
      BY DEF InfixNode
    <3>1. right.from = left.to + 2 /\ right.to = ns[n].to
      BY DEF InfixNode
    <3>2. left.to + 1 \in 1..Len(word)
      <4> DEFINE at == left.to  last == ns[n].to  length == Len(word)
      <4>1. length \in Nat /\ at \in 1..length /\ last \in 1..length /\ at + 2 \in 1..last
        BY <1>1, <1>3, <3>1
      <4> HIDE DEF at, last, length
      <4>2. at + 1 \in 1..length
        BY <4>1
      <4> QED
        BY <4>2 DEF at, length
    <3> QED
      BY <1>1, <3>2
  <2>4. ns[ns[n].args[1]].to \in 1..Len(word) /\ ns[ns[n].args[2]].from \in 1..ns[ns[n].args[2]].to
    BY <2>2 DEF Placed
  <2>5. InfixNode(ns[n], ns[ns[n].args[1]], ns[ns[n].args[2]], text)
    BY <1>9, <2>3, <2>4
  <2> QED
    BY <1>2, <1>3, <1>4, <2>2, <2>5 DEF Placed
<1> QED
  BY <1>2, <1>7, <1>8, <1>9 DEF Placed

LEMMA WaitsKept ==
  ASSUME NEW ns, NEW ms, Extends(ms, ns), NEW word, NEW text, Extends(text, word),
         NEW os, NEW ps, NEW k \in Nat \ {0}, \A i \in 1..k : ps[i] = os[i],
         Waits(ns, word, os, k)
  PROVE  Waits(ms, text, ps, k)
<1>1. /\ Len(ns) \in Nat /\ Len(word) \in Nat /\ Len(text) \in Nat /\ Len(ms) \in Nat
      /\ Len(ns) <= Len(ms) /\ Len(word) <= Len(text)
      /\ \A i \in 1..Len(word) : text[i] = word[i]
      /\ \A m \in 1..Len(ns) : ms[m] = ns[m]
  BY DEF Extends
<1>2. ps[k] = os[k] /\ (k > 1 => ps[k - 1] = os[k - 1])
  OBVIOUS
<1>3. Behind(ps, k - 1) = Behind(os, k - 1)
  BY <1>2 DEF Behind
<1>4. /\ os[k].at \in 1..Len(text) /\ text[os[k].at] = os[k].op
      /\ k > 1 => ~BindsBefore(os[k - 1].op, os[k].op)
  BY <1>1 DEF Waits
<1>5. os[k].left \in 1..Len(ns) =>
        os[k].left \in 1..Len(ms) /\ ms[os[k].left] = ns[os[k].left]
  BY <1>1
<1> QED
  BY <1>2, <1>3, <1>4, <1>5 DEF Waits

LEMMA AppendFacts ==
  ASSUME NEW S, NEW s \in Seq(S), NEW e \in S
  PROVE  /\ Append(s, e) \in Seq(S) /\ Len(s) \in Nat /\ Len(Append(s, e)) = Len(s) + 1
         /\ Append(s, e)[Len(s) + 1] = e
         /\ Extends(s, s) /\ Extends(Append(s, e), s)
BY AppendProperties, LenProperties, AppendExtends

LEMMA FrontFacts ==
  ASSUME NEW S, NEW s \in Seq(S), s # << >>
  PROVE  /\ Front(s) \in Seq(S) /\ Len(s) \in Nat \ {0} /\ Len(Front(s)) = Len(s) - 1
         /\ \A i \in 1..(Len(s) - 1) : Front(s)[i] = s[i]
         /\ Last(s) = s[Len(s)] /\ Last(s) \in S
<1> DEFINE k == Len(s)
<1>1. k \in Nat \ {0}
  BY EmptySeq, LenProperties
<1>2. \A i \in 1..k : s[i] \in S
  BY ElementOfSeq
<1>3. Last(s) = s[k] /\ s[k] \in S
  BY <1>1, <1>2 DEF Last
<1>4. Front(s) = SubSeq(s, 1, k - 1)
  BY DEF Front
<1>5. 1 \in Int /\ k - 1 \in Int /\ \A i \in 1..(k - 1) : s[i] \in S
  BY <1>1, <1>2
<1> HIDE DEF k
<1>6. /\ Front(s) \in Seq(S)
      /\ Len(Front(s)) = IF 1 <= k - 1 THEN (k - 1) - 1 + 1 ELSE 0
      /\ \A i \in 1..((k - 1) - 1 + 1) : Front(s)[i] = s[1 + i - 1]
  BY <1>4, <1>5, SubSeqProperties
<1>7. Len(Front(s)) = k - 1 /\ (k - 1) - 1 + 1 = k - 1
  <2>1. CASE k = 1
    BY <1>6, <2>1
  <2>2. CASE k > 1
    BY <1>1, <1>6, <2>2
  <2> QED
    BY <1>1, <2>1, <2>2
<1>8. \A i \in 1..(k - 1) : 1 + i - 1 = i
  BY <1>1
<1>9. \A i \in 1..(k - 1) : Front(s)[i] = s[i]
  BY <1>6, <1>7, <1>8
<1> QED
  BY <1>1, <1>3, <1>6, <1>7, <1>9 DEF k

\* One node more, of its part of what has been read, is placed as the others are.
LEMMA NodeAdded ==
  ASSUME NEW ns, NEW ms, Extends(ms, ns), Len(ms) = Len(ns) + 1,
         NEW word, NEW text, Extends(text, word),
         \A n \in 1..Len(ns) : Placed(ns, word, n), Placed(ms, text, Len(ns) + 1)
  PROVE  \A n \in 1..Len(ms) : Placed(ms, text, n)
<1>1. \A n \in 1..Len(ns) : Placed(ms, text, n)
  BY PlacedKept
<1>2. Len(ns) \in Nat
  BY DEF Extends
<1>3. \A n \in 1..Len(ms) : n \in 1..Len(ns) \/ n = Len(ns) + 1
  BY <1>2
<1> QED
  BY <1>1, <1>3

LEMMA AllWaitsKept ==
  ASSUME NEW ns, NEW ms, Extends(ms, ns), NEW word, NEW text, Extends(text, word),
         NEW os, NEW ps, NEW last \in Nat, \A i \in 1..last : ps[i] = os[i],
         \A k \in 1..last : Waits(ns, word, os, k)
  PROVE  \A k \in 1..last : Waits(ms, text, ps, k)
<1> SUFFICES ASSUME NEW k \in 1..last PROVE Waits(ms, text, ps, k)
  OBVIOUS
<1>1. k \in Nat \ {0} /\ \A i \in 1..k : i \in 1..last
  OBVIOUS
<1>2. \A i \in 1..k : ps[i] = os[i]
  BY <1>1
<1>3. Waits(ns, word, os, k)
  OBVIOUS
<1> HIDE DEF Waits
<1> QED
  BY <1>1, <1>2, <1>3, WaitsKept

--------------------------------------------------------------------------------
(******************************** The steps ********************************)

LEMMA AtomFits ==
  ASSUME NEW node, node.op = "atom", NEW op \in Operators
  PROVE  FitsLeft(node, op) /\ FitsRight(node, op)
BY OperatorLevels DEF FitsLeft, FitsRight, NodeLevel

LEMMA InitInv == ParseInit => ParseInv
<1> SUFFICES ASSUME ParseInit PROVE ParseInv
  OBVIOUS
<1>1. ParseTypeOK
  BY EmptySeq DEF ParseInit, ParseTypeOK
<1>2. Len(nodes) = 0 /\ Len(open) = 0 /\ Len(input) = 0
  BY EmptySeq DEF ParseInit
<1>3. expects = "operand" /\ operand = 0 /\ lookahead = "none"
  BY DEF ParseInit
<1>4. Len(input) + 1 = Behind(open, Len(open))
  BY <1>2 DEF Behind
<1>5. /\ \A n \in 1..Len(nodes) : Placed(nodes, input, n)
      /\ \A k \in 1..Len(open) : Waits(nodes, input, open, k)
  BY <1>2
<1> QED
  BY <1>1, <1>3, <1>4, <1>5 DEF ParseInv

LEMMA ReadAtomInv == ParseInv /\ ReadAtom => ParseInv'
<1> SUFFICES ASSUME ParseInv, ReadAtom PROVE ParseInv'
  OBVIOUS
<1> DEFINE node == Node("atom", << >>, Len(input'), Len(input'))
<1>1. ParseTypeOK /\ expects = "operand" /\ open' = open /\ lookahead' = lookahead
  BY DEF ParseInv, ReadAtom
<1>2. /\ input' = Append(input, "atom") /\ nodes' = Append(nodes, node)
      /\ operand' = Len(nodes) + 1 /\ expects' = "operator"
  BY DEF ReadAtom, Complete
<1>3. /\ input' \in Seq(Tokens) /\ Len(input) \in Nat /\ Len(input') = Len(input) + 1
      /\ input'[Len(input) + 1] = "atom" /\ Extends(input', input)
  BY <1>1, <1>2, AppendFacts DEF ParseTypeOK, Tokens
<1>4. node \in NodeSet
  BY <1>3, EmptySeq DEF Node, NodeSet, Tokens
<1> HIDE DEF node
<1>5. /\ nodes' \in Seq(NodeSet) /\ Len(nodes) \in Nat /\ Len(nodes') = Len(nodes) + 1
      /\ nodes'[Len(nodes) + 1] = node /\ Extends(nodes', nodes)
  BY <1>1, <1>2, <1>4, AppendFacts DEF ParseTypeOK
<1>6. /\ node.op = "atom" /\ Len(node.args) = 0
      /\ node.from = Len(input) + 1 /\ node.to = Len(input) + 1
  BY <1>3, EmptySeq DEF node, Node
<1>7. ParseTypeOK'
  BY <1>1, <1>2, <1>3, <1>5 DEF ParseTypeOK
<1>8. Placed(nodes', input', Len(nodes) + 1)
  BY <1>3, <1>5, <1>6 DEF Placed, AtomNode
<1>9. \A n \in 1..Len(nodes') : Placed(nodes', input', n)
  <2>1. \A n \in 1..Len(nodes) : Placed(nodes, input, n)
    BY DEF ParseInv
  <2> QED
    BY <1>3, <1>5, <1>8, <2>1, NodeAdded
<1>10. Len(open) \in Nat /\ \A k \in 1..Len(open) : open[k] \in WaitingSet
  BY <1>1, LenProperties, ElementOfSeq DEF ParseTypeOK
<1>11. \A k \in 1..Len(open') : Waits(nodes', input', open', k)
  <2>1. \A k \in 1..Len(open) : Waits(nodes, input, open, k)
    BY DEF ParseInv
  <2>2. Len(open) \in Nat /\ \A i \in 1..Len(open) : open'[i] = open[i]
    BY <1>1, <1>10
  <2>3. Extends(nodes', nodes) /\ Extends(input', input)
    BY <1>3, <1>5
  <2>4. \A k \in 1..Len(open) : Waits(nodes', input', open', k)
    BY <2>1, <2>2, <2>3, AllWaitsKept
  <2> QED
    BY <1>1, <2>4
<1>12. Completed(nodes', input', open', operand', lookahead')
  <2>1. Len(input) + 1 = Behind(open, Len(open))
    BY <1>1 DEF ParseInv
  <2>2. Len(open) > 0 => FitsRight(node, open[Len(open)].op)
    BY <1>6, <1>10, AtomFits DEF WaitingSet
  <2> QED
    BY <1>1, <1>2, <1>3, <1>5, <1>6, <2>1, <2>2 DEF Completed
<1> QED
  BY <1>2, <1>7, <1>9, <1>11, <1>12 DEF ParseInv

LEMMA ReadPrefixInv ==
  ASSUME NEW op \in PrefixOperators, ParseInv, ReadPrefix(op)
  PROVE  ParseInv'
<1> DEFINE new == Waiting(op, Len(input'), 0)
<1>1. /\ ParseTypeOK /\ expects = "operand" /\ expects' = expects
      /\ nodes' = nodes /\ operand' = operand /\ lookahead' = lookahead
  BY DEF ParseInv, ReadPrefix
<1>2. input' = Append(input, op) /\ open' = Append(open, new)
  BY DEF ReadPrefix
<1>3. op \in Operators /\ op \in Tokens /\ op # "end" /\ Level(op) = 3
  BY OperatorLevels DEF Operators, Tokens, PrefixLevel
<1>4. /\ input' \in Seq(Tokens) /\ Len(input) \in Nat /\ Len(input') = Len(input) + 1
      /\ input'[Len(input) + 1] = op /\ Extends(input', input)
  BY <1>1, <1>2, <1>3, AppendFacts DEF ParseTypeOK
<1>5. new \in WaitingSet
  BY <1>3, <1>4 DEF Waiting, WaitingSet
<1> HIDE DEF new
<1>6. /\ open' \in Seq(WaitingSet) /\ Len(open) \in Nat /\ Len(open') = Len(open) + 1
      /\ open'[Len(open) + 1] = new /\ Extends(open', open)
  BY <1>1, <1>2, <1>5, AppendFacts DEF ParseTypeOK
<1>7. new.op = op /\ new.at = Len(input) + 1 /\ new.left = 0
  BY <1>4 DEF new, Waiting
<1>8. Extends(nodes, nodes)
  BY <1>1, LenProperties DEF Extends, ParseTypeOK
<1>9. ParseTypeOK'
  BY <1>1, <1>4, <1>6 DEF ParseTypeOK
<1>10. \A n \in 1..Len(nodes') : Placed(nodes', input', n)
  <2>1. \A n \in 1..Len(nodes) : Placed(nodes, input, n)
    BY DEF ParseInv
  <2>2. \A n \in 1..Len(nodes) : Placed(nodes, input', n)
    BY <1>4, <1>8, <2>1, PlacedKept
  <2> QED
    BY <1>1, <2>2
<1>11. Len(input) + 1 = Behind(open, Len(open)) /\ operand = 0 /\ lookahead = "none"
  BY <1>1 DEF ParseInv
<1>12. \A i \in 1..Len(open) : open'[i] = open[i]
  BY <1>6 DEF Extends
<1>13. \A k \in 1..Len(open) : Waits(nodes, input', open', k)
  <2>1. \A k \in 1..Len(open) : Waits(nodes, input, open, k)
    BY DEF ParseInv
  <2> QED
    BY <1>4, <1>6, <1>8, <1>12, <2>1, AllWaitsKept
<1>14. Waits(nodes, input', open', Len(open) + 1)
  <2>1. Behind(open', Len(open)) = Behind(open, Len(open))
    BY <1>6, <1>12 DEF Behind
  <2>2. Len(open) > 0 => ~BindsBefore(open[Len(open)].op, op)
    <3> SUFFICES ASSUME Len(open) > 0 PROVE ~BindsBefore(open[Len(open)].op, op)
      OBVIOUS
    <3>1. open # << >> /\ Last(open) = open[Len(open)]
      BY EmptySeq DEF Last
    <3>2. Level(open[Len(open)].op) > 3
      BY <3>1 DEF ReadPrefix, PrefixLevel
    <3>3. open[Len(open)].op \in Operators
      <4>1. open \in Seq(WaitingSet) /\ Len(open) \in 1..Len(open)
        BY <1>1, <1>6 DEF ParseTypeOK
      <4>2. open[Len(open)] \in WaitingSet
        BY <4>1, ElementOfSeq
      <4> QED
        BY <4>2 DEF WaitingSet
    <3> QED
      BY <1>3, <3>2, <3>3, OperatorLevels DEF BindsBefore
  <2>3. Len(open) + 1 > 1 <=> Len(open) > 0
    BY <1>6
  <2>4. (Len(open) + 1) - 1 = Len(open)
    BY <1>6
  <2>5. Len(open) > 0 => open'[Len(open)] = open[Len(open)]
    BY <1>6, <1>12
  <2>6. new.at \in 1..Len(input') /\ input'[new.at] = new.op
    BY <1>4, <1>7
  <2> QED
    BY <1>6, <1>7, <1>11, <2>1, <2>2, <2>3, <2>4, <2>5, <2>6 DEF Waits
<1>15. \A k \in 1..Len(open') : Waits(nodes', input', open', k)
  <2>1. \A k \in 1..Len(open') : k \in 1..Len(open) \/ k = Len(open) + 1
    BY <1>6
  <2> QED
    BY <1>1, <1>13, <1>14, <2>1
<1>16. Len(input') + 1 = Behind(open', Len(open'))
  BY <1>4, <1>6, <1>7 DEF Behind
<1> QED
  BY <1>1, <1>9, <1>10, <1>11, <1>15, <1>16 DEF ParseInv

LEMMA ReadAheadInv ==
  ASSUME NEW op \in InfixOperators \cup {"end"}, ParseInv, ReadAhead(op)
  PROVE  ParseInv'
<1>1. /\ expects = "operator" /\ lookahead = "none" /\ lookahead' = op
      /\ UNCHANGED <<nodes, open, operand, expects, input>>
  BY DEF ReadAhead
<1>2. ParseTypeOK'
  BY <1>1 DEF ParseInv, ParseTypeOK
<1>3. Completed(nodes, input, open, operand, op)
  BY <1>1 DEF ParseInv, Completed
<1>4. /\ \A n \in 1..Len(nodes) : Placed(nodes, input, n)
      /\ \A k \in 1..Len(open) : Waits(nodes, input, open, k)
  BY DEF ParseInv
<1> QED
  BY <1>1, <1>2, <1>3, <1>4 DEF ParseInv

\* A waiting operator that the one behind it did not take the operand from may have
\* that one's node as its right operand.
LEMMA BehindFits ==
  ASSUME NEW op \in Operators, NEW node, node.op \in Operators, ~BindsBefore(op, node.op)
  PROVE  FitsRight(node, op)
<1>1. node.op # "atom" /\ NodeLevel(node) = Level(node.op)
  BY OperatorLevels DEF NodeLevel
<1>2. Level(op) \in 1..12 /\ Level(node.op) \in 1..12
  BY OperatorLevels
<1> QED
  BY <1>1, <1>2 DEF BindsBefore, FitsRight

\* A node the operator behind it may take is a left operand of it.
LEMMA AheadFits ==
  ASSUME NEW op \in Operators, NEW node, node.op \in Tokens, node.op = "atom" \/ BindsBefore(node.op, op)
  PROVE  FitsLeft(node, op)
<1>1. CASE node.op = "atom"
  BY <1>1, AtomFits
<1>2. CASE node.op # "atom"
  <2>1. node.op \in Operators /\ op # "end"
    BY <1>2, OperatorLevels DEF Tokens
  <2>2. Level(op) \in 1..12 /\ Level(node.op) \in 1..12 /\ NodeLevel(node) = Level(node.op)
    BY <1>2, <2>1, OperatorLevels DEF NodeLevel
  <2> QED
    BY <1>2, <2>1, <2>2 DEF BindsBefore, FitsLeft
<1> QED
  BY <1>1, <1>2

\* One node more, m, made of the k-th and last waiting operator and the node completed
Reduces(ns, word, os, n, ahead, ms, k, m) ==
  /\ k \in Nat \ {0} /\ Len(os) = k /\ Len(word) \in Nat /\ Len(ns) \in Nat
  /\ m = Len(ns) + 1 /\ Extends(ms, ns) /\ Waits(ns, word, os, k)
  /\ Completed(ns, word, os, n, ahead) /\ Placed(ns, word, n)
  /\ ms[m].op = os[k].op /\ ms[m].to = ns[n].to
  /\ os[k].left = 0 =>
       Len(ms[m].args) = 1 /\ ms[m].args[1] = n /\ ms[m].from = os[k].at
  /\ os[k].left # 0 =>
       /\ Len(ms[m].args) = 2 /\ ms[m].args[1] = os[k].left /\ ms[m].args[2] = n
       /\ ms[m].from = ns[os[k].left].from /\ Placed(ns, word, os[k].left)

LEMMA PrefixReduced ==
  ASSUME NEW ns, NEW word, NEW os, NEW n, NEW ahead, NEW ms, NEW k, NEW m,
         Reduces(ns, word, os, n, ahead, ms, k, m), os[k].left = 0
  PROVE  /\ Placed(ms, word, m)
         /\ ms[m].from = Behind(os, k - 1) /\ ms[m].to = Len(word)
<1> USE DEF Reduces
<1>1. n \in 1..Len(ns) /\ ms[n] = ns[n]
  BY DEF Completed, Extends
<1>2. /\ ns[n].from = os[k].at + 1 /\ ns[n].to = Len(word)
      /\ FitsRight(ns[n], os[k].op)
  BY DEF Completed, Behind
<1>3. /\ os[k].at \in 1..Len(word) /\ word[os[k].at] = os[k].op
      /\ os[k].op \in PrefixOperators /\ os[k].at = Behind(os, k - 1)
  BY DEF Waits
<1>4. ns[n].from \in 1..ns[n].to /\ ns[n].to \in 1..Len(word)
  BY DEF Placed
<1>5. PrefixNode(ms[m], ms[ms[m].args[1]], word)
  <2>1. /\ Len(ms[m].args) = 1 /\ ms[ms[m].args[1]] = ns[n]
        /\ ms[m].op = os[k].op /\ ms[m].from = os[k].at /\ ms[m].to = ns[n].to
    BY <1>1
  <2> QED
    BY <1>2, <1>3, <2>1 DEF PrefixNode
<1>6. ms[m].from \in 1..ms[m].to /\ ms[m].to \in 1..Len(word)
  BY <1>2, <1>3, <1>4
<1>7. \A i \in 1..Len(ms[m].args) : ms[m].args[i] \in 1..(m - 1)
  BY <1>1
<1> QED
  BY <1>2, <1>3, <1>5, <1>6, <1>7 DEF Placed

LEMMA InfixReduced ==
  ASSUME NEW ns, NEW word, NEW os, NEW n, NEW ahead, NEW ms, NEW k, NEW m,
         Reduces(ns, word, os, n, ahead, ms, k, m), os[k].left # 0
  PROVE  /\ Placed(ms, word, m)
         /\ ms[m].from = Behind(os, k - 1) /\ ms[m].to = Len(word)
<1> USE DEF Reduces
<1>1. n \in 1..Len(ns) /\ ms[n] = ns[n]
  BY DEF Completed, Extends
<1>2. /\ ns[n].from = os[k].at + 1 /\ ns[n].to = Len(word)
      /\ FitsRight(ns[n], os[k].op)
  BY DEF Completed, Behind
<1>3. /\ os[k].at \in 1..Len(word) /\ word[os[k].at] = os[k].op
      /\ os[k].op \in InfixOperators
      /\ os[k].left \in 1..Len(ns)
      /\ ns[os[k].left].from = Behind(os, k - 1) /\ ns[os[k].left].to + 1 = os[k].at
      /\ FitsLeft(ns[os[k].left], os[k].op)
  BY DEF Waits
<1>4. /\ ns[n].from \in 1..ns[n].to /\ ns[n].to \in 1..Len(word)
      /\ ns[os[k].left].from \in 1..ns[os[k].left].to
      /\ ns[os[k].left].to \in 1..Len(word)
  BY DEF Placed
<1>5. ms[os[k].left] = ns[os[k].left]
  BY <1>3 DEF Extends
<1>6. ns[n].from = ns[os[k].left].to + 2
  BY <1>2, <1>3, <1>4
<1>7. InfixNode(ms[m], ms[ms[m].args[1]], ms[ms[m].args[2]], word)
  <2>1. /\ Len(ms[m].args) = 2 /\ ms[m].op = os[k].op
        /\ ms[ms[m].args[1]] = ns[os[k].left] /\ ms[ms[m].args[2]] = ns[n]
        /\ ms[m].from = ns[os[k].left].from /\ ms[m].to = ns[n].to
    BY <1>1, <1>5
  <2> QED
    BY <1>2, <1>3, <1>6, <2>1 DEF InfixNode
<1>8. ms[m].from \in 1..ms[m].to /\ ms[m].to \in 1..Len(word)
  <2> DEFINE first == ns[os[k].left].from  last == ns[os[k].left].to
             start == ns[n].from  end == ns[n].to
  <2>1. /\ first \in 1..last /\ last \in Nat /\ start = last + 2 /\ start \in 1..end /\ end \in Nat
    BY <1>4, <1>6
  <2> HIDE DEF first, last, start, end
  <2>2. first \in 1..end
    BY <2>1
  <2> QED
    BY <1>4, <2>2 DEF first, end
<1>9. \A i \in 1..Len(ms[m].args) : ms[m].args[i] \in 1..(m - 1)
  <2>1. /\ Len(ms[m].args) = 2 /\ m - 1 = Len(ns)
        /\ ms[m].args[1] \in 1..Len(ns) /\ ms[m].args[2] \in 1..Len(ns)
    BY <1>1, <1>3
  <2> QED
    BY <2>1
<1> QED
  BY <1>2, <1>3, <1>7, <1>8, <1>9 DEF Placed

LEMMA ReduceInv == ParseInv /\ Reduce => ParseInv'
<1> SUFFICES ASSUME ParseInv, Reduce PROVE ParseInv'
  OBVIOUS
<1> DEFINE last == Last(open)
           node == IF last.left = 0
                   THEN Node(last.op, <<operand>>, last.at, nodes[operand].to)
                   ELSE Node(last.op, <<last.left, operand>>,
                             nodes[last.left].from, nodes[operand].to)
           k == Len(open)
           m == Len(nodes) + 1
<1>1. /\ lookahead # "none" /\ open # << >> /\ BindsBefore(last.op, lookahead)
      /\ nodes' = Append(nodes, node) /\ operand' = m /\ open' = Front(open)
      /\ lookahead' = lookahead /\ expects' = expects /\ input' = input
  BY DEF Reduce, Complete
<1>2. /\ nodes \in Seq(NodeSet) /\ open \in Seq(WaitingSet) /\ input \in Seq(Tokens)
      /\ lookahead \in InfixOperators \cup {"none", "end"} /\ expects = "operator"
  BY <1>1 DEF ParseInv, ParseTypeOK
<1>3. Completed(nodes, input, open, operand, lookahead)
  BY <1>2 DEF ParseInv
<1>4. /\ k \in Nat \ {0} /\ last = open[k] /\ last \in WaitingSet
      /\ Len(nodes) \in Nat /\ Len(input) \in Nat
  <2>1. k \in Nat \ {0}
    BY <1>1, <1>2, EmptySeq, LenProperties
  <2>2. k \in 1..k /\ last = open[k]
    BY <2>1 DEF Last
  <2> QED
    BY <1>2, <2>1, <2>2, ElementOfSeq, LenProperties
<1>5. Waits(nodes, input, open, k) /\ \A i \in 1..k : Waits(nodes, input, open, i)
  BY <1>4 DEF ParseInv
<1>6. operand \in 1..Len(nodes) /\ Placed(nodes, input, operand)
  BY <1>3 DEF ParseInv, Completed
<1>7. last.left # 0 => last.left \in 1..Len(nodes) /\ Placed(nodes, input, last.left)
  <2>1. last.left # 0 => last.left \in 1..Len(nodes)
    BY <1>4, <1>5 DEF Waits
  <2> QED
    BY <2>1 DEF ParseInv
<1>8. /\ node.op = last.op /\ node.to = nodes[operand].to
      /\ last.left = 0 => /\ Len(node.args) = 1 /\ node.args[1] = operand
                          /\ node.from = last.at
      /\ last.left # 0 => /\ Len(node.args) = 2 /\ node.args[1] = last.left
                          /\ node.args[2] = operand /\ node.from = nodes[last.left].from
  BY DEF Node
<1>9. node \in NodeSet
  <2>1. \A i \in 1..Len(nodes) : nodes[i].from \in Nat /\ nodes[i].to \in Nat
    <3>1. \A i \in 1..Len(nodes) : nodes[i] \in NodeSet
      BY <1>2, ElementOfSeq
    <3> QED
      BY <3>1 DEF NodeSet
  <2>2. last.op \in Tokens /\ last.at \in Nat /\ last.left \in Nat /\ operand \in Nat
    BY <1>4, <1>6 DEF WaitingSet, Tokens
  <2>3. CASE last.left = 0
    <3>1. node = Node(last.op, <<operand>>, last.at, nodes[operand].to)
      BY <2>3
    <3>2. <<operand>> \in Seq(Nat)
      BY <2>2
    <3> QED
      BY <1>6, <2>1, <2>2, <3>1, <3>2 DEF Node, NodeSet
  <2>4. CASE last.left # 0
    <3>1. node = Node(last.op, <<last.left, operand>>, nodes[last.left].from, nodes[operand].to)
      BY <2>4
    <3>2. <<last.left, operand>> \in Seq(Nat)
      BY <2>2
    <3> QED
      BY <1>6, <1>7, <2>1, <2>2, <2>4, <3>1, <3>2 DEF Node, NodeSet
  <2> QED
    BY <2>3, <2>4
<1> HIDE DEF node, last
<1>10. /\ nodes' \in Seq(NodeSet) /\ Len(nodes') = m /\ nodes'[m] = node
       /\ Extends(nodes', nodes)
  BY <1>1, <1>2, <1>9, AppendFacts
<1>11. Placed(nodes', input, m) /\ node.from = Behind(open, k - 1) /\ node.to = Len(input)
  <2>1. Reduces(nodes, input, open, operand, lookahead, nodes', k, m)
    BY <1>3, <1>4, <1>5, <1>6, <1>7, <1>8, <1>10 DEF Reduces
  <2> HIDE DEF k, m
  <2>2. Placed(nodes', input, m) /\ nodes'[m].from = Behind(open, k - 1) /\ nodes'[m].to = Len(input)
    BY <2>1, PrefixReduced, InfixReduced
  <2> QED
    BY <1>10, <2>2
<1>12. /\ open' \in Seq(WaitingSet) /\ Len(open') = k - 1
       /\ \A i \in 1..(k - 1) : open'[i] = open[i]
  BY <1>1, <1>2, FrontFacts
<1>13. ParseTypeOK'
  BY <1>1, <1>2, <1>4, <1>10, <1>12 DEF ParseTypeOK
<1>14. Extends(input, input)
  BY <1>4 DEF Extends
<1>15. \A n \in 1..Len(nodes') : Placed(nodes', input', n)
  <2>1. \A n \in 1..Len(nodes) : Placed(nodes, input, n)
    BY DEF ParseInv
  <2>2. \A n \in 1..Len(nodes') : Placed(nodes', input, n)
    BY <1>10, <1>11, <1>14, <2>1, NodeAdded
  <2> QED
    BY <1>1, <2>2
<1>16. \A i \in 1..Len(open') : Waits(nodes', input', open', i)
  <2>1. k - 1 \in Nat /\ \A i \in 1..(k - 1) : Waits(nodes, input, open, i)
    BY <1>4, <1>5
  <2>2. Extends(nodes', nodes) /\ \A i \in 1..(k - 1) : open'[i] = open[i]
    BY <1>10, <1>12
  <2>3. \A i \in 1..(k - 1) : Waits(nodes', input, open', i)
    <3> DEFINE j == k - 1
    <3> HIDE DEF j
    <3>1. /\ j \in Nat /\ \A i \in 1..j : Waits(nodes, input, open, i)
          /\ \A i \in 1..j : open'[i] = open[i]
      BY <2>1, <2>2 DEF j
    <3>2. \A i \in 1..j : Waits(nodes', input, open', i)
      BY <1>14, <2>2, <3>1, AllWaitsKept
    <3> QED
      BY <3>2 DEF j
  <2> QED
    BY <1>1, <1>12, <2>3
<1>17. Completed(nodes', input', open', operand', lookahead')
  <2>1. m \in 1..Len(nodes')
    BY <1>4, <1>10
  <2>2. Behind(open', k - 1) = Behind(open, k - 1)
    BY <1>4, <1>12 DEF Behind
  <2>3. k - 1 > 0 => FitsRight(node, open'[k - 1].op)
    <3> SUFFICES ASSUME k - 1 > 0 PROVE FitsRight(node, open'[k - 1].op)
      OBVIOUS
    <3>1. k - 1 \in 1..k /\ k - 1 \in 1..(k - 1) /\ k > 1
      BY <1>4
    <3>2. open'[k - 1] = open[k - 1] /\ open[k - 1] \in WaitingSet
      BY <1>2, <1>12, <3>1, ElementOfSeq
    <3>3. ~BindsBefore(open[k - 1].op, last.op)
      BY <1>4, <1>5, <3>1 DEF Waits
    <3> QED
      BY <1>4, <1>8, <3>2, <3>3, BehindFits DEF WaitingSet
  <2>4. lookahead # "none" /\ BindsBefore(node.op, lookahead)
    BY <1>1, <1>8
  <2> QED
    BY <1>1, <1>10, <1>11, <1>12, <2>1, <2>2, <2>3, <2>4 DEF Completed
<1> QED
  BY <1>1, <1>2, <1>13, <1>15, <1>16, <1>17 DEF ParseInv

LEMMA ShiftInv == ParseInv /\ Shift => ParseInv'
<1> SUFFICES ASSUME ParseInv, Shift PROVE ParseInv'
  OBVIOUS
<1> DEFINE new == Waiting(lookahead, Len(input'), operand)
<1>1. /\ lookahead \notin {"none", "end"}
      /\ input' = Append(input, lookahead) /\ open' = Append(open, new)
      /\ operand' = 0 /\ lookahead' = "none" /\ expects' = "operand" /\ nodes' = nodes
  BY DEF Shift
<1>2. open # << >> => ~BindsBefore(Last(open).op, lookahead)
  BY DEF Shift
<1>3. /\ nodes \in Seq(NodeSet) /\ open \in Seq(WaitingSet) /\ input \in Seq(Tokens)
      /\ operand \in Nat /\ lookahead \in InfixOperators /\ expects = "operator"
  BY <1>1 DEF ParseInv, ParseTypeOK
<1>4. Completed(nodes, input, open, operand, lookahead)
  BY <1>3 DEF ParseInv
<1>5. lookahead \in Operators /\ lookahead \in Tokens
  BY <1>3 DEF Operators, Tokens
<1>6. /\ input' \in Seq(Tokens) /\ Len(input) \in Nat /\ Len(input') = Len(input) + 1
      /\ input'[Len(input) + 1] = lookahead /\ Extends(input', input)
  BY <1>1, <1>3, <1>5, AppendFacts
<1>7. new \in WaitingSet
  BY <1>3, <1>5, <1>6 DEF Waiting, WaitingSet
<1>8. new.op = lookahead /\ new.at = Len(input) + 1 /\ new.left = operand
  BY <1>6 DEF Waiting
<1> HIDE DEF new
<1>9. /\ open' \in Seq(WaitingSet) /\ Len(open) \in Nat /\ Len(open') = Len(open) + 1
      /\ open'[Len(open) + 1] = new /\ Extends(open', open)
  BY <1>1, <1>3, <1>7, AppendFacts
<1>10. Extends(nodes, nodes)
  BY <1>3, LenProperties DEF Extends
<1>11. ParseTypeOK'
  BY <1>1, <1>3, <1>6, <1>9 DEF ParseTypeOK
<1>12. \A n \in 1..Len(nodes') : Placed(nodes', input', n)
  <2>1. \A n \in 1..Len(nodes) : Placed(nodes, input, n)
    BY DEF ParseInv
  <2>2. \A n \in 1..Len(nodes) : Placed(nodes, input', n)
    BY <1>6, <1>10, <2>1, PlacedKept
  <2> QED
    BY <1>1, <2>2
<1>13. \A i \in 1..Len(open) : open'[i] = open[i]
  BY <1>9 DEF Extends
<1>14. \A i \in 1..Len(open) : Waits(nodes, input', open', i)
  <2>1. \A i \in 1..Len(open) : Waits(nodes, input, open, i)
    BY DEF ParseInv
  <2> QED
    BY <1>6, <1>9, <1>10, <1>13, <2>1, AllWaitsKept
<1>15. Waits(nodes, input', open', Len(open) + 1)
  <2>1. Behind(open', Len(open)) = Behind(open, Len(open))
    BY <1>9, <1>13 DEF Behind
  <2>2. Len(open) > 0 => ~BindsBefore(open[Len(open)].op, lookahead)
    BY <1>2, EmptySeq DEF Last
  <2>3. Len(open) + 1 > 1 <=> Len(open) > 0
    BY <1>9
  <2>4. (Len(open) + 1) - 1 = Len(open)
    BY <1>9
  <2>5. Len(open) > 0 => open'[Len(open)] = open[Len(open)]
    BY <1>9, <1>13
  <2>6. new.at \in 1..Len(input') /\ input'[new.at] = new.op
    BY <1>6, <1>8
  <2>7. /\ operand \in 1..Len(nodes) /\ nodes[operand].from = Behind(open, Len(open))
        /\ nodes[operand].to = Len(input)
        /\ nodes[operand].op = "atom" \/ BindsBefore(nodes[operand].op, lookahead)
    BY <1>4 DEF Completed
  <2>8. FitsLeft(nodes[operand], lookahead)
    <3>1. nodes[operand] \in NodeSet
      BY <1>3, <2>7, ElementOfSeq
    <3> QED
      BY <1>5, <2>7, <3>1, AheadFits DEF NodeSet
  <2>9. Len(open) > 0 => ~BindsBefore(open'[Len(open)].op, new.op)
    BY <1>8, <2>2, <2>5
  <2> HIDE DEF Behind
  <2> QED
    BY <1>3, <1>8, <1>9, <2>1, <2>3, <2>4, <2>6, <2>7, <2>8, <2>9 DEF Waits
<1>16. \A i \in 1..Len(open') : Waits(nodes', input', open', i)
  <2>1. \A i \in 1..Len(open') : i \in 1..Len(open) \/ i = Len(open) + 1
    BY <1>9
  <2> QED
    BY <1>1, <1>14, <1>15, <2>1
<1>17. Len(input') + 1 = Behind(open', Len(open'))
  BY <1>6, <1>8, <1>9 DEF Behind
<1> QED
  BY <1>1, <1>11, <1>12, <1>16, <1>17 DEF ParseInv

LEMMA FinishInv == ParseInv /\ Finish => ParseInv'
<1> SUFFICES ASSUME ParseInv, Finish PROVE ParseInv'
  OBVIOUS
<1>1. /\ lookahead = "end" /\ open = << >> /\ expects = "operator" /\ expects' = "nothing"
      /\ UNCHANGED <<nodes, open, operand, lookahead, input>>
  BY DEF Finish
<1>2. ParseTypeOK'
  BY <1>1 DEF ParseInv, ParseTypeOK
<1>3. /\ \A n \in 1..Len(nodes) : Placed(nodes, input, n)
      /\ \A k \in 1..Len(open) : Waits(nodes, input, open, k)
      /\ Completed(nodes, input, open, operand, lookahead)
  BY <1>1 DEF ParseInv
<1> QED
  BY <1>1, <1>2, <1>3 DEF ParseInv

\* Every state of the parser has the invariant: what has been read is, from left to
\* right, the waiting operators with their left operands, and the node completed.
THEOREM ParserInvariant == ParseSpec => []ParseInv
<1>1. ParseInv /\ [ParseNext]_grammarVars => ParseInv'
  <2> SUFFICES ASSUME ParseInv, [ParseNext]_grammarVars PROVE ParseInv'
    OBVIOUS
  <2>1. CASE UNCHANGED grammarVars
    BY <2>1 DEF grammarVars, ParseInv, ParseTypeOK
  <2> QED
    BY <2>1, ReadAtomInv, ReduceInv, ShiftInv, FinishInv, ReadPrefixInv, ReadAheadInv DEF ParseNext
<1> QED
  BY <1>1, InitInv, PTL DEF ParseSpec

--------------------------------------------------------------------------------
(**************************** What the tree is *****************************)

LEMMA NodesAre ==
  ASSUME ParseTypeOK
  PROVE  /\ Len(nodes) \in Nat /\ DOMAIN nodes = 1..Len(nodes)
         /\ \A n \in DOMAIN nodes : /\ nodes[n] \in NodeSet
                                    /\ DOMAIN nodes[n].args = 1..Len(nodes[n].args)
<1>1. nodes \in Seq(NodeSet)
  BY DEF ParseTypeOK
<1>2. Len(nodes) \in Nat /\ DOMAIN nodes = 1..Len(nodes)
  BY <1>1, LenProperties
<1>3. \A n \in DOMAIN nodes : nodes[n] \in NodeSet
  BY <1>1, <1>2, ElementOfSeq
<1>4. \A node \in NodeSet : node.args \in Seq(Nat)
  BY DEF NodeSet
<1>5. \A node \in NodeSet : DOMAIN node.args = 1..Len(node.args)
  BY <1>4, LenProperties
<1> QED
  BY <1>2, <1>3, <1>5

\* An operator of a node is of a level no weaker than the operator above it.
LEMMA LevelsDescend ==
  ASSUME ParseInv, NEW n \in DOMAIN nodes, NEW i \in DOMAIN nodes[n].args,
         nodes[nodes[n].args[i]].op # "atom"
  PROVE  /\ nodes[n].op \in Operators /\ nodes[nodes[n].args[i]].op \in Operators
         /\ Level(nodes[nodes[n].args[i]].op) <= Level(nodes[n].op)
<1> DEFINE below == nodes[nodes[n].args[i]]
<1>1. /\ DOMAIN nodes = 1..Len(nodes) /\ Len(nodes) \in Nat
      /\ \A m \in DOMAIN nodes : nodes[m] \in NodeSet
      /\ DOMAIN nodes[n].args = 1..Len(nodes[n].args)
  BY NodesAre DEF ParseInv
<1>2. Placed(nodes, input, n)
  BY <1>1 DEF ParseInv
<1>3. nodes[n].args[i] \in DOMAIN nodes
  <2>1. nodes[n].args[i] \in 1..(n - 1) /\ n \in 1..Len(nodes)
    BY <1>1, <1>2 DEF Placed
  <2> QED
    BY <1>1, <2>1
<1>4. below.op \in Operators
  BY <1>1, <1>3 DEF NodeSet, Tokens
<1>5. NodeLevel(below) = Level(below.op) /\ Level(below.op) \in 1..12
  BY <1>4, OperatorLevels DEF NodeLevel
<1>6. nodes[n].op \in Operators /\ (FitsLeft(below, nodes[n].op) \/ FitsRight(below, nodes[n].op))
  <2>1. CASE AtomNode(nodes[n], input)
    BY <1>1, <2>1 DEF AtomNode
  <2>2. CASE PrefixNode(nodes[n], nodes[nodes[n].args[1]], input)
    <3>1. i = 1 /\ nodes[n].op \in PrefixOperators
      BY <1>1, <2>2 DEF PrefixNode
    <3> QED
      BY <2>2, <3>1 DEF PrefixNode, Operators
  <2>3. CASE InfixNode(nodes[n], nodes[nodes[n].args[1]], nodes[nodes[n].args[2]], input)
    <3>1. (i = 1 \/ i = 2) /\ nodes[n].op \in InfixOperators
      BY <1>1, <2>3 DEF InfixNode
    <3> QED
      BY <2>3, <3>1 DEF InfixNode, Operators
  <2> QED
    BY <1>2, <2>1, <2>2, <2>3 DEF Placed
<1>7. Level(nodes[n].op) \in 1..12
  BY <1>6, OperatorLevels
<1>8. Level(below.op) <= Level(nodes[n].op)
  BY <1>5, <1>6, <1>7 DEF FitsLeft, FitsRight
<1> QED
  BY <1>4, <1>6, <1>8

\* The number in the table of the operators of a level; 0 for the prefix operators,
\* which are not in it, and for comparisons, which have two.
RankOfLevel == <<1, 2, 0, 3, 4, 5, 8, 10, 9, 11, 12, 0>>

LEMMA RankIs ==
  \A l \in 1..12 : \A op \in Levels[l] :
    Ranked(op) => l # 3 /\ (op \notin Comparisons => l # 12 /\ Rank(op) = RankOfLevel[l])
<1>1. DOMAIN TableRank = 1..12
  BY DEF TableRank
<1>2. \A i, j \in 1..12 : \A op \in TableRank[i] : op \in TableRank[j] => i = j
  BY DEF TableRank
<1>3. \A i \in 1..12 : \A op \in TableRank[i] : Rank(op) = i
  <2> SUFFICES ASSUME NEW i \in 1..12, NEW op \in TableRank[i] PROVE Rank(op) = i
    OBVIOUS
  <2>1. \A j : j \in DOMAIN TableRank /\ op \in TableRank[j] <=> j = i
    BY <1>1, <1>2
  <2> QED
    BY <2>1 DEF Rank
<1>4. \A op \in Levels[3] : \A i \in 1..12 : op \notin TableRank[i]
  BY DEF Levels, TableRank, Comparisons
<1>5. \A l \in 1..12 : \A op \in Levels[l] : op \notin Comparisons => l # 12
  BY DEF Levels
<1>6. \A l \in 1..12 : \A op \in Levels[l] :
        l # 3 /\ op \notin Comparisons => RankOfLevel[l] \in 1..12 /\ op \in TableRank[RankOfLevel[l]]
  BY DEF Levels, TableRank, Comparisons, RankOfLevel
<1> SUFFICES ASSUME NEW l \in 1..12, NEW op \in Levels[l], Ranked(op)
             PROVE  l # 3 /\ (op \notin Comparisons => l # 12 /\ Rank(op) = RankOfLevel[l])
  OBVIOUS
<1>7. l # 3
  BY <1>1, <1>4 DEF Ranked
<1> QED
  BY <1>3, <1>5, <1>6, <1>7

\* Whatever the input, the grammar groups against the table of operators only above
\* comparisons, and `^` above `|` (the levels of frontend/lexy.cpp, the numbers of
\* ast/operators.hpp).
THEOREM TreeRespectsTableElsewhere == ParseSpec => []TableRespectedElsewhere
<1>1. ParseInv => TableRespectedElsewhere
  <2> SUFFICES ASSUME ParseInv, NEW n \in DOMAIN nodes, NEW i \in DOMAIN nodes[n].args,
                      Inverted(nodes[n].op, nodes[nodes[n].args[i]].op),
                      nodes[n].op \notin Comparisons
               PROVE  nodes[n].op = "bitxor_" /\ nodes[nodes[n].args[i]].op = "bitor_"
    BY DEF TableRespectedElsewhere
  <2> DEFINE above == nodes[n].op  below == nodes[nodes[n].args[i]].op
  <2>1. Ranked(above) /\ Ranked(below) /\ Rank(above) < Rank(below)
    BY DEF Inverted
  <2>2. below # "atom"
    <3>1. \A r \in 1..12 : "atom" \notin TableRank[r]
      BY DEF TableRank
    <3>2. DOMAIN TableRank = 1..12
      BY DEF TableRank
    <3> QED
      BY <2>1, <3>1, <3>2 DEF Ranked
  <2>3. above \in Operators /\ below \in Operators /\ Level(below) <= Level(above)
    BY <2>2, LevelsDescend
  <2> HIDE DEF above, below
  <2> DEFINE a == Level(above)  b == Level(below)
  <2>4. a \in 1..12 /\ above \in Levels[a] /\ b \in 1..12 /\ below \in Levels[b]
    BY <2>3, OperatorLevels
  <2>5. a # 3 /\ a # 12 /\ Rank(above) = RankOfLevel[a]
    BY <2>1, <2>4, RankIs DEF above
  <2>6. b # 12 /\ below \notin Comparisons
    <3>1. b # 12
      BY <2>3, <2>4, <2>5
    <3>2. \A op \in Levels[b] : op \in Comparisons => b = 12
      BY <2>4 DEF Levels, Comparisons
    <3> QED
      BY <2>4, <3>1, <3>2
  <2>7. b # 3 /\ Rank(below) = RankOfLevel[b]
    BY <2>1, <2>4, <2>6, RankIs
  <2> HIDE DEF a, b
  <2>8. \A x, y \in 1..12 : /\ x \notin {3, 12} /\ y \notin {3, 12} /\ y <= x
                            /\ RankOfLevel[x] < RankOfLevel[y]
                            => x = 9 /\ y = 8
    BY DEF RankOfLevel
  <2>9. b <= a
    BY <2>3 DEF a, b
  <2>10. a = 9 /\ b = 8
    BY <2>1, <2>4, <2>5, <2>6, <2>7, <2>8, <2>9
  <2>11. Levels[9] = {"bitxor_"} /\ Levels[8] = {"bitor_"}
    BY DEF Levels
  <2> QED
    BY <2>4, <2>10, <2>11 DEF above, below
<1> QED
  BY <1>1, ParserInvariant, PTL
--------------------------------------------------------------------------------
\* The level of the operators of a number in the table.
LevelOfRank == <<1, 2, 4, 5, 6, 12, 12, 7, 9, 8, 10, 11>>

LEMMA LevelOfRanked ==
  ASSUME NEW op, Ranked(op)
  PROVE  /\ Rank(op) \in 1..12 /\ Level(op) = LevelOfRank[Rank(op)] /\ op \notin Levels[3]
         /\ op \in FromRight <=> RightAssociative(Level(op))
<1>1. DOMAIN TableRank = 1..12
  BY DEF TableRank
<1>2. \A i, j \in 1..12 : \A o \in TableRank[i] : o \in TableRank[j] => i = j
  BY DEF TableRank
<1>3. PICK r \in 1..12 : op \in TableRank[r]
  BY <1>1 DEF Ranked
<1>4. Rank(op) = r
  <2>1. \A j : j \in DOMAIN TableRank /\ op \in TableRank[j] <=> j = r
    BY <1>1, <1>2, <1>3
  <2> QED
    BY <2>1 DEF Rank
<1>5. LevelOfRank[r] \in 1..12 /\ LevelOfRank[r] # 3
  BY DEF LevelOfRank
<1>6. \A i \in 1..12 : \A o \in TableRank[i] : o \in Levels[LevelOfRank[i]]
  BY DEF TableRank, Levels, LevelOfRank, Comparisons
<1>7. Level(op) = LevelOfRank[r]
  BY <1>3, <1>5, <1>6, LevelIs
<1>8. op \notin Levels[3]
  BY <1>5, <1>7, LevelIs
<1>9. op \in FromRight <=> r \in {2, 3}
  BY <1>2, <1>3 DEF FromRight
<1>10. RightAssociative(LevelOfRank[r]) <=> r \in {2, 3}
  BY DEF RightAssociative, LevelOfRank
<1> QED
  BY <1>4, <1>7, <1>8, <1>9, <1>10

\* Whatever the input, operators of one number in the table (ast/operators.hpp)
\* group from the left, but powers and products from the right (the infix_op_left
\* and infix_op_right of frontend/lexy.cpp).
THEOREM TreeGroupsSameRank == ParseSpec => []SameRankGrouping
<1>1. ParseInv => SameRankGrouping
  <2> SUFFICES ASSUME ParseInv, NEW n \in DOMAIN nodes, NEW i \in DOMAIN nodes[n].args,
                      SameRank(nodes[n].op, nodes[nodes[n].args[i]].op)
               PROVE  IF nodes[n].op \in FromRight
                      THEN nodes[nodes[n].args[i]].to = nodes[n].to
                      ELSE nodes[nodes[n].args[i]].from = nodes[n].from
    BY DEF SameRankGrouping
  <2> DEFINE node == nodes[n]  below == nodes[nodes[n].args[i]]
  <2>1. Ranked(node.op) /\ Ranked(below.op) /\ Rank(node.op) = Rank(below.op)
    BY DEF SameRank
  <2>2. /\ Level(node.op) = Level(below.op) /\ Level(node.op) \in Int
        /\ node.op \notin Levels[3]
        /\ node.op \in FromRight <=> RightAssociative(Level(node.op))
    <3>1. Level(node.op) = Level(below.op)
      BY <2>1, LevelOfRanked
    <3>2. Level(node.op) = LevelOfRank[Rank(node.op)] /\ Rank(node.op) \in 1..12
      BY <2>1, LevelOfRanked
    <3>3. \A r \in 1..12 : LevelOfRank[r] \in Int
      BY DEF LevelOfRank
    <3> QED
      BY <2>1, <3>1, <3>2, <3>3, LevelOfRanked
  <2>3. node.op # "atom" /\ below.op # "atom"
    <3>1. \A r \in 1..12 : "atom" \notin TableRank[r]
      BY DEF TableRank
    <3>2. DOMAIN TableRank = 1..12
      BY DEF TableRank
    <3> QED
      BY <2>1, <3>1, <3>2 DEF Ranked
  <2>4. Placed(nodes, input, n) /\ DOMAIN node.args = 1..Len(node.args)
    BY NodesAre DEF ParseInv
  <2>5. NodeLevel(below) = Level(node.op)
    BY <2>2, <2>3 DEF NodeLevel
  <2>6. node.op \notin PrefixOperators
    BY <2>2, GrammarAssumption DEF PrefixLevel
  <2>7. InfixNode(node, nodes[node.args[1]], nodes[node.args[2]], input)
    BY <2>3, <2>4, <2>6 DEF Placed, AtomNode, PrefixNode
  <2>8. i = 1 \/ i = 2
    BY <2>4, <2>7 DEF InfixNode
  <2>9. CASE i = 1
    <3>1. FitsLeft(below, node.op) /\ below.from = node.from
      BY <2>7, <2>9 DEF InfixNode
    <3>2. ~RightAssociative(Level(node.op))
      BY <2>2, <2>5, <3>1 DEF FitsLeft
    <3> QED
      BY <2>2, <3>1, <3>2
  <2>10. CASE i = 2
    <3>1. FitsRight(below, node.op) /\ below.to = node.to
      BY <2>7, <2>10 DEF InfixNode
    <3>2. RightAssociative(Level(node.op))
      BY <2>2, <2>5, <3>1 DEF FitsRight
    <3> QED
      BY <2>2, <3>1, <3>2
  <2> QED
    BY <2>8, <2>9, <2>10
<1> QED
  BY <1>1, ParserInvariant, PTL
================================================================================
