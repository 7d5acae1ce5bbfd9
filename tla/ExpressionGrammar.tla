--------------------------- MODULE ExpressionGrammar ---------------------------
(***************************************************************************)
(* The grammar of expressions, expr_prod of frontend/lexy.cpp: how a       *)
(* sequence of atoms and operators becomes a tree.  The grammar is a chain *)
(* of levels, each with its operators, its associativity and the level of  *)
(* its operands; lexy parses it by reading one operator ahead.  An atom    *)
(* stands for a literal, a name, a call or a parenthesized expression.     *)
(***************************************************************************)
EXTENDS Naturals, Sequences, SequencesExt

CONSTANTS InfixOperators,   \* the infix operators of the inputs
          PrefixOperators,  \* the prefix operators of the inputs
          MaxOperators      \* bound on the operators of one input

Comparisons == {"lsr", "leq", "geq", "grt", "eq", "neq"}

\* (mutant) bit_and and bitshift name each other's operand
ShiftsAboveAnd ==
  << {"as"}, {"pow"}, {"unary_plus", "unary_minus", "bitnegate"},
     {"multiply", "divide", "modulo"}, {"plus", "minus"}, {"bitand_"},
     {"bitshift_right_", "bitshift_left_"}, {"bitor_"}, {"bitxor_"},
     {"booland"}, {"boolor"}, Comparisons >>

\* The chain of `operand`s, the tightest level first
Levels ==
  << {"as"}, {"pow"}, {"unary_plus", "unary_minus", "bitnegate"},
     {"multiply", "divide", "modulo"}, {"plus", "minus"},
     {"bitshift_right_", "bitshift_left_"}, {"bitand_"}, {"bitor_"},
     {"bitxor_"}, {"booland"}, {"boolor"}, Comparisons >>

Level(op) == CHOOSE i \in DOMAIN Levels : op \in Levels[i]
PrefixLevel == 3

\* (mutant) products are infix_op_left, as sums are
PowersOnlyFromRight(level) == level = 2

\* The levels that are infix_op_right: powers, and products
RightAssociative(level) == level \in {2, 4}

ASSUME GrammarAssumption ==
  /\ InfixOperators \subseteq UNION {Levels[i] : i \in DOMAIN Levels \ {PrefixLevel}}
  /\ PrefixOperators \subseteq Levels[PrefixLevel]
  /\ MaxOperators \in Nat

VARIABLES
  nodes,      \* the nodes made so far; a node names its operands by their places
  open,       \* the operators whose right operand is still to come, the last innermost
  operand,    \* the node just completed, or 0
  lookahead,  \* the operator read ahead: "none" yet, or "end"
  expects,    \* what is read next: "operand", "operator", or "nothing"
  input       \* (history) what has been read

grammarVars == <<nodes, open, operand, lookahead, expects, input>>

\* A node of the tree, and (history) the part of the input it was read from
Node(op, args, from, to) == [op |-> op, args |-> args, from |-> from, to |-> to]

\* An operator that waits: where it was read, and its left operand, or 0
Waiting(op, at, left) == [op |-> op, at |-> at, left |-> left]

OperatorsRead == Len(SelectSeq(input, LAMBDA token : token # "atom"))

Complete(node) == nodes' = Append(nodes, node) /\ operand' = Len(nodes) + 1

ReadAtom ==
  /\ expects = "operand"
  /\ input' = Append(input, "atom") /\ expects' = "operator"
  /\ Complete(Node("atom", << >>, Len(input'), Len(input')))
  /\ UNCHANGED <<open, lookahead>>

\* Before an atom, at the start or as an operand of a weaker operator
ReadPrefix(op) ==
  /\ expects = "operand" /\ OperatorsRead < MaxOperators
  /\ open # << >> => Level(Last(open).op) > PrefixLevel
  /\ input' = Append(input, op)
  /\ open' = Append(open, Waiting(op, Len(input'), 0))
  /\ UNCHANGED <<nodes, operand, lookahead, expects>>

ReadAhead(op) ==
  /\ expects = "operator" /\ lookahead = "none"
  /\ op # "end" => OperatorsRead < MaxOperators
  /\ lookahead' = op
  /\ UNCHANGED <<nodes, open, operand, expects, input>>

\* Between two operators, the operand belongs to the left one
BindsBefore(left, right) ==
  right # "end" =>
    Level(left) < Level(right)
    \/ (Level(left) = Level(right) /\ ~RightAssociative(Level(left)))

\* The operator read ahead does not take the operand from the one before it
Reduce ==
  /\ lookahead # "none" /\ open # << >> /\ BindsBefore(Last(open).op, lookahead)
  /\ LET last == Last(open)
     IN  Complete(IF last.left = 0
                  THEN Node(last.op, <<operand>>, last.at, nodes[operand].to)
                  ELSE Node(last.op, <<last.left, operand>>,
                            nodes[last.left].from, nodes[operand].to))
  /\ open' = Front(open)
  /\ UNCHANGED <<lookahead, expects, input>>

Shift ==
  /\ lookahead \notin {"none", "end"}
  /\ open # << >> => ~BindsBefore(Last(open).op, lookahead)
  /\ input' = Append(input, lookahead)
  /\ open' = Append(open, Waiting(lookahead, Len(input'), operand))
  /\ operand' = 0 /\ lookahead' = "none" /\ expects' = "operand"
  /\ UNCHANGED nodes

Finish ==
  /\ lookahead = "end" /\ open = << >> /\ expects = "operator"
  /\ expects' = "nothing"
  /\ UNCHANGED <<nodes, open, operand, lookahead, input>>

Parsed == expects = "nothing"

ParseInit ==
  /\ nodes = << >> /\ open = << >> /\ operand = 0
  /\ lookahead = "none" /\ expects = "operand" /\ input = << >>

ParseNext ==
  \/ ReadAtom \/ Reduce \/ Shift \/ Finish
  \/ \E op \in PrefixOperators : ReadPrefix(op)
  \/ \E op \in InfixOperators \cup {"end"} : ReadAhead(op)

ParseSpec == ParseInit /\ [][ParseNext]_grammarVars
--------------------------------------------------------------------------------
\* The numbers of the comments in ast/operators.hpp, the smallest the tightest
TableRank ==
  << {"as"}, {"pow"}, {"multiply", "divide", "modulo"}, {"plus", "minus"},
     {"bitshift_right_", "bitshift_left_"}, {"lsr", "leq", "geq", "grt"},
     {"eq", "neq"}, {"bitand_"}, {"bitxor_"}, {"bitor_"}, {"booland"}, {"boolor"} >>
Rank(op) == CHOOSE i \in DOMAIN TableRank : op \in TableRank[i]
Ranked(op) == \E i \in DOMAIN TableRank : op \in TableRank[i]

\* An operator above one that the table would have grouped the other way
Inverted(op, below) == Ranked(op) /\ Ranked(below) /\ Rank(op) < Rank(below)

\* The grammar groups as the table of operators does, but for comparisons, which
\* it lets bind the weakest and does not tell from each other, and for `^` above `|`.
TableRespectedElsewhere ==
  \A n \in DOMAIN nodes : \A i \in DOMAIN nodes[n].args :
    LET below == nodes[nodes[n].args[i]].op
    IN  Inverted(nodes[n].op, below) =>
          nodes[n].op \in Comparisons \/ (nodes[n].op = "bitxor_" /\ below = "bitor_")

\* Operators of one number group from the left, `8 - 4 - 2` and `1 < 2 >= 0` alike,
\* but powers and products from the right, `8 / 4 * 2` as `8 / (4 * 2)`: an operand
\* whose operator has the number of the one above it ends where that one's part of
\* the input ends, or else starts where it starts.
FromRight == TableRank[2] \cup TableRank[3]
SameRank(op, below) == Ranked(op) /\ Ranked(below) /\ Rank(op) = Rank(below)

SameRankGrouping ==
  \A n \in DOMAIN nodes : \A i \in DOMAIN nodes[n].args :
    LET below == nodes[nodes[n].args[i]]
    IN  SameRank(nodes[n].op, below.op) =>
          IF nodes[n].op \in FromRight THEN below.to = nodes[n].to
                                       ELSE below.from = nodes[n].from

\* "// 6 lsr, ... // 11 booland, // 12 boolor" (ast/operators.hpp): an operator
\* with a smaller number binds before one with a larger number.
GroupsByTable ==
  \A n \in DOMAIN nodes : \A i \in DOMAIN nodes[n].args :
    ~Inverted(nodes[n].op, nodes[nodes[n].args[i]].op)
================================================================================
