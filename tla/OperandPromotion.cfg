SPECIFICATION Spec
CONSTANTS
  VarNames = {"x"}
  Hints = {"i8"}
  Literals <- SameSignLiterals
  Operators = {"plus"}
  Callees = {}
  Signatures <- FlowSignatures
  Statements = {"let", "discard"}
  MaxFunctions = 1
  MaxDepth = 3
INVARIANTS OperandsPromoted
