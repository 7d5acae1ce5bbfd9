SPECIFICATION Spec
CONSTANTS
  VarNames = {}
  Hints <- FlowHints
  Literals <- FlowLiterals
  Operators = {"as"}
  Callees = {}
  Signatures <- FlowSignatures
  Statements = {"if"}
  MaxFunctions = 1
  MaxDepth = 3
INVARIANTS BranchTargetsInserted
