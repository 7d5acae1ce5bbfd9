SPECIFICATION Spec
CONSTANTS
  VarNames = {}
  Hints = {}
  Literals <- FlowLiterals
  Operators = {}
  Callees = {}
  Signatures <- FlowSignatures
  Statements = {"discard"}
  MaxFunctions = 1
  MaxDepth = 3
INVARIANTS VoidFunctionsReturn
