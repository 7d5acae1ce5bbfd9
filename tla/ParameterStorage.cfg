SPECIFICATION Spec
CONSTANTS
  VarNames = {"n"}
  Hints = {}
  Literals = {}
  Operators = {}
  Callees = {}
  Signatures <- FibSignatures
  Statements = {"discard"}
  MaxFunctions = 1
  MaxDepth = 3
INVARIANTS ParametersReadable
