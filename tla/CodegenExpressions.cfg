SPECIFICATION Spec
CONSTANTS
  VarNames = {}
  Hints <- ExprHints
  Literals <- ExprLiterals
  Operators <- ExprOperators
  Callees <- ExprCallees
  Signatures <- ExprSignatures
  Statements = {"return", "if"}
  MaxFunctions = 1
  MaxDepth = 4
INVARIANTS InferenceSound CallsWellTyped
