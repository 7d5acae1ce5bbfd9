SPECIFICATION Spec
CONSTANTS
  VarNames = {}
  Hints = {"f32"}
  Literals <- FlowLiterals
  Operators = {"as"}
  Callees = {"put_i64", "put_f64"}
  Signatures <- FlowSignatures
  Statements = {"discard"}
  MaxFunctions = 1
  MaxDepth = 4
INVARIANTS CalleesHaveOneType
