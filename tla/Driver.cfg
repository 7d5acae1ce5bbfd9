SPECIFICATION DriverSpec
CONSTANTS
  VarNames = {}
  Hints <- MCHints
  Literals <- MCLiterals
  Operators = {}
  Callees <- MCCallees
  Signatures <- MCSignatures
  Statements = {"discard", "return", "if"}
  MaxFunctions = 2
  MaxDepth = 5
INVARIANTS DriverTypeOK BranchOnlyBeforeElif CalledAsImplemented LastMappingAlike
PROPERTIES ZeroMeansMainRan
