SPECIFICATION ParseSpec
CONSTANTS
  InfixOperators = {"eq", "boolor"}
  PrefixOperators = {}
  MaxOperators = 3
CHECK_DEADLOCK FALSE
INVARIANTS GroupsByTable
