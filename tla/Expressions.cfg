SPECIFICATION Spec
CONSTANTS
  BitWidth <- MCBitWidth
  Half <- MCHalf
  InfixOperators <- MCInfix
  PrefixOperators = {"unary_minus"}
  MaxOperators = 3
  UnsignedLiterals <- MCUnsigned
  SignedLiterals <- MCSigned
  Hints = {"i64", "u16", "bool"}
  Printers = {"put_i64", "put_u64"}
  MaxWalked = 2
CHECK_DEADLOCK FALSE
INVARIANTS TypeOK SameRankGrouping TableRespectedElsewhere ValueSound LiteralNarrowest UndefinedOnlyIfMeaningless PrintedIsMeaning
