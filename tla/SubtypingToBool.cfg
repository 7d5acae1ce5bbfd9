SPECIFICATION Spec
CONSTANTS
  Widths <- MCWidths
  Types <- MCTypes
INVARIANT NumericToBoolIsNumeric
CHECK_DEADLOCK FALSE
