SPECIFICATION Spec
CONSTANTS
  Widths <- MCWidths
  Types <- MCTypes
INVARIANTS TypeOK ConvertsToTarget TransitiveButForBool AntisymmetricButForBool
PROPERTIES ImplementsRelation Terminates
CHECK_DEADLOCK FALSE
