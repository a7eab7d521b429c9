SPECIFICATION Spec
CONSTANTS
  PathMax = 5
  SizeMax = 16
  Lengths <- MCLengths
CHECK_DEADLOCK FALSE
INVARIANTS TypeOK InBounds WholeName LengthDecides
