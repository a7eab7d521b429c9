SPECIFICATION Spec
CONSTANTS
  Sessions <- MCSessions
  Begin <- MCBegin
  CommandSize = 2
  LengthSize = 2
  PathMax = 2
  OldLengths <- MCOldLengths
CHECK_DEADLOCK FALSE
INVARIANTS CommandSent AtBoundary StringWhole
