\* Four events, one hidden, against an interrupt and a disconnect.
SPECIFICATION Spec
CONSTANTS
  Total = 4
  Visible = {1, 3, 4}
  Tries = 3
CHECK_DEADLOCK FALSE
INVARIANTS
  TypeOK
  InOrder
  NothingLost
PROPERTIES
  Tailed
  StreamEnds
