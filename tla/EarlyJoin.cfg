\* A client joins a profile launch before its thread configures the seat.
SPECIFICATION Spec
CONSTANTS
  Seats = {h}
  HumanSeat = h
  Joins = {j1}
  Submits = {s1}
  Keys = {k1}
  ConfiguredByHandler = FALSE
  MaxSeq = 3
CHECK_DEADLOCK FALSE
INVARIANTS
  FailedRunLeavesNoLog
