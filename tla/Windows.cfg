\* One client, a retried and a racing submission, against the deadline.
SPECIFICATION Spec
CONSTANTS
  Seats = {h}
  HumanSeat = h
  Joins = {j1}
  Submits = {s1, s2}
  Keys = {k1, k2}
  ConfiguredByHandler = FALSE
  MaxSeq = 3
CHECK_DEADLOCK FALSE
INVARIANTS
  RetriesAgree
PROPERTIES
  OneDecision
  CursorNeverBack
  TurnsEnd
  AnswersCount
