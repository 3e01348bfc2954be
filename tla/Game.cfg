\* A guard against a witch, two hunters, one of them human, and the scribe;
\* the budget may run out in the second round, which is the last.
SPECIFICATION Spec
CONSTANTS
  N = 6
  Role <- Board
  HumanSeats = {4}
  MaxDayRounds = 2
  MaxRequests = 24
  Scaffold = TRUE
INVARIANTS
  TypeOK
  NoDoubleDeath
  RoundOutcome
  HunterRuling
  ConsumedOnce
  NoConsecutiveGuard
  NoTurnAfterDecision
  FailsClosed
PROPERTIES
  Termination
