\* Two wolves, a guard, a witch, a human hunter and a seer; two rounds, and a
\* budget that is never exhausted.
SPECIFICATION AuditSpec
CONSTANTS
  N = 6
  Role <- Board
  Considers <- Names
  HumanSeats = {5}
  MaxDayRounds = 2
  MaxRequests = 60
  Scaffold = FALSE
INVARIANTS
  AuditPasses
  NoLeak
  ReportAgrees
  ScoresAgree
  AliveFollows
  ReasonsJoin
