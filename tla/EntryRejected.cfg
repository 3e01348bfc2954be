\* A wolf may give no usable answer; nobody else need be varied.
SPECIFICATION AuditSpec
CONSTANTS
  N = 6
  Role <- Board
  Considers <- FailingWolf
  HumanSeats = {}
  MaxDayRounds = 1
  MaxRequests = 60
  Scaffold = FALSE
PROPERTY
  EntriesAccepted
