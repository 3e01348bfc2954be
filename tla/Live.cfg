\* Two seats with a provider of their own or one for both, and budgets that run
\* out before, at and after the fewest turns at which four in five can fail.
SPECIFICATION Spec
CONSTANTS
  Seats = {"p1", "p2"}
  Limits = {0, 1, 3, 6}
  MaxHuman = 1
CHECK_DEADLOCK FALSE
INVARIANTS
  HonestRate
  ReasonTrue
