\* Every answer of every seat, with a provider that may run out at any of them.
SPECIFICATION Spec
CONSTANT
  Limits = {0, 1, 2, 3, 4, 5, 7, 8, 9, 11, 12, 32}
CHECK_DEADLOCK FALSE
INVARIANT
  LogsAccepted
PROPERTY
  BudgetFailsClosed
