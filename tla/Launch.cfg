\* Two requests, for one run id or two, while two credentials are posted.
SPECIFICATION Spec
CONSTANTS
  Launches = {l1, l2}
  Runs = {r1, r2}
  w = w
  v = v
  a = a
  c = c
  fake = fake
  Seats <- SeatsOfTwo
  Board <- RolesOfTwo
  Requests <- AskedAll
  Providers = {a, c}
  Custom = {c}
  MaxPosts = 2
SYMMETRY Symmetry
CHECK_DEADLOCK FALSE
INVARIANTS
  Recorded
  NeverUnkeyed
  RefusedLeavesNothing
