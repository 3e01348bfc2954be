\* Interrupt, delete, relaunch and a restart against the run threads.
SPECIFICATION Spec
CONSTANTS
  Launches = {l1, l2}
  Interrupts = {i1}
  Deletes = {d1}
  MaxCrashes = 1
CHECK_DEADLOCK FALSE
INVARIANTS
  NoZombie
  
PROPERTIES
  Settles
