SPECIFICATION Spec
CONSTANTS
  Pids = {1, 2}
  Inodes = {1, 2}
  MaxEvents = 2
  V6Inodes = {2}
  MaxCopies = 2
INVARIANTS
  TypeOK
  EveryListenerOnce
  AttributionIsTrue
CHECK_DEADLOCK FALSE
