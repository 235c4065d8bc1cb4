SPECIFICATION Spec
CONSTANTS
  Pids = {1, 2, 3}
  Tids = {1}
  MainTid = 1
  MaxEvents = 0
  MaxRoots = 2
INVARIANTS
  NothingLostSilently
CHECK_DEADLOCK FALSE
