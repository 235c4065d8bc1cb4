SPECIFICATION FairSpec
CONSTANTS
  Pids = {1, 2}
  Inodes = {1, 2}
  MaxEvents = 2
  ProcSlack = 0
  FdSlack = 0
  Attempts = 2
INVARIANTS
  TypeOK
  SteadyHolderClaimed
PROPERTIES
  ImplementsOccupancy
  Terminates
CHECK_DEADLOCK FALSE
