SPECIFICATION Spec
CONSTANTS
  Pids = {1, 2, 3}
  Tids = {1, 2}
  MainTid = 1
  MaxEvents = 2
  MaxRoots = 2
INVARIANTS
  TypeOK
  RootsAnsweredOnce
  ListedWasBegotten
  WholeUnlessRefused
PROPERTY WorkRunsOut
CHECK_DEADLOCK FALSE
