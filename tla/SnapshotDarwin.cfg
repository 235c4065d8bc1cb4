SPECIFICATION Spec
CONSTANTS
  Pids = {1, 2, 3}
  MaxEvents = 2
  Asks <- MCAsks
INVARIANTS
  TypeOK
  EveryAskAnswered
  FactsAreTheirs
CHECK_DEADLOCK FALSE
