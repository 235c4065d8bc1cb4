SPECIFICATION Spec
CONSTANTS
  Pids = {1, 2}
  MaxEvents = 2
  Asks <- MCAsks
INVARIANTS
  TypeOK
  EveryAskAnswered
  SharedFileIsOneInstant
  RowsAreTheirs
  IdentityIsTrue
CHECK_DEADLOCK FALSE
