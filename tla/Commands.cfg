SPECIFICATION MainSpec
CONSTANTS
  Cores = {1, 2}
  MaxPlugs = 2
  MaxArgs = 3
  ArgLists <- MCArgLists
INVARIANTS
  AskIsAsWritten
  HostAnswered
  BufferReturned
  OutcomeIsHonest
CHECK_DEADLOCK FALSE
