SPECIFICATION DarwinSpec
CONSTANTS
  Pids = {1, 2}
  Inodes = {1, 2, 3}
  MaxEvents = 1
  Ports = {1}
  SocketOf <- MCSocketOf
  Connected = {3}
  FdSlack = 0
INVARIANTS
  DarwinTypeOK
  NoListenerLostSilently
  ClaimsAreTrue
CHECK_DEADLOCK FALSE
