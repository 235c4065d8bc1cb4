SPECIFICATION Spec
CONSTANTS
  Pids = {1, 2, 3, 4}
  Inodes = {1}
  MaxEvents = 1
  BucketOf <- MCBucketOf
  LastBucket = 0
  PidsPerWorker = 1
  MaxWorkers = 2
INVARIANTS
  SteadyHolderClaimed
CHECK_DEADLOCK FALSE
