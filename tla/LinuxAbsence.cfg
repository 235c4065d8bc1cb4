SPECIFICATION Spec
CONSTANTS
  Pids = {1, 2}
  Inodes = {1, 2}
  MaxEvents = 2
  BucketOf <- MCBucketOf
  LastBucket = 1
  PidsPerWorker = 1
  MaxWorkers = 2
INVARIANTS
  AbsenceWasReal
CHECK_DEADLOCK FALSE
