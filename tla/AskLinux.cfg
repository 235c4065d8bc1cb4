SPECIFICATION FairSpec
CONSTANTS
  Pids = {1, 2}
  Inodes = {1}
  MaxEvents = 2
  ProvesAbsence = TRUE
  MayBeUnclaimed = TRUE
INVARIANTS
  TypeOK
  FreeIsProof
  HeldIsTrue
  OnlyWholeDocuments
  WholeDocumentIsHeard
PROPERTIES
  AskSettles
  NoOrphan
CHECK_DEADLOCK FALSE
