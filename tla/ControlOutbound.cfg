SPECIFICATION FairSpec
CONSTANTS
  BacklogLimit = 5
  BulkLimit = 2
  FlushBudget = 3
  FlushAttempts = 2
  MaxRecord = 2
  StallTime = 1
  MaxSeq = 4
  MaxNet = 1
  MaxInterrupt = 1
INVARIANTS
  TypeOK
  StallIsReal
PROPERTIES
  StreamSpec
  EverythingLeaves
CHECK_DEADLOCK FALSE
