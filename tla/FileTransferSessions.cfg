SPECIFICATION FairSpec
CONSTANTS
  MaxSession = 2
  MaxJob = 2
  MaxId = 3
  IncomingCap = 1
  OutgoingCap = 1
  MaxChunk = 0
  MaxReply = 1
  Requests <- Downloads
  MacRepeats = FALSE
INVARIANT BusyCoversJob
PROPERTIES
  TransfersSettle
CHECK_DEADLOCK FALSE
