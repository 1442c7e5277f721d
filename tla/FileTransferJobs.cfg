SPECIFICATION Spec
CONSTANTS
  MaxSession = 1
  MaxJob = 2
  MaxId = 3
  IncomingCap = 1
  OutgoingCap = 1
  MaxChunk = 1
  MaxReply = 3
  Requests <- DownloadUpload
  MacRepeats = FALSE
INVARIANTS
  TypeOK
  CompletionConfirmed
  
  UploadDeliveredInFull
  FailedTransferIsLast
PROPERTY PublishedComplete
CHECK_DEADLOCK FALSE
