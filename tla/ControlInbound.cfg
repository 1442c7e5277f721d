SPECIFICATION FairSpec
CONSTANTS
  Sizes = {a, b}
  None = None
  FirstSize = a
  Reads = 1
  MaxChunk = 2
  PendingLimit = 3
  FileBacklog = 1
  Stabilise = 1
  OfferAgain = 0
  MaxRequeries = 1
  Deadline = 1
  MaxUnits = 2
  MaxNet = 2
  MaxFiles = 2
  MaxLayouts = 3
  MaxPlain = 1
  MaxFaults = 1
  MaxEvents = 2
INVARIANTS
  TypeOK
  OneRequest
  LayoutTracked
PROPERTIES
  StreamsSpec
  OffersSettle
CHECK_DEADLOCK FALSE
