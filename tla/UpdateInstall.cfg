SPECIFICATION FairSpec
CONSTANTS
  Order <- Bundle
  Installed <- Before
  Current = 1
  Tags = {1, 2, 3}
  Unstable = {3}
  Archives <- Offers
  MaxAttempts = 2
  MaxPublished = 1
INVARIANTS
  TypeOK
  NothingLost
  
  OnlyVerified
  CancelHonoured
PROPERTIES
  AppHasExited
  UpdateSettles
CHECK_DEADLOCK FALSE
