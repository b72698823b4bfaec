SPECIFICATION Spec
CONSTANTS
  MaxEntry = 1
  MaxEntries = 1
  MaxFiles = 1
  MaxFile = 2
  MaxTotal = 2
  MaxWrites = 0
  MaxCall = 2
  MaxLoss = 0
INVARIANT PublishedIsVerified
CHECK_DEADLOCK FALSE
