SPECIFICATION PackedSpec
CONSTANTS
  MaxEntry = 4
  MaxEntries = 3
  MaxFiles = 2
  MaxFile = 2
  MaxTotal = 2
  MaxWrites = 1
  MaxCall = 2
  MaxLoss = 1
INVARIANTS SnapshotInv CompleteIsAcceptable PartialIsPrefix
PROPERTIES ImplementsDelivery ResumeCompletes
CHECK_DEADLOCK FALSE
