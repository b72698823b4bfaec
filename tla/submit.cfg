SPECIFICATION FairSpec
CONSTANTS
  Request = {r1}
  NoRequest = NoRequest
  Sync = {s1, s2}
  MaxPair = 2
INVARIANTS OneTaskPerRequest
PROPERTIES NoAcceptAfterRevoke ImplementsOnce LockReleased
