SPECIFICATION FairSpec
CONSTANTS
  Task = {t1, t2}
  NoTask = NoTask
  Late = {t2}
  Call = {k1, k2}
  NoCall = NoCall
  Page = 1
  Window = 1
  WireSize = {1}
  ResponseLimit = 3
  MaxLog = 2
INVARIANTS ShownIsStored CacheIsPrefix PageIsContiguous
PROPERTIES PageCatchesUp
