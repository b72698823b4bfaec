SPECIFICATION Spec
CONSTANTS
  Task = {t1, t2}
  ResultDir = {t1, t2}
  Canceller = {c1}
  Owner = owner
  NoTask = NoTask
  Concurrency = 1
  MaxWaiting = 1
  MaxRestarts = 0
SYMMETRY TaskSymmetry
INVARIANTS ConfirmedMeansEnded StartedIsOwned NoLostCancel AbortReachesAll
PROPERTIES NoAcceptAfterStop
CHECK_DEADLOCK FALSE
