SPECIFICATION Spec
CONSTANTS
  Task = {t1, t2}
  ResultDir = {t1, t2}
  Canceller = {}
  Owner = owner
  NoTask = NoTask
  Concurrency = 1
  MaxWaiting = 1
  MaxRestarts = 1
SYMMETRY TaskSymmetry
INVARIANTS AtMostOnce
PROPERTIES ResultIsFinal ImplementsLifecycle
CHECK_DEADLOCK FALSE
