SPECIFICATION Spec
CONSTANTS
  Task = {t1, t2}
  ResultDir = {t1, t2}
  Canceller = {c1}
  Owner = owner
  NoTask = NoTask
  Concurrency = 1
  MaxWaiting = 2
  MaxRestarts = 0
INVARIANT ResultSettled
CHECK_DEADLOCK FALSE
