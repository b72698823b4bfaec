SPECIFICATION FairSpec
CONSTANTS
  Task = {t1, t2}
  ResultDir = {}
  Canceller = {}
  Owner = owner
  NoTask = NoTask
  Concurrency = 1
  MaxWaiting = 1
  MaxRestarts = 0
PROPERTIES StopReturns TaskSettles CancelConverges
CHECK_DEADLOCK FALSE
