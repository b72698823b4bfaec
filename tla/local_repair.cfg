SPECIFICATION FairSpec
CONSTANTS
  MaxRequest = 2
  Action = {check}
  Read = {q1, q2}
INVARIANTS UnsavedIsShown
PROPERTIES SuccessIsEarned ShownNeverOlder RepairSettles DetailSettles
CHECK_DEADLOCK FALSE
