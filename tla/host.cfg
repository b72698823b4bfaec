SPECIFICATION FairSpec
CONSTANTS
  Desktop = desktop
  Server = {s1, s2}
  NoProcess = NoProcess
  Process <- AllProcesses
  SchemaVersion = 3
  Root = {d1, d2}
  Place = {a1, a2}
  MaxTrouble = 2
INVARIANTS UpgradeHasBackup OwnerInControl
PROPERTIES ServedIsKept StartsAgain
CHECK_DEADLOCK FALSE
