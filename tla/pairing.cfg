SPECIFICATION Spec
CONSTANTS
  Desktop = {d1, d2}
  NoDesktop = NoDesktop
  Attempts = 1
  MaxSession = 2
  MaxIssue = 2
  MaxWire = 2
SYMMETRY DesktopSymmetry
INVARIANTS OneControllerPerSession ConnectionIsOwn
PROPERTIES SpentIssuesNothing
CHECK_DEADLOCK FALSE
