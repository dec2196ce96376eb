SPECIFICATION Spec
CONSTANTS
  MaxPanes = 2
  Workspaces = {w1, w2}
  Other = other
  None = None
  MaxTabs = 2
  MaxBumps = 1
  MaxFails = 1
  MaxReloads = 1
  MaxOvertakes = 1
INVARIANTS ClosedStayClosed NothingLeftOver
PROPERTY StartingEnds
CHECK_DEADLOCK FALSE
