SPECIFICATION Spec
CONSTANTS
  MaxRuns = 3
  Releases = 2
INVARIANTS
  OnlyLossIsLost
CHECK_DEADLOCK FALSE
