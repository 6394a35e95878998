SPECIFICATION Spec
CONSTANTS
  MaxRuns = 3
  Releases = 2
INVARIANTS
  ReaderRunsAreValid
CHECK_DEADLOCK FALSE
