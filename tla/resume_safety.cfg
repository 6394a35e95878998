SPECIFICATION Spec
CONSTANTS
  MaxRuns = 3
  Releases = 2
INVARIANTS
  OneSuccessPerInput
  PassedIsDerived
  AdvanceIsReported
  LostOnlyWhenScarred
PROPERTIES
  WorkStaysDone
  ResumeEnds
  Converges
CHECK_DEADLOCK FALSE
