SPECIFICATION Spec
CONSTANTS
  Asks = {a1, a2, a3}
  Ids = {id1, id2, id3}
  NAssets = 1
  None = None
  Foreign = Foreign
SYMMETRY Symmetry
INVARIANTS
  FormalAnswersAreWhole
  ScanIsExact
  NoCommitMeansNone
  CommitFailedIsRecoverable
PROPERTIES
  StagedWorkIsKept
  ImplementsStore
CHECK_DEADLOCK FALSE
