CONSTANTS
  Candidates <- MCTwo
  MaxRevision <- MCFourAndOne
  None = None
SPECIFICATION Spec
INVARIANTS ReviewIsWellFormed ReceiptsAreFacts SettledMeansInAgreement
PROPERTY SupersededStaysOut
