SPECIFICATION Spec
CONSTANTS
  Timeout = 1
  Window = 5
  FirstBackoff = 1
  SecondBackoff = 1
  Early = 1
  None = None
INVARIANTS EveryRequestIsAccepted CauseIsTimely SealedReportIsTrue
PROPERTIES AskEnds
CHECK_DEADLOCK FALSE
