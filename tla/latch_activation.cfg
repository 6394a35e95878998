SPECIFICATION FairSpec
CONSTANTS
  Handlers = {h1}
  MaxGeneration = 2
  MaxToken = 1
  None = None
PROPERTIES AcceptedIsNotAFault
CHECK_DEADLOCK FALSE
