SPECIFICATION SealingSpec
CONSTANTS
  Handlers = {h1, h2, h3}
  MaxGeneration = 2
  MaxToken = 4
  None = None
PROPERTIES
  DeliveriesReturn
  SealingEnds
CHECK_DEADLOCK FALSE
