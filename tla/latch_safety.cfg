SPECIFICATION Spec
CONSTANTS
  Handlers = {h1, h2}
  MaxGeneration = 2
  MaxToken = 2
  None = None
INVARIANTS
  LatchedIsPublished
  SealedIsQuiet
  SealedReportIsCurrent
  NoPhantomInterruption
PROPERTIES
  ImplementsWindow
CHECK_DEADLOCK FALSE
