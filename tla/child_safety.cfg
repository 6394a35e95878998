SPECIFICATION Spec
CONSTANTS
  Prompt = 2
  EventsCap = 1
  MaxOut = 2
  Timeout = 1
  Shared <- MCShared
  None = None
INVARIANTS TreeIsGone OrdinaryExitIsComplete
PROPERTIES DeliveryFailureIsGenuine ImplementsAttempt AttemptEnds
CHECK_DEADLOCK FALSE
