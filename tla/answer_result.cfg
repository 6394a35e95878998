SPECIFICATION FairSpec
CONSTANTS
  Asks = {a1}
  Ids = {id1}
  NAssets = 1
  None = None
  Foreign = Foreign
INVARIANTS ResultIffCommitted
CHECK_DEADLOCK FALSE
