SPECIFICATION FairSpec
CONSTANTS
  Chunk = 8
  Address = 5
  Plan <- MCPlan
  Later <- MCLater
  Foreign <- MCForeign
  Retries = 3
  MaxFaults = 4
INVARIANTS ReplyRight ConfiguredRight
PROPERTIES Enumerates
