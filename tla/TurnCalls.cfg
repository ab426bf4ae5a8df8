CONSTANTS
  MaxChunks = 1
  MaxCalls = 2
  MaxPresses = 1
  MaxFaults = 3
  MaxRetries = 1
  MaxRebuilds = 1
  MaxMetadata = 1
  ReuseIds = FALSE
SPECIFICATION Spec
INVARIANTS
  RequestIsWellFormed
  FollowUpIsDurable
  EveryCallAnswered
PROPERTY ImplementsDialogue
