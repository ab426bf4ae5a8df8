CONSTANTS
  MaxChunks = 1
  MaxCalls = 2
  MaxPresses = 2
  MaxFaults = 0
  MaxRetries = 1
  MaxRebuilds = 1
  MaxMetadata = 0
  ReuseIds = TRUE
SPECIFICATION Spec
INVARIANT EveryCallAnswered
