CONSTANTS
  MaxChunks = 1
  MaxCalls = 1
  MaxPresses = 2
  MaxFaults = 1
  MaxRetries = 1
  MaxRebuilds = 1
  MaxMetadata = 2
  ReuseIds = FALSE
SPECIFICATION Spec
INVARIANTS
  TypeOK
  ContentSurvives
  ContentIsNotRepeated
  FruitlessRequestsBounded
PROPERTIES
  ReplayIsAtomic
  TurnEnds
