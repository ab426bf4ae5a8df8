SPECIFICATION Spec
CONSTANTS
  Values = {v1, v2}
  Parts = {"think"}
  Policies = {{"summary"}, {"omit", "reasoning"}}
  MaxOverlays = 2
  MaxClock = 6
  MaxLength = 5
SYMMETRY Symmetry
INVARIANTS TypeOK RequestsAccepted SummariesFit SummariesNest OriginsPartition ForkKeepsConfig
