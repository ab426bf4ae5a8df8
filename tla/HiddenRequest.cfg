SPECIFICATION Spec
CONSTANTS
  Values = {v1}
  Parts = {"say"}
  Policies = {{"summary"}}
  MaxOverlays = 1
  MaxClock = 5
  MaxLength = 5
INVARIANT HiddenIsSummarized
