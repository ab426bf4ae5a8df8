SPECIFICATION Spec
CONSTANTS
  Procs = {writer, other}
  NoProc = NoProc
  Writers = {writer, other}
  Commands = {"save"}
  Eager = {writer, other}
  Legacy = {}
  MaxEdits = 3
  MaxSaves = 2
  MaxStarts = 2
  MaxCrashes = 0
INVARIANT NothingIsLost
CHECK_DEADLOCK FALSE
