SPECIFICATION Spec
CONSTANTS
  Procs = {writer}
  NoProc = NoProc
  Writers = {writer}
  Commands = {"save"}
  Eager = {}
  Legacy = {{"workspace", "user"}}
  MaxEdits = 3
  MaxSaves = 2
  MaxStarts = 2
  MaxCrashes = 1
INVARIANT NothingIsLost
CHECK_DEADLOCK FALSE
