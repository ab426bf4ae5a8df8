SPECIFICATION Spec
CONSTANTS
  Procs = {w1, w2}
  NoProc = NoProc
  Writers = {w1, w2}
  Commands = {"save", "create", "project", "archive", "unarchive", "remove"}
  Eager = {w1}
  Legacy = {{"user"}, {"workspace", "user"}}
  MaxEdits = 2
  MaxSaves = 2
  MaxStarts = 3
  MaxCrashes = 1
INVARIANTS TypeOK LostByLapseOnly LockedWithLatest
PROPERTIES WritesKeepReadable
CONSTRAINT Unlapsed
CHECK_DEADLOCK FALSE
