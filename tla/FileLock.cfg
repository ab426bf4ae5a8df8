CONSTANTS
  Processes = {p1, p2, p3}
  Interactive = {p1, p2}
  Files = {1, 2, 3, 4, 5}
  MaxPolls = 1
SPECIFICATION Spec
INVARIANTS
  TypeOK
  NoStrayLock
  ExclusiveWhileInPlace
PROPERTY WaitEnds
