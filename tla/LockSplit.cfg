CONSTANTS
  Processes = {p1, p2}
  Interactive = {p1, p2}
  Files = {1, 2, 3, 4}
  MaxPolls = 0
SPECIFICATION Spec
INVARIANT MutualExclusion
