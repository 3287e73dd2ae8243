SPECIFICATION Spec
CONSTANTS
  Requests = {r1, r2, r3, r4}
  MaxOverlaps = 2
  MaxFailures = 1
SYMMETRY Symmetry
INVARIANTS
  NobodyIsLost
  QueueIsClean
PROPERTIES
  BlockIsKept
