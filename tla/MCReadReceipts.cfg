SPECIFICATION Spec
CONSTANTS
  Requests = {r1, r2, r3}
  Users = {u1, u2}
  Nobody = nobody
  Marks = {1, 2, 4}
  MaxOverlaps = 2
  MaxFailures = 1
SYMMETRY Symmetry
INVARIANTS
  MembersAreSent
  NewcomersStartRead
  UnsentIsHiddenInPeace
PROPERTIES
  OnlyStaleJoinRewinds
