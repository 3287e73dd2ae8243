SPECIFICATION Spec
CONSTANTS
  Requests = {r1, r2, r3, r4}
  Kinds = {"login", "refresh", "logout", "connect", "block", "allow", "delete"}
  FirstToken = t0
  NoToken = NoToken
  MaxOverlaps = 2
  MaxFailures = 1
SYMMETRY Symmetry
INVARIANTS
  BlockedIsOutInPeace
  RotatedOnce
  BlockIsFinal
PROPERTIES
  ReuseRevokes
