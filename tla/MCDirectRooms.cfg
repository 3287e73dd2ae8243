SPECIFICATION Spec
CONSTANTS
  Users = {u1, u2}
  Requests = {r1, r2, r3}
  Nobody = Nobody
  MaxOverlaps = 2
  MaxFailures = 1
  MaxChanges = 1
SYMMETRY Symmetry
INVARIANTS
  TypeOK
  RoomIsSeen
PROPERTIES
  ImplementsPair
  BothWereActive
