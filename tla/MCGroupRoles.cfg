SPECIFICATION Spec
CONSTANTS
  Users = {u1, u2, u3}
  Requests = {r1, r2, r3}
  Nobody = Nobody
  MaxOverlaps = 1
  MaxFailures = 1
SYMMETRY Symmetry
INVARIANTS
  OneOwnerInPeace
  ChangesAreAnnounced
  MembersSeeTheRoom
PROPERTIES
  RemovalRespectsRank
  OwnershipIsGiven
