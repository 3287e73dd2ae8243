SPECIFICATION Spec
CONSTANTS
  Users = {u1, u2, u3}
  Requests = {r1, r2}
  Nobody = Nobody
  MaxOverlaps = 1
  MaxFailures = 0
SYMMETRY Symmetry
INVARIANTS
  OneOwner
