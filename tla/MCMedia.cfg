SPECIFICATION Spec
CONSTANTS
  Users = {u1, u2}
  Files = {m1}
  Rooms = {g1}
  Names = {n1, n2}
  Requests = {r1, r2}
  Nobody = Nobody
  None = None
  Keep = Keep
  Sizes = {1, 2}
  Lengths = {0, 2}
  MaxBytes = 1
  MaxOverlaps = 1
  MaxChanges = 2
  MaxFailures = 1
SYMMETRY Symmetry
INVARIANTS
  TypeOK
  NameIsTold
PROPERTIES
  OnlyEntitledSee
  EntitledSee
  OnlyOwnFiles
  OnboardedOnce
