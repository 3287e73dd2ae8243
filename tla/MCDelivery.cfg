SPECIFICATION DeliverySpec
CONSTANTS
  Calls = {c1}
  Users = {u1, u2}
  Devices = {d1, d2}
  Nobody = Nobody
  MulticastMax = 1
  MaxChanges = 3
  MaxBroken = 1
SYMMETRY Symmetry
INVARIANTS
  OnlyMembersHear
  SettledAreReached
PROPERTIES
  RegisteredStay
