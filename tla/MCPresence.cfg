SPECIFICATION FairSpec
CONSTANTS
  Sockets = {s1, s2, s3}
  Nodes = {n1, n2}
  Nowhere = Nowhere
  MaxOverlaps = 1
  MaxCrashes = 1
  MaxFailures = 1
INVARIANTS
  ConnectedIsOnlineInPeace
  PresenceIsTold
PROPERTIES
  TtlCleansUp
