SPECIFICATION FairSpec
CONSTANTS
  Sockets = {s1}
  Nodes = {n1}
  Nowhere = Nowhere
  MaxOverlaps = 1
  MaxCrashes = 0
  MaxFailures = 0
PROPERTIES
  OfflineInTheEnd
