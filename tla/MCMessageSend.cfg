SPECIFICATION FairSpec
CONSTANTS
  Requests = {r1, r2}
  Cids = {c1, empty}
  EmptyCid = empty
  NoCid = NoCid
  NoMessage = NoMessage
  NoCounter = NoCounter
  SeqRetry = 3
  History = 2
  MaxDrifts = 2
  MaxFailures = 1
INVARIANTS
  Idempotent
  NoCollisionWithoutDrift
  LoneCallRecovers
PROPERTIES
  ImplementsLog
  EveryMessageAnnounced
