SPECIFICATION FairSpec
CONSTANTS
  Tracker = {t1}
  Check = {c1, c2}
  MaxPeers = 1
  MaxTime = 4
  Window = 1
  Drift = 1
  Freshness = 1
  MinInterval = 1
  MaxFailures = 2
  NoHealth = NoHealth
  NotLoaded = NotLoaded
CHECK_DEADLOCK FALSE
INVARIANTS GossipIsOwn CheckedIsStored
PROPERTIES FreshOwnStays ChecksEnd
