SPECIFICATION FairSpec
CONSTANTS
  Download = {d1, d2}
  Coro = {c0, c1, c2}
  Loader = c0
  Hops = {s0}
  HandleNr = {h1}
  Calls = {"start","remove","load"}
  ColdSessions = {}
  Seeded = {s0}
  MaxAlerts = 1
  MaxCrashes = 1
  NoDownload = NoDownload
  NoHandle = NoHandle
  NoHops = NoHops
  NoCoro = NoCoro
CHECK_DEADLOCK FALSE
PROPERTIES ClosedLeaves RestartRestores
