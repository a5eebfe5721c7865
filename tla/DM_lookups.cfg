SPECIFICATION Spec
CONSTANTS
  Download = {d1, d2, d3}
  Coro = {c0, c1, c2}
  Loader = c0
  Hops = {s0}
  HandleNr = {h1}
  Calls = {"lookup","health","start","remove"}
  ColdSessions = {}
  Seeded = {s0}
  MaxAlerts = 2
  MaxCrashes = 0
  NoDownload = NoDownload
  NoHandle = NoHandle
  NoHops = NoHops
  NoCoro = NoCoro
SYMMETRY MCSymmetry
VIEW MCView
CHECK_DEADLOCK FALSE
PROPERTY LookupSparesUser
