SPECIFICATION Spec
CONSTANTS
  Download = {d1, d2, d3}
  Coro = {c0, c1, c2}
  Loader = c0
  Hops = {s0, s1}
  HandleNr = {h1}
  Calls = {"start","remove","hops"}
  ColdSessions = {s0,s1}
  Seeded = {}
  MaxAlerts = 2
  MaxCrashes = 0
  NoDownload = NoDownload
  NoHandle = NoHandle
  NoHops = NoHops
  NoCoro = NoCoro
SYMMETRY MCSymmetry
VIEW MCView
CHECK_DEADLOCK FALSE
INVARIANTS HandleInOwnSession HandleExclusive CheckpointKeepsHops
