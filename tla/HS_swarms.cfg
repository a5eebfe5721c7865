SPECIFICATION FairSpec
CONSTANTS
    InfoHash = {i1, i2}
    Hops <- MCHops
    Statuses <- MCStatuses
    Circuit = {c1, c2, c3}
    MinCircuits = 2
    MaxCircuits = 2
    MaxIntroPoints = 1
    DefaultHops = 1
    MaxAssociates = 0
    MaxEvents = 3
INVARIANTS
    SwarmsFollowStates
    NobodyWaitsBehindACircuit
PROPERTIES
    PeersComeBack
    SeedingIsIntroduced
CHECK_DEADLOCK FALSE
