SPECIFICATION SessionsSpec
CONSTANTS
 Infohash = {i1, i2}
 Transaction = {t1}
 Peer = {p1}
 TaskName = {n1,n2}
 ReuseEarly = FALSE
 NoInfohash = NoInfohash
 Plain = 0
 Background <- MCBackground
 DefaultHops = 1
 Hops <- MCHops
 NoServer = {}
 Schedule <- MCSchedule
 Minutes <- MCMinutes
 None = None
 Topics = {"limits","alerts"}
 MaxSettings = 1
 MaxAlerts = 2
PROPERTIES HealthBehindAlerts 
INVARIANTS OutstandingIsListed FiltersAreOwn LimitsAreCurrent
CHECK_DEADLOCK FALSE
SYMMETRY MCSymmetry
