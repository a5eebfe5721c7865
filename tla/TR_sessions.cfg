SPECIFICATION TrackersFairSpec
CONSTANTS
    Session = {1, 2}
    Tid = {1, 2, 3}
    NoSession = 0
    MaxLost = 1
INVARIANTS
    NothingLeft
    DuplicatesAreHarmless
PROPERTIES
    SessionsEnd
CHECK_DEADLOCK FALSE
