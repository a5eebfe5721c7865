SPECIFICATION TrackersSpec
CONSTANTS
    File <- MCFiles
    Selections <- MCSelections
    AutoManaged = FALSE
    SeedingStops = TRUE
    HasCompleted = TRUE
    Tracker = {"own", "default"}
    Default = {"default"}
    Announcing = {"own"}
    Subjects = {"control", "files", "trackers"}
    MaxEvents = 2
    MaxAlerts = 2
INVARIANTS
    SelectionApplied
    StoppedRests
    OwedIsListed
    RemovedStaysAway
    CheckpointFollows
    StatusIsLatest
CHECK_DEADLOCK FALSE
