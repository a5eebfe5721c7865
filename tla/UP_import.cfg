SPECIFICATION UpgradeSpec
CONSTANTS
    Checkpoint = {c1}
    Rows = 3
    BatchSize = 3
    OldFailures = 1
    Key = {k1, k2}
    Bool = {k1}
    MaxUpgrades = 2
    MaxEvents = 2
INVARIANTS
    MarkerMeansImported
CHECK_DEADLOCK FALSE
