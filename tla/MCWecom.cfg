\* Two items, and runs of a connection and of its tenant side by side; the
\* starts for one tenant of the old schema and one that may be created.
SPECIFICATION PartsSpec
CONSTANTS
    Items = {i1, i2}
    Kinds = {"details", "records"}
    Back = 1
    Ahead = 1
    Lookbacks = {1}
    BackfillDays = 1
    Limit = 1
    MinWindow = 2
    Skew = 0
    MaxRun = 1
    MaxTime = 2
    None = None
    Tenants = {t1, t2}
    Legacy = {t1}
    Nothing = Nothing
SYMMETRY Symmetry
\* The clock stands still at MaxTime.
CHECK_DEADLOCK FALSE
INVARIANTS
    NothingBetweenRuns
    WatermarksHold
PROPERTY
    RestartsRespectEdits
