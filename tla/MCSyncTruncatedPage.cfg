\* Does the saved cursor ever pass a page that is not stored as a whole?
SPECIFICATION ConnectionSpec
CONSTANTS
    Upstreams <- MCUpstreams
    Workers = {interval, other}
    Interval = interval
    Nobody = Nobody
    MaxPages = 2
    MaxItems = 3
    MaxDisturbances = 4
\* A disabled connection leaves nothing to do.
CHECK_DEADLOCK FALSE
INVARIANT SavedPageIsStored
