\* Three calls race for one cacheable key, or go past the cache with a sensitive
\* argument, for two connections that share the tool and the arguments; one
\* call of a composed tool, the syncs of a declarative connection, and the
\* audit queue under two events, a queue for one of them, and two lifespans
\* that may overlap or follow one another.  No symmetry: liveness is checked.
SPECIFICATION ExecutionSpec
CONSTANTS
    Calls = {c1, c2, c3}
    Connections = {n1, n2}
    Tools = {t1}
    CachedTools = {t1}
    Args = {plain, secret}
    SensitiveArgs = {secret}
    NoCall = NoCall
    NoKey = NoKey
    s1 = s1
    s2 = s2
    get = get
    list = list
    put = put
    itemId = itemId
    memo = memo
    content = content
    Documents <- MCDocuments
    StepIds = {s1, s2}
    Operations = {get, list, put}
    Fields = {itemId, memo, content}
    Input = Input
    MaxSteps = 2
    MaxPageCount = 2
    MaxRedirects = 1
    Upstreams <- MCUpstreams
    Workers = {interval, other}
    Interval = interval
    Nobody = Nobody
    MaxPages = 2
    MaxItems = 3
    MaxDisturbances = 3
    Events = {e1, e2}
    Lifespans = {l1, l2}
    QueueSize = 1
    MaxWriters = 2
    NoEvent = NoEvent
\* An answered call, a disabled connection, or an application that was shut
\* down leaves nothing to do.
CHECK_DEADLOCK FALSE
INVARIANTS
    AnswersOwnRequest
    OnlyProjectionsShared
    WaitersAreServed
    MappingsResolve
    WritesOnce
    StepsAudited
    NothingSkipped
    LeasedWriterAccepts
    SuccessMeansSettled
PROPERTIES
    SharesLoads
    CallsEnd
    CursorMonotone
    EverythingSynced
    AcceptedIsSettled
