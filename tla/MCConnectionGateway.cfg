\* Three calls over two connections with three revisions each.
CONSTANTS
    Calls = {c1, c2, c3}
    Connections = {n1, n2}
    Tools = {t1}
    CachedTools = {t1}
    Args = {plain}
    SensitiveArgs = {}
    NoCall = NoCall
    NoKey = NoKey
    MaxVersion = 3
    NoCtx = NoCtx
SPECIFICATION Spec
SYMMETRY CallSymmetry
CHECK_DEADLOCK FALSE
INVARIANTS
    OneSessionPerConnection
    StaleOnlyFromOverlap
