\* Is a call ever served data a retired revision produced?
CONSTANTS
    Calls = {c1, c2}
    Connections = {n1}
    Tools = {t1}
    CachedTools = {t1}
    Args = {plain}
    SensitiveArgs = {}
    NoCall = NoCall
    NoKey = NoKey
    MaxVersion = 2
    NoCtx = NoCtx
SPECIFICATION Spec
SYMMETRY CallSymmetry
CHECK_DEADLOCK FALSE
PROPERTY
    NoRetiredDataServed
