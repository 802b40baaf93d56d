\* Two tenants, whose ids may be used twice, two connections, a service, two
\* tokens, two editors and a call.
CONSTANTS
    Tenants = {t1, t2}
    Connections = {n1, n2}
    Services = {s1}
    Tokens = {k1, k2}
    Editors = {e1, e2}
    Calls = {c1}
    MaxEra = 2
    Nothing = Nothing
    Gone = Gone
SPECIFICATION FewSpec
SYMMETRY Symmetry
CHECK_DEADLOCK FALSE
INVARIANTS
    BindingsOwned
    RetiredTenantHasNoAccess
    NothingInherited
PROPERTIES
    EditsReplaceWhatWasRead
    RetirementStopsCalls
