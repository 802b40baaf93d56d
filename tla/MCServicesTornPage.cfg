\* Two pages of one service: one reads the bindings, the other replaces them,
\* the first reads the row with its version, and saves.
CONSTANTS
    Tenants = {t1, t2}
    Connections = {n1, n2}
    Services = {s1}
    Tokens = {k1, k2}
    Editors = {e1, e2}
    Calls = {c1}
    MaxEra = 2
    Nothing = Nothing
    Gone = Gone
SPECIFICATION FewSpec
SYMMETRY Symmetry
CHECK_DEADLOCK FALSE
PROPERTY
    VersionFindsConflicts
