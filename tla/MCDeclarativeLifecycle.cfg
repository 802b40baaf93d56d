\* Two administrators over one document, two revisions and two secrets: every
\* transaction of one against every use case of the other, quick onboarding
\* with its live test included.
SPECIFICATION Spec
CONSTANTS
    Admins = {a1, a2}
    Revisions = {r1, r2}
    Documents = {d2}
    d1 = d1
    d2 = d2
    Tools = {t1, t2}
    t1 = t1
    t2 = t2
    Secrets = {s1, s2}
    ToolsOf <- MCToolsOf
    Accepts <- MCAccepts
    NoRevision = NoRevision
    NoDocument = NoDocument
    NoSecret = NoSecret
    NoRow = NoRow
    NoRequest = NoRequest
    MaxVersion = 6
SYMMETRY MCSymmetry
\* A deleted connection, or one at MaxVersion, may leave nothing to do.
CHECK_DEADLOCK FALSE
INVARIANTS
    TypeOK
    SelectionIsPublished
    ActiveIsConsistent
    RetiredStaysInactive
PROPERTIES
    ActivationIsComplete
    VersionNamesConfiguration
    TestedIsActivated
    EditsSerialized
