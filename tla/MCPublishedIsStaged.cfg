\* Is the revision an administrator has just published the one that is staged
\* for activation?
SPECIFICATION Spec
CONSTANTS
    Admins = {a1}
    Revisions = {r1, r2}
    Documents = {d1}
    d1 = d1
    d2 = d2
    Tools = {t1, t2}
    t1 = t1
    t2 = t2
    Secrets = {s1}
    ToolsOf <- MCToolsOf
    Accepts <- MCAccepts
    NoRevision = NoRevision
    NoDocument = NoDocument
    NoSecret = NoSecret
    NoRow = NoRow
    NoRequest = NoRequest
    MaxVersion = 7
SYMMETRY MCSymmetry
\* A deleted connection, or one at MaxVersion, may leave nothing to do.
CHECK_DEADLOCK FALSE
PROPERTIES
    PublishedIsStaged
