\* Three requests, two passwords, an account that locks after two wrong ones,
\* and two acts of setting a password after the first.
CONSTANTS
    Requests = {r1, r2, r3}
    Passwords = {p1, p2}
    LockThreshold = 2
    MaxHashes = 3
    MaxFailed = 2
    NoAccount = NoAccount
    NoRead = NoRead
SPECIFICATION Spec
SYMMETRY Symmetry
CHECK_DEADLOCK FALSE
INVARIANTS
    GuessesBounded
    StaleSessionOnlyFromOverlap
PROPERTY
    AuthenticatedIsCurrent
