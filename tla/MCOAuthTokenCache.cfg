\* Two calls, each with its retry, on the server's loop; two connections and a
\* secret that is rotated, invalidated once at any moment.
CONSTANTS
    Calls = {c1, c2}
    Connections = {n1, n2}
    Secrets = {s1, s2}
    Loops = {server}
    MaxGeneration = 1
    NoToken = NoToken
    NoEntry = NoEntry
    NoContext = NoContext
SPECIFICATION FairSpec
CHECK_DEADLOCK FALSE
INVARIANTS
    NoOvertakenTokenStored
    FlightIntact
    WaiterSharesOutcome
    TokenMintedFromOwnSecret
PROPERTY
    CallsEnd
