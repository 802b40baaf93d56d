\* Does a call that waits share the outcome of the exchange, when tool calls and a
\* scheduled sync run on different event loops?
CONSTANTS
    Calls = {c1, c2}
    Connections = {n1}
    Secrets = {s1}
    Loops = {server, sync}
    MaxGeneration = 0
    NoToken = NoToken
    NoEntry = NoEntry
    NoContext = NoContext
SPECIFICATION Spec
CHECK_DEADLOCK FALSE
INVARIANT
    WaiterSharesOutcome
