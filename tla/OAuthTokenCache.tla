-------------------------- MODULE OAuthTokenCache --------------------------
(***************************************************************************)
(* The OAuth client-credentials token cache of the declarative connector   *)
(* (app/connectors/declarative/token_cache.py) with its only client,       *)
(* DeclarativeConnector._send_authorized.                                  *)
(*                                                                         *)
(* The cache is one object for the process.  Tool calls reach it from the  *)
(* server's event loop, scheduled syncs from an event loop of their own in *)
(* a worker thread, and invalidate_connection from whichever thread        *)
(* committed a change: the actions are therefore the critical sections of  *)
(* _entries_lock and _inflight_lock, and may interleave between any two.   *)
(*                                                                         *)
(* A call exchanges at most twice, so a token (and the future it is        *)
(* published in) is named by the call that obtains it and the attempt.     *)
(***************************************************************************)
EXTENDS Naturals

CONSTANTS
    Calls,              \* upstream requests; each is made once
    Connections,        \* connection identifiers
    Secrets,            \* client secrets (their fingerprints)
    Loops,              \* event loops that use the cache
    MaxGeneration,      \* bound on the invalidations of a connection
    NoToken,            \* "no token"
    NoEntry,            \* "no entry": an empty cache slot
    NoContext           \* the context of a call that has not started

Contexts == [connection : Connections, secret : Secrets]
Keys == Contexts
Tokens == [by : Calls, attempt : {1, 2}]
Entries == [token : Tokens, generation : 0..MaxGeneration]

ASSUME TokenConstants ==
    /\ MaxGeneration \in Nat
    /\ NoToken \notin Tokens
    /\ NoEntry \notin Entries
    /\ NoContext \notin Contexts

VARIABLES
    pc,             \* where each call stands
    context,        \* the connection and secret of each call that has started
    loop,           \* the event loop each call runs on
    attempt,        \* 1, or 2 once the upstream has rejected the first token
    generation,     \* _generations
    seen,           \* the generation an owner read before its exchange
    entries,        \* _entries
    inflight,       \* _inflight: the future published for a key
    future,         \* the state of every future
    waitsOn,        \* the future a waiting call awaits
    held,           \* the token a call is about to send
    overtaken       \* tokens whose exchange an invalidation overtook

vars == <<pc, context, loop, attempt, generation, seen, entries, inflight, future,
          waitsOn, held, overtaken>>

-----------------------------------------------------------------------------

Steps == {"idle", "lookup", "register", "owner", "exchanging", "publish",
          "withdraw", "waiting", "sending", "done", "failed", "cancelled"}

Owning == {"owner", "exchanging", "publish", "withdraw"}

Settled == {"ok", "failed", "cancelled"}

TypeOK ==
    /\ pc \in [Calls -> Steps]
    /\ context \in [Calls -> Contexts \cup {NoContext}]
    /\ loop \in [Calls -> Loops]
    /\ attempt \in [Calls -> {1, 2}]
    /\ generation \in [Connections -> 0..MaxGeneration]
    /\ seen \in [Calls -> 0..MaxGeneration]
    /\ entries \in [Keys -> Entries \cup {NoEntry}]
    /\ inflight \in [Keys -> Tokens \cup {NoToken}]
    /\ future \in [Tokens -> {"none", "pending"} \cup Settled]
    /\ waitsOn \in [Calls -> Tokens \cup {NoToken}]
    /\ held \in [Calls -> Tokens \cup {NoToken}]
    /\ overtaken \subseteq Tokens

Init ==
    /\ pc = [c \in Calls |-> "idle"]
    /\ context = [c \in Calls |-> NoContext]
    /\ loop \in [Calls -> Loops]
    /\ attempt = [c \in Calls |-> 1]
    /\ generation = [n \in Connections |-> 0]
    /\ seen = [c \in Calls |-> 0]
    /\ entries = [k \in Keys |-> NoEntry]
    /\ inflight = [k \in Keys |-> NoToken]
    /\ future = [t \in Tokens |-> "none"]
    /\ waitsOn = [c \in Calls |-> NoToken]
    /\ held = [c \in Calls |-> NoToken]
    /\ overtaken = {}

\* The token, and the future, of the attempt a call is making.
Own(c) == [by |-> c, attempt |-> attempt[c]]

\* Variant: the key forgets the credentials the call would exchange.
KeyWithoutSecret(x) == [x EXCEPT !.secret = CHOOSE z \in Secrets : TRUE]

\* cache_key: the connection, the scheme and the fingerprint of the secret.
CacheKey(x) == x

Key(c) == CacheKey(context[c])

Goto(c, step) == pc' = [pc EXCEPT ![c] = step]

-----------------------------------------------------------------------------
(* _auth_headers and the lookup of get_or_exchange.                        *)

Start(c, n, s) ==
    /\ pc[c] = "idle"
    /\ context' = [context EXCEPT ![c] = [connection |-> n, secret |-> s]]
    /\ Goto(c, "lookup")
    /\ UNCHANGED <<loop, attempt, generation, seen, entries, inflight, future,
                   waitsOn, held, overtaken>>

LookupHit(c) ==
    /\ pc[c] = "lookup"
    /\ entries[Key(c)] # NoEntry
    /\ held' = [held EXCEPT ![c] = entries[Key(c)].token]
    /\ Goto(c, "sending")
    /\ UNCHANGED <<context, loop, attempt, generation, seen, entries, inflight,
                   future, waitsOn, overtaken>>

LookupMiss(c) ==
    /\ pc[c] = "lookup"
    /\ entries[Key(c)] = NoEntry
    /\ Goto(c, "register")
    /\ UNCHANGED <<context, loop, attempt, generation, seen, entries, inflight,
                   future, waitsOn, held, overtaken>>

\* Variant: a call that missed always becomes an owner.
RegisterAlways(k) == TRUE

NobodyExchanges(k) == inflight[k] = NoToken

\* The in-flight table has no future for the key: the call becomes its owner.
BecomeOwner(c) ==
    /\ pc[c] = "register"
    /\ NobodyExchanges(Key(c))
    /\ inflight' = [inflight EXCEPT ![Key(c)] = Own(c)]
    /\ future' = [future EXCEPT ![Own(c)] = "pending"]
    /\ Goto(c, "owner")
    /\ UNCHANGED <<context, loop, attempt, generation, seen, entries, waitsOn, held,
                   overtaken>>

\* Variant: the shared future is read without being awaited.
ReadUnawaited(c, t) == future[t] = "pending"

\* Awaiting another loop's pending future raises RuntimeError at once; a
\* future that is done can be awaited from anywhere.
AwaitFails(c, t) == future[t] = "pending" /\ loop[t.by] # loop[c]

JoinExchange(c) ==
    LET t == inflight[Key(c)] IN
    /\ pc[c] = "register"
    /\ t # NoToken
    /\ waitsOn' = [waitsOn EXCEPT ![c] = t]
    /\ Goto(c, IF AwaitFails(c, t) THEN "failed" ELSE "waiting")
    /\ UNCHANGED <<context, loop, attempt, generation, seen, entries, inflight,
                   future, held, overtaken>>

-----------------------------------------------------------------------------
(* The owner of an exchange.                                               *)

\* The generation is read once, before the exchange is awaited.
ReadGeneration(c) ==
    /\ pc[c] = "owner"
    /\ seen' = [seen EXCEPT ![c] = generation[context[c].connection]]
    /\ Goto(c, "exchanging")
    /\ UNCHANGED <<context, loop, attempt, generation, entries, inflight, future,
                   waitsOn, held, overtaken>>

\* Variant: _store trusts the exchange it has just awaited.
StoreAnyway(c) == TRUE

\* _store: an invalidation that landed during the exchange wins.
StillCurrent(c) == generation[context[c].connection] = seen[c]

NewEntry(c) == [token |-> Own(c), generation |-> seen[c]]

\* The exchange returns a token, which is stored if its TTL is positive and
\* no invalidation overtook the exchange.
StoreToken(c) ==
    /\ pc[c] = "exchanging"
    /\ \E ttlIsPositive \in BOOLEAN :
          entries' = IF ttlIsPositive /\ StillCurrent(c)
                     THEN [entries EXCEPT ![Key(c)] = NewEntry(c)]
                     ELSE entries
    /\ held' = [held EXCEPT ![c] = Own(c)]
    /\ Goto(c, "publish")
    /\ UNCHANGED <<context, loop, attempt, generation, seen, inflight, future,
                   waitsOn, overtaken>>

PublishToken(c) ==
    /\ pc[c] = "publish"
    /\ future' = [future EXCEPT ![Own(c)] = "ok"]
    /\ Goto(c, "withdraw")
    /\ UNCHANGED <<context, loop, attempt, generation, seen, entries, inflight,
                   waitsOn, held, overtaken>>

\* Variant: a cancelled owner leaves its future pending.
OutcomesWithoutCancel == {"failed", "pending"}

ExchangeOutcomes == {"failed", "cancelled"}

\* The exchange fails, times out, or is cancelled with its caller.
ExchangeFails(c) ==
    /\ pc[c] = "exchanging"
    /\ \E outcome \in ExchangeOutcomes :
          future' = [future EXCEPT ![Own(c)] = outcome]
    /\ Goto(c, "withdraw")
    /\ UNCHANGED <<context, loop, attempt, generation, seen, entries, inflight,
                   waitsOn, held, overtaken>>

\* The owner's finally block empties the slot it filled.
Withdrawn(c) ==
    IF inflight[Key(c)] = Own(c)
    THEN [inflight EXCEPT ![Key(c)] = NoToken] ELSE inflight

Withdraw(c) ==
    /\ pc[c] = "withdraw"
    /\ inflight' = Withdrawn(c)
    /\ Goto(c, CASE future[Own(c)] = "ok"     -> "sending"
                 [] future[Own(c)] = "failed" -> "failed"
                 [] OTHER                     -> "cancelled")
    /\ UNCHANGED <<context, loop, attempt, generation, seen, entries, future,
                   waitsOn, held, overtaken>>

-----------------------------------------------------------------------------
(* Waiters, and the request itself.                                        *)

WaiterResumes(c) ==
    /\ pc[c] = "waiting"
    /\ future[waitsOn[c]] \in Settled
    /\ held' = [held EXCEPT ![c] =
                   IF future[waitsOn[c]] = "ok" THEN waitsOn[c] ELSE @]
    /\ Goto(c, CASE future[waitsOn[c]] = "ok"        -> "sending"
                 [] future[waitsOn[c]] = "failed"    -> "failed"
                 [] future[waitsOn[c]] = "cancelled" -> "cancelled")
    /\ UNCHANGED <<context, loop, attempt, generation, seen, entries, inflight,
                   future, waitsOn, overtaken>>

\* A waiter's own cancellation does not reach the shielded future.
WaiterCancelled(c) ==
    /\ pc[c] = "waiting"
    /\ Goto(c, "cancelled")
    /\ UNCHANGED <<context, loop, attempt, generation, seen, entries, inflight,
                   future, waitsOn, held, overtaken>>

\* Any response but a first 401, a transport failure, or cancellation.
RequestEnds(c) ==
    /\ pc[c] = "sending"
    /\ \E end \in {"done", "failed", "cancelled"} : Goto(c, end)
    /\ UNCHANGED <<context, loop, attempt, generation, seen, entries, inflight,
                   future, waitsOn, held, overtaken>>

MayRetry(c) == attempt[c] = 1

\* The first 401: whatever token the key holds now is discarded, and the
\* call starts over exactly once.
RequestRejected(c) ==
    /\ pc[c] = "sending"
    /\ MayRetry(c)
    /\ entries' = [entries EXCEPT ![Key(c)] = NoEntry]
    /\ attempt' = [attempt EXCEPT ![c] = 2]
    /\ held' = [held EXCEPT ![c] = NoToken]
    /\ Goto(c, "lookup")
    /\ waitsOn' = [waitsOn EXCEPT ![c] = NoToken]
    /\ UNCHANGED <<context, loop, generation, seen, inflight, future, overtaken>>

-----------------------------------------------------------------------------
(* Time and invalidation.                                                  *)

Expire(k) ==
    /\ entries[k] # NoEntry
    /\ entries' = [entries EXCEPT ![k] = NoEntry]
    /\ UNCHANGED <<pc, context, loop, attempt, generation, seen, inflight, future,
                   waitsOn, held, overtaken>>

\* The tokens of a connection that are being exchanged right now.
BeingExchanged(n) ==
    {Own(c) : c \in {d \in Calls : pc[d] = "exchanging" /\ context[d].connection = n}}

\* invalidate_connection, in the thread that committed the change.
InvalidateConnection(n) ==
    /\ generation[n] < MaxGeneration
    /\ generation' = [generation EXCEPT ![n] = @ + 1]
    /\ entries' = [k \in Keys |-> IF k.connection = n THEN NoEntry ELSE entries[k]]
    /\ overtaken' = overtaken \cup BeingExchanged(n)
    /\ UNCHANGED <<pc, context, loop, attempt, seen, inflight, future, waitsOn, held>>

-----------------------------------------------------------------------------

\* What the event loop gets round to: every step but a cancellation of the
\* call from outside while it waits.
Scheduled(c) ==
    \/ LookupHit(c)
    \/ LookupMiss(c)
    \/ BecomeOwner(c)
    \/ JoinExchange(c)
    \/ ReadGeneration(c)
    \/ StoreToken(c)
    \/ PublishToken(c)
    \/ ExchangeFails(c)
    \/ Withdraw(c)
    \/ WaiterResumes(c)
    \/ RequestEnds(c)
    \/ RequestRejected(c)

CallStep(c) == Scheduled(c) \/ WaiterCancelled(c)

Next ==
    \/ \E c \in Calls, n \in Connections, s \in Secrets : Start(c, n, s)
    \/ \E c \in Calls : CallStep(c)
    \/ \E k \in Keys : Expire(k)
    \/ \E n \in Connections : InvalidateConnection(n)

Spec == Init /\ [][Next]_vars

\* A running task is scheduled, asyncio.timeout ends every upstream request
\* and every exchange, and a settled future wakes the tasks that await it.  A
\* waiter is not rescued by the cancellation that may also come.
FairSpec == Spec /\ \A c \in Calls : WF_vars(Scheduled(c))

-----------------------------------------------------------------------------
(* Properties.                                                             *)

\* The promise of the comment in _store: a token whose exchange was under way
\* when its connection was invalidated is never found in the cache, and every
\* entry belongs to the connection's current generation.
NoOvertakenTokenStored ==
    \A k \in Keys : entries[k] # NoEntry =>
        /\ entries[k].token \notin overtaken
        /\ entries[k].generation = generation[k.connection]

\* A future in the in-flight table has an owner that is still at work on that
\* key and will withdraw it.
InflightHasLiveOwner ==
    \A k \in Keys : inflight[k] # NoToken =>
        LET c == inflight[k].by IN
        /\ pc[c] \in Owning
        /\ Key(c) = k
        /\ Own(c) = inflight[k]

\* Concurrent misses of a key collapse into one exchange.
SingleExchange ==
    \A c, d \in Calls :
        /\ pc[c] = "exchanging"
        /\ pc[d] = "exchanging"
        /\ Key(c) = Key(d)
        => c = d

\* A waiting call waits on a future that is settled or whose owner is still
\* at work on the key the waiter wants.
NoOrphanedWaiter ==
    \A c \in Calls : pc[c] = "waiting" =>
        \/ future[waitsOn[c]] \in Settled
        \/ /\ pc[waitsOn[c].by] \in Owning
           /\ inflight[Key(c)] = waitsOn[c]

\* Concurrent misses of a key share one exchange that is always going on: no
\* second one beside it, no future left behind, nobody waiting in vain.
FlightIntact == InflightHasLiveOwner /\ SingleExchange /\ NoOrphanedWaiter

\* A call sends only a token minted for its own connection from the secret
\* its context holds, whichever call obtained it.
TokenMintedFromOwnSecret ==
    \A c \in Calls : held[c] # NoToken => context[held[c].by] = context[c]

\* A call that waited fails only with the exchange it waited on: what the
\* docstring's "collapsing concurrent misses into one exchange" amounts to.
WaiterSharesOutcome ==
    \A c \in Calls : pc[c] = "failed" /\ held[c] = NoToken /\ waitsOn[c] # NoToken
        => future[waitsOn[c]] = "failed"

\* Every upstream request ends.
CallsEnd ==
    \A c \in Calls : pc[c] # "idle" ~> pc[c] \in {"done", "failed", "cancelled"}

=============================================================================
