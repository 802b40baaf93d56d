-------------------------- MODULE ConnectionCache --------------------------
(***************************************************************************)
(* The in-process response cache of app/connections/cache.py, as the       *)
(* runtime uses it (app/connectors/runtime.py).  Concurrent tool calls for *)
(* the same (connection, tool, arguments) share one load: the first caller *)
(* owns a future that the others wait on.                                  *)
(*                                                                         *)
(* Granularity.  No coroutine suspends while it holds the cache lock, so   *)
(* taking the lock never suspends either and the only suspension points    *)
(* are the loader and the wait on another call's future.  Everything       *)
(* between two of those points is one action.                              *)
(*                                                                         *)
(* A retained value is represented by the call whose loader produced it.   *)
(***************************************************************************)
EXTENDS FiniteSets

CONSTANTS
    Calls,          \* tool calls; each is made once
    Connections,    \* connection identifiers
    Tools,          \* tool keys
    CachedTools,    \* read tools with a positive cache TTL
    Args,           \* argument documents
    SensitiveArgs,  \* arguments normalized_args_hash refuses to hash
    NoCall,         \* "no call": an empty cache slot
    NoKey           \* "no key": the call is not cacheable

ASSUME CacheConstants ==
    /\ CachedTools \subseteq Tools
    /\ SensitiveArgs \subseteq Args
    /\ NoCall \notin Calls
    /\ NoKey \notin [connection : Connections, tool : Tools, args : Args]

VARIABLES
    pc,         \* where each call stands
    request,    \* the request of each call that has started
    entries,    \* _entries: the call that produced the retained value
    expired,    \* keys whose entry has outlived its TTL but is not popped yet
    inflight,   \* _inflight: the call that owns the shared future of a key
    future,     \* the state of the future each call may own
    waitsOn,    \* the owner of the future a waiting call awaits
    answer,     \* the call that produced the result a call returned
    opaque      \* calls whose loader result may not be retained

cacheVars == <<pc, request, entries, expired, inflight, future, waitsOn,
               answer, opaque>>

-----------------------------------------------------------------------------

Requests == [connection : Connections, tool : Tools, args : Args]

Steps == {"idle", "loading", "waiting", "direct",
          "answered", "failed", "cancelled"}

FutureStates == {"none", "pending", "cached", "bypass", "failed", "cancelled"}

Running == {"loading", "waiting", "direct"}

CacheTypeOK ==
    /\ pc \in [Calls -> Steps]
    /\ request \in [Calls -> Requests \cup {NoKey}]
    /\ entries \in [Requests -> Calls \cup {NoCall}]
    /\ expired \subseteq Requests
    /\ inflight \in [Requests -> Calls \cup {NoCall}]
    /\ future \in [Calls -> FutureStates]
    /\ waitsOn \in [Calls -> Calls \cup {NoCall}]
    /\ answer \in [Calls -> Calls \cup {NoCall}]
    /\ opaque \subseteq Calls

CacheInit ==
    /\ pc = [c \in Calls |-> "idle"]
    /\ request = [c \in Calls |-> NoKey]
    /\ entries = [k \in Requests |-> NoCall]
    /\ expired = {}
    /\ inflight = [k \in Requests |-> NoCall]
    /\ future = [c \in Calls |-> "none"]
    /\ waitsOn = [c \in Calls |-> NoCall]
    /\ answer = [c \in Calls |-> NoCall]
    /\ opaque = {}

-----------------------------------------------------------------------------
(* Keys and retention.                                                     *)

\* Variant: the key forgets which connection the call was made on.
CacheKeyWithoutConnection(q) ==
    IF q.tool \notin CachedTools \/ q.args \in SensitiveArgs THEN NoKey
    ELSE CHOOSE k \in Requests : k.tool = q.tool /\ k.args = q.args

\* The key is the whole (connection, tool, arguments) triple.  The runtime
\* keeps a tool without a cache TTL away from the cache, and a sensitive
\* argument has no hash: neither has a key.
CacheKey(q) ==
    IF q.tool \notin CachedTools \/ q.args \in SensitiveArgs THEN NoKey ELSE q

\* An entry that get() would return rather than pop.
Fresh(k) == entries[k] # NoCall /\ k \notin expired

-----------------------------------------------------------------------------
(* get_or_load, up to its first suspension point.                          *)

Begin(c, q) ==
    /\ pc[c] = "idle"
    /\ request' = [request EXCEPT ![c] = q]

\* No key: the call runs its own loader outside the cache.
BypassCache(c, q) ==
    /\ Begin(c, q)
    /\ CacheKey(q) = NoKey
    /\ pc' = [pc EXCEPT ![c] = "direct"]
    /\ UNCHANGED <<entries, expired, inflight, future, waitsOn, answer, opaque>>

\* A live entry answers at once.
Hit(c, q) ==
    /\ Begin(c, q)
    /\ CacheKey(q) # NoKey
    /\ Fresh(CacheKey(q))
    /\ pc' = [pc EXCEPT ![c] = "answered"]
    /\ answer' = [answer EXCEPT ![c] = entries[CacheKey(q)]]
    /\ UNCHANGED <<entries, expired, inflight, future, waitsOn, opaque>>

\* get() found nothing live; an expired entry is popped on the way.
Miss(c, q) ==
    /\ Begin(c, q)
    /\ CacheKey(q) # NoKey
    /\ ~ Fresh(CacheKey(q))
    /\ entries' = [entries EXCEPT ![CacheKey(q)] = NoCall]
    /\ expired' = expired \ {CacheKey(q)}
    /\ UNCHANGED <<answer, opaque>>

NobodyIsLoading(k) == inflight[k] = NoCall

\* First caller of a key: it publishes a future and starts its loader.
StartLoad(c, q) ==
    /\ Miss(c, q)
    /\ NobodyIsLoading(CacheKey(q))
    /\ inflight' = [inflight EXCEPT ![CacheKey(q)] = c]
    /\ future' = [future EXCEPT ![c] = "pending"]
    /\ pc' = [pc EXCEPT ![c] = "loading"]
    /\ UNCHANGED waitsOn

\* Later caller of a key that is being loaded: it waits for the owner.
JoinLoad(c, q) ==
    /\ Miss(c, q)
    /\ inflight[CacheKey(q)] # NoCall
    /\ waitsOn' = [waitsOn EXCEPT ![c] = inflight[CacheKey(q)]]
    /\ pc' = [pc EXCEPT ![c] = "waiting"]
    /\ UNCHANGED <<inflight, future>>

GetOrLoad(c, q) ==
    BypassCache(c, q) \/ Hit(c, q) \/ StartLoad(c, q) \/ JoinLoad(c, q)

-----------------------------------------------------------------------------
(* The owner, from the end of its loader to the end of get_or_load.        *)

\* The finally block: the owner withdraws its own future.
WithdrawFuture(c) ==
    [k \in Requests |-> IF inflight[k] = c THEN NoCall ELSE inflight[k]]

\* A projection is stored and handed to the waiters.
LoadRetained(c) ==
    LET k == CacheKey(request[c]) IN
    /\ pc[c] = "loading"
    /\ entries' = [entries EXCEPT ![k] = c]
    /\ expired' = expired \ {k}
    /\ future' = [future EXCEPT ![c] = "cached"]
    /\ inflight' = WithdrawFuture(c)
    /\ pc' = [pc EXCEPT ![c] = "answered"]
    /\ answer' = [answer EXCEPT ![c] = c]
    /\ UNCHANGED <<request, waitsOn, opaque>>

\* Variant: the owner hands a result it may not retain to its waiters.
UnretainedOutcomeShared == "cached"

\* What the waiters of an unretained load are told: load for yourselves.
UnretainedOutcome == "bypass"

\* put() refuses the result (not a projection, or it looks like a secret);
\* the owner still returns it to its own caller.
LoadNotRetained(c) ==
    /\ pc[c] = "loading"
    /\ opaque' = opaque \cup {c}
    /\ future' = [future EXCEPT ![c] = UnretainedOutcome]
    /\ inflight' = WithdrawFuture(c)
    /\ pc' = [pc EXCEPT ![c] = "answered"]
    /\ answer' = [answer EXCEPT ![c] = c]
    /\ UNCHANGED <<request, entries, expired, waitsOn>>

\* The loader raises: the owner re-raises, the waiters get CacheLoadError.
LoadFails(c) ==
    /\ pc[c] = "loading"
    /\ future' = [future EXCEPT ![c] = "failed"]
    /\ inflight' = WithdrawFuture(c)
    /\ pc' = [pc EXCEPT ![c] = "failed"]
    /\ UNCHANGED <<request, entries, expired, waitsOn, answer, opaque>>

\* Variant: a cancelled owner forgets to cancel the future it published.
AbandonedFuture(c) == "pending"

\* The outcome a cancelled owner leaves in its future.
CancelledFuture(c) == "cancelled"

\* The runtime's timeout, or the client going away, cancels the owner.
OwnerCancelled(c) ==
    /\ pc[c] = "loading"
    /\ future' = [future EXCEPT ![c] = CancelledFuture(c)]
    /\ inflight' = WithdrawFuture(c)
    /\ pc' = [pc EXCEPT ![c] = "cancelled"]
    /\ UNCHANGED <<request, entries, expired, waitsOn, answer, opaque>>

-----------------------------------------------------------------------------
(* The waiters, and loads outside the cache.                               *)

\* The awaited future is done and the waiter's task runs again.
WaiterResumes(c) ==
    LET owner == waitsOn[c] IN
    /\ pc[c] = "waiting"
    /\ future[owner] # "pending"
    /\ pc' = [pc EXCEPT ![c] =
                 CASE future[owner] = "cached"    -> "answered"
                   [] future[owner] = "bypass"    -> "direct"
                   [] future[owner] = "failed"    -> "failed"
                   [] future[owner] = "cancelled" -> "cancelled"]
    /\ answer' = [answer EXCEPT ![c] =
                     IF future[owner] = "cached" THEN owner ELSE @]
    /\ UNCHANGED <<request, entries, expired, inflight, future, waitsOn, opaque>>

\* Variant: without asyncio.shield a cancelled waiter cancels the future.
CancelSharedFuture(c) == [future EXCEPT ![waitsOn[c]] = "cancelled"]

\* asyncio.shield keeps the owner's future out of a waiter's cancellation.
ShieldedFuture(c) == future

WaiterCancelled(c) ==
    /\ pc[c] = "waiting"
    /\ pc' = [pc EXCEPT ![c] = "cancelled"]
    /\ future' = ShieldedFuture(c)
    /\ UNCHANGED <<request, entries, expired, inflight, waitsOn, answer, opaque>>

DirectReturns(c) ==
    /\ pc[c] = "direct"
    /\ pc' = [pc EXCEPT ![c] = "answered"]
    /\ answer' = [answer EXCEPT ![c] = c]
    /\ UNCHANGED <<request, entries, expired, inflight, future, waitsOn, opaque>>

DirectFails(c) ==
    /\ pc[c] = "direct"
    /\ \E end \in {"failed", "cancelled"} : pc' = [pc EXCEPT ![c] = end]
    /\ UNCHANGED <<request, entries, expired, inflight, future, waitsOn, answer,
                   opaque>>

-----------------------------------------------------------------------------
(* Time and invalidation.                                                  *)

Expire(k) ==
    /\ Fresh(k)
    /\ expired' = expired \cup {k}
    /\ UNCHANGED <<pc, request, entries, inflight, future, waitsOn, answer, opaque>>

SurvivesInvalidation(k, n) == k.connection # n

\* invalidate_connection: every entry of the connection goes, a load in
\* flight does not.
InvalidateConnection(n) ==
    /\ entries' = [k \in Requests |->
                      IF SurvivesInvalidation(k, n) THEN entries[k] ELSE NoCall]
    /\ expired' = {k \in expired : SurvivesInvalidation(k, n)}
    /\ UNCHANGED <<pc, request, inflight, future, waitsOn, answer, opaque>>

-----------------------------------------------------------------------------

OwnerEnds(c) ==
    LoadRetained(c) \/ LoadNotRetained(c) \/ LoadFails(c) \/ OwnerCancelled(c)

DirectEnds(c) == DirectReturns(c) \/ DirectFails(c)

CacheNext ==
    \/ \E c \in Calls :
          \/ \E q \in Requests : GetOrLoad(c, q)
          \/ OwnerEnds(c)
          \/ WaiterResumes(c)
          \/ WaiterCancelled(c)
          \/ DirectEnds(c)
    \/ \E k \in Requests : Expire(k)
    \/ \E n \in Connections : InvalidateConnection(n)

CacheSpec == CacheInit /\ [][CacheNext]_cacheVars

\* asyncio resumes every task whose future is done, and the runtime runs each
\* call under wait_for with the policy's timeout, so a loader always ends.
CacheFairness ==
    \A c \in Calls :
        /\ WF_cacheVars(OwnerEnds(c))
        /\ WF_cacheVars(WaiterResumes(c))
        /\ WF_cacheVars(DirectEnds(c))

FairCacheSpec == CacheSpec /\ CacheFairness

-----------------------------------------------------------------------------
(* Properties.                                                             *)

\* Isolation: the answer a call returns was loaded for the same connection,
\* the same tool and the same arguments.
AnswersOwnRequest ==
    \A c \in Calls : answer[c] # NoCall => request[answer[c]] = request[c]

\* What a call obtains from another call's load, directly or through an
\* entry, is a projection the cache may retain.
OnlyProjectionsShared ==
    /\ \A c \in Calls :
          answer[c] \notin {c, NoCall} => answer[c] \notin opaque
    /\ \A k \in Requests : entries[k] \notin opaque

\* Nobody waits in vain: the call a waiter waits for loads the very key it
\* wants, and waits for nobody itself, or its future has ended, also after the
\* owner or another waiter was cancelled or the connection invalidated.
WaitersAreServed ==
    \A c \in Calls : pc[c] = "waiting" =>
        LET owner == waitsOn[c] IN
            \/ /\ pc[owner] = "loading" /\ future[owner] = "pending"
               /\ inflight[request[c]] = owner
            \/ future[owner] \in {"cached", "bypass", "failed", "cancelled"}

\* What each future says of the load it belongs to.
Ended == [none |-> "none", pending |-> "none", cached |-> "shared", bypass |-> "private",
          failed |-> "failed", cancelled |-> "cancelled"]

Standing == [idle |-> "out", loading |-> "loading", waiting |-> "waiting",
             direct |-> "alone", answered |-> "done", failed |-> "done",
             cancelled |-> "done"]

KeyOf(c) == IF pc[c] = "idle" THEN NoKey ELSE CacheKey(request[c])

Shared == INSTANCE SharedLoad WITH
    Keys    <- Requests,
    stage   <- [c \in Calls |-> Standing[pc[c]]],
    key     <- [c \in Calls |-> KeyOf(c)],
    of      <- waitsOn,
    outcome <- [c \in Calls |-> Ended[future[c]]],
    value   <- answer

\* The in-flight table, the futures and the entries, through expiry,
\* invalidation, failure and cancellation, do what SharedLoad promises: one
\* load of a key at a time, waiters told how that load ended and by nobody
\* else, results that may not be retained kept to their caller.
SharesLoads == Shared!SharedLoadSpec

\* Every call that enters the cache returns, fails or is cancelled.
CallsEnd ==
    \A c \in Calls : pc[c] \in Running
        ~> pc[c] \in {"answered", "failed", "cancelled"}

=============================================================================
