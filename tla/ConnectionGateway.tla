------------------------- MODULE ConnectionGateway -------------------------
(***************************************************************************)
(* The connection gateway of app/mcp_gateway.py: a request is resolved to  *)
(* one revision of one connection, routed to the server definition cached  *)
(* for that revision, and executed through the response cache of           *)
(* ConnectionCache.  A commit in the connection store bumps the revision   *)
(* and schedules, on the gateway's event loop, the invalidation of the     *)
(* revision it retired.                                                    *)
(*                                                                         *)
(* Suspension points separate resolving, routing and executing a request,  *)
(* so commits and invalidations fall between them.                         *)
(***************************************************************************)
EXTENDS ConnectionCache, Naturals

CONSTANTS
    MaxVersion,     \* bound on the revisions of a connection
    NoCtx           \* a call that has not been resolved

ASSUME GatewayConstants ==
    /\ MaxVersion \in Nat \ {0}
    /\ NoCtx \notin [connection : Connections, version : 1..MaxVersion]

VARIABLES
    version,        \* committed config_version of each connection
    ctx,            \* ConnectionCtx each call was resolved to
    routed,         \* calls that obtained their server definition
    sessions,       \* _entries of the gateway: cached server definitions
    tasks,          \* invalidations scheduled and not yet run
    retired,        \* revisions whose invalidation has run
    overlapped      \* calls of a revision still running at its invalidation

gatewayVars == <<version, ctx, routed, sessions, tasks, retired, overlapped>>
vars == <<cacheVars, gatewayVars>>

-----------------------------------------------------------------------------

Revisions == [connection : Connections, version : 1..MaxVersion]

GatewayTypeOK ==
    /\ CacheTypeOK
    /\ version \in [Connections -> 1..MaxVersion]
    /\ ctx \in [Calls -> Revisions \cup {NoCtx}]
    /\ routed \subseteq Calls
    /\ sessions \subseteq Revisions
    /\ tasks \subseteq Revisions
    /\ retired \subseteq Revisions
    /\ overlapped \subseteq Calls

Init ==
    /\ CacheInit
    /\ version = [n \in Connections |-> 1]
    /\ ctx = [c \in Calls |-> NoCtx]
    /\ routed = {}
    /\ sessions = {}
    /\ tasks = {}
    /\ retired = {}
    /\ overlapped = {}

-----------------------------------------------------------------------------
(* The store's commits and the invalidations they schedule.                *)

\* Any committed change of a connection: the store bumps config_version and
\* hands the retired revision to the gateway, which only schedules the work.
Commit(n) ==
    /\ version[n] < MaxVersion
    /\ version' = [version EXCEPT ![n] = @ + 1]
    /\ tasks' = tasks \cup {[connection |-> n, version |-> version[n]]}
    /\ UNCHANGED <<cacheVars, ctx, routed, sessions, retired, overlapped>>

Live(c) == pc[c] \notin {"answered", "failed", "cancelled"}

\* Variant: the cached reads of the connection are left alone.
SessionOnlyInvalidation(n) == UNCHANGED cacheVars

InvalidateCachedData(n) == InvalidateConnection(n)

\* invalidate_connection of the gateway: the cached reads of the connection
\* go first, then exactly the server definition of the retired revision.
RunInvalidation(r) ==
    /\ r \in tasks
    /\ tasks' = tasks \ {r}
    /\ InvalidateCachedData(r.connection)
    /\ sessions' = sessions \ {r}
    /\ retired' = retired \cup {r}
    /\ overlapped' = overlapped \cup {c \in Calls : ctx[c] = r /\ Live(c)}
    /\ UNCHANGED <<version, ctx, routed>>

-----------------------------------------------------------------------------
(* A request.                                                              *)

\* The bearer token resolves to the connection's current revision.
Resolve(c, n) ==
    /\ ctx[c] = NoCtx
    /\ ctx' = [ctx EXCEPT ![c] = [connection |-> n, version |-> version[n]]]
    /\ UNCHANGED <<cacheVars, version, routed, sessions, tasks, retired, overlapped>>

\* Variant: a miss adds its definition without evicting the others.
AddSession(key) == sessions \cup {key}

\* A miss evicts every other revision of the connection, then adds its own.
SessionsAfterRouting(key) ==
    IF key \in sessions THEN sessions
    ELSE {s \in sessions : s.connection # key.connection} \cup {key}

\* _manager_for.
Route(c) ==
    /\ ctx[c] # NoCtx
    /\ c \notin routed
    /\ routed' = routed \cup {c}
    /\ sessions' = SessionsAfterRouting(ctx[c])
    /\ UNCHANGED <<cacheVars, version, ctx, tasks, retired, overlapped>>

\* call_tool enters the runtime with the context of the routed revision.
Execute(c) ==
    /\ c \in routed
    /\ \E q \in Requests :
          /\ q.connection = ctx[c].connection
          /\ GetOrLoad(c, q)
    /\ UNCHANGED gatewayVars

\* Every later step of a call, and time, belong to the cache.
CacheStep ==
    /\ \/ \E c \in Calls :
             \/ OwnerEnds(c)
             \/ WaiterResumes(c)
             \/ WaiterCancelled(c)
             \/ DirectEnds(c)
       \/ \E k \in Requests : Expire(k)
    /\ UNCHANGED gatewayVars

Next ==
    \/ \E n \in Connections : Commit(n)
    \/ \E r \in tasks : RunInvalidation(r)
    \/ \E c \in Calls : \E n \in Connections : Resolve(c, n)
    \/ \E c \in Calls : Route(c)
    \/ \E c \in Calls : Execute(c)
    \/ CacheStep

Spec == Init /\ [][Next]_vars

-----------------------------------------------------------------------------
(* Properties.                                                             *)

\* The gateway never keeps two server definitions of one connection.
OneSessionPerConnection ==
    \A s, t \in sessions : s.connection = t.connection => s = t

\* Invalidation is complete up to overlap: an entry produced under a retired
\* revision, or a session of one, exists only because a call resolved to that
\* revision was still running when the invalidation ran.
StaleOnlyFromOverlap ==
    /\ \A k \in Requests : entries[k] # NoCall /\ ctx[entries[k]] \in retired
          => entries[k] \in overlapped
    /\ \A s \in sessions \cap retired : \E c \in overlapped : ctx[c] = s

\* What the invalidation's comment promises: once the invalidation of a
\* revision has run, no call of a later revision is served data the retired
\* one produced.
NoRetiredDataServed ==
    [][\A c \in Calls :
          /\ answer'[c] # answer[c]
          /\ ctx[answer'[c]] \in retired
          => ctx[answer'[c]].version = ctx[c].version]_vars

=============================================================================
