----------------------- MODULE OAuthTokenCacheProofs -----------------------
(***************************************************************************)
(* Proofs about OAuthTokenCache, for any number of calls, connections,     *)
(* secrets, event loops and invalidations.                                 *)
(***************************************************************************)
EXTENDS OAuthTokenCache, TLAPS

-----------------------------------------------------------------------------
(* The inductive invariant.                                                *)

\* A call has a context from the moment it starts.
ContextFixed ==
    \A c \in Calls : pc[c] = "idle" <=> context[c] = NoContext

\* A token cannot be overtaken before its exchange begins: neither that of an
\* attempt whose exchange is still to come, nor that of a second attempt
\* while the call is making its first.
OvertakenHasBegun ==
    \A c \in Calls :
        /\ pc[c] \in {"idle", "lookup", "register", "owner"}
              => Own(c) \notin overtaken
        /\ attempt[c] = 1 => [by |-> c, attempt |-> 2] \notin overtaken

\* The generation an exchange works under is not newer than the connection's,
\* and is strictly older once an invalidation has overtaken the exchange.
SeenIsPast ==
    \A c \in Calls : pc[c] = "exchanging" =>
        /\ seen[c] <= generation[context[c].connection]
        /\ Own(c) \in overtaken => seen[c] < generation[context[c].connection]

\* What is stored under a key was obtained by a call with that very context.
EntryHasOwnContext ==
    \A k \in Keys : entries[k] # NoEntry => context[entries[k].token.by] = k

GenerationParts ==
    /\ OvertakenHasBegun
    /\ SeenIsPast
    /\ EntryHasOwnContext
    /\ NoOvertakenTokenStored

GenerationInv ==
    /\ TypeOK
    /\ ContextFixed
    /\ GenerationParts

\* An owner's future is the one its key's slot holds, until it is withdrawn.
OwnersPublished ==
    \A c \in Calls : pc[c] \in Owning => inflight[Key(c)] = Own(c)

\* The future of a call's second attempt.
Second(c) == [by |-> c, attempt |-> 2]

\* A future is untouched before its owner publishes it, and settled by the
\* time its owner withdraws it.
FutureFollowsOwner ==
    \A c \in Calls :
        /\ pc[c] \in {"idle", "lookup", "register"} => future[Own(c)] = "none"
        /\ attempt[c] = 1 => future[Second(c)] = "none"
        /\ pc[c] = "withdraw" => future[Own(c)] \in Settled

\* A waiting call has a future to wait on.
WaitersWaitOnFutures ==
    \A c \in Calls : pc[c] = "waiting" => waitsOn[c] \in Tokens

FlightParts ==
    /\ InflightHasLiveOwner
    /\ OwnersPublished
    /\ FutureFollowsOwner
    /\ WaitersWaitOnFutures
    /\ NoOrphanedWaiter

FlightInv ==
    /\ TypeOK
    /\ ContextFixed
    /\ FlightParts

-----------------------------------------------------------------------------
(* Typing.                                                                 *)

\* The token of the attempt a call is making is a token.
LEMMA OwnIsToken ==
    ASSUME TypeOK, NEW c \in Calls
    PROVE  /\ Own(c) \in Tokens
           /\ Own(c).by = c
           /\ Own(c).attempt = attempt[c]
BY DEF TypeOK, Own, Tokens

\* A call that is not idle has a context, and so a key.
LEMMA StartedHasKey ==
    ASSUME TypeOK, ContextFixed, NEW c \in Calls, pc[c] # "idle"
    PROVE  /\ context[c] \in Contexts
           /\ Key(c) \in Keys
           /\ Key(c) = context[c]
           /\ context[c].connection \in Connections
BY DEF TypeOK, ContextFixed, Key, CacheKey, Keys, Contexts

\* The initial states are well typed.
LEMMA TypeInit == Init => TypeOK /\ ContextFixed
BY TokenConstants DEF Init, TypeOK, ContextFixed, Steps

\* Every step keeps the types and the context of a started call.
LEMMA TypeStep ==
    ASSUME TypeOK, ContextFixed, [Next]_vars
    PROVE  TypeOK' /\ ContextFixed'
<1> USE TokenConstants, OwnIsToken, StartedHasKey DEF TypeOK, ContextFixed, Steps, Settled
<1>1. CASE \E c \in Calls, n \in Connections, s \in Secrets : Start(c, n, s)
  BY <1>1 DEF Start, Goto, Contexts
<1>2. CASE \E c \in Calls : LookupHit(c)
  BY <1>2 DEF LookupHit, Goto, Own, Key, CacheKey, Entries
<1>3. CASE \E c \in Calls : LookupMiss(c)
  BY <1>3 DEF LookupMiss, Goto, Own, Key, CacheKey
<1>4. CASE \E c \in Calls : BecomeOwner(c)
  BY <1>4 DEF BecomeOwner, Goto, Own, Key, CacheKey
<1>5. CASE \E c \in Calls : JoinExchange(c)
  BY <1>5 DEF JoinExchange, Goto, Own, Key, CacheKey
<1>6. CASE \E c \in Calls : ReadGeneration(c)
  BY <1>6 DEF ReadGeneration, Goto, Own, Key, CacheKey
<1>7. CASE \E c \in Calls : StoreToken(c)
  BY <1>7 DEF StoreToken, Goto, Own, Key, CacheKey, NewEntry, Entries
<1>8. CASE \E c \in Calls : PublishToken(c)
  BY <1>8 DEF PublishToken, Goto, Own, Key, CacheKey
<1>9. CASE \E c \in Calls : ExchangeFails(c)
  BY <1>9 DEF ExchangeFails, Goto, Own, Key, CacheKey, ExchangeOutcomes
<1>10. CASE \E c \in Calls : Withdraw(c)
  BY <1>10 DEF Withdraw, Goto, Own, Key, CacheKey, Withdrawn
<1>11. CASE \E c \in Calls : WaiterResumes(c)
  BY <1>11 DEF WaiterResumes, Goto, Own, Key, CacheKey
<1>12. CASE \E c \in Calls : WaiterCancelled(c)
  BY <1>12 DEF WaiterCancelled, Goto, Own, Key, CacheKey
<1>13. CASE \E c \in Calls : RequestEnds(c)
  BY <1>13 DEF RequestEnds, Goto, Own, Key, CacheKey
<1>14. CASE \E c \in Calls : RequestRejected(c)
  BY <1>14 DEF RequestRejected, Goto, Own, Key, CacheKey
<1>15. CASE \E k \in Keys : Expire(k)
  BY <1>15 DEF Expire, Goto, Own, Key, CacheKey
<1>16. CASE \E n \in Connections : InvalidateConnection(n)
  BY <1>16 DEF InvalidateConnection, Goto, Own, Key, CacheKey, BeingExchanged
<1>17. CASE UNCHANGED vars
  BY <1>17 DEF vars, Goto, Own, Key, CacheKey
<1>18. QED
  BY <1>1, <1>2, <1>3, <1>4, <1>5, <1>6, <1>7, <1>8, <1>9, <1>10, <1>11, <1>12, <1>13, <1>14, <1>15, <1>16, <1>17
     DEF Next, CallStep, Scheduled

\* Type correctness of the token cache and its client.
THEOREM TypeCorrect == Spec => []TypeOK
<1>1. Init => TypeOK /\ ContextFixed
  BY TypeInit
<1>2. TypeOK /\ ContextFixed /\ [Next]_vars => TypeOK' /\ ContextFixed'
  BY TypeStep
<1>3. QED
  BY <1>1, <1>2, PTL DEF Spec

-----------------------------------------------------------------------------
(* Invalidation against exchanges under way.                               *)

\* The generation invariant holds initially: nothing is stored.
LEMMA GenerationInit == Init => GenerationInv
BY TypeInit, TokenConstants
   DEF Init, GenerationInv, GenerationParts, OvertakenHasBegun, SeenIsPast, EntryHasOwnContext,
       NoOvertakenTokenStored

\* Every step keeps the generation invariant.
LEMMA GenerationStep ==
    ASSUME GenerationInv, [Next]_vars
    PROVE  GenerationInv'
<1>1. TypeOK' /\ ContextFixed'
  BY TypeStep DEF GenerationInv
<1> SUFFICES GenerationParts'
  BY <1>1 DEF GenerationInv
<1> USE TokenConstants
    DEF GenerationInv, GenerationParts, TypeOK, ContextFixed, OvertakenHasBegun,
        SeenIsPast, EntryHasOwnContext, NoOvertakenTokenStored, Own, Goto
<1>2. ASSUME NEW c \in Calls, NEW n \in Connections, NEW s \in Secrets,
             Start(c, n, s)
      PROVE  GenerationParts'
  <2>1. context[c] = NoContext /\ NoContext \notin Keys
    BY <1>2 DEF Start, Keys
  <2>2. \A k \in Keys : entries[k] # NoEntry => entries[k].token.by # c
    BY <2>1
  <2>3. OvertakenHasBegun'
    BY <1>2 DEF Start
  <2>4. SeenIsPast'
    BY <1>2 DEF Start
  <2>5. EntryHasOwnContext'
    BY <1>2, <2>2 DEF Start, Entries, Tokens
  <2>6. NoOvertakenTokenStored'
    BY <1>2 DEF Start
  <2>7. QED
    BY <2>3, <2>4, <2>5, <2>6
<1>3. ASSUME NEW c \in Calls, LookupHit(c)
      PROVE  GenerationParts'
  BY <1>3 DEF LookupHit
<1>4. ASSUME NEW c \in Calls, LookupMiss(c)
      PROVE  GenerationParts'
  BY <1>4 DEF LookupMiss
<1>5. ASSUME NEW c \in Calls, BecomeOwner(c)
      PROVE  GenerationParts'
  BY <1>5 DEF BecomeOwner
<1>6. ASSUME NEW c \in Calls, JoinExchange(c)
      PROVE  GenerationParts'
  BY <1>6 DEF JoinExchange
<1>7. ASSUME NEW c \in Calls, ReadGeneration(c)
      PROVE  GenerationParts'
  <2>1. context[c].connection \in Connections
    BY <1>7, StartedHasKey DEF ReadGeneration
  <2>2. generation[context[c].connection] \in Nat
    BY <2>1
  <2>3. OvertakenHasBegun'
    BY <1>7 DEF ReadGeneration
  <2>4. SeenIsPast'
    <3>1. /\ Own(c) \notin overtaken
          /\ seen' = [seen EXCEPT ![c] = generation[context[c].connection]]
          /\ pc' = [pc EXCEPT ![c] = "exchanging"]
          /\ UNCHANGED <<context, attempt, generation, overtaken>>
      BY <1>7 DEF ReadGeneration
    <3>2. seen'[c] = generation[context[c].connection]
      BY <3>1
    <3>3. ASSUME NEW d \in Calls \ {c}, pc'[d] = "exchanging"
          PROVE  seen'[d] = seen[d] /\ pc[d] = "exchanging"
      BY <3>1, <3>3
    <3>4. QED
      BY <2>2, <3>1, <3>2, <3>3
  <2>5. EntryHasOwnContext' /\ NoOvertakenTokenStored'
    BY <1>7 DEF ReadGeneration
  <2>6. QED
    BY <2>3, <2>4, <2>5
<1>8. ASSUME NEW c \in Calls, StoreToken(c)
      PROVE  GenerationParts'
  <2>1. /\ context[c].connection \in Connections
        /\ Key(c) = context[c] /\ Key(c) \in Keys
    BY <1>8, StartedHasKey DEF StoreToken
  <2>2. Own(c) \in Tokens /\ Own(c).by = c
    BY OwnIsToken
  <2>3. OvertakenHasBegun' /\ SeenIsPast'
    BY <1>8 DEF StoreToken
  <2>4. StillCurrent(c) => Own(c) \notin overtaken
    BY <1>8, <2>1 DEF StoreToken, StillCurrent
  <2>5. CASE entries' = entries
    BY <1>8, <2>3, <2>5 DEF StoreToken
  <2>6. CASE /\ StillCurrent(c)
             /\ entries' = [entries EXCEPT ![Key(c)] = NewEntry(c)]
    <3>1. \A k \in Keys \ {Key(c)} : entries'[k] = entries[k]
      BY <2>6
    <3>2. /\ entries'[Key(c)].token = Own(c)
          /\ entries'[Key(c)].generation = generation[Key(c).connection]
      BY <2>1, <2>6 DEF NewEntry, StillCurrent
    <3>3. context' = context /\ generation' = generation /\ overtaken' = overtaken
      BY <1>8 DEF StoreToken
    <3>4. EntryHasOwnContext'
      BY <2>1, <2>2, <3>1, <3>2, <3>3
    <3>5. NoOvertakenTokenStored'
      BY <2>4, <2>6, <3>1, <3>2, <3>3
    <3>6. QED
      BY <2>3, <3>4, <3>5
  <2>7. QED
    BY <1>8, <2>5, <2>6 DEF StoreToken
<1>9. ASSUME NEW c \in Calls, PublishToken(c)
      PROVE  GenerationParts'
  BY <1>9 DEF PublishToken
<1>10. ASSUME NEW c \in Calls, ExchangeFails(c)
      PROVE  GenerationParts'
  BY <1>10 DEF ExchangeFails
<1>11. ASSUME NEW c \in Calls, Withdraw(c)
      PROVE  GenerationParts'
  BY <1>11 DEF Withdraw
<1>12. ASSUME NEW c \in Calls, WaiterResumes(c)
      PROVE  GenerationParts'
  <2>1. pc' = [pc EXCEPT ![c] = pc'[c]] /\ pc'[c] \in {"sending", "failed", "cancelled"}
    BY <1>12 DEF WaiterResumes, Settled
  <2>2. QED
    BY <1>12, <2>1 DEF WaiterResumes
<1>13. ASSUME NEW c \in Calls, WaiterCancelled(c)
      PROVE  GenerationParts'
  BY <1>13 DEF WaiterCancelled
<1>14. ASSUME NEW c \in Calls, RequestEnds(c)
      PROVE  GenerationParts'
  BY <1>14 DEF RequestEnds
<1>15. ASSUME NEW c \in Calls, RequestRejected(c)
      PROVE  GenerationParts'
  <2>1. OvertakenHasBegun' /\ SeenIsPast'
    BY <1>15 DEF RequestRejected, MayRetry
  <2>2. \A k \in Keys : entries'[k] # NoEntry => entries'[k] = entries[k]
    BY <1>15 DEF RequestRejected
  <2>3. EntryHasOwnContext' /\ NoOvertakenTokenStored'
    BY <1>15, <2>2 DEF RequestRejected
  <2>4. QED
    BY <2>1, <2>3
<1>16. ASSUME NEW k \in Keys, Expire(k)
      PROVE  GenerationParts'
  BY <1>16 DEF Expire
<1>17. ASSUME NEW n \in Connections, InvalidateConnection(n)
      PROVE  GenerationParts'
  <2>1. /\ generation[n] \in Nat
        /\ generation' = [generation EXCEPT ![n] = @ + 1]
        /\ overtaken' = overtaken \cup BeingExchanged(n)
        /\ UNCHANGED <<pc, context, attempt, seen>>
    BY <1>17 DEF InvalidateConnection
  <2>2. \A k \in Keys : entries'[k] # NoEntry
            => entries'[k] = entries[k] /\ k.connection # n
    BY <1>17 DEF InvalidateConnection
  <2>3. \A t \in BeingExchanged(n) :
            /\ t.by \in Calls
            /\ t = Own(t.by)
            /\ pc[t.by] = "exchanging"
            /\ context[t.by].connection = n
    BY OwnIsToken DEF BeingExchanged
  <2>4. OvertakenHasBegun'
    <3>1. ASSUME NEW c \in Calls, pc[c] # "exchanging"
          PROVE  Own(c) \notin BeingExchanged(n)
      BY <2>3, <3>1, OwnIsToken
    <3>2. ASSUME NEW c \in Calls, attempt[c] = 1
          PROVE  [by |-> c, attempt |-> 2] \notin BeingExchanged(n)
      BY <2>3, <3>2
    <3>3. QED
      BY <2>1, <3>1, <3>2
  <2>5. SeenIsPast'
    <3>1. ASSUME NEW c \in Calls, pc[c] = "exchanging"
          PROVE  /\ seen[c] <= generation'[context[c].connection]
                 /\ Own(c) \in overtaken'
                        => seen[c] < generation'[context[c].connection]
      <4>1. context[c].connection \in Connections
        BY <3>1, StartedHasKey
      <4>2. seen[c] \in Nat /\ generation[context[c].connection] \in Nat
        BY <4>1
      <4>3. CASE context[c].connection = n
        BY <2>1, <3>1, <4>2, <4>3
      <4>4. CASE context[c].connection # n
        <5>1. Own(c) \notin BeingExchanged(n)
          BY <2>3, <4>4, OwnIsToken
        <5>2. QED
          BY <2>1, <3>1, <4>1, <4>4, <5>1
      <4>5. QED
        BY <4>3, <4>4
    <3>2. QED
      BY <2>1, <3>1
  <2>6. EntryHasOwnContext'
    BY <2>1, <2>2
  <2>7. NoOvertakenTokenStored'
    <3>1. ASSUME NEW k \in Keys, entries'[k] # NoEntry
          PROVE  /\ entries'[k].token \notin overtaken'
                 /\ entries'[k].generation = generation'[k.connection]
      <4>1. entries'[k] = entries[k] /\ k.connection # n
        BY <2>2, <3>1
      <4>2. entries[k].token \notin BeingExchanged(n)
        BY <2>3, <3>1, <4>1
      <4>3. k.connection \in Connections
        BY DEF Keys, Contexts
      <4>4. QED
        BY <2>1, <3>1, <4>1, <4>2, <4>3
    <3>2. QED
      BY <3>1
  <2>8. QED
    BY <2>4, <2>5, <2>6, <2>7
<1>18. CASE UNCHANGED vars
  BY <1>18 DEF vars
<1>19. QED
  BY <1>2, <1>3, <1>4, <1>5, <1>6, <1>7, <1>8, <1>9, <1>10, <1>11, <1>12, <1>13, <1>14, <1>15, <1>16, <1>17, <1>18
     DEF Next, CallStep, Scheduled

\* A token whose exchange was under way when its connection was invalidated
\* is never found in the cache: _store's generation check is sufficient.
THEOREM OvertakenNeverStored == Spec => []NoOvertakenTokenStored
<1>1. Init => GenerationInv
  BY GenerationInit
<1>2. GenerationInv /\ [Next]_vars => GenerationInv'
  BY GenerationStep
<1>3. GenerationInv => NoOvertakenTokenStored
  BY DEF GenerationInv, GenerationParts
<1>4. QED
  BY <1>1, <1>2, <1>3, PTL DEF Spec

-----------------------------------------------------------------------------
(* Sharing an exchange.                                                    *)

\* The flight invariant holds initially: nothing is in flight.
LEMMA FlightInit == Init => FlightInv
BY TypeInit, TokenConstants
   DEF Init, FlightInv, FlightParts, InflightHasLiveOwner, OwnersPublished,
       FutureFollowsOwner, WaitersWaitOnFutures, NoOrphanedWaiter, Owning, Own, Second,
       Tokens

\* Every step keeps the flight invariant.
LEMMA FlightStep ==
    ASSUME FlightInv, [Next]_vars
    PROVE  FlightInv'
<1>1. TypeOK' /\ ContextFixed'
  BY TypeStep DEF FlightInv
<1> SUFFICES FlightParts'
  BY <1>1 DEF FlightInv
<1> USE TokenConstants
    DEF FlightInv, FlightParts, TypeOK, ContextFixed, InflightHasLiveOwner,
        OwnersPublished, FutureFollowsOwner, WaitersWaitOnFutures,
        NoOrphanedWaiter, Owning, Settled, Own, Key, CacheKey, Goto
<1>2. ASSUME NEW c \in Calls, NEW n \in Connections, NEW s \in Secrets,
             Start(c, n, s)
      PROVE  FlightParts'
  BY <1>2 DEF Start
<1>3. ASSUME NEW c \in Calls, LookupHit(c)
      PROVE  FlightParts'
  BY <1>3 DEF LookupHit
<1>4. ASSUME NEW c \in Calls, LookupMiss(c)
      PROVE  FlightParts'
  BY <1>4 DEF LookupMiss
<1>5. ASSUME NEW c \in Calls, BecomeOwner(c)
      PROVE  FlightParts'
  <2>1. /\ pc[c] = "register"
        /\ inflight[Key(c)] = NoToken
        /\ inflight' = [inflight EXCEPT ![Key(c)] = Own(c)]
        /\ future' = [future EXCEPT ![Own(c)] = "pending"]
        /\ pc' = [pc EXCEPT ![c] = "owner"]
        /\ UNCHANGED <<context, attempt, waitsOn>>
    BY <1>5 DEF BecomeOwner, NobodyExchanges
  <2>2. /\ \A d \in Calls : Own(d) \in Tokens /\ Own(d).by = d
        /\ \A t \in Tokens : t.by \in Calls
    BY OwnIsToken DEF Tokens
  <2>3. \A d, e \in Calls :
            /\ Second(d) \in Tokens
            /\ Own(d) = Second(e) => d = e /\ attempt[d] = 2
    BY DEF Second, Tokens
  <2>4. /\ Key(c) \in Keys
        /\ \A d \in Calls : pc[d] # "idle" => Key(d) \in Keys
    BY <2>1, StartedHasKey
  <2>5. future[Own(c)] = "none"
    BY <2>1
  <2>6. InflightHasLiveOwner'
    BY <2>1, <2>2, <2>4, <2>5
  <2>7. OwnersPublished'
    BY <2>1, <2>2, <2>4, <2>5
  <2>8. FutureFollowsOwner'
    BY <2>1, <2>2, <2>4, <2>5, <2>3
  <2>9. WaitersWaitOnFutures'
    BY <2>1, <2>2, <2>4, <2>5
  <2>10. NoOrphanedWaiter'
    BY <2>1, <2>2, <2>4, <2>5
  <2>11. QED
    BY <2>6, <2>7, <2>8, <2>9, <2>10
<1>6. ASSUME NEW c \in Calls, JoinExchange(c)
      PROVE  FlightParts'
  <2>1. /\ pc[c] = "register"
        /\ inflight[Key(c)] # NoToken
        /\ waitsOn' = [waitsOn EXCEPT ![c] = inflight[Key(c)]]
        /\ pc' = [pc EXCEPT ![c] = pc'[c]]
        /\ pc'[c] \in {"failed", "waiting"}
        /\ UNCHANGED <<context, attempt, inflight, future>>
    BY <1>6 DEF JoinExchange
  <2>2. /\ \A d \in Calls : Own(d) \in Tokens /\ Own(d).by = d
        /\ \A t \in Tokens : t.by \in Calls
    BY OwnIsToken DEF Tokens
  <2>3. \A d, e \in Calls :
            /\ Second(d) \in Tokens
            /\ Own(d) = Second(e) => d = e /\ attempt[d] = 2
    BY DEF Second, Tokens
  <2>4. Key(c) \in Keys /\ inflight[Key(c)] \in Tokens
    BY <2>1, StartedHasKey
  <2>5. /\ pc[inflight[Key(c)].by] \in Owning
        /\ inflight[Key(c)].by # c
        /\ inflight[Key(c)].by \in Calls
    BY <2>1, <2>4 DEF Tokens
  <2>6. InflightHasLiveOwner'
    BY <2>1, <2>2, <2>4, <2>5
  <2>7. OwnersPublished'
    BY <2>1, <2>2, <2>4, <2>5
  <2>8. FutureFollowsOwner'
    BY <2>1, <2>2, <2>4, <2>5, <2>3
  <2>9. WaitersWaitOnFutures'
    BY <2>1, <2>2, <2>4, <2>5
  <2>10. NoOrphanedWaiter'
    BY <2>1, <2>2, <2>4, <2>5
  <2>11. QED
    BY <2>6, <2>7, <2>8, <2>9, <2>10
<1>7. ASSUME NEW c \in Calls, ReadGeneration(c)
      PROVE  FlightParts'
  BY <1>7 DEF ReadGeneration
<1>8. ASSUME NEW c \in Calls, StoreToken(c)
      PROVE  FlightParts'
  BY <1>8 DEF StoreToken
<1>9. ASSUME NEW c \in Calls, PublishToken(c)
      PROVE  FlightParts'
  <2>1. /\ pc[c] = "publish"
        /\ future' = [future EXCEPT ![Own(c)] = future'[Own(c)]]
        /\ future'[Own(c)] \in Settled
        /\ pc' = [pc EXCEPT ![c] = "withdraw"]
        /\ UNCHANGED <<context, attempt, inflight, waitsOn>>
    BY <1>9, OwnIsToken DEF PublishToken
  <2>2. /\ \A d \in Calls : Own(d) \in Tokens /\ Own(d).by = d
        /\ \A t \in Tokens : t.by \in Calls
    BY OwnIsToken DEF Tokens
  <2>3. \A d, e \in Calls :
            /\ Second(d) \in Tokens
            /\ Own(d) = Second(e) => d = e /\ attempt[d] = 2
    BY DEF Second, Tokens
  <2>4. InflightHasLiveOwner'
    BY <2>1, <2>2
  <2>5. OwnersPublished'
    BY <2>1, <2>2
  <2>6. FutureFollowsOwner'
    BY <2>1, <2>2, <2>3
  <2>7. WaitersWaitOnFutures'
    BY <2>1, <2>2
  <2>8. NoOrphanedWaiter'
    BY <2>1, <2>2
  <2>9. QED
    BY <2>4, <2>5, <2>6, <2>7, <2>8
<1>10. ASSUME NEW c \in Calls, ExchangeFails(c)
      PROVE  FlightParts'
  <2>1. /\ pc[c] = "exchanging"
        /\ future' = [future EXCEPT ![Own(c)] = future'[Own(c)]]
        /\ future'[Own(c)] \in Settled
        /\ pc' = [pc EXCEPT ![c] = "withdraw"]
        /\ UNCHANGED <<context, attempt, inflight, waitsOn>>
    <3>1. PICK outcome \in {"failed", "cancelled"} :
              future' = [future EXCEPT ![Own(c)] = outcome]
      BY <1>10 DEF ExchangeFails, ExchangeOutcomes
    <3>2. future'[Own(c)] = outcome
      BY <3>1, OwnIsToken
    <3>3. QED
      BY <1>10, <3>1, <3>2 DEF ExchangeFails
  <2>2. /\ \A d \in Calls : Own(d) \in Tokens /\ Own(d).by = d
        /\ \A t \in Tokens : t.by \in Calls
    BY OwnIsToken DEF Tokens
  <2>3. \A d, e \in Calls :
            /\ Second(d) \in Tokens
            /\ Own(d) = Second(e) => d = e /\ attempt[d] = 2
    BY DEF Second, Tokens
  <2>4. InflightHasLiveOwner'
    BY <2>1, <2>2
  <2>5. OwnersPublished'
    BY <2>1, <2>2
  <2>6. FutureFollowsOwner'
    BY <2>1, <2>2, <2>3
  <2>7. WaitersWaitOnFutures'
    BY <2>1, <2>2
  <2>8. NoOrphanedWaiter'
    BY <2>1, <2>2
  <2>9. QED
    BY <2>4, <2>5, <2>6, <2>7, <2>8
<1>11. ASSUME NEW c \in Calls, Withdraw(c)
      PROVE  FlightParts'
  <2>1. /\ pc[c] = "withdraw"
        /\ inflight' = [inflight EXCEPT ![Key(c)] = NoToken]
        /\ pc' = [pc EXCEPT ![c] = pc'[c]]
        /\ pc'[c] \in {"sending", "failed", "cancelled"}
        /\ UNCHANGED <<context, attempt, future, waitsOn>>
    BY <1>11 DEF Withdraw, Withdrawn
  <2>2. /\ \A d \in Calls : Own(d) \in Tokens /\ Own(d).by = d
        /\ \A t \in Tokens : t.by \in Calls
    BY OwnIsToken DEF Tokens
  <2>3. \A d, e \in Calls :
            /\ Second(d) \in Tokens
            /\ Own(d) = Second(e) => d = e /\ attempt[d] = 2
    BY DEF Second, Tokens
  <2>4. /\ Key(c) \in Keys
        /\ \A d \in Calls : pc[d] # "idle" => Key(d) \in Keys
        /\ inflight[Key(c)] = Own(c)
        /\ future[Own(c)] \in Settled
    BY <2>1, StartedHasKey
  <2>5. \A d \in Calls : pc[d] = "waiting" =>
            waitsOn[d].by \in Calls /\ waitsOn[d] \in Tokens
    BY DEF Tokens
  <2>6. InflightHasLiveOwner'
    BY <2>1, <2>2, <2>4, <2>5
  <2>7. OwnersPublished'
    BY <2>1, <2>2, <2>4, <2>5
  <2>8. FutureFollowsOwner'
    BY <2>1, <2>2, <2>4, <2>5, <2>3
  <2>9. WaitersWaitOnFutures'
    BY <2>1, <2>2, <2>4, <2>5
  <2>10. NoOrphanedWaiter'
    BY <2>1, <2>2, <2>4, <2>5
  <2>11. QED
    BY <2>6, <2>7, <2>8, <2>9, <2>10
<1>12. ASSUME NEW c \in Calls, WaiterResumes(c)
      PROVE  FlightParts'
  BY <1>12 DEF WaiterResumes
<1>13. ASSUME NEW c \in Calls, WaiterCancelled(c)
      PROVE  FlightParts'
  BY <1>13 DEF WaiterCancelled
<1>14. ASSUME NEW c \in Calls, RequestEnds(c)
      PROVE  FlightParts'
  BY <1>14 DEF RequestEnds
<1>15. ASSUME NEW c \in Calls, RequestRejected(c)
      PROVE  FlightParts'
  <2>1. /\ pc[c] = "sending"
        /\ attempt[c] = 1
        /\ attempt' = [attempt EXCEPT ![c] = 2]
        /\ waitsOn' = [waitsOn EXCEPT ![c] = NoToken]
        /\ pc' = [pc EXCEPT ![c] = "lookup"]
        /\ UNCHANGED <<context, inflight, future>>
    BY <1>15 DEF RequestRejected, MayRetry
  <2>2. /\ \A d \in Calls : Own(d) \in Tokens /\ Own(d).by = d
        /\ \A t \in Tokens : t.by \in Calls
    BY OwnIsToken DEF Tokens
  <2>3. \A d, e \in Calls :
            /\ Second(d) \in Tokens
            /\ Own(d) = Second(e) => d = e /\ attempt[d] = 2
    BY DEF Second, Tokens
  <2>4. \A d \in Calls : d # c => pc'[d] = pc[d] /\ attempt'[d] = attempt[d]
    BY <2>1
  <2>5. InflightHasLiveOwner'
    BY <2>1, <2>2, <2>4
  <2>6. OwnersPublished'
    BY <2>1, <2>2, <2>4
  <2>7. future[Second(c)] = "none"
    BY <2>1
  <2>8. attempt'[c] = 2
    BY <2>1
  <2>9. Own(c)' = Second(c)
    BY <2>8 DEF Second
  <2>10. FutureFollowsOwner'
    BY <2>1, <2>4, <2>7, <2>9
  <2>11. WaitersWaitOnFutures'
    BY <2>1, <2>2, <2>4
  <2>12. NoOrphanedWaiter'
    BY <2>1, <2>2, <2>4
  <2>13. QED
    BY <2>5, <2>6, <2>10, <2>11, <2>12
<1>16. ASSUME NEW k \in Keys, Expire(k)
      PROVE  FlightParts'
  BY <1>16 DEF Expire
<1>17. ASSUME NEW n \in Connections, InvalidateConnection(n)
      PROVE  FlightParts'
  BY <1>17 DEF InvalidateConnection
<1>18. CASE UNCHANGED vars
  BY <1>18 DEF vars
<1>19. QED
  BY <1>2, <1>3, <1>4, <1>5, <1>6, <1>7, <1>8, <1>9, <1>10, <1>11, <1>12, <1>13, <1>14, <1>15, <1>16, <1>17, <1>18
     DEF Next, CallStep, Scheduled

\* A future in the in-flight table has an owner at work, every waiting call
\* has one to wake it, and concurrent misses of a key share one exchange.
THEOREM FlightSafe ==
    Spec => []FlightIntact
<1>1. Init => FlightInv
  BY FlightInit
<1>2. FlightInv /\ [Next]_vars => FlightInv'
  BY FlightStep
<1>3. FlightInv => FlightIntact
  <2>1. FlightInv => SingleExchange
    <3> SUFFICES ASSUME FlightInv, NEW c \in Calls, NEW d \in Calls,
                        pc[c] = "exchanging", pc[d] = "exchanging", Key(c) = Key(d)
                 PROVE  c = d
      BY DEF SingleExchange
    <3>1. Own(c) = Own(d)
      BY DEF FlightInv, FlightParts, OwnersPublished, Owning
    <3>2. QED
      BY <3>1 DEF Own
  <2>2. QED
    BY <2>1 DEF FlightInv, FlightParts, FlightIntact
<1>4. QED
  BY <1>1, <1>2, <1>3, PTL DEF Spec

-----------------------------------------------------------------------------
(* Whose token a call sends.                                               *)

\* A token a call holds, or waits for, is that of a call with its context.
TokensMatch ==
    \A c \in Calls :
        /\ held[c] # NoToken =>
              pc[c] # "idle" /\ context[held[c].by] = context[c]
        /\ waitsOn[c] # NoToken =>
              pc[c] # "idle" /\ context[waitsOn[c].by] = context[c]

MintingInv ==
    /\ FlightInv
    /\ GenerationInv
    /\ TokensMatch

\* The minting invariant holds initially: nobody holds a token.
LEMMA MintingInit == Init => MintingInv
BY FlightInit, GenerationInit DEF Init, MintingInv, TokensMatch

\* Every step keeps who a token is for.
LEMMA TokensMatchStep ==
    ASSUME MintingInv, [Next]_vars
    PROVE  TokensMatch'
<1>1. /\ TypeOK /\ ContextFixed /\ InflightHasLiveOwner /\ WaitersWaitOnFutures
      /\ EntryHasOwnContext /\ TokensMatch
  BY DEF MintingInv, FlightInv, FlightParts, GenerationInv, GenerationParts
<1>2. /\ context \in [Calls -> Contexts \cup {NoContext}]
      /\ pc \in [Calls -> Steps]
      /\ held \in [Calls -> Tokens \cup {NoToken}]
      /\ waitsOn \in [Calls -> Tokens \cup {NoToken}]
      /\ \A t \in Tokens : t.by \in Calls
  BY <1>1 DEF TypeOK, Tokens
\* Where only the stage of one call changes, and nobody falls back to "idle".
<1>3. ASSUME NEW c \in Calls, NEW step \in Steps, step # "idle",
             Goto(c, step), context' = context,
             NEW t \in Tokens \cup {NoToken}, NEW u \in Tokens \cup {NoToken},
             t # NoToken => context[t.by] = context[c],
             u # NoToken => context[u.by] = context[c],
             held' = held \/ held' = [held EXCEPT ![c] = t],
             waitsOn' = waitsOn \/ waitsOn' = [waitsOn EXCEPT ![c] = u]
      PROVE  TokensMatch'
  <2> SUFFICES ASSUME NEW d \in Calls
               PROVE  /\ held'[d] # NoToken =>
                            pc'[d] # "idle" /\ context[held'[d].by] = context[d]
                      /\ waitsOn'[d] # NoToken =>
                            pc'[d] # "idle" /\ context[waitsOn'[d].by] = context[d]
    BY <1>3 DEF TokensMatch
  <2>1. pc'[d] = IF d = c THEN step ELSE pc[d]
    BY <1>2, <1>3 DEF Goto
  <2>2. held'[d] = held[d] \/ (d = c /\ held'[d] = t)
    BY <1>2, <1>3
  <2>3. waitsOn'[d] = waitsOn[d] \/ (d = c /\ waitsOn'[d] = u)
    BY <1>2, <1>3
  <2> QED
    BY <1>1, <1>3, <2>1, <2>2, <2>3 DEF TokensMatch
<1>4. ASSUME NEW c \in Calls, NEW n \in Connections, NEW s \in Secrets,
             Start(c, n, s)
      PROVE  TokensMatch'
  <2>1. /\ pc[c] = "idle" /\ Goto(c, "lookup")
        /\ context' = [context EXCEPT ![c] = [connection |-> n, secret |-> s]]
        /\ UNCHANGED <<held, waitsOn>>
    BY <1>4 DEF Start
  <2>2. ASSUME NEW d \in Calls, NEW t \in Tokens, pc[d] # "idle",
               context[t.by] = context[d]
        PROVE  pc'[d] # "idle" /\ context'[t.by] = context'[d]
    <3>1. d # c /\ t.by # c
      BY <1>1, <1>2, <2>1, <2>2 DEF ContextFixed
    <3> QED
      BY <1>2, <2>1, <2>2, <3>1 DEF Goto
  <2> QED
    BY <1>1, <1>2, <2>1, <2>2 DEF TokensMatch
<1>5. ASSUME NEW c \in Calls, CallStep(c)
      PROVE  TokensMatch'
  <2>1. CASE LookupHit(c)
    <3>1. Key(c) = context[c] /\ Key(c) \in Keys
      BY <1>1, <2>1, StartedHasKey DEF LookupHit
    <3>2. /\ entries[Key(c)].token \in Tokens
          /\ context[entries[Key(c)].token.by] = context[c]
      BY <1>1, <2>1, <3>1 DEF LookupHit, TypeOK, Entries, EntryHasOwnContext
    <3> QED
      BY <1>3, <2>1, <3>2 DEF LookupHit, Steps
  <2>2. CASE JoinExchange(c)
    <3>1. Key(c) = context[c] /\ Key(c) \in Keys
      BY <1>1, <2>2, StartedHasKey DEF JoinExchange
    <3>2. inflight[Key(c)] \in Tokens
      BY <1>1, <2>2, <3>1 DEF JoinExchange, TypeOK
    <3>3. context[inflight[Key(c)].by] = context[c]
      BY <1>1, <3>1, <3>2, TokenConstants DEF InflightHasLiveOwner, Key, CacheKey
    <3>4. PICK step \in {"failed", "waiting"} : Goto(c, step)
      BY <2>2 DEF JoinExchange
    <3> QED
      BY <1>3, <2>2, <3>2, <3>3, <3>4 DEF JoinExchange, Steps
  <2>3. CASE StoreToken(c)
    <3>1. Own(c) \in Tokens /\ Own(c).by = c
      BY <1>1, OwnIsToken
    <3> QED
      BY <1>3, <2>3, <3>1 DEF StoreToken, Steps
  <2>4. CASE WaiterResumes(c)
    <3>1. waitsOn[c] \in Tokens /\ waitsOn[c] # NoToken
      BY <1>1, <2>4, TokenConstants DEF WaiterResumes, WaitersWaitOnFutures
    <3>2. context[waitsOn[c].by] = context[c]
      BY <1>1, <3>1 DEF TokensMatch
    <3>3. held' = [held EXCEPT ![c] = waitsOn[c]] \/ held' = held
      BY <1>2, <2>4 DEF WaiterResumes
    <3>4. PICK step \in {"sending", "failed", "cancelled"} : Goto(c, step)
      BY <2>4 DEF WaiterResumes, Settled
    <3> QED
      BY <1>3, <2>4, <3>1, <3>2, <3>3, <3>4 DEF WaiterResumes, Steps
  <2>5. CASE RequestRejected(c)
    BY <1>3, <2>5 DEF RequestRejected, Steps
  <2>6. CASE LookupMiss(c) \/ BecomeOwner(c) \/ ReadGeneration(c) \/ PublishToken(c)
             \/ ExchangeFails(c) \/ Withdraw(c) \/ WaiterCancelled(c) \/ RequestEnds(c)
    <3>1. UNCHANGED <<context, held, waitsOn>>
      BY <2>6 DEF LookupMiss, BecomeOwner, ReadGeneration, PublishToken, ExchangeFails,
                  Withdraw, WaiterCancelled, RequestEnds
    <3>2. PICK step \in Steps : step # "idle" /\ Goto(c, step)
      BY <2>6 DEF LookupMiss, BecomeOwner, ReadGeneration, PublishToken, ExchangeFails,
                  Withdraw, WaiterCancelled, RequestEnds, Steps
    <3> QED
      BY <1>3, <3>1, <3>2
  <2> QED
    BY <1>5, <2>1, <2>2, <2>3, <2>4, <2>5, <2>6 DEF CallStep, Scheduled
<1>6. ASSUME NEW k \in Keys, Expire(k)
      PROVE  TokensMatch'
  BY <1>1, <1>6 DEF Expire, TokensMatch
<1>7. ASSUME NEW n \in Connections, InvalidateConnection(n)
      PROVE  TokensMatch'
  BY <1>1, <1>7 DEF InvalidateConnection, TokensMatch
<1>8. CASE UNCHANGED vars
  BY <1>1, <1>8 DEF vars, TokensMatch
<1> QED
  BY <1>4, <1>5, <1>6, <1>7, <1>8 DEF Next

LEMMA MintingStep ==
    ASSUME MintingInv, [Next]_vars
    PROVE  MintingInv'
BY FlightStep, GenerationStep, TokensMatchStep DEF MintingInv

\* A call sends only a token minted for its connection from its own secret:
\* neither the shared entries nor the shared futures mix credentials up, not
\* even when the secret is rotated while calls of both secrets are under way.
THEOREM TokensAreOwn == Spec => []TokenMintedFromOwnSecret
<1>1. Init => MintingInv
  BY MintingInit
<1>2. MintingInv /\ [Next]_vars => MintingInv'
  BY MintingStep
<1>3. MintingInv => TokenMintedFromOwnSecret
  BY DEF MintingInv, TokensMatch, TokenMintedFromOwnSecret
<1>4. QED
  BY <1>1, <1>2, <1>3, PTL DEF Spec

-----------------------------------------------------------------------------
(* How a waiting call fails.                                               *)

\* The future of an exchange is pending until its outcome is known.
ExchangesPending ==
    \A c \in Calls :
        pc[c] \in {"owner", "exchanging", "publish"} => future[Own(c)] = "pending"

\* A call that waits for nobody, or has been given its token, cannot fail as
\* a waiter.
WaitersApart ==
    \A c \in Calls :
        /\ pc[c] \in {"idle", "lookup", "register"} \cup Owning
              => waitsOn[c] = NoToken
        /\ pc[c] \in {"publish", "sending"} => held[c] # NoToken
        /\ pc[c] = "withdraw" /\ future[Own(c)] = "ok" => held[c] # NoToken

\* A waiting call fails with the exchange it waits for, or at once because
\* the exchange runs on another event loop.
FailuresExplained ==
    \A c \in Calls :
        pc[c] = "failed" /\ held[c] = NoToken /\ waitsOn[c] # NoToken
        => \/ future[waitsOn[c]] = "failed"
           \/ loop[waitsOn[c].by] # loop[c]

OutcomeInv ==
    /\ FlightInv
    /\ ExchangesPending
    /\ WaitersApart
    /\ FailuresExplained

\* The outcome invariant holds initially: no call has begun.
LEMMA OutcomeInit == Init => OutcomeInv
BY FlightInit
   DEF Init, OutcomeInv, ExchangesPending, WaitersApart, FailuresExplained, Owning

\* Once an exchange has an outcome its future keeps it, and what no call has
\* touched stays as it is.
LEMMA OutcomesStay ==
    ASSUME TypeOK, FutureFollowsOwner, ExchangesPending, NEW c \in Calls,
           CallStep(c)
    PROVE  /\ \A t \in Tokens : future[t] \in Settled => future'[t] = future[t]
           /\ \A t \in Tokens : t.by # c => future'[t] = future[t]
<1>1. Own(c) \in Tokens /\ Own(c).by = c /\ future \in [Tokens -> {"none", "pending"} \cup Settled]
  BY OwnIsToken DEF TypeOK
<1>2. CASE BecomeOwner(c)
  BY <1>1, <1>2 DEF BecomeOwner, FutureFollowsOwner, Settled
<1>3. CASE PublishToken(c)
  BY <1>1, <1>3 DEF PublishToken, ExchangesPending, Settled
<1>4. CASE ExchangeFails(c)
  BY <1>1, <1>4 DEF ExchangeFails, ExchangesPending, Settled
<1>5. CASE UNCHANGED future
  BY <1>5
<1> QED
  BY <1>2, <1>3, <1>4, <1>5
     DEF CallStep, Scheduled, LookupHit, LookupMiss, JoinExchange, ReadGeneration, StoreToken,
         Withdraw, WaiterResumes, RequestEnds, RequestRejected, WaiterCancelled

\* The other calls are where they were.
LEMMA OthersStay ==
    ASSUME TypeOK, NEW c \in Calls, CallStep(c)
    PROVE  \A d \in Calls : d # c =>
              /\ pc'[d] = pc[d] /\ held'[d] = held[d] /\ waitsOn'[d] = waitsOn[d]
              /\ attempt'[d] = attempt[d]
<1>1. /\ pc \in [Calls -> Steps] /\ held \in [Calls -> Tokens \cup {NoToken}]
      /\ waitsOn \in [Calls -> Tokens \cup {NoToken}] /\ attempt \in [Calls -> {1, 2}]
  BY DEF TypeOK
<1>2. CASE LookupHit(c) \/ LookupMiss(c) \/ BecomeOwner(c) \/ JoinExchange(c)
  BY <1>1, <1>2 DEF LookupHit, LookupMiss, BecomeOwner, JoinExchange, Goto
<1>3. CASE ReadGeneration(c) \/ StoreToken(c) \/ PublishToken(c) \/ ExchangeFails(c)
           \/ Withdraw(c)
  BY <1>1, <1>3 DEF ReadGeneration, StoreToken, PublishToken, ExchangeFails, Withdraw, Goto
<1>4. CASE WaiterResumes(c) \/ WaiterCancelled(c) \/ RequestEnds(c) \/ RequestRejected(c)
  BY <1>1, <1>4 DEF WaiterResumes, WaiterCancelled, RequestEnds, RequestRejected, Goto
<1> QED
  BY <1>2, <1>3, <1>4 DEF CallStep, Scheduled

\* What becomes of the call that makes a step.
LEMMA OwnOutcome ==
    ASSUME OutcomeInv, NEW c \in Calls, CallStep(c)
    PROVE  /\ pc'[c] \in {"owner", "exchanging", "publish"} => future'[Own(c)'] = "pending"
           /\ pc'[c] \in {"idle", "lookup", "register"} \cup Owning
                 => waitsOn'[c] = NoToken
           /\ pc'[c] \in {"publish", "sending"} => held'[c] # NoToken
           /\ pc'[c] = "withdraw" /\ future'[Own(c)'] = "ok" => held'[c] # NoToken
           /\ pc'[c] = "failed" /\ held'[c] = NoToken /\ waitsOn'[c] # NoToken
                 => \/ future'[waitsOn'[c]] = "failed"
                    \/ loop'[waitsOn'[c].by] # loop'[c]
<1>1. /\ TypeOK /\ ContextFixed /\ FutureFollowsOwner /\ WaitersWaitOnFutures
      /\ ExchangesPending /\ WaitersApart /\ FailuresExplained
  BY DEF OutcomeInv, FlightInv, FlightParts
<1>2. /\ Own(c) \in Tokens /\ pc \in [Calls -> Steps]
      /\ held \in [Calls -> Tokens \cup {NoToken}]
      /\ waitsOn \in [Calls -> Tokens \cup {NoToken}]
      /\ future \in [Tokens -> {"none", "pending"} \cup Settled]
      /\ NoToken \notin Tokens
  BY <1>1, OwnIsToken, TokenConstants DEF TypeOK
<1>3. attempt' = attempt => Own(c)' = Own(c)
  BY DEF Own
<1>4. CASE LookupHit(c)
  <2>1. Key(c) \in Keys
    BY <1>1, <1>4, StartedHasKey DEF LookupHit
  <2>2. entries[Key(c)].token \in Tokens
    BY <1>1, <1>4, <2>1 DEF LookupHit, TypeOK, Entries
  <2>3. pc'[c] = "sending" /\ held'[c] # NoToken
    BY <1>2, <1>4, <2>2 DEF LookupHit, Goto
  <2> QED
    BY <2>3 DEF Owning
<1>5. CASE LookupMiss(c)
  BY <1>1, <1>2, <1>5 DEF LookupMiss, Goto, WaitersApart, Owning
<1>6. CASE BecomeOwner(c)
  BY <1>1, <1>2, <1>3, <1>6 DEF BecomeOwner, Goto, WaitersApart, Owning
<1>7. CASE JoinExchange(c)
  <2>1. Key(c) \in Keys
    BY <1>1, <1>7, StartedHasKey DEF JoinExchange
  <2>2. /\ inflight[Key(c)] \in Tokens /\ waitsOn'[c] = inflight[Key(c)] /\ loop' = loop
        /\ \/ pc'[c] = "waiting"
           \/ pc'[c] = "failed" /\ AwaitFails(c, inflight[Key(c)])
    BY <1>1, <1>2, <1>7, <2>1 DEF JoinExchange, Goto, TypeOK
  <2> QED
    BY <2>2 DEF AwaitFails, Owning
<1>8. CASE ReadGeneration(c)
  BY <1>1, <1>2, <1>3, <1>8
     DEF ReadGeneration, Goto, WaitersApart, ExchangesPending, Owning
<1>9. CASE StoreToken(c)
  BY <1>1, <1>2, <1>3, <1>9
     DEF StoreToken, Goto, WaitersApart, ExchangesPending, Owning
<1>10. CASE PublishToken(c)
  BY <1>1, <1>2, <1>10 DEF PublishToken, Goto, WaitersApart, Owning
<1>11. CASE ExchangeFails(c)
  <2>1. future'[Own(c)'] \in {"failed", "cancelled"} /\ pc'[c] = "withdraw"
        /\ waitsOn' = waitsOn /\ pc[c] = "exchanging"
    BY <1>2, <1>3, <1>11 DEF ExchangeFails, ExchangeOutcomes, Goto
  <2> QED
    BY <1>1, <2>1 DEF WaitersApart, Owning
<1>12. CASE Withdraw(c)
  <2>1. /\ pc[c] = "withdraw" /\ waitsOn' = waitsOn /\ held' = held
        /\ \/ pc'[c] = "sending" /\ future[Own(c)] = "ok"
           \/ pc'[c] \in {"failed", "cancelled"}
    BY <1>2, <1>12 DEF Withdraw, Goto
  <2> QED
    BY <1>1, <2>1 DEF WaitersApart, Owning
<1>13. CASE WaiterResumes(c)
  <2>1. waitsOn[c] \in Tokens /\ waitsOn' = waitsOn /\ future' = future
    BY <1>1, <1>13 DEF WaiterResumes, WaitersWaitOnFutures
  <2>2. \/ pc'[c] = "sending" /\ held'[c] = waitsOn[c]
        \/ pc'[c] = "failed" /\ future[waitsOn[c]] = "failed"
        \/ pc'[c] = "cancelled"
    <3>1. future[waitsOn[c]] \in {"ok", "failed", "cancelled"}
      BY <1>13 DEF WaiterResumes, Settled
    <3> QED
      BY <1>2, <1>13, <3>1 DEF WaiterResumes, Goto
  <2> QED
    BY <1>2, <2>1, <2>2 DEF Owning
<1>14. CASE WaiterCancelled(c)
  BY <1>2, <1>14 DEF WaiterCancelled, Goto, Owning
<1>15. CASE RequestEnds(c)
  <2>1. pc'[c] \in {"done", "failed", "cancelled"} /\ held' = held /\ held[c] # NoToken
    BY <1>1, <1>2, <1>15 DEF RequestEnds, Goto, WaitersApart
  <2> QED
    BY <2>1 DEF Owning
<1>16. CASE RequestRejected(c)
  BY <1>2, <1>16 DEF RequestRejected, Goto, Owning
<1> QED
  BY <1>4, <1>5, <1>6, <1>7, <1>8, <1>9, <1>10, <1>11, <1>12, <1>13, <1>14, <1>15, <1>16
     DEF CallStep, Scheduled

\* Every step keeps the outcome invariant.
LEMMA OutcomeStep ==
    ASSUME OutcomeInv, [Next]_vars
    PROVE  OutcomeInv'
<1>1. FlightInv'
  BY FlightStep DEF OutcomeInv
<1>2. /\ TypeOK /\ ContextFixed /\ FutureFollowsOwner /\ WaitersWaitOnFutures
      /\ ExchangesPending /\ WaitersApart /\ FailuresExplained
  BY DEF OutcomeInv, FlightInv, FlightParts
<1>3. ASSUME NEW c \in Calls, CallStep(c)
      PROVE  ExchangesPending' /\ WaitersApart' /\ FailuresExplained'
  <2>1. loop' = loop
    BY <1>3 DEF CallStep, Scheduled, LookupHit, LookupMiss, BecomeOwner, JoinExchange,
                ReadGeneration, StoreToken, PublishToken, ExchangeFails, Withdraw,
                WaiterResumes, RequestEnds, RequestRejected, WaiterCancelled
  <2>2. ASSUME NEW d \in Calls, d # c
        PROVE  /\ Own(d)' = Own(d) /\ Own(d) \in Tokens
               /\ future'[Own(d)] = future[Own(d)]
               /\ pc'[d] = pc[d] /\ held'[d] = held[d] /\ waitsOn'[d] = waitsOn[d]
    <3>1. /\ pc'[d] = pc[d] /\ held'[d] = held[d] /\ waitsOn'[d] = waitsOn[d]
          /\ attempt'[d] = attempt[d]
      BY <1>2, <1>3, <2>2, OthersStay
    <3>2. Own(d)' = Own(d) /\ Own(d) \in Tokens /\ Own(d).by = d
      BY <1>2, <3>1, OwnIsToken DEF Own
    <3> QED
      BY <1>2, <1>3, <2>2, <3>1, <3>2, OutcomesStay
  <2>3. ASSUME NEW d \in Calls, d # c, waitsOn[d] # NoToken, future[waitsOn[d]] = "failed"
        PROVE  future'[waitsOn[d]] = "failed"
    BY <1>2, <1>3, <2>3, OutcomesStay DEF TypeOK, Settled
  <2>4. ExchangesPending' /\ WaitersApart'
    BY <1>2, <1>3, <2>2, OwnOutcome DEF ExchangesPending, WaitersApart
  <2>5. FailuresExplained'
    BY <1>2, <1>3, <2>1, <2>2, <2>3, OwnOutcome DEF FailuresExplained
  <2> QED
    BY <2>4, <2>5
<1>4. ASSUME \/ \E c \in Calls, n \in Connections, s \in Secrets : Start(c, n, s)
             \/ \E k \in Keys : Expire(k)
             \/ \E n \in Connections : InvalidateConnection(n)
             \/ UNCHANGED vars
      PROVE  ExchangesPending' /\ WaitersApart' /\ FailuresExplained'
  <2>1. UNCHANGED <<loop, attempt, future, waitsOn, held>>
    BY <1>4 DEF Start, Expire, InvalidateConnection, vars
  <2>2. \A d \in Calls : pc'[d] = pc[d] \/ (pc[d] = "idle" /\ pc'[d] = "lookup")
    BY <1>2, <1>4 DEF Start, Expire, InvalidateConnection, vars, Goto, TypeOK
  <2>3. \A d \in Calls : Own(d)' = Own(d)
    BY <2>1 DEF Own
  <2>4. ExchangesPending' /\ WaitersApart'
    BY <1>2, <2>1, <2>2, <2>3 DEF ExchangesPending, WaitersApart, Owning
  <2>5. FailuresExplained'
    BY <1>2, <2>1, <2>2 DEF FailuresExplained
  <2> QED
    BY <2>4, <2>5
<1> QED
  BY <1>1, <1>3, <1>4 DEF OutcomeInv, Next

LEMMA OutcomeHolds == Spec => []OutcomeInv
BY OutcomeInit, OutcomeStep, PTL DEF Spec

\* With any number of event loops, an exchange that goes on elsewhere is the
\* only thing but its own failure that a waiting call fails of.
THEOREM WaitersFailTogether == Spec => []FailuresExplained
<1>1. OutcomeInv => FailuresExplained
  BY DEF OutcomeInv
<1> QED
  BY OutcomeHolds, <1>1, PTL

\* On one event loop a call that waited fails only with its exchange.
THEOREM OneLoopShares ==
    ASSUME \A l, m \in Loops : l = m
    PROVE  Spec => []WaiterSharesOutcome
<1>1. OutcomeInv => WaiterSharesOutcome
  <2> SUFFICES ASSUME OutcomeInv, NEW c \in Calls,
                      pc[c] = "failed", held[c] = NoToken, waitsOn[c] # NoToken
               PROVE  future[waitsOn[c]] = "failed"
    BY DEF WaiterSharesOutcome
  <2>1. waitsOn[c].by \in Calls /\ loop \in [Calls -> Loops]
    BY DEF OutcomeInv, FlightInv, TypeOK, Tokens
  <2> QED
    BY <2>1 DEF OutcomeInv, FailuresExplained
<1> QED
  BY OutcomeHolds, <1>1, PTL
=============================================================================
