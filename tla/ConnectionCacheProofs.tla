----------------------- MODULE ConnectionCacheProofs -----------------------
(***************************************************************************)
(* Theorems about ConnectionCache and about ConnectionGateway, which uses  *)
(* it, for any calls, connections, tools, arguments and revisions.  That   *)
(* answers stay with their requests and that the tables implement          *)
(* SharedLoad both rest on how the tables belong together: the owner of a  *)
(* slot is loading it, a pending future has a loading owner, and an entry  *)
(* or an answer obtained from another call comes from one whose future     *)
(* said it may be shared.  A gateway is a cache under invalidations, so it *)
(* inherits all of this; what it adds is which revision a call is of.      *)
(***************************************************************************)
EXTENDS ConnectionGateway, TLAPS

\* A slot belongs to the call that loads its key, and a call that loads has
\* the slot of its key and a pending future.
OwnersLoad ==
    /\ \A k \in Requests : inflight[k] # NoCall =>
          pc[inflight[k]] = "loading" /\ request[inflight[k]] = k
    /\ \A c \in Calls : pc[c] = "loading" => inflight[request[c]] = c

FuturesFollow ==
    \A c \in Calls :
        /\ pc[c] = "loading" <=> future[c] = "pending"
        /\ pc[c] = "idle" => future[c] = "none"
        /\ pc[c] # "idle" => request[c] \in Requests
        /\ c \in opaque => future[c] = "bypass"

WaitersJoined ==
    \A c \in Calls : pc[c] = "waiting" =>
        /\ waitsOn[c] \in Calls
        /\ future[waitsOn[c]] # "none"
        /\ request[waitsOn[c]] = request[c]

EntriesShared ==
    \A k \in Requests : entries[k] # NoCall =>
        future[entries[k]] = "cached" /\ request[entries[k]] = k

AnswersShared ==
    \A c \in Calls : answer[c] # NoCall =>
        /\ pc[c] # "idle" /\ pc[answer[c]] # "idle"
        /\ request[answer[c]] = request[c]
        /\ answer[c] # c => future[answer[c]] = "cached"

CacheInv ==
    /\ CacheTypeOK
    /\ OwnersLoad
    /\ FuturesFollow
    /\ WaitersJoined
    /\ EntriesShared
    /\ AnswersShared

LEMMA KeyIsRequest ==
    ASSUME NEW q \in Requests, CacheKey(q) # NoKey
    PROVE  CacheKey(q) = q
BY DEF CacheKey

LEMMA NoKeyIsNoRequest == NoKey \notin Requests
BY CacheConstants DEF Requests

LEMMA InitInv == CacheInit => CacheInv
<1> SUFFICES ASSUME CacheInit
             PROVE  CacheInv
  OBVIOUS
<1>1. CacheTypeOK
  BY DEF CacheInit, CacheTypeOK, Steps, FutureStates
<1>2. OwnersLoad /\ FuturesFollow /\ WaitersJoined /\ EntriesShared /\ AnswersShared
  BY DEF CacheInit, OwnersLoad, FuturesFollow, WaitersJoined, EntriesShared, AnswersShared
<1> QED
  BY <1>1, <1>2 DEF CacheInv

-----------------------------------------------------------------------------
(* The callers that come in.                                               *)

LEMMA BeginFacts ==
    ASSUME CacheTypeOK, NEW c \in Calls, NEW q \in Requests, Begin(c, q)
    PROVE  /\ pc[c] = "idle"
           /\ request' \in [Calls -> Requests \cup {NoKey}]
           /\ request'[c] = q
           /\ \A d \in Calls : d # c => request'[d] = request[d]
BY DEF Begin, CacheTypeOK

LEMMA BypassStep ==
    ASSUME CacheInv, NEW c \in Calls, NEW q \in Requests, BypassCache(c, q)
    PROVE  CacheInv'
<1> USE DEF CacheInv
<1>1. /\ pc[c] = "idle"
      /\ request' \in [Calls -> Requests \cup {NoKey}]
      /\ request'[c] = q
      /\ \A d \in Calls : d # c => request'[d] = request[d]
  BY BeginFacts DEF BypassCache
<1>2. /\ pc' \in [Calls -> Steps] /\ pc'[c] = "direct"
      /\ \A d \in Calls : d # c => pc'[d] = pc[d]
  BY DEF BypassCache, CacheTypeOK, Steps
<1>3. UNCHANGED <<entries, expired, inflight, future, waitsOn, answer, opaque>>
  BY DEF BypassCache
<1>4. CacheTypeOK'
  BY <1>1, <1>2, <1>3 DEF CacheTypeOK
<1>5. OwnersLoad'
  BY <1>1, <1>2, <1>3 DEF OwnersLoad, CacheTypeOK
<1>6. FuturesFollow'
  BY <1>1, <1>2, <1>3 DEF FuturesFollow
<1>7. WaitersJoined'
  BY <1>1, <1>2, <1>3 DEF WaitersJoined, FuturesFollow
<1>8. EntriesShared'
  BY <1>1, <1>3 DEF EntriesShared, FuturesFollow, CacheTypeOK
<1>9. AnswersShared'
  BY <1>1, <1>2, <1>3 DEF AnswersShared, CacheTypeOK
<1> QED
  BY <1>4, <1>5, <1>6, <1>7, <1>8, <1>9

LEMMA HitStep ==
    ASSUME CacheInv, NEW c \in Calls, NEW q \in Requests, Hit(c, q)
    PROVE  CacheInv'
<1> USE DEF CacheInv
<1>1. /\ pc[c] = "idle"
      /\ request' \in [Calls -> Requests \cup {NoKey}]
      /\ request'[c] = q
      /\ \A d \in Calls : d # c => request'[d] = request[d]
  BY BeginFacts DEF Hit
<1>2. /\ pc' \in [Calls -> Steps] /\ pc'[c] = "answered"
      /\ \A d \in Calls : d # c => pc'[d] = pc[d]
  BY DEF Hit, CacheTypeOK, Steps
<1>3. UNCHANGED <<entries, expired, inflight, future, waitsOn, opaque>>
  BY DEF Hit
<1>4. entries[q] \in Calls /\ future[entries[q]] = "cached" /\ request[entries[q]] = q
  BY KeyIsRequest DEF Hit, Fresh, EntriesShared, CacheTypeOK
<1>5. /\ answer' \in [Calls -> Calls \cup {NoCall}] /\ answer'[c] = entries[q]
      /\ \A d \in Calls : d # c => answer'[d] = answer[d]
  BY <1>4, KeyIsRequest DEF Hit, CacheTypeOK
<1>6. CacheTypeOK'
  BY <1>1, <1>2, <1>3, <1>5 DEF CacheTypeOK
<1>7. OwnersLoad'
  BY <1>1, <1>2, <1>3 DEF OwnersLoad, CacheTypeOK
<1>8. FuturesFollow'
  BY <1>1, <1>2, <1>3 DEF FuturesFollow
<1>9. WaitersJoined'
  BY <1>1, <1>2, <1>3 DEF WaitersJoined, FuturesFollow
<1>10. EntriesShared'
  BY <1>1, <1>3 DEF EntriesShared, FuturesFollow, CacheTypeOK
<1>11. entries[q] # c
  BY <1>1, <1>4 DEF FuturesFollow
<1>12. pc[entries[q]] # "idle"
  BY <1>4 DEF FuturesFollow
<1>13. AnswersShared'
  <2> SUFFICES ASSUME NEW d \in Calls, answer'[d] # NoCall
               PROVE  /\ pc'[d] # "idle" /\ pc'[answer'[d]] # "idle"
                      /\ request'[answer'[d]] = request'[d]
                      /\ answer'[d] # d => future'[answer'[d]] = "cached"
    BY DEF AnswersShared
  <2>1. CASE d = c
    BY <1>1, <1>2, <1>3, <1>4, <1>5, <1>11, <1>12, <2>1
  <2>2. CASE d # c
    BY <1>1, <1>2, <1>3, <1>5, <2>2 DEF AnswersShared, CacheTypeOK
  <2> QED
    BY <2>1, <2>2
<1> QED
  BY <1>6, <1>7, <1>8, <1>9, <1>10, <1>13

\* What get() leaves of the entries.
LEMMA MissFacts ==
    ASSUME CacheInv, NEW c \in Calls, NEW q \in Requests, Miss(c, q)
    PROVE  /\ CacheKey(q) = q
           /\ pc[c] = "idle"
           /\ request' \in [Calls -> Requests \cup {NoKey}]
           /\ request'[c] = q
           /\ \A d \in Calls : d # c => request'[d] = request[d]
           /\ entries' \in [Requests -> Calls \cup {NoCall}]
           /\ \A k \in Requests : entries'[k] \in {entries[k], NoCall}
           /\ expired' \subseteq Requests
           /\ UNCHANGED <<answer, opaque>>
<1>1. CacheKey(q) = q
  BY KeyIsRequest DEF Miss
<1>2. CacheTypeOK /\ Begin(c, q)
  BY DEF CacheInv, Miss
<1>3. /\ entries' \in [Requests -> Calls \cup {NoCall}]
      /\ \A k \in Requests : entries'[k] \in {entries[k], NoCall}
  BY <1>1, <1>2 DEF Miss, CacheTypeOK
<1>4. expired' \subseteq Requests
  BY <1>2 DEF Miss, CacheTypeOK
<1> QED
  BY <1>1, <1>2, <1>3, <1>4, BeginFacts DEF Miss

LEMMA StartStep ==
    ASSUME CacheInv, NEW c \in Calls, NEW q \in Requests, StartLoad(c, q)
    PROVE  CacheInv'
<1> USE DEF CacheInv
<1>1. /\ CacheKey(q) = q
      /\ pc[c] = "idle"
      /\ request' \in [Calls -> Requests \cup {NoKey}]
      /\ request'[c] = q
      /\ \A d \in Calls : d # c => request'[d] = request[d]
      /\ entries' \in [Requests -> Calls \cup {NoCall}]
      /\ \A k \in Requests : entries'[k] \in {entries[k], NoCall}
      /\ expired' \subseteq Requests
      /\ UNCHANGED <<answer, opaque>>
  BY MissFacts DEF StartLoad
<1>2. /\ pc' \in [Calls -> Steps] /\ pc'[c] = "loading"
      /\ \A d \in Calls : d # c => pc'[d] = pc[d]
  BY DEF StartLoad, CacheTypeOK, Steps
<1>3. inflight[q] = NoCall
  BY <1>1 DEF StartLoad, NobodyIsLoading
<1>4. /\ inflight' \in [Requests -> Calls \cup {NoCall}] /\ inflight'[q] = c
      /\ \A k \in Requests : k # q => inflight'[k] = inflight[k]
  BY <1>1 DEF StartLoad, CacheTypeOK
<1>5. /\ future' \in [Calls -> FutureStates] /\ future'[c] = "pending"
      /\ \A d \in Calls : d # c => future'[d] = future[d]
      /\ waitsOn' = waitsOn
  BY DEF StartLoad, CacheTypeOK, FutureStates
<1>6. CacheTypeOK'
  BY <1>1, <1>2, <1>4, <1>5 DEF CacheTypeOK
<1>7. OwnersLoad'
  <2>1. ASSUME NEW k \in Requests, inflight'[k] # NoCall
        PROVE  pc'[inflight'[k]] = "loading" /\ request'[inflight'[k]] = k
    <3>1. CASE k = q
      BY <1>1, <1>2, <1>4, <3>1
    <3>2. CASE k # q
      <4>1. /\ inflight'[k] = inflight[k] /\ inflight[k] \in Calls
            /\ pc[inflight[k]] = "loading" /\ request[inflight[k]] = k
        BY <1>4, <2>1, <3>2 DEF OwnersLoad, CacheTypeOK
      <4> QED
        BY <1>1, <1>2, <4>1
    <3> QED
      BY <3>1, <3>2
  <2>2. ASSUME NEW d \in Calls, pc'[d] = "loading"
        PROVE  inflight'[request'[d]] = d
    <3>1. CASE d = c
      BY <1>1, <1>4, <3>1
    <3>2. CASE d # c
      <4>1. pc[d] = "loading" /\ request'[d] = request[d]
        BY <1>1, <1>2, <2>2, <3>2
      <4>2. inflight[request[d]] = d /\ request[d] \in Requests
        BY <4>1 DEF OwnersLoad, FuturesFollow
      <4>3. request[d] # q
        BY <1>3, <4>2, CacheConstants
      <4> QED
        BY <1>4, <4>1, <4>2, <4>3
    <3> QED
      BY <3>1, <3>2
  <2> QED
    BY <2>1, <2>2 DEF OwnersLoad
<1>8. FuturesFollow'
  BY <1>1, <1>2, <1>5 DEF FuturesFollow
<1>9. WaitersJoined'
  BY <1>1, <1>2, <1>5 DEF WaitersJoined, FuturesFollow
<1>10. EntriesShared'
  <2> SUFFICES ASSUME NEW k \in Requests, entries'[k] # NoCall
               PROVE  future'[entries'[k]] = "cached" /\ request'[entries'[k]] = k
    BY DEF EntriesShared
  <2>1. /\ entries'[k] = entries[k] /\ entries[k] \in Calls
        /\ future[entries[k]] = "cached" /\ request[entries[k]] = k
    BY <1>1 DEF EntriesShared, CacheTypeOK
  <2>2. entries[k] # c
    BY <1>1, <2>1 DEF FuturesFollow
  <2> QED
    BY <1>1, <1>5, <2>1, <2>2
<1>11. AnswersShared'
  <2> SUFFICES ASSUME NEW d \in Calls, answer[d] # NoCall
               PROVE  /\ pc'[d] # "idle" /\ pc'[answer[d]] # "idle"
                      /\ request'[answer[d]] = request'[d]
                      /\ answer[d] # d => future'[answer[d]] = "cached"
    BY <1>1 DEF AnswersShared
  <2>1. answer[d] \in Calls /\ d # c /\ answer[d] # c
    BY <1>1 DEF AnswersShared, CacheTypeOK
  <2> QED
    BY <1>1, <1>2, <1>5, <2>1 DEF AnswersShared
<1> QED
  BY <1>6, <1>7, <1>8, <1>9, <1>10, <1>11

LEMMA JoinStep ==
    ASSUME CacheInv, NEW c \in Calls, NEW q \in Requests, JoinLoad(c, q)
    PROVE  CacheInv'
<1> USE DEF CacheInv
<1>1. /\ CacheKey(q) = q
      /\ pc[c] = "idle"
      /\ request' \in [Calls -> Requests \cup {NoKey}]
      /\ request'[c] = q
      /\ \A d \in Calls : d # c => request'[d] = request[d]
      /\ entries' \in [Requests -> Calls \cup {NoCall}]
      /\ \A k \in Requests : entries'[k] \in {entries[k], NoCall}
      /\ expired' \subseteq Requests
      /\ UNCHANGED <<answer, opaque>>
  BY MissFacts DEF JoinLoad
<1>2. /\ pc' \in [Calls -> Steps] /\ pc'[c] = "waiting"
      /\ \A d \in Calls : d # c => pc'[d] = pc[d]
  BY DEF JoinLoad, CacheTypeOK, Steps
<1>3. /\ inflight[q] \in Calls /\ pc[inflight[q]] = "loading"
      /\ request[inflight[q]] = q
  BY <1>1 DEF JoinLoad, OwnersLoad, CacheTypeOK
<1>4. /\ waitsOn' \in [Calls -> Calls \cup {NoCall}] /\ waitsOn'[c] = inflight[q]
      /\ \A d \in Calls : d # c => waitsOn'[d] = waitsOn[d]
  BY <1>1, <1>3 DEF JoinLoad, CacheTypeOK
<1>5. UNCHANGED <<inflight, future>>
  BY DEF JoinLoad
<1>6. CacheTypeOK'
  BY <1>1, <1>2, <1>4, <1>5 DEF CacheTypeOK
<1>7. OwnersLoad'
  BY <1>1, <1>2, <1>5 DEF OwnersLoad, CacheTypeOK
<1>8. FuturesFollow'
  BY <1>1, <1>2, <1>5 DEF FuturesFollow
<1>9. WaitersJoined'
  <2> SUFFICES ASSUME NEW d \in Calls, pc'[d] = "waiting"
               PROVE  /\ waitsOn'[d] \in Calls
                      /\ future[waitsOn'[d]] # "none"
                      /\ request'[waitsOn'[d]] = request'[d]
    BY <1>5 DEF WaitersJoined
  <2>1. CASE d = c
    <3>1. future[inflight[q]] = "pending" /\ inflight[q] # c
      BY <1>1, <1>3 DEF FuturesFollow
    <3> QED
      BY <1>1, <1>3, <1>4, <2>1, <3>1
  <2>2. CASE d # c
    <3>1. /\ waitsOn[d] \in Calls /\ future[waitsOn[d]] # "none"
          /\ request[waitsOn[d]] = request[d] /\ waitsOn'[d] = waitsOn[d]
      BY <1>2, <1>4, <2>2 DEF WaitersJoined
    <3>2. waitsOn[d] # c
      BY <1>1, <3>1 DEF FuturesFollow
    <3> QED
      BY <1>1, <2>2, <3>1, <3>2
  <2> QED
    BY <2>1, <2>2
<1>10. EntriesShared'
  <2> SUFFICES ASSUME NEW k \in Requests, entries'[k] # NoCall
               PROVE  future[entries'[k]] = "cached" /\ request'[entries'[k]] = k
    BY <1>5 DEF EntriesShared
  <2>1. /\ entries'[k] = entries[k] /\ entries[k] \in Calls
        /\ future[entries[k]] = "cached" /\ request[entries[k]] = k
    BY <1>1 DEF EntriesShared, CacheTypeOK
  <2>2. entries[k] # c
    BY <1>1, <2>1 DEF FuturesFollow
  <2> QED
    BY <1>1, <2>1, <2>2
<1>11. AnswersShared'
  <2> SUFFICES ASSUME NEW d \in Calls, answer[d] # NoCall
               PROVE  /\ pc'[d] # "idle" /\ pc'[answer[d]] # "idle"
                      /\ request'[answer[d]] = request'[d]
                      /\ answer[d] # d => future[answer[d]] = "cached"
    BY <1>1, <1>5 DEF AnswersShared
  <2>1. answer[d] \in Calls /\ d # c /\ answer[d] # c
    BY <1>1 DEF AnswersShared, CacheTypeOK
  <2> QED
    BY <1>1, <1>2, <2>1 DEF AnswersShared
<1> QED
  BY <1>6, <1>7, <1>8, <1>9, <1>10, <1>11

-----------------------------------------------------------------------------
(* The callers that are in.                                                *)

LEMMA WithdrawFacts ==
    ASSUME CacheInv, NEW c \in Calls, inflight' = WithdrawFuture(c)
    PROVE  /\ inflight' \in [Requests -> Calls \cup {NoCall}]
           /\ \A k \in Requests : inflight[k] = c => inflight'[k] = NoCall
           /\ \A k \in Requests : inflight[k] # c => inflight'[k] = inflight[k]
BY DEF WithdrawFuture, CacheInv, CacheTypeOK

\* An owner ends its load, one way or another.
LEMMA OwnerStep ==
    ASSUME CacheInv, NEW c \in Calls,
           NEW end \in {"cached", "bypass", "failed", "cancelled"},
           NEW step \in {"answered", "failed", "cancelled"},
           pc[c] = "loading",
           pc' = [pc EXCEPT ![c] = step],
           future' = [future EXCEPT ![c] = end],
           inflight' = WithdrawFuture(c),
           request' = request, waitsOn' = waitsOn,
           entries' \in [Requests -> Calls \cup {NoCall}],
           \A k \in Requests : \/ entries'[k] = entries[k]
                               \/ entries'[k] = c /\ end = "cached" /\ request[c] = k,
           expired' \subseteq Requests,
           answer' = answer \/ answer' = [answer EXCEPT ![c] = c],
           opaque' = opaque \/ (opaque' = opaque \cup {c} /\ end = "bypass")
    PROVE  CacheInv'
<1> USE DEF CacheInv
<1>1. /\ pc' \in [Calls -> Steps] /\ pc'[c] = step
      /\ \A d \in Calls : d # c => pc'[d] = pc[d]
  BY DEF CacheTypeOK, Steps
<1>2. /\ future' \in [Calls -> FutureStates] /\ future'[c] = end
      /\ \A d \in Calls : d # c => future'[d] = future[d]
  BY DEF CacheTypeOK, FutureStates
<1>3. /\ inflight' \in [Requests -> Calls \cup {NoCall}]
      /\ \A k \in Requests : inflight[k] = c => inflight'[k] = NoCall
      /\ \A k \in Requests : inflight[k] # c => inflight'[k] = inflight[k]
  BY WithdrawFacts
<1>4. /\ answer' \in [Calls -> Calls \cup {NoCall}] /\ answer'[c] \in {answer[c], c}
      /\ \A d \in Calls : d # c => answer'[d] = answer[d]
  BY DEF CacheTypeOK
<1>5. opaque' \subseteq Calls
  BY DEF CacheTypeOK
<1>6. future[c] = "pending" /\ request[c] \in Requests
  BY DEF FuturesFollow
<1>7. CacheTypeOK'
  BY <1>1, <1>2, <1>3, <1>4, <1>5 DEF CacheTypeOK
<1>8. OwnersLoad'
  <2>1. ASSUME NEW k \in Requests, inflight'[k] # NoCall
        PROVE  pc'[inflight'[k]] = "loading" /\ request[inflight'[k]] = k
    BY <1>1, <1>3, <2>1 DEF OwnersLoad, CacheTypeOK
  <2>2. ASSUME NEW d \in Calls, pc'[d] = "loading"
        PROVE  inflight'[request[d]] = d
    <3>1. d # c /\ pc[d] = "loading"
      BY <1>1, <2>2
    <3>2. inflight[request[d]] = d /\ request[d] \in Requests
      BY <3>1 DEF OwnersLoad, FuturesFollow
    <3> QED
      BY <1>3, <3>1, <3>2
  <2> QED
    BY <2>1, <2>2 DEF OwnersLoad
<1>9. FuturesFollow'
  BY <1>1, <1>2, <1>6 DEF FuturesFollow
<1>10. WaitersJoined'
  BY <1>1, <1>2 DEF WaitersJoined, CacheTypeOK
<1>11. EntriesShared'
  <2> SUFFICES ASSUME NEW k \in Requests, entries'[k] # NoCall
               PROVE  future'[entries'[k]] = "cached" /\ request[entries'[k]] = k
    BY DEF EntriesShared
  <2>1. CASE entries'[k] = entries[k]
    <3>1. /\ entries[k] \in Calls /\ future[entries[k]] = "cached"
          /\ request[entries[k]] = k
      BY <2>1 DEF EntriesShared, CacheTypeOK
    <3> QED
      BY <1>2, <1>6, <2>1, <3>1
  <2>2. CASE entries'[k] = c /\ end = "cached" /\ request[c] = k
    BY <1>2, <2>2
  <2> QED
    BY <2>1, <2>2
<1>12. AnswersShared'
  <2> SUFFICES ASSUME NEW d \in Calls, answer'[d] # NoCall
               PROVE  /\ pc'[d] # "idle" /\ pc'[answer'[d]] # "idle"
                      /\ request[answer'[d]] = request[d]
                      /\ answer'[d] # d => future'[answer'[d]] = "cached"
    BY DEF AnswersShared
  <2>1. CASE answer'[d] = answer[d]
    <3>1. /\ answer[d] \in Calls /\ pc[d] # "idle" /\ pc[answer[d]] # "idle"
          /\ request[answer[d]] = request[d]
          /\ answer[d] # d => future[answer[d]] = "cached"
      BY <2>1 DEF AnswersShared, CacheTypeOK
    <3> QED
      BY <1>1, <1>2, <1>6, <2>1, <3>1
  <2>2. CASE d = c /\ answer'[d] = c
    BY <1>1, <2>2
  <2> QED
    BY <1>4, <2>1, <2>2
<1> QED
  BY <1>7, <1>8, <1>9, <1>10, <1>11, <1>12

LEMMA OwnerEndsStep ==
    ASSUME CacheInv, NEW c \in Calls, OwnerEnds(c)
    PROVE  CacheInv'
<1>1. pc[c] = "loading"
  BY DEF OwnerEnds, LoadRetained, LoadNotRetained, LoadFails, OwnerCancelled
<1>2. CacheTypeOK /\ inflight[request[c]] = c /\ request[c] \in Requests
  BY <1>1 DEF CacheInv, OwnersLoad, FuturesFollow
<1>3. CASE LoadRetained(c)
  <2>1. entries' = [entries EXCEPT ![CacheKey(request[c])] = c]
        /\ expired' = expired \ {CacheKey(request[c])}
    BY <1>3 DEF LoadRetained
  <2>2. CacheKey(request[c]) = request[c] \/ CacheKey(request[c]) = NoKey
    BY <1>2, KeyIsRequest
  <2>3. /\ entries' \in [Requests -> Calls \cup {NoCall}]
        /\ \A k \in Requests : \/ entries'[k] = entries[k]
                               \/ entries'[k] = c /\ request[c] = k
    BY <1>2, <2>1, <2>2, NoKeyIsNoRequest DEF CacheTypeOK
  <2>4. expired' \subseteq Requests
    BY <1>2, <2>1 DEF CacheTypeOK
  <2> QED
    BY <1>1, <1>3, <2>3, <2>4, OwnerStep DEF LoadRetained
<1>4. CASE LoadNotRetained(c)
  BY <1>1, <1>2, <1>4, OwnerStep DEF LoadNotRetained, UnretainedOutcome, CacheTypeOK
<1>5. CASE LoadFails(c)
  BY <1>1, <1>2, <1>5, OwnerStep DEF LoadFails, CacheTypeOK
<1>6. CASE OwnerCancelled(c)
  BY <1>1, <1>2, <1>6, OwnerStep DEF OwnerCancelled, CancelledFuture, CacheTypeOK
<1> QED
  BY <1>3, <1>4, <1>5, <1>6 DEF OwnerEnds

\* Any other call goes on or ends.
LEMMA OtherStep ==
    ASSUME CacheInv, NEW c \in Calls,
           NEW step \in {"answered", "direct", "failed", "cancelled"},
           NEW given \in {answer[c], c, waitsOn[c]},
           pc[c] \in {"waiting", "direct"},
           given \in {answer[c], c} \/ (pc[c] = "waiting" /\ future[waitsOn[c]] = "cached"),
           pc' = [pc EXCEPT ![c] = step],
           answer' = [answer EXCEPT ![c] = given],
           UNCHANGED <<request, entries, expired, inflight, future, waitsOn, opaque>>
    PROVE  CacheInv'
<1> USE DEF CacheInv
<1>1. /\ pc' \in [Calls -> Steps] /\ pc'[c] = step
      /\ \A d \in Calls : d # c => pc'[d] = pc[d]
  BY DEF CacheTypeOK, Steps
<1>2. /\ answer' \in [Calls -> Calls \cup {NoCall}] /\ answer'[c] = given
      /\ \A d \in Calls : d # c => answer'[d] = answer[d]
  BY DEF CacheTypeOK
<1>3. CacheTypeOK'
  BY <1>1, <1>2 DEF CacheTypeOK
<1>4. OwnersLoad'
  BY <1>1 DEF OwnersLoad, CacheTypeOK
<1>5. FuturesFollow'
  BY <1>1 DEF FuturesFollow
<1>6. WaitersJoined'
  BY <1>1 DEF WaitersJoined
<1>7. EntriesShared'
  BY DEF EntriesShared
<1>8. AnswersShared'
  <2> SUFFICES ASSUME NEW d \in Calls, answer'[d] # NoCall
               PROVE  /\ pc'[d] # "idle" /\ pc'[answer'[d]] # "idle"
                      /\ request[answer'[d]] = request[d]
                      /\ answer'[d] # d => future[answer'[d]] = "cached"
    BY DEF AnswersShared
  <2>1. CASE answer'[d] = answer[d]
    BY <1>1, <2>1 DEF AnswersShared, CacheTypeOK
  <2>2. CASE d = c /\ answer'[d] = c
    BY <1>1, <2>2
  <2>3. CASE d = c /\ answer'[d] = waitsOn[c] /\ pc[c] = "waiting"
             /\ future[waitsOn[c]] = "cached"
    BY <1>1, <2>3 DEF WaitersJoined, FuturesFollow
  <2> QED
    BY <1>2, <2>1, <2>2, <2>3
<1> QED
  BY <1>3, <1>4, <1>5, <1>6, <1>7, <1>8

\* The future a waiting call is told about has ended.
LEMMA WaitedEnded ==
    ASSUME CacheInv, NEW c \in Calls, WaiterResumes(c)
    PROVE  future[waitsOn[c]] \in {"cached", "bypass", "failed", "cancelled"}
BY DEF CacheInv, WaiterResumes, WaitersJoined, CacheTypeOK, FutureStates

LEMMA WaiterFacts ==
    ASSUME CacheInv, NEW c \in Calls, WaiterResumes(c)
    PROVE  \/ /\ future[waitsOn[c]] = "cached"
              /\ pc' = [pc EXCEPT ![c] = "answered"]
              /\ answer' = [answer EXCEPT ![c] = waitsOn[c]]
           \/ /\ future[waitsOn[c]] = "bypass"
              /\ pc' = [pc EXCEPT ![c] = "direct"] /\ answer' = answer
           \/ /\ future[waitsOn[c]] \in {"failed", "cancelled"}
              /\ pc' = [pc EXCEPT ![c] = future[waitsOn[c]]] /\ answer' = answer
<1> DEFINE owner == waitsOn[c]
<1>1. pc' = [pc EXCEPT ![c] =
               CASE future[owner] = "cached"    -> "answered"
                 [] future[owner] = "bypass"    -> "direct"
                 [] future[owner] = "failed"    -> "failed"
                 [] future[owner] = "cancelled" -> "cancelled"]
      /\ answer' = [answer EXCEPT ![c] = IF future[owner] = "cached" THEN owner ELSE @]
  BY DEF WaiterResumes
<1>2. answer \in [Calls -> Calls \cup {NoCall}]
  BY DEF CacheInv, CacheTypeOK
<1>3. future[owner] # "cached" => answer' = answer
  BY <1>1, <1>2
<1>4. CASE future[owner] = "cached"
  BY <1>1, <1>4
<1>5. CASE future[owner] = "bypass"
  BY <1>1, <1>3, <1>5
<1>6. CASE future[owner] = "failed"
  BY <1>1, <1>3, <1>6
<1>7. CASE future[owner] = "cancelled"
  BY <1>1, <1>3, <1>7
<1> QED
  BY <1>4, <1>5, <1>6, <1>7, WaitedEnded

LEMMA WaiterStep ==
    ASSUME CacheInv, NEW c \in Calls,
           WaiterResumes(c) \/ WaiterCancelled(c) \/ DirectEnds(c)
    PROVE  CacheInv'
<1>1. answer = [answer EXCEPT ![c] = answer[c]]
  BY DEF CacheInv, CacheTypeOK
<1>2. CASE WaiterResumes(c)
  <2>1. pc[c] = "waiting"
        /\ UNCHANGED <<request, entries, expired, inflight, future, waitsOn, opaque>>
    BY <1>2 DEF WaiterResumes
  <2> QED
    BY <1>1, <1>2, <2>1, WaiterFacts, OtherStep
<1>3. CASE WaiterCancelled(c)
  BY <1>1, <1>3, OtherStep DEF WaiterCancelled, ShieldedFuture
<1>4. CASE DirectEnds(c)
  BY <1>1, <1>4, OtherStep DEF DirectEnds, DirectReturns, DirectFails
<1> QED
  BY <1>2, <1>3, <1>4

-----------------------------------------------------------------------------

\* Entries that go leave everything else alone.
LEMMA ForgetStep ==
    ASSUME CacheInv,
           entries' \in [Requests -> Calls \cup {NoCall}],
           \A k \in Requests : entries'[k] \in {entries[k], NoCall},
           expired' \subseteq Requests,
           UNCHANGED <<pc, request, inflight, future, waitsOn, answer, opaque>>
    PROVE  CacheInv'
<1> USE DEF CacheInv
<1>1. CacheTypeOK'
  BY DEF CacheTypeOK
<1>2. OwnersLoad' /\ FuturesFollow' /\ WaitersJoined' /\ AnswersShared'
  BY DEF OwnersLoad, FuturesFollow, WaitersJoined, AnswersShared
<1>3. EntriesShared'
  BY DEF EntriesShared
<1> QED
  BY <1>1, <1>2, <1>3

LEMMA InvStep == CacheInv /\ [CacheNext]_cacheVars => CacheInv'
<1> SUFFICES ASSUME CacheInv, [CacheNext]_cacheVars
             PROVE  CacheInv'
  OBVIOUS
<1>1. /\ entries \in [Requests -> Calls \cup {NoCall}]
      /\ expired \subseteq Requests
  BY DEF CacheInv, CacheTypeOK
<1>2. ASSUME NEW c \in Calls, NEW q \in Requests, GetOrLoad(c, q)
      PROVE  CacheInv'
  BY <1>2, BypassStep, HitStep, StartStep, JoinStep DEF GetOrLoad
<1>3. ASSUME NEW k \in Requests, Expire(k)
      PROVE  CacheInv'
  BY <1>1, <1>3, ForgetStep DEF Expire
<1>4. ASSUME NEW n \in Connections, InvalidateConnection(n)
      PROVE  CacheInv'
  <2>1. /\ entries' \in [Requests -> Calls \cup {NoCall}]
        /\ \A k \in Requests : entries'[k] \in {entries[k], NoCall}
        /\ expired' \subseteq Requests
    BY <1>1, <1>4 DEF InvalidateConnection
  <2> QED
    BY <1>4, <2>1, ForgetStep DEF InvalidateConnection
<1>5. CASE UNCHANGED cacheVars
  BY <1>1, <1>5, ForgetStep DEF cacheVars
<1> QED
  BY <1>2, <1>3, <1>4, <1>5, OwnerEndsStep, WaiterStep DEF CacheNext

LEMMA InvHolds == CacheSpec => []CacheInv
BY InitInv, InvStep, PTL DEF CacheSpec

\* The tables of the cache keep their types.
THEOREM CacheTypeCorrect == CacheSpec => []CacheTypeOK
<1>1. CacheInv => CacheTypeOK
  BY DEF CacheInv
<1> QED
  BY InvHolds, <1>1, PTL

\* A call is answered from its own connection, tool and arguments.
THEOREM AnswersIsolated == CacheSpec => []AnswersOwnRequest
<1>1. CacheInv => AnswersOwnRequest
  BY DEF CacheInv, AnswersShared, AnswersOwnRequest
<1> QED
  BY InvHolds, <1>1, PTL

\* What may not be retained reaches nobody but the call that loaded it.
THEOREM OnlyProjections == CacheSpec => []OnlyProjectionsShared
<1>1. CacheInv => OnlyProjectionsShared
  <2> SUFFICES ASSUME CacheInv
               PROVE  OnlyProjectionsShared
    OBVIOUS
  <2>1. ASSUME NEW c \in Calls, answer[c] \notin {c, NoCall}
        PROVE  answer[c] \notin opaque
    BY <2>1 DEF CacheInv, CacheTypeOK, AnswersShared, FuturesFollow
  <2>2. ASSUME NEW k \in Requests
        PROVE  entries[k] \notin opaque
    <3>1. CASE entries[k] = NoCall
      BY <3>1, CacheConstants DEF CacheInv, CacheTypeOK
    <3>2. CASE entries[k] # NoCall
      BY <3>2 DEF CacheInv, CacheTypeOK, EntriesShared, FuturesFollow
    <3> QED
      BY <3>1, <3>2
  <2> QED
    BY <2>1, <2>2 DEF OnlyProjectionsShared
<1> QED
  BY InvHolds, <1>1, PTL

\* Through failures, cancellations of owners and of other waiters, and
\* invalidations of the connection meanwhile, nobody waits for a future that
\* no call is at work on.
THEOREM NobodyWaitsInVain == CacheSpec => []WaitersAreServed
<1>1. CacheInv => WaitersAreServed
  <2> SUFFICES ASSUME CacheInv, NEW c \in Calls, pc[c] = "waiting", NEW owner,
                      owner = waitsOn[c], future[owner] = "pending"
               PROVE  pc[owner] = "loading" /\ inflight[request[c]] = owner
    BY DEF WaitersAreServed, CacheInv, WaitersJoined, CacheTypeOK, FutureStates
  <2>1. owner \in Calls /\ request[owner] = request[c]
    BY DEF CacheInv, WaitersJoined
  <2> QED
    BY <2>1 DEF CacheInv, FuturesFollow, OwnersLoad
<1> QED
  BY InvHolds, <1>1, PTL

-----------------------------------------------------------------------------
(* SharedLoad.  The state of each call as SharedLoad sees it.              *)

Stage == [c \in Calls |-> Standing[pc[c]]]
Key == [c \in Calls |-> KeyOf(c)]
Outcome == [c \in Calls |-> Ended[future[c]]]

LEMMA StandingIs ==
    /\ Standing["idle"] = "out" /\ Standing["loading"] = "loading"
    /\ Standing["waiting"] = "waiting" /\ Standing["direct"] = "alone"
    /\ Standing["answered"] = "done" /\ Standing["failed"] = "done"
    /\ Standing["cancelled"] = "done"
BY DEF Standing

LEMMA EndedIs ==
    /\ Ended["none"] = "none" /\ Ended["pending"] = "none"
    /\ Ended["cached"] = "shared" /\ Ended["bypass"] = "private"
    /\ Ended["failed"] = "failed" /\ Ended["cancelled"] = "cancelled"
BY DEF Ended

\* Where a call goes, SharedLoad sees it go.
LEMMA Goes ==
    ASSUME CacheTypeOK, NEW c \in Calls, NEW step \in Steps,
           pc' = [pc EXCEPT ![c] = step]
    PROVE  /\ Stage[c] = Standing[pc[c]]
           /\ Stage' = [Stage EXCEPT ![c] = Standing[step]]
BY DEF CacheTypeOK, Stage

\* A call that comes in asks for its key, one that is in keeps it.
LEMMA KeyAsked ==
    ASSUME CacheTypeOK, NEW c \in Calls, NEW q \in Requests, NEW step \in Steps,
           Begin(c, q), step # "idle", pc' = [pc EXCEPT ![c] = step]
    PROVE  /\ Key[c] = NoKey
           /\ Key' = [Key EXCEPT ![c] = CacheKey(q)]
<1>1. Key[c] = NoKey
  BY DEF Key, KeyOf, Begin
<1>2. request'[c] = q /\ \A d \in Calls : d # c => request'[d] = request[d]
  BY BeginFacts
<1>3. pc'[c] = step /\ \A d \in Calls : d # c => pc'[d] = pc[d]
  BY DEF CacheTypeOK
<1>4. ASSUME NEW d \in Calls
      PROVE  Key'[d] = IF d = c THEN CacheKey(q) ELSE Key[d]
  BY <1>2, <1>3 DEF Key, KeyOf, CacheKey
<1> QED
  BY <1>1, <1>4 DEF Key

LEMMA KeyKept ==
    ASSUME CacheTypeOK, request' = request,
           \A c \in Calls : pc'[c] = "idle" <=> pc[c] = "idle"
    PROVE  Key' = Key
BY DEF Key, KeyOf, CacheKey

LEMMA InitRefines == CacheInit => Shared!LoadInit
BY StandingIs, EndedIs DEF CacheInit, Shared!LoadInit, KeyOf

LEMMA EnterRefines ==
    ASSUME CacheInv, NEW c \in Calls, NEW q \in Requests, GetOrLoad(c, q)
    PROVE  Shared!LoadNext
<1> USE DEF CacheInv
<1>1. CASE BypassCache(c, q)
  <2>1. pc[c] = "idle" /\ pc' = [pc EXCEPT ![c] = "direct"] /\ CacheKey(q) = NoKey
        /\ UNCHANGED <<waitsOn, future, answer>> /\ Begin(c, q)
    BY <1>1 DEF BypassCache, Begin
  <2>2. Stage[c] = "out" /\ Stage' = [Stage EXCEPT ![c] = "alone"]
    <3>1. CacheTypeOK /\ "direct" \in Steps
      BY DEF Steps
    <3>2. /\ Stage[c] = Standing[pc[c]]
          /\ Stage' = [Stage EXCEPT ![c] = Standing["direct"]]
      BY <2>1, <3>1, Goes
    <3> QED
      BY <2>1, <3>2, StandingIs
  <2>3. Key' = Key
    BY <2>1, KeyAsked DEF Key, Steps
  <2>4. Outcome' = Outcome
    BY <2>1 DEF Outcome
  <2>5. Shared!LoadAlone(c)
    BY <2>1, <2>2, <2>3, <2>4 DEF Shared!LoadAlone, Shared!Moves, Stage, Key, Outcome
  <2> QED
    BY <2>5 DEF Shared!LoadNext
<1>2. CASE Hit(c, q)
  <2>1. pc[c] = "idle" /\ pc' = [pc EXCEPT ![c] = "answered"] /\ CacheKey(q) = q
        /\ UNCHANGED <<waitsOn, future>> /\ Begin(c, q)
        /\ answer' = [answer EXCEPT ![c] = entries[q]]
    BY <1>2, KeyIsRequest DEF Hit, Begin
  <2>2. Stage[c] = "out" /\ Stage' = [Stage EXCEPT ![c] = "done"]
    <3>1. CacheTypeOK /\ "answered" \in Steps
      BY DEF Steps
    <3>2. /\ Stage[c] = Standing[pc[c]]
          /\ Stage' = [Stage EXCEPT ![c] = Standing["answered"]]
      BY <2>1, <3>1, Goes
    <3> QED
      BY <2>1, <3>2, StandingIs
  <2>3. Key' = [Key EXCEPT ![c] = q]
    BY <2>1, KeyAsked DEF Steps
  <2>4. Outcome' = Outcome
    BY <2>1 DEF Outcome
  <2>5. entries[q] \in Calls /\ future[entries[q]] = "cached" /\ request[entries[q]] = q
    BY <1>2, <2>1 DEF Hit, Fresh, EntriesShared, CacheTypeOK
  <2>6. Outcome[entries[q]] = "shared" /\ Key[entries[q]] = q
    BY <2>1, <2>5, EndedIs DEF Outcome, Key, KeyOf, FuturesFollow
  <2>7. Shared!Recall(c, q)
    BY <2>1, <2>2, <2>3, <2>4, <2>5, <2>6
       DEF Shared!Recall, Shared!Moves, Shared!Asks, Stage, Key, Outcome
  <2> QED
    BY <2>7 DEF Shared!LoadNext
<1>3. CASE StartLoad(c, q)
  <2>1. pc[c] = "idle" /\ pc' = [pc EXCEPT ![c] = "loading"] /\ CacheKey(q) = q
        /\ UNCHANGED <<waitsOn, answer>> /\ Begin(c, q)
        /\ future' = [future EXCEPT ![c] = "pending"] /\ inflight[q] = NoCall
    BY <1>3, KeyIsRequest DEF StartLoad, Miss, Begin, NobodyIsLoading
  <2>2. Stage[c] = "out" /\ Stage' = [Stage EXCEPT ![c] = "loading"]
    <3>1. CacheTypeOK /\ "loading" \in Steps
      BY DEF Steps
    <3>2. /\ Stage[c] = Standing[pc[c]]
          /\ Stage' = [Stage EXCEPT ![c] = Standing["loading"]]
      BY <2>1, <3>1, Goes
    <3> QED
      BY <2>1, <3>2, StandingIs
  <2>3. Key' = [Key EXCEPT ![c] = q]
    BY <2>1, KeyAsked DEF Steps
  <2>4. Outcome' = Outcome
    <3>1. future[c] = "none" /\ future \in [Calls -> FutureStates]
      BY <2>1 DEF FuturesFollow, CacheTypeOK
    <3>2. ASSUME NEW d \in Calls
          PROVE  Ended[future'[d]] = Ended[future[d]]
      BY <2>1, <3>1, EndedIs
    <3> QED
      BY <3>2 DEF Outcome
  <2>5. ASSUME NEW o \in Calls, Stage[o] = "loading", Key[o] = q
        PROVE  FALSE
    <3>1. pc[o] = "loading"
      <4>1. pc[o] \in Steps /\ Standing[pc[o]] = "loading"
        BY <2>5 DEF Stage, CacheTypeOK
      <4> QED
        BY <4>1, StandingIs DEF Steps
    <3>2. request[o] \in Requests /\ inflight[request[o]] = o
      BY <3>1 DEF OwnersLoad, FuturesFollow
    <3>3. CacheKey(request[o]) = q
      BY <2>5, <3>1 DEF Key, KeyOf
    <3>4. request[o] = q
      BY <3>2, <3>3, KeyIsRequest, NoKeyIsNoRequest
    <3> QED
      BY <2>1, <3>2, <3>4, CacheConstants
  <2>6. Shared!Load(c, q)
    BY <2>1, <2>2, <2>3, <2>4, <2>5
       DEF Shared!Load, Shared!Loads, Shared!Moves, Shared!Asks, Stage, Key, Outcome
  <2> QED
    BY <2>6 DEF Shared!LoadNext
<1>4. CASE JoinLoad(c, q)
  <2>1. pc[c] = "idle" /\ pc' = [pc EXCEPT ![c] = "waiting"] /\ CacheKey(q) = q
        /\ UNCHANGED <<future, answer>> /\ Begin(c, q)
        /\ waitsOn' = [waitsOn EXCEPT ![c] = inflight[q]] /\ inflight[q] # NoCall
    BY <1>4, KeyIsRequest DEF JoinLoad, Miss, Begin
  <2>2. Stage[c] = "out" /\ Stage' = [Stage EXCEPT ![c] = "waiting"]
    <3>1. CacheTypeOK /\ "waiting" \in Steps
      BY DEF Steps
    <3>2. /\ Stage[c] = Standing[pc[c]]
          /\ Stage' = [Stage EXCEPT ![c] = Standing["waiting"]]
      BY <2>1, <3>1, Goes
    <3> QED
      BY <2>1, <3>2, StandingIs
  <2>3. Key' = [Key EXCEPT ![c] = q]
    BY <2>1, KeyAsked DEF Steps
  <2>4. Outcome' = Outcome
    BY <2>1 DEF Outcome
  <2>5. /\ inflight[q] \in Calls /\ pc[inflight[q]] = "loading"
        /\ request[inflight[q]] = q
    BY <2>1 DEF OwnersLoad, CacheTypeOK
  <2>6. Stage[inflight[q]] = "loading" /\ Key[inflight[q]] = q
    BY <2>1, <2>5, StandingIs DEF Stage, Key, KeyOf
  <2>7. Shared!Wait(c, q)
    BY <2>1, <2>2, <2>3, <2>4, <2>5, <2>6
       DEF Shared!Wait, Shared!Loads, Shared!Moves, Shared!Asks, Stage, Key, Outcome
  <2> QED
    BY <2>7 DEF Shared!LoadNext
<1> QED
  BY <1>1, <1>2, <1>3, <1>4 DEF GetOrLoad

LEMMA OwnerRefines ==
    ASSUME CacheInv, NEW c \in Calls, OwnerEnds(c)
    PROVE  Shared!LoadNext
<1> USE DEF CacheInv
<1>1. PICK end \in {"cached", "bypass", "failed", "cancelled"},
           step \in {"answered", "failed", "cancelled"} :
        /\ pc' = [pc EXCEPT ![c] = step]
        /\ future' = [future EXCEPT ![c] = end]
        /\ answer' = IF end \in {"cached", "bypass"} THEN [answer EXCEPT ![c] = c] ELSE answer
  <2>1. CASE LoadRetained(c)
    BY <2>1 DEF LoadRetained
  <2>2. CASE LoadNotRetained(c)
    BY <2>2 DEF LoadNotRetained, UnretainedOutcome
  <2>3. CASE LoadFails(c)
    BY <2>3 DEF LoadFails
  <2>4. CASE OwnerCancelled(c)
    BY <2>4 DEF OwnerCancelled, CancelledFuture
  <2> QED
    BY <2>1, <2>2, <2>3, <2>4 DEF OwnerEnds
<1>2. pc[c] = "loading" /\ UNCHANGED <<request, waitsOn>>
  BY DEF OwnerEnds, LoadRetained, LoadNotRetained, LoadFails, OwnerCancelled
<1>3. Stage[c] = "loading" /\ Stage' = [Stage EXCEPT ![c] = "done"]
  <2>1. step \in Steps /\ Standing[step] = "done"
    BY StandingIs DEF Steps
  <2>2. CacheTypeOK /\ pc' = [pc EXCEPT ![c] = step]
    BY <1>1
  <2>3. /\ Stage[c] = Standing[pc[c]]
        /\ Stage' = [Stage EXCEPT ![c] = Standing[step]]
    BY <2>1, <2>2, Goes
  <2> QED
    BY <1>2, <2>1, <2>3, StandingIs
<1>4. Key' = Key
  BY <1>1, <1>2, KeyKept DEF CacheTypeOK
<1>5. Outcome' = [Outcome EXCEPT ![c] = Ended[end]]
  BY <1>1 DEF Outcome, CacheTypeOK
<1>6. /\ Ended[end] \in {"shared", "private", "failed", "cancelled"}
      /\ Ended[end] \in {"shared", "private"} <=> end \in {"cached", "bypass"}
  BY EndedIs
<1>7. answer' = IF Ended[end] \in {"shared", "private"} THEN [answer EXCEPT ![c] = c]
                ELSE answer
  BY <1>1, <1>6
<1>8. Shared!EndLoad(c)
  BY <1>2, <1>3, <1>4, <1>5, <1>6, <1>7
     DEF Shared!EndLoad, Shared!Moves, Stage, Key, Outcome
<1> QED
  BY <1>8 DEF Shared!LoadNext

LEMMA WaiterRefines ==
    ASSUME CacheInv, NEW c \in Calls, WaiterResumes(c)
    PROVE  Shared!LoadNext
<1> USE DEF CacheInv
<1>1. pc[c] = "waiting" /\ UNCHANGED <<request, waitsOn, future>> /\ waitsOn[c] \in Calls
  BY DEF WaiterResumes, WaitersJoined
<1>2. Stage[c] = "waiting" /\ Outcome' = Outcome
      /\ Outcome[waitsOn[c]] = Ended[future[waitsOn[c]]]
  BY <1>1, StandingIs DEF Stage, Outcome
<1>3. ASSUME NEW step \in {"answered", "direct", "failed", "cancelled"},
             pc' = [pc EXCEPT ![c] = step]
      PROVE  Key' = Key /\ Stage' = [Stage EXCEPT ![c] = Standing[step]]
  <2>1. Key' = Key
    BY <1>1, <1>3, KeyKept DEF CacheTypeOK
  <2>2. step \in Steps
    BY DEF Steps
  <2> QED
    BY <1>3, <2>1, <2>2, Goes
<1>4. CASE /\ future[waitsOn[c]] = "cached"
           /\ pc' = [pc EXCEPT ![c] = "answered"]
           /\ answer' = [answer EXCEPT ![c] = waitsOn[c]]
  <2>1. /\ Key' = Key /\ Stage' = [Stage EXCEPT ![c] = "done"]
        /\ Outcome[waitsOn[c]] = "shared"
    BY <1>2, <1>3, <1>4, StandingIs, EndedIs
  <2>2. Shared!Learn(c)
    BY <1>1, <1>2, <1>4, <2>1 DEF Shared!Learn, Shared!Moves, Stage, Key, Outcome
  <2> QED
    BY <2>2 DEF Shared!LoadNext
<1>5. CASE /\ future[waitsOn[c]] = "bypass"
           /\ pc' = [pc EXCEPT ![c] = "direct"] /\ answer' = answer
  <2>1. /\ Key' = Key /\ Stage' = [Stage EXCEPT ![c] = "alone"]
        /\ Outcome[waitsOn[c]] = "private"
    BY <1>2, <1>3, <1>5, StandingIs, EndedIs
  <2>2. Shared!Learn(c)
    BY <1>1, <1>2, <1>5, <2>1 DEF Shared!Learn, Shared!Moves, Stage, Key, Outcome
  <2> QED
    BY <2>2 DEF Shared!LoadNext
<1>6. CASE /\ future[waitsOn[c]] \in {"failed", "cancelled"}
           /\ pc' = [pc EXCEPT ![c] = future[waitsOn[c]]] /\ answer' = answer
  <2>1. Standing[future[waitsOn[c]]] = "done"
        /\ Outcome[waitsOn[c]] \in {"failed", "cancelled"}
    BY <1>2, <1>6, StandingIs, EndedIs
  <2>2. Key' = Key /\ Stage' = [Stage EXCEPT ![c] = "done"]
    BY <1>3, <1>6, <2>1
  <2>3. Shared!Learn(c)
    BY <1>1, <1>2, <1>6, <2>1, <2>2 DEF Shared!Learn, Shared!Moves, Stage, Key, Outcome
  <2> QED
    BY <2>3 DEF Shared!LoadNext
<1> QED
  BY <1>4, <1>5, <1>6, WaiterFacts

LEMMA LeaveRefines ==
    ASSUME CacheInv, NEW c \in Calls, WaiterCancelled(c) \/ DirectEnds(c)
    PROVE  Shared!LoadNext
<1> USE DEF CacheInv
<1>1. Outcome' = Outcome /\ UNCHANGED <<request, waitsOn>>
  BY DEF Outcome, WaiterCancelled, ShieldedFuture, DirectEnds, DirectReturns, DirectFails
<1>2. CASE WaiterCancelled(c)
  <2>1. pc[c] = "waiting" /\ pc' = [pc EXCEPT ![c] = "cancelled"] /\ answer' = answer
    BY <1>2 DEF WaiterCancelled
  <2>2. Stage[c] = "waiting" /\ Stage' = [Stage EXCEPT ![c] = "done"]
    <3>1. CacheTypeOK /\ "cancelled" \in Steps
      BY DEF Steps
    <3>2. /\ Stage[c] = Standing[pc[c]]
          /\ Stage' = [Stage EXCEPT ![c] = Standing["cancelled"]]
      BY <2>1, <3>1, Goes
    <3> QED
      BY <2>1, <3>2, StandingIs
  <2>3. Key' = Key
    BY <1>1, <2>1, KeyKept DEF CacheTypeOK
  <2>4. Shared!GiveUp(c)
    BY <1>1, <2>1, <2>2, <2>3 DEF Shared!GiveUp, Shared!Moves, Stage, Key, Outcome
  <2> QED
    BY <2>4 DEF Shared!LoadNext
<1>3. CASE DirectEnds(c)
  <2>1. PICK step \in {"answered", "failed", "cancelled"} :
          pc[c] = "direct" /\ pc' = [pc EXCEPT ![c] = step]
    BY <1>3 DEF DirectEnds, DirectReturns, DirectFails
  <2>2. Stage[c] = "alone" /\ Stage' = [Stage EXCEPT ![c] = "done"]
    <3>1. CacheTypeOK /\ step \in Steps /\ Standing[step] = "done"
      BY StandingIs DEF Steps
    <3>2. /\ Stage[c] = Standing[pc[c]]
          /\ Stage' = [Stage EXCEPT ![c] = Standing[step]]
      BY <2>1, <3>1, Goes
    <3> QED
      BY <2>1, <3>1, <3>2, StandingIs
  <2>3. Key' = Key
    BY <1>1, <2>1, KeyKept DEF CacheTypeOK
  <2>4. answer' \in {answer, [answer EXCEPT ![c] = c]}
    BY <1>3 DEF DirectEnds, DirectReturns, DirectFails
  <2>5. Shared!EndAlone(c)
    BY <1>1, <2>2, <2>3, <2>4 DEF Shared!EndAlone, Shared!Moves, Stage, Key, Outcome
  <2> QED
    BY <2>5 DEF Shared!LoadNext
<1> QED
  BY <1>2, <1>3

\* What SharedLoad does not see.
LEMMA Unseen ==
    ASSUME UNCHANGED <<pc, request, future, waitsOn, answer>>
    PROVE  UNCHANGED Shared!loadVars
BY DEF Shared!loadVars, KeyOf, CacheKey

LEMMA StepRefines == CacheInv /\ [CacheNext]_cacheVars => [Shared!LoadNext]_(Shared!loadVars)
<1> SUFFICES ASSUME CacheInv, [CacheNext]_cacheVars
             PROVE  [Shared!LoadNext]_(Shared!loadVars)
  OBVIOUS
<1>1. ASSUME NEW k \in Requests, Expire(k)
      PROVE  UNCHANGED Shared!loadVars
  BY <1>1, Unseen DEF Expire
<1>2. ASSUME NEW n \in Connections, InvalidateConnection(n)
      PROVE  UNCHANGED Shared!loadVars
  BY <1>2, Unseen DEF InvalidateConnection
<1>3. CASE UNCHANGED cacheVars
  BY <1>3, Unseen DEF cacheVars
<1> QED
  BY <1>1, <1>2, <1>3, EnterRefines, OwnerRefines, WaiterRefines, LeaveRefines DEF CacheNext

\* ConnectionCache implements SharedLoad.
THEOREM CacheImplements == CacheSpec => SharesLoads
BY InitRefines, StepRefines, InvHolds, PTL
   DEF CacheSpec, SharesLoads, Shared!SharedLoadSpec

-----------------------------------------------------------------------------
(* The gateway: which revision a call is of, and where it stands.          *)

\* A revision whose invalidation is scheduled or has run is not current.
RevisionsPast ==
    \A r \in tasks \cup retired : r.version < version[r.connection]

\* A call is resolved, routed and executed in this order, and executes on
\* the connection it was resolved to.
CallsRouted ==
    \A c \in Calls :
        /\ ctx[c] = NoCtx => c \notin routed
        /\ c \notin routed => pc[c] = "idle"
        /\ pc[c] # "idle" => request[c].connection = ctx[c].connection

\* A call of a retired revision that has not ended was there when the
\* invalidation ran.
LiveOverlapped ==
    \A c \in Calls : Live(c) /\ ctx[c] \in retired => c \in overlapped

GatewayParts ==
    /\ RevisionsPast
    /\ CallsRouted
    /\ LiveOverlapped
    /\ OneSessionPerConnection
    /\ StaleOnlyFromOverlap

GatewayInv ==
    /\ GatewayTypeOK
    /\ CacheInv
    /\ GatewayParts

\* The initial states: nothing has been resolved.
LEMMA GatewayInit == Init => GatewayInv
<1> SUFFICES ASSUME Init
             PROVE  GatewayInv
  OBVIOUS
<1>1. CacheInv /\ CacheTypeOK
  BY InitInv DEF Init, CacheInv
<1>2. GatewayTypeOK
  BY <1>1, GatewayConstants DEF Init, GatewayTypeOK
<1>3. RevisionsPast /\ CallsRouted /\ LiveOverlapped
  BY GatewayConstants DEF Init, CacheInit, RevisionsPast, CallsRouted, LiveOverlapped
<1>4. OneSessionPerConnection /\ StaleOnlyFromOverlap
  BY DEF Init, CacheInit, OneSessionPerConnection, StaleOnlyFromOverlap
<1> QED
  BY <1>1, <1>2, <1>3, <1>4 DEF GatewayInv, GatewayParts

\* A call that came in has left "idle" for good, with its request.
LEMMA EnterMoves ==
    ASSUME CacheTypeOK, NEW c \in Calls, NEW q \in Requests, GetOrLoad(c, q)
    PROVE  /\ pc[c] = "idle"
           /\ request'[c] = q
           /\ \A d \in Calls : d # c => pc'[d] = pc[d] /\ request'[d] = request[d]
           /\ \A k \in Requests : entries'[k] \in {entries[k], NoCall}
<1>1. Begin(c, q)
  BY DEF GetOrLoad, BypassCache, Hit, StartLoad, JoinLoad, Miss
<1>2. \A d \in Calls : d # c => pc'[d] = pc[d]
  BY DEF GetOrLoad, BypassCache, Hit, StartLoad, JoinLoad, CacheTypeOK
<1>3. \/ entries' = entries
      \/ entries' = [entries EXCEPT ![CacheKey(q)] = NoCall]
  BY DEF GetOrLoad, BypassCache, Hit, StartLoad, JoinLoad, Miss
<1>4. \A k \in Requests : entries'[k] \in {entries[k], NoCall}
  BY <1>3 DEF CacheTypeOK
<1> QED
  BY <1>1, <1>2, <1>4, BeginFacts

\* A later step of a call, or time, begins no call and revives none; what it
\* stores is the result of a call that was loading.
LEMMA LaterMoves ==
    ASSUME CacheInv, CacheStep
    PROVE  /\ request' = request
           /\ \A d \in Calls : /\ pc[d] = "idle" <=> pc'[d] = "idle"
                               /\ Live(d)' => Live(d)
           /\ \A k \in Requests :
                  \/ entries'[k] \in {entries[k], NoCall}
                  \/ entries'[k] \in Calls /\ Live(entries'[k])
<1> USE DEF Live
<1>1. CacheTypeOK
  BY DEF CacheInv
<1>2. ASSUME NEW c \in Calls, OwnerEnds(c)
      PROVE  /\ request' = request
             /\ pc[c] = "loading" /\ pc'[c] \in {"answered", "failed", "cancelled"}
             /\ \A d \in Calls : d # c => pc'[d] = pc[d]
             /\ entries' = entries \/ entries' = [entries EXCEPT ![CacheKey(request[c])] = c]
  BY <1>1, <1>2 DEF OwnerEnds, LoadRetained, LoadNotRetained, LoadFails, OwnerCancelled,
                    CacheTypeOK
<1>3. ASSUME NEW c \in Calls, OwnerEnds(c), NEW k \in Requests
      PROVE  entries'[k] \in {entries[k], c}
  BY <1>1, <1>2, <1>3 DEF CacheTypeOK
<1>4. ASSUME NEW c \in Calls, WaiterResumes(c)
      PROVE  /\ request' = request /\ entries' = entries
             /\ pc[c] = "waiting" /\ pc'[c] # "idle"
             /\ \A d \in Calls : d # c => pc'[d] = pc[d]
  <2>1. request' = request /\ entries' = entries /\ pc[c] = "waiting"
    BY <1>4 DEF WaiterResumes
  <2>2. PICK step \in Steps : step # "idle" /\ pc' = [pc EXCEPT ![c] = step]
    BY <1>4, WaiterFacts DEF Steps
  <2> QED
    BY <1>1, <2>1, <2>2 DEF CacheTypeOK
<1>5. ASSUME NEW c \in Calls, WaiterCancelled(c) \/ DirectEnds(c)
      PROVE  /\ request' = request /\ entries' = entries
             /\ pc[c] \in {"waiting", "direct"} /\ pc'[c] # "idle"
             /\ \A d \in Calls : d # c => pc'[d] = pc[d]
  BY <1>1, <1>5 DEF WaiterCancelled, DirectEnds, DirectReturns, DirectFails, CacheTypeOK
<1>6. ASSUME NEW k \in Requests, Expire(k)
      PROVE  UNCHANGED <<pc, request, entries>>
  BY <1>6 DEF Expire
<1>7. CASE \E c \in Calls : OwnerEnds(c)
  BY <1>2, <1>3, <1>7
<1>8. CASE \E c \in Calls : WaiterResumes(c)
  BY <1>4, <1>8
<1>9. CASE \E c \in Calls : WaiterCancelled(c) \/ DirectEnds(c)
  BY <1>5, <1>9
<1>10. CASE \E k \in Requests : Expire(k)
  BY <1>6, <1>10
<1> QED
  BY <1>7, <1>8, <1>9, <1>10 DEF CacheStep

\* What an entry says of the call behind it.
LEMMA EntryMeans ==
    ASSUME CacheInv, CallsRouted, NEW k \in Requests, entries[k] # NoCall
    PROVE  /\ entries[k] \in Calls
           /\ pc[entries[k]] # "idle"
           /\ ctx[entries[k]].connection = k.connection
BY DEF CacheInv, CacheTypeOK, EntriesShared, FuturesFollow, CallsRouted

\* To the cache, a step of the gateway is a step of its own or none.
LEMMA GatewayCacheStep == GatewayTypeOK /\ [Next]_vars => [CacheNext]_cacheVars
<1> SUFFICES ASSUME GatewayTypeOK, [Next]_vars
             PROVE  [CacheNext]_cacheVars
  OBVIOUS
<1>1. ASSUME NEW n \in Connections, Commit(n)
      PROVE  UNCHANGED cacheVars
  BY <1>1 DEF Commit
<1>2. ASSUME NEW r \in tasks, RunInvalidation(r)
      PROVE  CacheNext
  <2>1. r.connection \in Connections
    BY DEF GatewayTypeOK, Revisions
  <2>2. InvalidateConnection(r.connection)
    BY <1>2 DEF RunInvalidation, InvalidateCachedData
  <2> QED
    BY <2>1, <2>2 DEF CacheNext
<1>3. ASSUME NEW c \in Calls, NEW n \in Connections, Resolve(c, n)
      PROVE  UNCHANGED cacheVars
  BY <1>3 DEF Resolve
<1>4. ASSUME NEW c \in Calls, Route(c)
      PROVE  UNCHANGED cacheVars
  BY <1>4 DEF Route
<1>5. ASSUME NEW c \in Calls, Execute(c)
      PROVE  CacheNext
  BY <1>5 DEF Execute, CacheNext
<1>6. CASE CacheStep
  BY <1>6 DEF CacheStep, CacheNext
<1>7. CASE UNCHANGED vars
  BY <1>7 DEF vars
<1> QED
  BY <1>1, <1>2, <1>3, <1>4, <1>5, <1>6, <1>7 DEF Next

\* The store's commits and the invalidations keep the invariant.
LEMMA CommitInv ==
    ASSUME GatewayInv, CacheInv', NEW n \in Connections, Commit(n)
    PROVE  GatewayInv'
<1> USE DEF GatewayInv, GatewayParts, GatewayTypeOK
<1>1. /\ version[n] \in Nat /\ version[n] < MaxVersion /\ MaxVersion \in Nat
      /\ version' \in [Connections -> 1..MaxVersion]
      /\ version'[n] = version[n] + 1
      /\ \A m \in Connections : m # n => version'[m] = version[m]
      /\ tasks' = tasks \cup {[connection |-> n, version |-> version[n]]}
      /\ UNCHANGED <<cacheVars, ctx, routed, sessions, retired, overlapped>>
  BY GatewayConstants DEF Commit
<1>2. GatewayTypeOK'
  BY <1>1 DEF CacheInv, Revisions
<1>3. RevisionsPast'
  <2> SUFFICES ASSUME NEW r \in tasks' \cup retired'
               PROVE  r.version < version'[r.connection]
    BY DEF RevisionsPast
  <2>1. CASE r = [connection |-> n, version |-> version[n]]
    BY <1>1, <2>1
  <2>2. CASE r \in tasks \cup retired
    <3>1. /\ r.version < version[r.connection] /\ r.version \in Nat
          /\ r.connection \in Connections
      BY <2>2 DEF RevisionsPast, Revisions
    <3>2. version[r.connection] \in Nat
      BY <3>1
    <3> QED
      BY <1>1, <3>1, <3>2
  <2> QED
    BY <1>1, <2>1, <2>2
<1>4. CallsRouted' /\ LiveOverlapped' /\ OneSessionPerConnection' /\ StaleOnlyFromOverlap'
  BY <1>1 DEF CallsRouted, LiveOverlapped, Live, OneSessionPerConnection,
              StaleOnlyFromOverlap, cacheVars
<1> QED
  BY <1>2, <1>3, <1>4

LEMMA InvalidationInv ==
    ASSUME GatewayInv, CacheInv', NEW r \in tasks, RunInvalidation(r)
    PROVE  GatewayInv'
<1> USE DEF GatewayInv, GatewayParts
<1>1. /\ r \in Revisions
      /\ UNCHANGED <<version, ctx, routed, pc, request>>
      /\ tasks' = tasks \ {r} /\ sessions' = sessions \ {r}
      /\ retired' = retired \cup {r}
      /\ overlapped' = overlapped \cup {c \in Calls : ctx[c] = r /\ Live(c)}
      /\ \A k \in Requests : entries'[k] # NoCall =>
            entries'[k] = entries[k] /\ k.connection # r.connection
  BY DEF GatewayTypeOK, RunInvalidation, InvalidateCachedData, InvalidateConnection,
         SurvivesInvalidation
<1>2. GatewayTypeOK'
  BY <1>1 DEF GatewayTypeOK, CacheInv
<1>3. RevisionsPast' /\ CallsRouted' /\ OneSessionPerConnection'
  BY <1>1 DEF RevisionsPast, CallsRouted, OneSessionPerConnection
<1>4. LiveOverlapped'
  BY <1>1 DEF LiveOverlapped, Live
<1>5. StaleOnlyFromOverlap'
  <2>1. ASSUME NEW k \in Requests, entries'[k] # NoCall, ctx[entries'[k]] \in retired'
        PROVE  entries'[k] \in overlapped'
    <3>1. entries'[k] = entries[k] /\ ctx[entries[k]] # r
      BY <1>1, <2>1, EntryMeans
    <3> QED
      BY <1>1, <2>1, <3>1 DEF StaleOnlyFromOverlap
  <2>2. ASSUME NEW s \in sessions' \cap retired'
        PROVE  \E c \in overlapped' : ctx'[c] = s
    BY <1>1, <2>2 DEF StaleOnlyFromOverlap
  <2> QED
    BY <1>1, <2>1, <2>2 DEF StaleOnlyFromOverlap
<1> QED
  BY <1>2, <1>3, <1>4, <1>5

\* A call is resolved to a revision that is current, so to none that an
\* invalidation is over for.
LEMMA ResolveInv ==
    ASSUME GatewayInv, CacheInv', NEW c \in Calls, NEW n \in Connections, Resolve(c, n)
    PROVE  GatewayInv'
<1> USE DEF GatewayInv, GatewayParts
<1> DEFINE now == [connection |-> n, version |-> version[n]]
<1>1. /\ ctx[c] = NoCtx /\ c \notin routed /\ pc[c] = "idle"
      /\ ctx' = [ctx EXCEPT ![c] = now]
      /\ UNCHANGED <<pc, request, entries, version, routed, sessions, tasks, retired,
                     overlapped>>
  BY DEF Resolve, CallsRouted, cacheVars
<1>2. now \in Revisions /\ version[n] \in Nat
  BY GatewayConstants DEF GatewayTypeOK, Revisions
<1>3. ctx' \in [Calls -> Revisions \cup {NoCtx}] /\ ctx'[c] = now
      /\ \A d \in Calls : d # c => ctx'[d] = ctx[d]
  BY <1>1, <1>2 DEF GatewayTypeOK
<1>4. GatewayTypeOK'
  BY <1>1, <1>3 DEF GatewayTypeOK, CacheInv
<1>5. RevisionsPast' /\ OneSessionPerConnection'
  BY <1>1 DEF RevisionsPast, OneSessionPerConnection
<1>6. CallsRouted'
  BY <1>1, <1>2, <1>3, GatewayConstants DEF CallsRouted, Revisions
<1>7. now \notin retired
  BY <1>2 DEF RevisionsPast
<1>8. LiveOverlapped'
  BY <1>1, <1>3, <1>7 DEF LiveOverlapped, Live
<1>9. StaleOnlyFromOverlap'
  <2>1. ASSUME NEW k \in Requests, entries[k] # NoCall
        PROVE  entries[k] \in Calls /\ entries[k] # c
    BY <1>1, <2>1, EntryMeans
  <2>2. ASSUME NEW s \in sessions \cap retired
        PROVE  \E d \in overlapped : ctx'[d] = s
    <3>1. PICK d \in overlapped : ctx[d] = s
      BY DEF StaleOnlyFromOverlap
    <3>2. d \in Calls /\ s \in Revisions
      BY DEF GatewayTypeOK
    <3>3. d # c
      BY <1>1, <3>1, <3>2, GatewayConstants DEF Revisions
    <3> QED
      BY <1>3, <3>1, <3>2, <3>3
  <2> QED
    BY <1>1, <1>3, <2>1, <2>2 DEF StaleOnlyFromOverlap
<1> QED
  BY <1>4, <1>5, <1>6, <1>8, <1>9

\* A server definition that is put back after its invalidation belongs to a
\* call that was resolved before and not yet routed when it ran.
LEMMA RouteInv ==
    ASSUME GatewayInv, CacheInv', NEW c \in Calls, Route(c)
    PROVE  GatewayInv'
<1> USE DEF GatewayInv, GatewayParts
<1>1. /\ ctx[c] # NoCtx /\ c \notin routed /\ pc[c] = "idle"
      /\ routed' = routed \cup {c}
      /\ sessions' = SessionsAfterRouting(ctx[c])
      /\ UNCHANGED <<pc, request, entries, version, ctx, tasks, retired, overlapped>>
  BY DEF Route, CallsRouted, cacheVars
<1>2. ctx[c] \in Revisions
  BY <1>1 DEF GatewayTypeOK
<1>3. GatewayTypeOK'
  BY <1>1, <1>2 DEF GatewayTypeOK, CacheInv, SessionsAfterRouting
<1>4. RevisionsPast' /\ LiveOverlapped'
  BY <1>1 DEF RevisionsPast, LiveOverlapped, Live
<1>5. CallsRouted'
  BY <1>1 DEF CallsRouted
<1>6. OneSessionPerConnection'
  BY <1>1 DEF OneSessionPerConnection, SessionsAfterRouting
<1>7. ctx[c] \in retired => c \in overlapped
  BY <1>1 DEF LiveOverlapped, Live
<1>8. StaleOnlyFromOverlap'
  BY <1>1, <1>7 DEF StaleOnlyFromOverlap, SessionsAfterRouting
<1> QED
  BY <1>3, <1>4, <1>5, <1>6, <1>8

\* A call that enters the cache does so on its own connection and stores
\* nothing yet.
LEMMA ExecuteInv ==
    ASSUME GatewayInv, CacheInv', NEW c \in Calls, Execute(c)
    PROVE  GatewayInv'
<1> USE DEF GatewayInv, GatewayParts
<1>1. PICK q \in Requests : q.connection = ctx[c].connection /\ GetOrLoad(c, q)
  BY DEF Execute
<1>2. c \in routed /\ UNCHANGED gatewayVars
  BY DEF Execute
<1>3. /\ pc[c] = "idle" /\ request'[c] = q
      /\ \A d \in Calls : d # c => pc'[d] = pc[d] /\ request'[d] = request[d]
      /\ \A k \in Requests : entries'[k] \in {entries[k], NoCall}
  BY <1>1, EnterMoves DEF CacheInv
<1>4. GatewayTypeOK' /\ RevisionsPast' /\ OneSessionPerConnection'
  BY <1>2 DEF GatewayTypeOK, CacheInv, RevisionsPast, OneSessionPerConnection, gatewayVars
<1>5. CallsRouted'
  BY <1>1, <1>2, <1>3 DEF CallsRouted, gatewayVars
<1>6. LiveOverlapped'
  BY <1>2, <1>3 DEF LiveOverlapped, Live, gatewayVars
<1>7. StaleOnlyFromOverlap'
  BY <1>2, <1>3 DEF StaleOnlyFromOverlap, gatewayVars
<1> QED
  BY <1>4, <1>5, <1>6, <1>7

LEMMA LaterInv ==
    ASSUME GatewayInv, CacheInv', CacheStep
    PROVE  GatewayInv'
<1> USE DEF GatewayInv, GatewayParts
<1>1. UNCHANGED gatewayVars
  BY DEF CacheStep
<1>2. /\ request' = request
      /\ \A d \in Calls : /\ pc[d] = "idle" <=> pc'[d] = "idle"
                          /\ Live(d)' => Live(d)
      /\ \A k \in Requests : \/ entries'[k] \in {entries[k], NoCall}
                             \/ entries'[k] \in Calls /\ Live(entries'[k])
  BY LaterMoves
<1>3. GatewayTypeOK' /\ RevisionsPast' /\ OneSessionPerConnection'
  BY <1>1 DEF GatewayTypeOK, CacheInv, RevisionsPast, OneSessionPerConnection, gatewayVars
<1>4. CallsRouted'
  BY <1>1, <1>2 DEF CallsRouted, gatewayVars
<1>5. LiveOverlapped'
  BY <1>1, <1>2 DEF LiveOverlapped, gatewayVars
<1>6. StaleOnlyFromOverlap'
  <2>1. ASSUME NEW k \in Requests, entries'[k] # NoCall, ctx[entries'[k]] \in retired
        PROVE  entries'[k] \in overlapped
    <3>1. CASE entries'[k] = entries[k]
      BY <2>1, <3>1 DEF StaleOnlyFromOverlap
    <3>2. CASE entries'[k] \in Calls /\ Live(entries'[k])
      BY <2>1, <3>2 DEF LiveOverlapped
    <3> QED
      BY <1>2, <2>1, <3>1, <3>2
  <2> QED
    BY <1>1, <2>1 DEF StaleOnlyFromOverlap, gatewayVars
<1> QED
  BY <1>3, <1>4, <1>5, <1>6

LEMMA GatewayStep == GatewayInv /\ [Next]_vars => GatewayInv'
<1> SUFFICES ASSUME GatewayInv, [Next]_vars
             PROVE  GatewayInv'
  OBVIOUS
<1>1. CacheInv'
  BY GatewayCacheStep, InvStep DEF GatewayInv
<1>2. CASE UNCHANGED vars
  <2>1. UNCHANGED <<cacheVars, gatewayVars>>
    BY <1>2 DEF vars
  <2>2. GatewayTypeOK'
    BY <1>1, <2>1 DEF GatewayInv, GatewayTypeOK, CacheInv, gatewayVars
  <2>3. GatewayParts'
    BY <2>1 DEF GatewayInv, GatewayParts, RevisionsPast, CallsRouted, LiveOverlapped, Live,
                OneSessionPerConnection, StaleOnlyFromOverlap, cacheVars, gatewayVars
  <2> QED
    BY <1>1, <2>2, <2>3 DEF GatewayInv
<1> QED
  BY <1>1, <1>2, CommitInv, InvalidationInv, ResolveInv, RouteInv, ExecuteInv, LaterInv
     DEF Next

LEMMA GatewayHolds == Spec => []GatewayInv
BY GatewayInit, GatewayStep, PTL DEF Spec

\* Two revisions of one connection never have a server definition at once.
THEOREM SessionsSafe == Spec => []OneSessionPerConnection
<1>1. GatewayInv => OneSessionPerConnection
  BY DEF GatewayInv, GatewayParts
<1> QED
  BY GatewayHolds, <1>1, PTL

\* What remains of a revision after its invalidation is due to a call that
\* was under way then.
THEOREM StaleOverlaps == Spec => []StaleOnlyFromOverlap
<1>1. GatewayInv => StaleOnlyFromOverlap
  BY DEF GatewayInv, GatewayParts
<1> QED
  BY GatewayHolds, <1>1, PTL

\* The gateway uses the cache only as a cache may be used: whatever commits,
\* invalidations and routes come between, its behaviours are behaviours of
\* ConnectionCache, and so of SharedLoad.
THEOREM GatewayUsesCache == Spec => CacheSpec /\ SharesLoads
<1>1. Init => CacheInit
  BY DEF Init
<1>2. GatewayInv /\ [Next]_vars => [CacheNext]_cacheVars
  BY GatewayCacheStep DEF GatewayInv
<1>3. Spec => CacheSpec
  BY <1>1, <1>2, GatewayHolds, PTL DEF Spec, CacheSpec
<1> QED
  BY <1>3, CacheImplements, PTL

\* No request of one connection is answered with another's data, from the
\* token that resolved it to the answer it got.
THEOREM GatewayIsolates ==
    Spec => [](\A c \in Calls : answer[c] # NoCall
                  => ctx[answer[c]].connection = ctx[c].connection)
<1>1. GatewayInv => \A c \in Calls : answer[c] # NoCall
                        => ctx[answer[c]].connection = ctx[c].connection
  <2> SUFFICES ASSUME GatewayInv, NEW c \in Calls, answer[c] # NoCall
               PROVE  ctx[answer[c]].connection = ctx[c].connection
    OBVIOUS
  <2>1. /\ answer[c] \in Calls /\ pc[c] # "idle" /\ pc[answer[c]] # "idle"
        /\ request[answer[c]] = request[c]
    BY DEF GatewayInv, CacheInv, CacheTypeOK, AnswersShared
  <2> QED
    BY <2>1 DEF GatewayInv, GatewayParts, CallsRouted
<1> QED
  BY GatewayHolds, <1>1, PTL
=============================================================================
