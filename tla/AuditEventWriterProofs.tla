----------------------- MODULE AuditEventWriterProofs -----------------------
(***************************************************************************)
(* Proofs about AuditEventWriter, for any number of events, lifespans and  *)
(* writers and any size of the queue.                                      *)
(***************************************************************************)
EXTENDS AuditEventWriter, FiniteSets, FiniteSetTheorems, TLAPS

-----------------------------------------------------------------------------
(* The inductive invariant.                                                *)

InHand(w) == IF worker[w] \in {"storing", "stored"} THEN 1 ELSE 0
Claims(w) == IF Unlocked(w) THEN 0 ELSE 1

\* What is pending is in the queue, with the worker, or about to be queued.
Counted == \A w \in Writers : pending[w] = Len(queue[w]) + InHand(w) + Claims(w)

\* The state lock excludes.
OneClaim ==
    \A e, f \in Events :
        (status[e] = "claimed" /\ status[f] = "claimed" /\ writer[e] = writer[f]) => e = f

\* The queue and the worker hold events of their own writer, past submission.
PastSteps == {"accepted", "stored", "failed"}
Past(e) == status[e] \in PastSteps
InPlace ==
    \A w \in Writers :
        /\ \A i \in 1..Len(queue[w]) : Past(queue[w][i]) /\ writer[queue[w][i]] = w
        /\ worker[w] = "storing" => taken[w] \in Events /\ Past(taken[w]) /\ writer[taken[w]] = w

\* An accepted event is in the queue or being stored.
Placed ==
    \A e \in Events, w \in Writers :
        (status[e] = "accepted" /\ writer[e] = w) =>
            e \in Queued(w) \/ (worker[w] = "storing" /\ taken[w] = e)

QueueParts == Counted /\ OneClaim /\ InPlace /\ Placed

\* A writer is told to stop exactly when it is closed, and one that is still
\* to be created is open.
Flags ==
    \A w \in Writers : (stop[w] <=> ~ accepting[w]) /\ (w > current => accepting[w])

\* A lifespan shuts down a closed writer, and answers at the end.
Shutting ==
    \A l \in Lifespans :
        /\ life[l] \in {"out", "holding"} => released[l] = 0
        /\ life[l] \in {"closing", "flushing", "joining", "late"} => released[l] # 0
        /\ life[l] # "ended" => result[l] = "none"
        /\ released[l] # 0 => ~ accepting[released[l]]

\* A flush that has ended leaves nothing, and it stays so.
Empty(w) == queue[w] = <<>> /\ Unlocked(w) /\ InHand(w) = 0
Drained ==
    \A l \in Lifespans :
        (released[l] # 0 /\ (life[l] = "joining" \/ result[l] = "complete")) =>
            Empty(released[l])

LeaseParts == Flags /\ Shutting /\ Drained /\ LeasedWriterAccepts

AuditInv == TypeOK /\ QueueParts /\ LeaseParts

-----------------------------------------------------------------------------

LEMMA AuditInit == Init => AuditInv
<1> SUFFICES ASSUME Init PROVE AuditInv
  OBVIOUS
<1>1. TypeOK
  <2>1. 1 \in Writers /\ current \in Writers /\ leases \in Nat
    BY AuditConstants DEF Init, Writers
  <2>2. /\ queue \in [Writers -> Seq(Events)]
        /\ \A w \in Writers : Len(queue[w]) <= QueueSize
    BY AuditConstants DEF Init
  <2>3. /\ worker \in [Writers -> WorkerSteps] /\ taken \in [Writers -> Events \cup {NoEvent}]
        /\ accepting \in [Writers -> BOOLEAN] /\ stop \in [Writers -> BOOLEAN]
        /\ pending \in [Writers -> Nat]
    BY DEF Init, WorkerSteps
  <2>4. QED
    BY <2>1, <2>2, <2>3 DEF Init, TypeOK
<1>2. QueueParts
  BY DEF Init, QueueParts, Counted, InHand, Claims, Unlocked, OneClaim, InPlace, Placed, Writers
<1>3. LeaseParts
  BY DEF Init, LeaseParts, Flags, Shutting, Drained, LeasedWriterAccepts
<1>4. QED
  BY <1>1, <1>2, <1>3 DEF AuditInv

LEMMA StartedWorker ==
    ASSUME TypeOK, NEW w \in Writers
    PROVE  /\ WithWorker(w) \in [Writers -> WorkerSteps]
           /\ WithWorker(w)[w] # "off"
           /\ \A v \in Writers : WithWorker(w)[v] # "off" \/ worker[v] = "off"
           /\ \A v \in Writers : \A s \in {"storing", "stored"} :
                  WithWorker(w)[v] = s <=> worker[v] = s
<1>1. worker \in [Writers -> WorkerSteps]
  BY DEF TypeOK
<1>2. CASE worker[w] = "off"
  BY <1>1, <1>2 DEF WithWorker, WorkerSteps
<1>3. CASE worker[w] # "off"
  BY <1>1, <1>3 DEF WithWorker
<1>4. QED
  BY <1>2, <1>3

LEMMA TypeStep == AuditInv /\ [Next]_vars => TypeOK'
<1> SUFFICES ASSUME AuditInv, [Next]_vars PROVE TypeOK'
  OBVIOUS
<1> USE AuditConstants DEF AuditInv, TypeOK
<1>1. ASSUME NEW e \in Events, FindWriter(e) PROVE TypeOK'
  BY <1>1 DEF FindWriter, Becomes, writers, lifespans
<1>2. ASSUME NEW e \in Events, Refuse(e) PROVE TypeOK'
  BY <1>2 DEF Refuse, Becomes, writers, lifespans
<1>3. ASSUME NEW e \in Events, Submit(e) PROVE TypeOK'
  <2>1. writer[e] \in Writers
    OBVIOUS
  <2>2. worker' \in [Writers -> WorkerSteps]
    BY <1>3, <2>1, StartedWorker DEF Submit
  <2>3. pending' \in [Writers -> Nat]
    BY <1>3, <2>1 DEF Submit
  <2>4. QED
    BY <1>3, <2>2, <2>3 DEF Submit, Becomes, lifespans
<1>4. ASSUME NEW e \in Events, Put(e) PROVE TypeOK'
  <2>1. writer[e] \in Writers /\ queue[writer[e]] \in Seq(Events)
    OBVIOUS
  <2>2. CASE Room(writer[e])
    <3> DEFINE q == Append(queue[writer[e]], e)
    <3>1. q \in Seq(Events) /\ Len(q) = Len(queue[writer[e]]) + 1
      BY <2>1
    <3>2. Len(q) <= QueueSize
      BY <2>1, <2>2, <3>1 DEF Room
    <3>3. queue' = [queue EXCEPT ![writer[e]] = q]
      BY <1>4, <2>2 DEF Put
    <3> HIDE DEF q
    <3>4. queue' \in [Writers -> Seq(Events)] /\ \A w \in Writers : Len(queue'[w]) <= QueueSize
      BY <2>1, <3>1, <3>2, <3>3
    <3>5. gap' \in {gap, gap \cup {e}} /\ pending' = pending
      BY <1>4, <2>2 DEF Put
    <3>6. status' = [status EXCEPT ![e] = "accepted"]
      BY <1>4, <2>2 DEF Put, Becomes
    <3>7. QED
      BY <1>4, <3>4, <3>5, <3>6 DEF Put, writers, lifespans
  <2>3. CASE ~ Room(writer[e])
    <3>1. ~ Unlocked(writer[e])
      BY <1>4 DEF Put, Unlocked
    <3>2. pending[writer[e]] - 1 \in Nat
      <4>1. Claims(writer[e]) = 1 /\ InHand(writer[e]) \in Nat /\ Len(queue[writer[e]]) \in Nat
        BY <2>1, <3>1 DEF Claims, InHand
      <4>2. pending[writer[e]] = Len(queue[writer[e]]) + InHand(writer[e]) + Claims(writer[e])
        BY <2>1 DEF QueueParts, Counted
      <4>3. QED
        BY <4>1, <4>2
    <3>3. pending' \in [Writers -> Nat]
      BY <1>4, <2>1, <2>3, <3>2 DEF Put
    <3>4. QED
      BY <1>4, <2>3, <3>3 DEF Put, Becomes, writers, lifespans
  <2>4. QED
    BY <2>2, <2>3
<1>5. ASSUME NEW w \in Writers, TakeEvent(w) PROVE TypeOK'
  <2>1. queue[w] \in Seq(Events) /\ queue[w] # <<>>
    BY <1>5 DEF TakeEvent
  <2>2. Head(queue[w]) \in Events /\ Tail(queue[w]) \in Seq(Events)
    BY <2>1
  <2>3. Len(Tail(queue[w])) <= QueueSize
    BY <2>1
  <2>4. queue' \in [Writers -> Seq(Events)] /\ \A v \in Writers : Len(queue'[v]) <= QueueSize
    BY <1>5, <2>2, <2>3 DEF TakeEvent
  <2>5. taken' \in [Writers -> Events \cup {NoEvent}] /\ worker' \in [Writers -> WorkerSteps]
    BY <1>5, <2>2 DEF TakeEvent, Goto, WorkerSteps
  <2>6. QED
    BY <1>5, <2>4, <2>5 DEF TakeEvent, lifespans
<1>6. ASSUME NEW w \in Writers, TimesOut(w) \/ LooksAtFlag(w) \/ Check(w) PROVE TypeOK'
  BY <1>6 DEF TimesOut, LooksAtFlag, Check, Goto, WorkerSteps, lifespans
<1>7. ASSUME NEW w \in Writers, Store(w) PROVE TypeOK'
  <2>1. worker' \in [Writers -> WorkerSteps] /\ taken' \in [Writers -> Events \cup {NoEvent}]
    BY <1>7 DEF Store, Goto, WorkerSteps
  <2>2. status' \in [Events -> {"new", "found", "claimed", "accepted", "stored", "failed", "dropped"}]
    BY <1>7 DEF Store, Becomes
  <2>3. QED
    BY <1>7, <2>1, <2>2 DEF Store, lifespans
<1>8. ASSUME NEW w \in Writers, Settle(w) PROVE TypeOK'
  <2>1. pending[w] - 1 \in Nat
    <3>1. queue[w] \in Seq(Events) /\ InHand(w) = 1 /\ Claims(w) \in Nat
      BY <1>8 DEF Settle, InHand, Claims
    <3>2. pending[w] = Len(queue[w]) + InHand(w) + Claims(w)
      BY DEF QueueParts, Counted
    <3>3. Len(queue[w]) \in Nat
      BY <3>1
    <3>4. QED
      BY <3>1, <3>2, <3>3
  <2>2. pending' \in [Writers -> Nat]
    BY <1>8, <2>1 DEF Settle
  <2>3. worker' \in [Writers -> WorkerSteps]
    BY <1>8 DEF Settle, Goto, WorkerSteps
  <2>4. QED
    BY <1>8, <2>2, <2>3 DEF Settle, lifespans
<1>9. ASSUME NEW l \in Lifespans, Acquire(l) PROVE TypeOK'
  <2>1. current' \in Writers /\ leases' \in Nat
    BY <1>9 DEF Acquire, Writers
  <2>2. worker' \in [Writers -> WorkerSteps]
    BY <1>9, <2>1, StartedWorker DEF Acquire
  <2>3. life' \in [Lifespans -> {"out", "holding", "closing", "flushing", "joining", "late", "ended"}]
    BY <1>9 DEF Acquire, Moves
  <2>4. QED
    BY <1>9, <2>1, <2>2, <2>3 DEF Acquire
<1>10. ASSUME NEW l \in Lifespans, Release(l) PROVE TypeOK'
  <2>1. leases' \in Nat
    BY <1>10 DEF Release
  <2>2. accepting' \in [Writers -> BOOLEAN] /\ stop' \in [Writers -> BOOLEAN]
    BY <1>10 DEF Release, ClosedByLastRelease, Close
  <2>3. /\ life' \in [Lifespans -> {"out", "holding", "closing", "flushing", "joining", "late", "ended"}]
        /\ released' \in [Lifespans -> Writers \cup {0}]
        /\ result' \in [Lifespans -> {"none", "complete", "incomplete"}]
    <3>1. life' = [life EXCEPT ![l] = "ended"] \/ life' = [life EXCEPT ![l] = "closing"]
      BY <1>10 DEF Release, Moves
    <3>2. released' = released \/ released' = [released EXCEPT ![l] = current]
      BY <1>10 DEF Release
    <3>3. result' = result \/ result' = [result EXCEPT ![l] = "complete"]
      BY <1>10 DEF Release
    <3>4. life' \in [Lifespans -> {"out", "holding", "closing", "flushing", "joining", "late", "ended"}]
      BY <3>1
    <3>5. released' \in [Lifespans -> Writers \cup {0}]
      BY <3>2
    <3>6. result' \in [Lifespans -> {"none", "complete", "incomplete"}]
      BY <3>3
    <3>7. QED
      BY <3>4, <3>5, <3>6
  <2>4. QED
    BY <1>10, <2>1, <2>2, <2>3 DEF Release
<1>11. ASSUME NEW l \in Lifespans, BeginShutdown(l) \/ Flush(l) \/ Join(l) PROVE TypeOK'
  BY <1>11 DEF BeginShutdown, Flush, Join, Moves, Close, writers
<1>12. CASE UNCHANGED vars
  BY <1>12 DEF vars, writers, lifespans
<1>13. CASE Exit
  BY <1>13 DEF Exit, writers
<1>14. QED
  BY <1>1, <1>2, <1>3, <1>4, <1>5, <1>6, <1>7, <1>8, <1>9, <1>10, <1>11, <1>12, <1>13
     DEF Next, EventStep, WorkerStep, LifespanStep

-----------------------------------------------------------------------------
(* Events: where they are, and how many.                                   *)

\* What neither touches the events nor takes one in hand keeps the counts.
LEMMA EventsUntouched ==
    ASSUME TypeOK, TypeOK', QueueParts,
           UNCHANGED <<queue, pending, taken, status, writer>>,
           \A v \in Writers : \A s \in {"storing", "stored"} : worker'[v] = s <=> worker[v] = s
    PROVE  QueueParts'
<1>1. \A v \in Writers : InHand(v)' = InHand(v) /\ Claims(v)' = Claims(v)
  BY DEF InHand, Claims, Unlocked
<1>2. Counted'
  BY <1>1 DEF QueueParts, Counted
<1>3. OneClaim'
  BY DEF QueueParts, OneClaim
<1>4. InPlace'
  BY DEF QueueParts, InPlace, Past, PastSteps
<1>5. Placed'
  BY DEF QueueParts, Placed, Queued
<1>6. QED
  BY <1>2, <1>3, <1>4, <1>5 DEF QueueParts

\* What moves an event between two steps outside of the queue, and holds the
\* state lock of no writer before or after.
LEMMA EventElsewhere ==
    ASSUME TypeOK, TypeOK', QueueParts, NEW e \in Events, NEW step \in {"found", "dropped"},
           status[e] \in {"new", "found"},
           status' = [status EXCEPT ![e] = step],
           \A f \in Events \ {e} : writer'[f] = writer[f],
           UNCHANGED <<queue, pending, taken, worker>>
    PROVE  QueueParts'
<1>1. \A f \in Events \ {e} : status'[f] = status[f] /\ writer'[f] = writer[f]
  BY DEF TypeOK
<1>2. status'[e] = step /\ ~ Past(e) /\ ~ Past(e)' /\ status[e] # "claimed" /\ status'[e] # "claimed"
  BY DEF TypeOK, Past, PastSteps
<1>3. \A v \in Writers : Unlocked(v)' <=> Unlocked(v)
  BY <1>1, <1>2 DEF Unlocked
<1>4. \A v \in Writers : InHand(v)' = InHand(v) /\ Claims(v)' = Claims(v)
  BY <1>3 DEF InHand, Claims
<1>5. Counted'
  BY <1>4 DEF QueueParts, Counted
<1>6. OneClaim'
  BY <1>1, <1>2 DEF QueueParts, OneClaim
<1>7. InPlace'
  <2> SUFFICES ASSUME NEW w \in Writers
               PROVE  /\ \A i \in 1..Len(queue[w]) : Past(queue[w][i])' /\ writer'[queue[w][i]] = w
                      /\ worker[w] = "storing" => taken[w] \in Events /\ Past(taken[w])' /\ writer'[taken[w]] = w
    BY DEF InPlace, Past, PastSteps
  <2>1. \A i \in 1..Len(queue[w]) : queue[w][i] \in Events \ {e}
    <3>1. queue[w] \in Seq(Events)
      BY DEF TypeOK
    <3>2. \A i \in 1..Len(queue[w]) : queue[w][i] \in Events
      BY <3>1
    <3>3. QED
      BY <1>2, <3>2 DEF QueueParts, InPlace
  <2>2. worker[w] = "storing" => taken[w] \in Events \ {e}
    BY <1>2 DEF QueueParts, InPlace
  <2>3. QED
    BY <1>1, <2>1, <2>2 DEF QueueParts, InPlace, Past, PastSteps
<1>8. Placed'
  <2> SUFFICES ASSUME NEW f \in Events, NEW v \in Writers, status'[f] = "accepted", writer'[f] = v
               PROVE  f \in Queued(v)' \/ (worker'[v] = "storing" /\ taken'[v] = f)
    BY DEF Placed, TypeOK
  <2>1. f # e /\ status[f] = "accepted" /\ writer[f] = v
    BY <1>1, <1>2 DEF Past, PastSteps
  <2>2. f \in Queued(v) \/ (worker[v] = "storing" /\ taken[v] = f)
    BY <2>1 DEF QueueParts, Placed
  <2>3. Queued(v)' = Queued(v)
    BY DEF Queued
  <2>4. QED
    BY <2>2, <2>3
<1>9. QED
  BY <1>5, <1>6, <1>7, <1>8 DEF QueueParts

LEMMA SubmitStep ==
    ASSUME TypeOK, TypeOK', QueueParts, NEW e \in Events, Submit(e)
    PROVE  QueueParts'
<1>0. PICK w \in Writers : w = writer[e]
  BY DEF TypeOK
<1>1. w = writer[e] /\ Unlocked(w) /\ status[e] = "found" /\ writer' = writer
  BY <1>0 DEF Submit, TypeOK
<1>2. status'[e] = "claimed" /\ \A f \in Events \ {e} : status'[f] = status[f]
  BY DEF Submit, Becomes, TypeOK
<1>3. \A v \in Writers : InHand(v)' = InHand(v)
  <2>1. \A v \in Writers : \A s \in {"storing", "stored"} : worker'[v] = s <=> worker[v] = s
    BY <1>1, StartedWorker DEF Submit
  <2>2. QED
    BY <2>1 DEF InHand
<1>4. Claims(w) = 0 /\ Claims(w)' = 1
  BY <1>1, <1>2 DEF Claims, Unlocked
<1>5. \A v \in Writers \ {w} : Claims(v)' = Claims(v)
  <2>1. \A v \in Writers \ {w} : Unlocked(v)' <=> Unlocked(v)
    BY <1>1, <1>2 DEF Unlocked
  <2>2. QED
    BY <2>1 DEF Claims
<1>6. pending'[w] = pending[w] + 1 /\ \A v \in Writers \ {w} : pending'[v] = pending[v]
  BY <1>1 DEF Submit, TypeOK
<1>7. queue' = queue /\ taken' = taken
  BY DEF Submit
<1>8. Counted'
  <2> SUFFICES ASSUME NEW v \in Writers
               PROVE  pending'[v] = Len(queue[v]) + InHand(v)' + Claims(v)'
    BY <1>7 DEF Counted
  <2>1. pending[v] = Len(queue[v]) + InHand(v) + Claims(v)
    BY DEF QueueParts, Counted
  <2>2. Len(queue[v]) \in Nat /\ InHand(v) \in Nat
    BY DEF TypeOK, InHand
  <2>3. CASE v = w
    <3>1. pending'[v] = pending[v] + 1 /\ InHand(v)' = InHand(v)
      BY <1>3, <1>6, <2>3
    <3>2. Claims(v) = 0 /\ Claims(v)' = 1
      BY <1>4, <2>3
    <3>3. QED
      BY <2>1, <2>2, <3>1, <3>2
  <2>4. CASE v # w
    BY <1>3, <1>5, <1>6, <2>1, <2>4
  <2>5. QED
    BY <2>3, <2>4
<1>9. OneClaim'
  BY <1>1, <1>2 DEF QueueParts, OneClaim, Unlocked
<1>10. InPlace'
  <2> SUFFICES ASSUME NEW v \in Writers
               PROVE  /\ \A i \in 1..Len(queue[v]) : status'[queue[v][i]] \in PastSteps /\ writer[queue[v][i]] = v
                      /\ worker'[v] = "storing" => taken[v] \in Events /\ status'[taken[v]] \in PastSteps /\ writer[taken[v]] = v
    BY <1>1, <1>7 DEF InPlace, Past, PastSteps
  <2>1. \A i \in 1..Len(queue[v]) : queue[v][i] \in Events
    <3>1. queue[v] \in Seq(Events)
      BY DEF TypeOK
    <3>2. QED
      BY <3>1
  <2>2. \A f \in Events : Past(f) => Past(f)'
    BY <1>1, <1>2 DEF Past, PastSteps
  <2>3. worker'[v] = "storing" => worker[v] = "storing"
    BY <1>1, StartedWorker DEF Submit
  <2>4. /\ \A i \in 1..Len(queue[v]) : Past(queue[v][i]) /\ writer[queue[v][i]] = v
        /\ worker[v] = "storing" => taken[v] \in Events /\ Past(taken[v]) /\ writer[taken[v]] = v
    BY DEF QueueParts, InPlace
  <2>5. \A i \in 1..Len(queue[v]) : status'[queue[v][i]] \in PastSteps /\ writer[queue[v][i]] = v
    BY <1>7, <2>1, <2>2, <2>4 DEF Past
  <2>6. worker'[v] = "storing" => taken[v] \in Events /\ status'[taken[v]] \in PastSteps /\ writer[taken[v]] = v
    BY <1>7, <2>2, <2>3, <2>4 DEF Past
  <2>7. QED
    BY <2>5, <2>6
<1>11. Placed'
  <2>1. \A v \in Writers : worker[v] = "storing" => worker'[v] = "storing"
    BY <1>1, StartedWorker DEF Submit
  <2>2. \A f \in Events : status'[f] = "accepted" => status[f] = "accepted"
    BY <1>2
  <2>3. QED
    BY <1>1, <1>7, <2>1, <2>2 DEF QueueParts, Placed, Queued
<1>12. QED
  BY <1>8, <1>9, <1>10, <1>11 DEF QueueParts

LEMMA PutStep ==
    ASSUME TypeOK, TypeOK', QueueParts, NEW e \in Events, Put(e)
    PROVE  QueueParts'
<1>1. PICK w \in Writers : w = writer[e]
  BY DEF TypeOK
<1>2. status[e] = "claimed" /\ writer' = writer /\ worker' = worker /\ taken' = taken
  BY DEF Put, writers
<1>3. PICK step \in {"accepted", "dropped"} : status' = [status EXCEPT ![e] = step]
  BY DEF Put, Becomes
<1>4. status'[e] = step /\ \A f \in Events \ {e} : status'[f] = status[f]
  BY <1>3 DEF TypeOK
<1>5. Claims(w) = 1 /\ Claims(w)' = 0
  <2>1. ~ Unlocked(w)
    BY <1>1, <1>2 DEF Unlocked
  <2>2. Unlocked(w)'
    BY <1>1, <1>2, <1>4 DEF Unlocked, QueueParts, OneClaim
  <2>3. QED
    BY <2>1, <2>2 DEF Claims
<1>6. \A v \in Writers \ {w} : Claims(v)' = Claims(v)
  <2>1. \A v \in Writers \ {w} : Unlocked(v)' <=> Unlocked(v)
    BY <1>1, <1>2, <1>4 DEF Unlocked
  <2>2. QED
    BY <2>1 DEF Claims
<1>7. \A v \in Writers : InHand(v)' = InHand(v)
  BY <1>2 DEF InHand
<1>8. \A v \in Writers :
        queue[v] \in Seq(Events) /\ Len(queue[v]) \in Nat /\ InHand(v) \in Nat
        /\ pending[v] = Len(queue[v]) + InHand(v) + Claims(v)
  BY DEF TypeOK, InHand, QueueParts, Counted
<1>9. OneClaim'
  BY <1>2, <1>4 DEF QueueParts, OneClaim
<1>10. \A f \in Events : Past(f) => Past(f)'
  BY <1>2, <1>4 DEF Past, PastSteps
<1>11. \A v \in Writers :
         /\ \A i \in 1..Len(queue[v]) :
              queue[v][i] \in Events /\ Past(queue[v][i]) /\ writer[queue[v][i]] = v
         /\ worker[v] = "storing" => taken[v] \in Events /\ Past(taken[v]) /\ writer[taken[v]] = v
  BY <1>8 DEF QueueParts, InPlace
<1>12. \A v \in Writers : worker'[v] = "storing" =>
         taken'[v] \in Events /\ status'[taken'[v]] \in PastSteps /\ writer'[taken'[v]] = v
  <2>1. \A v \in Writers : worker[v] = "storing" => taken[v] \in Events /\ status'[taken[v]] \in PastSteps
    BY <1>2, <1>10, <1>11 DEF Past
  <2>2. QED
    BY <1>2, <1>11, <2>1
<1>13. CASE Room(w)
  <2>1. /\ queue' = [queue EXCEPT ![w] = Append(queue[w], e)]
        /\ status' = [status EXCEPT ![e] = "accepted"]
        /\ pending' = pending
    BY <1>1, <1>13 DEF Put, Becomes
  <2>2. queue'[w] = Append(queue[w], e) /\ \A v \in Writers \ {w} : queue'[v] = queue[v]
    BY <2>1 DEF TypeOK
  <2>3. /\ Len(queue'[w]) = Len(queue[w]) + 1
        /\ queue'[w][Len(queue[w]) + 1] = e
        /\ \A i \in 1..Len(queue[w]) : queue'[w][i] = queue[w][i]
    BY <1>8, <2>2
  <2>4. Past(e)'
    BY <2>1 DEF Past, PastSteps, TypeOK
  <2>5. Counted'
    <3> SUFFICES ASSUME NEW v \in Writers
                 PROVE  pending'[v] = Len(queue'[v]) + InHand(v)' + Claims(v)'
      BY DEF Counted
    <3>1. CASE v = w
      BY <1>5, <1>7, <1>8, <2>1, <2>3, <3>1
    <3>2. CASE v # w
      BY <1>6, <1>7, <1>8, <2>1, <2>2, <3>2
    <3>3. QED
      BY <3>1, <3>2
  <2>6. InPlace'
    <3> SUFFICES ASSUME NEW v \in Writers, NEW i \in 1..Len(queue'[v])
                 PROVE  status'[queue'[v][i]] \in PastSteps /\ writer'[queue'[v][i]] = v
      BY <1>12 DEF InPlace, Past
    <3>1. CASE v = w /\ i = Len(queue[w]) + 1
      BY <1>1, <1>2, <2>3, <2>4, <3>1 DEF Past
    <3>2. CASE v # w \/ i # Len(queue[w]) + 1
      <4>1. i \in 1..Len(queue[v]) /\ queue'[v][i] = queue[v][i]
        BY <1>8, <2>2, <2>3, <3>2
      <4>2. status'[queue[v][i]] \in PastSteps /\ writer'[queue[v][i]] = v
        <5>1. PICK f \in Events : f = queue[v][i]
          BY <1>11, <4>1
        <5>2. Past(f)' /\ writer[f] = v
          BY <1>10, <1>11, <4>1, <5>1
        <5>3. QED
          BY <1>2, <2>2, <4>1, <5>1, <5>2 DEF Past, PastSteps
      <4>3. QED
        BY <4>1, <4>2 DEF Past, PastSteps
    <3>3. QED
      BY <3>1, <3>2
  <2>7. Placed'
    <3> SUFFICES ASSUME NEW f \in Events, NEW v \in Writers, status'[f] = "accepted", writer'[f] = v
                 PROVE  f \in Queued(v)' \/ (worker'[v] = "storing" /\ taken'[v] = f)
      BY DEF Placed, TypeOK
    <3>1. CASE f = e
      <4>1. v = w /\ Len(queue[w]) + 1 \in 1..Len(queue'[w])
        BY <1>1, <1>2, <1>8, <2>3, <3>1
      <4>2. PICK n \in 1..Len(queue'[v]) : f = queue'[v][n]
        BY <2>3, <3>1, <4>1
      <4>3. QED
        BY <4>2 DEF Queued
    <3>2. CASE f # e
      <4>1. status[f] = "accepted" /\ writer[f] = v
        BY <1>2, <1>4, <3>2
      <4>2. f \in Queued(v) \/ (worker[v] = "storing" /\ taken[v] = f)
        BY <4>1 DEF QueueParts, Placed
      <4>3. f \in Queued(v) => f \in Queued(v)'
        <5> SUFFICES ASSUME f \in Queued(v) PROVE f \in Queued(v)'
          OBVIOUS
        <5>1. PICK n \in 1..Len(queue[v]) : f = queue[v][n]
          BY DEF Queued
        <5>2. n \in 1..Len(queue'[v]) /\ f = queue'[v][n]
          <6>1. CASE v = w
            <7>1. Len(queue[w]) \in Nat
              BY <1>8
            <7>2. n \in 1..Len(queue'[w]) /\ queue'[w][n] = queue[w][n]
              BY <2>3, <5>1, <6>1, <7>1
            <7>3. QED
              BY <5>1, <6>1, <7>2
          <6>2. CASE v # w
            BY <2>2, <5>1, <6>2
          <6>3. QED
            BY <6>1, <6>2
        <5>3. QED
          BY <5>2 DEF Queued
      <4>4. QED
        BY <1>2, <4>2, <4>3
    <3>3. QED
      BY <3>1, <3>2
  <2>8. QED
    BY <1>9, <2>5, <2>6, <2>7 DEF QueueParts
<1>14. CASE ~ Room(w)
  <2>1. queue' = queue /\ pending' = [pending EXCEPT ![w] = @ - 1] /\ status'[e] = "dropped"
    BY <1>1, <1>14 DEF Put, Becomes, TypeOK
  <2>2. pending'[w] = pending[w] - 1 /\ \A v \in Writers \ {w} : pending'[v] = pending[v]
    BY <2>1 DEF TypeOK
  <2>3. Counted'
    <3> SUFFICES ASSUME NEW v \in Writers
                 PROVE  pending'[v] = Len(queue[v]) + InHand(v)' + Claims(v)'
      BY <2>1 DEF Counted
    <3>1. CASE v = w
      BY <1>5, <1>7, <1>8, <2>2, <3>1
    <3>2. CASE v # w
      BY <1>6, <1>7, <1>8, <2>2, <3>2
    <3>3. QED
      BY <3>1, <3>2
  <2>4. InPlace'
    <3> SUFFICES ASSUME NEW v \in Writers, NEW i \in 1..Len(queue[v])
                 PROVE  status'[queue[v][i]] \in PastSteps /\ writer[queue[v][i]] = v
      BY <1>2, <1>12, <2>1 DEF InPlace, Past
    <3>1. PICK f \in Events : f = queue[v][i]
      BY <1>11
    <3>2. Past(f)' /\ writer[f] = v
      BY <1>10, <1>11, <3>1
    <3>3. QED
      BY <2>1, <3>1, <3>2 DEF Past, PastSteps
  <2>5. Placed'
    <3> SUFFICES ASSUME NEW f \in Events, NEW v \in Writers, status'[f] = "accepted", writer'[f] = v
                 PROVE  f \in Queued(v)' \/ (worker'[v] = "storing" /\ taken'[v] = f)
      BY DEF Placed, TypeOK
    <3>1. status[f] = "accepted" /\ writer[f] = v
      BY <1>2, <1>4, <2>1
    <3>2. f \in Queued(v) \/ (worker[v] = "storing" /\ taken[v] = f)
      BY <3>1 DEF QueueParts, Placed
    <3>3. QED
      BY <1>2, <2>1, <3>2 DEF Queued
  <2>6. QED
    BY <1>9, <2>3, <2>4, <2>5 DEF QueueParts
<1>15. QED
  BY <1>13, <1>14

LEMMA TakeStep ==
    ASSUME TypeOK, TypeOK', QueueParts, NEW w \in Writers, TakeEvent(w)
    PROVE  QueueParts'
<1>1. /\ worker[w] = "waiting" /\ queue[w] # <<>>
      /\ status' = status /\ writer' = writer /\ pending' = pending
  BY DEF TakeEvent
<1>2. /\ worker'[w] = "storing" /\ taken'[w] = Head(queue[w]) /\ queue'[w] = Tail(queue[w])
      /\ \A v \in Writers \ {w} :
           worker'[v] = worker[v] /\ taken'[v] = taken[v] /\ queue'[v] = queue[v]
  BY DEF TakeEvent, Goto, TypeOK
<1>3. \A v \in Writers :
        queue[v] \in Seq(Events) /\ Len(queue[v]) \in Nat /\ InHand(v) \in Nat
        /\ pending[v] = Len(queue[v]) + InHand(v) + Claims(v)
  BY DEF TypeOK, InHand, QueueParts, Counted
<1>4. \A v \in Writers : Claims(v)' = Claims(v)
  BY <1>1 DEF Claims, Unlocked
<1>5. /\ Len(queue[w]) = Len(queue'[w]) + 1 /\ Len(queue'[w]) \in Nat
      /\ taken'[w] = queue[w][1]
      /\ \A i \in 1..Len(queue'[w]) : queue'[w][i] = queue[w][i + 1]
  BY <1>1, <1>2, <1>3
<1>6. Counted'
  <2> SUFFICES ASSUME NEW v \in Writers
               PROVE  pending[v] = Len(queue'[v]) + InHand(v)' + Claims(v)
    BY <1>1, <1>4 DEF Counted
  <2>1. CASE v = w
    <3>1. InHand(v) = 0 /\ InHand(v)' = 1
      BY <1>1, <1>2, <2>1 DEF InHand
    <3>2. Claims(v) \in Nat
      BY DEF Claims
    <3>3. QED
      BY <1>3, <1>5, <2>1, <3>1, <3>2
  <2>2. CASE v # w
    <3>1. InHand(v)' = InHand(v)
      BY <1>2, <2>2 DEF InHand
    <3>2. QED
      BY <1>2, <1>3, <2>2, <3>1
  <2>3. QED
    BY <2>1, <2>2
<1>7. OneClaim'
  BY <1>1 DEF QueueParts, OneClaim
<1>8. \A v \in Writers :
        /\ \A i \in 1..Len(queue[v]) :
             queue[v][i] \in Events /\ Past(queue[v][i]) /\ writer[queue[v][i]] = v
        /\ worker[v] = "storing" => taken[v] \in Events /\ Past(taken[v]) /\ writer[taken[v]] = v
  BY <1>3 DEF QueueParts, InPlace
<1>9. InPlace'
  <2>1. ASSUME NEW v \in Writers, NEW i \in 1..Len(queue'[v])
        PROVE  status'[queue'[v][i]] \in PastSteps /\ writer'[queue'[v][i]] = v
    <3>1. PICK j \in 1..Len(queue[v]) : queue'[v][i] = queue[v][j]
      <4>1. CASE v = w
        <5>1. i + 1 \in 1..Len(queue[v])
          BY <1>5, <4>1
        <5>2. QED
          BY <1>5, <4>1, <5>1
      <4>2. CASE v # w
        BY <1>2, <4>2
      <4>3. QED
        BY <4>1, <4>2
    <3>2. status[queue[v][j]] \in PastSteps /\ writer[queue[v][j]] = v
      BY <1>8 DEF Past, PastSteps
    <3>3. QED
      BY <1>1, <3>1, <3>2 DEF Past, PastSteps
  <2>2. ASSUME NEW v \in Writers, worker'[v] = "storing"
        PROVE  taken'[v] \in Events /\ status'[taken'[v]] \in PastSteps /\ writer'[taken'[v]] = v
    <3>1. CASE v = w
      <4>1. 1 \in 1..Len(queue[w])
        BY <1>3, <1>5
      <4>2. QED
        BY <1>1, <1>5, <1>8, <3>1, <4>1 DEF Past, PastSteps
    <3>2. CASE v # w
      BY <1>1, <1>2, <1>8, <2>2, <3>2 DEF Past, PastSteps
    <3>3. QED
      BY <3>1, <3>2
  <2>3. QED
    BY <2>1, <2>2 DEF InPlace, Past
<1>10. Placed'
  <2> SUFFICES ASSUME NEW f \in Events, NEW v \in Writers, status[f] = "accepted", writer[f] = v
               PROVE  f \in Queued(v)' \/ (worker'[v] = "storing" /\ taken'[v] = f)
    BY <1>1 DEF Placed, TypeOK
  <2>1. f \in Queued(v) \/ (worker[v] = "storing" /\ taken[v] = f)
    BY DEF QueueParts, Placed
  <2>2. CASE v = w
    <3>1. PICK i \in 1..Len(queue[w]) : f = queue[w][i]
      BY <1>1, <2>1, <2>2 DEF Queued
    <3>2. CASE i = 1
      BY <1>2, <1>5, <2>2, <3>1, <3>2
    <3>3. CASE i # 1
      <4>1. i - 1 \in 1..Len(queue'[w]) /\ queue'[w][i - 1] = f
        <5>1. i - 1 \in 1..Len(queue'[w])
          BY <1>3, <1>5, <3>1, <3>3
        <5>2. queue'[w][i - 1] = queue[w][(i - 1) + 1]
          BY <1>5, <5>1
        <5>3. (i - 1) + 1 = i
          BY <3>1
        <5>4. QED
          BY <3>1, <5>1, <5>2, <5>3
      <4>2. PICK n \in 1..Len(queue'[v]) : f = queue'[v][n]
        BY <2>2, <4>1
      <4>3. QED
        BY <4>2 DEF Queued
    <3>4. QED
      BY <3>2, <3>3
  <2>3. CASE v # w
    BY <1>2, <2>1, <2>3 DEF Queued
  <2>4. QED
    BY <2>2, <2>3
<1>11. QED
  BY <1>6, <1>7, <1>9, <1>10 DEF QueueParts

LEMMA StoreStep ==
    ASSUME TypeOK, TypeOK', QueueParts, NEW w \in Writers, Store(w)
    PROVE  QueueParts'
<1>1. /\ worker[w] = "storing"
      /\ queue' = queue /\ writer' = writer /\ pending' = pending
  BY DEF Store
<1>2. /\ worker'[w] = "stored"
      /\ \A v \in Writers \ {w} : worker'[v] = worker[v] /\ taken'[v] = taken[v]
  BY DEF Store, Goto, TypeOK
<1>3. PICK e \in Events : e = taken[w] /\ Past(e) /\ writer[e] = w
  BY <1>1 DEF QueueParts, InPlace
<1>4. status'[e] \in {"stored", "failed"} /\ \A f \in Events \ {e} : status'[f] = status[f]
  BY <1>3 DEF Store, Becomes, TypeOK
<1>5. \A v \in Writers : InHand(v)' = InHand(v)
  BY <1>1, <1>2 DEF InHand
<1>6. \A v \in Writers : Unlocked(v)' <=> Unlocked(v)
  BY <1>1, <1>3, <1>4 DEF Unlocked, Past, PastSteps
<1>7. Counted'
  BY <1>1, <1>5, <1>6 DEF QueueParts, Counted, Claims
<1>8. OneClaim'
  BY <1>1, <1>4 DEF QueueParts, OneClaim
<1>9. \A f \in Events : Past(f) => status'[f] \in PastSteps
  BY <1>4 DEF Past, PastSteps
<1>10. InPlace'
  <2>1. ASSUME NEW v \in Writers, NEW i \in 1..Len(queue[v])
        PROVE  status'[queue[v][i]] \in PastSteps /\ writer[queue[v][i]] = v
    <3>1. queue[v] \in Seq(Events)
      BY DEF TypeOK
    <3>2. queue[v][i] \in Events /\ Past(queue[v][i]) /\ writer[queue[v][i]] = v
      BY <3>1 DEF QueueParts, InPlace
    <3>3. QED
      BY <1>9, <3>2
  <2>2. ASSUME NEW v \in Writers, worker'[v] = "storing"
        PROVE  taken'[v] \in Events /\ status'[taken'[v]] \in PastSteps /\ writer[taken'[v]] = v
    <3>1. v # w /\ worker[v] = "storing" /\ taken'[v] = taken[v]
      BY <1>2, <2>2
    <3>2. taken[v] \in Events /\ Past(taken[v]) /\ writer[taken[v]] = v
      BY <3>1 DEF QueueParts, InPlace
    <3>3. QED
      BY <1>9, <3>1, <3>2
  <2>3. QED
    BY <1>1, <2>1, <2>2 DEF InPlace, Past
<1>11. Placed'
  <2> SUFFICES ASSUME NEW f \in Events, NEW v \in Writers, status'[f] = "accepted", writer[f] = v
               PROVE  f \in Queued(v)' \/ (worker'[v] = "storing" /\ taken'[v] = f)
    BY <1>1 DEF Placed
  <2>1. f # e /\ status[f] = "accepted"
    BY <1>4
  <2>2. f \in Queued(v) \/ (worker[v] = "storing" /\ taken[v] = f)
    BY <2>1 DEF QueueParts, Placed
  <2>3. Queued(v)' = Queued(v)
    BY <1>1 DEF Queued
  <2>4. CASE v = w
    BY <1>3, <2>1, <2>2, <2>3, <2>4
  <2>5. CASE v # w
    BY <1>2, <2>2, <2>3, <2>5
  <2>6. QED
    BY <2>4, <2>5
<1>12. QED
  BY <1>7, <1>8, <1>10, <1>11 DEF QueueParts

LEMMA SettleStep ==
    ASSUME TypeOK, TypeOK', QueueParts, NEW w \in Writers, Settle(w)
    PROVE  QueueParts'
<1>1. /\ worker[w] = "stored"
      /\ queue' = queue /\ writer' = writer /\ status' = status /\ taken' = taken
  BY DEF Settle
<1>2. /\ worker'[w] = "checking" /\ pending'[w] = pending[w] - 1
      /\ \A v \in Writers \ {w} : worker'[v] = worker[v] /\ pending'[v] = pending[v]
  BY DEF Settle, Goto, TypeOK
<1>3. Counted'
  <2> SUFFICES ASSUME NEW v \in Writers
               PROVE  pending'[v] = Len(queue[v]) + InHand(v)' + Claims(v)'
    BY <1>1 DEF Counted
  <2>1. pending[v] = Len(queue[v]) + InHand(v) + Claims(v) /\ Claims(v)' = Claims(v)
    BY <1>1 DEF QueueParts, Counted, Claims, Unlocked
  <2>2. Len(queue[v]) \in Nat /\ Claims(v) \in Nat
    BY DEF TypeOK, Claims
  <2>3. CASE v = w
    <3>1. InHand(v) = 1 /\ InHand(v)' = 0
      BY <1>1, <1>2, <2>3 DEF InHand
    <3>2. QED
      BY <1>2, <2>1, <2>2, <2>3, <3>1
  <2>4. CASE v # w
    <3>1. InHand(v)' = InHand(v) /\ pending'[v] = pending[v]
      BY <1>2, <2>4 DEF InHand
    <3>2. QED
      BY <2>1, <3>1
  <2>5. QED
    BY <2>3, <2>4
<1>4. \A v \in Writers : worker'[v] = "storing" <=> worker[v] = "storing"
  BY <1>1, <1>2
<1>5. OneClaim'
  BY <1>1 DEF QueueParts, OneClaim
<1>6. InPlace'
  BY <1>1, <1>4 DEF QueueParts, InPlace, Past
<1>7. Placed'
  BY <1>1, <1>4 DEF QueueParts, Placed, Queued
<1>8. QED
  BY <1>3, <1>5, <1>6, <1>7 DEF QueueParts

LEMMA QueueStep == AuditInv /\ [Next]_vars => QueueParts'
<1> SUFFICES ASSUME AuditInv, [Next]_vars PROVE QueueParts'
  OBVIOUS
<1>1. TypeOK /\ TypeOK' /\ QueueParts
  BY TypeStep DEF AuditInv
<1>2. ASSUME NEW e \in Events, FindWriter(e) PROVE QueueParts'
  <2>1. status[e] = "new" /\ status' = [status EXCEPT ![e] = "found"]
    BY <1>2 DEF FindWriter, Becomes
  <2>2. \A f \in Events \ {e} : writer'[f] = writer[f]
    BY <1>1, <1>2 DEF FindWriter, TypeOK
  <2>3. UNCHANGED <<queue, pending, taken, worker>>
    BY <1>2 DEF FindWriter, writers
  <2>4. QED
    BY <1>1, <2>1, <2>2, <2>3, EventElsewhere
<1>3. ASSUME NEW e \in Events, Refuse(e) PROVE QueueParts'
  <2>1. status[e] = "found" /\ status' = [status EXCEPT ![e] = "dropped"]
    BY <1>3 DEF Refuse, Becomes
  <2>2. UNCHANGED <<queue, pending, taken, worker, writer>>
    BY <1>3 DEF Refuse, writers
  <2>3. QED
    BY <1>1, <2>1, <2>2, EventElsewhere
<1>4. ASSUME NEW w \in Writers, TimesOut(w) \/ LooksAtFlag(w) \/ Check(w) PROVE QueueParts'
  <2>1. UNCHANGED <<queue, pending, taken, status, writer>>
    BY <1>4 DEF TimesOut, LooksAtFlag, Check
  <2>2. worker[w] \notin {"storing", "stored"}
    BY <1>4 DEF TimesOut, LooksAtFlag, Check
  <2>3. worker'[w] \notin {"storing", "stored"} /\ \A v \in Writers \ {w} : worker'[v] = worker[v]
    <3>1. PICK step \in {"off", "waiting", "timed out"} : worker' = [worker EXCEPT ![w] = step]
      BY <1>4 DEF TimesOut, LooksAtFlag, Check, Goto
    <3>2. worker \in [Writers -> WorkerSteps]
      BY <1>1 DEF TypeOK
    <3>3. QED
      BY <3>1, <3>2
  <2>4. QED
    BY <1>1, <2>1, <2>2, <2>3, EventsUntouched
<1>5. ASSUME NEW l \in Lifespans, Acquire(l) PROVE QueueParts'
  <2>1. UNCHANGED <<queue, pending, taken, status, writer>>
    BY <1>5 DEF Acquire
  <2>2. worker' = worker \/ \E v \in Writers : worker' = WithWorker(v)
    BY <1>1, <1>5 DEF Acquire, TypeOK
  <2>3. \A v \in Writers : \A s \in {"storing", "stored"} : worker'[v] = s <=> worker[v] = s
    BY <1>1, <2>2, StartedWorker
  <2>4. QED
    BY <1>1, <2>1, <2>3, EventsUntouched
<1>6. ASSUME UNCHANGED <<queue, pending, taken, status, writer, worker>> PROVE QueueParts'
  BY <1>1, <1>6, EventsUntouched
<1>7. ASSUME NEW l \in Lifespans, Release(l) \/ BeginShutdown(l) \/ Flush(l) \/ Join(l)
      PROVE  QueueParts'
  BY <1>6, <1>7 DEF Release, BeginShutdown, Flush, Join, writers
<1>8. CASE UNCHANGED vars \/ Exit
  BY <1>6, <1>8 DEF vars, writers, Exit
<1>9. QED
  BY <1>1, <1>2, <1>3, <1>4, <1>5, <1>7, <1>8, SubmitStep, PutStep, TakeStep, StoreStep, SettleStep
     DEF Next, EventStep, WorkerStep, LifespanStep

-----------------------------------------------------------------------------
(* Leases and shutdowns.                                                   *)

\* What leaves the leases and the flags alone, keeps the worker of an open
\* writer running, and gives nothing to a closed writer that is empty.
LEMMA LeasesUntouched ==
    ASSUME TypeOK, LeaseParts, UNCHANGED <<current, leases, accepting, stop, life, released, result>>,
           \A w \in Writers : (accepting[w] /\ worker[w] # "off") => worker'[w] # "off",
           \A w \in Writers : (~ accepting[w] /\ Empty(w)) => Empty(w)'
    PROVE  LeaseParts'
<1>1. Flags' /\ Shutting'
  BY DEF LeaseParts, Flags, Shutting
<1>2. Drained'
  <2> SUFFICES ASSUME NEW l \in Lifespans, NEW w \in Writers, released[l] = w, w # 0,
                      life[l] = "joining" \/ result[l] = "complete"
               PROVE  Empty(w)'
    BY DEF Drained, TypeOK
  <2>1. Empty(w) /\ ~ accepting[w]
    BY DEF LeaseParts, Drained, Shutting
  <2>2. QED
    BY <2>1
<1>3. LeasedWriterAccepts'
  BY DEF LeaseParts, LeasedWriterAccepts, TypeOK
<1>4. QED
  BY <1>1, <1>2, <1>3 DEF LeaseParts

LEMMA LeaseStep == AuditInv /\ [Next]_vars => LeaseParts'
<1> SUFFICES ASSUME AuditInv, [Next]_vars PROVE LeaseParts'
  OBVIOUS
<1>1. TypeOK /\ TypeOK' /\ QueueParts /\ LeaseParts
  BY TypeStep DEF AuditInv
<1>2. ASSUME NEW e \in Events, FindWriter(e) \/ Refuse(e) PROVE LeaseParts'
  <2>1. PICK step \in {"found", "dropped"} : status' = [status EXCEPT ![e] = step]
    BY <1>2 DEF FindWriter, Refuse, Becomes
  <2>2. UNCHANGED <<current, leases, accepting, stop, worker, queue, life, released, result>>
    BY <1>2 DEF FindWriter, Refuse, writers, lifespans
  <2>3. status'[e] # "claimed" /\ \A f \in Events \ {e} : status'[f] = status[f] /\ writer'[f] = writer[f]
    BY <1>1, <1>2, <2>1 DEF FindWriter, Refuse, TypeOK
  <2>4. \A w \in Writers : Empty(w) => Empty(w)'
    BY <2>2, <2>3 DEF Empty, Unlocked, InHand
  <2>5. QED
    BY <1>1, <2>2, <2>4, LeasesUntouched
<1>3. ASSUME NEW e \in Events, Submit(e) PROVE LeaseParts'
  <2>1. UNCHANGED <<current, leases, accepting, stop, queue, writer, life, released, result>>
    BY <1>3 DEF Submit, lifespans
  <2>2. writer[e] \in Writers /\ accepting[writer[e]] /\ worker' = WithWorker(writer[e])
    BY <1>1, <1>3 DEF Submit, TypeOK
  <2>3. \A v \in Writers : \A s \in {"storing", "stored"} : worker'[v] = s <=> worker[v] = s
    BY <1>1, <2>2, StartedWorker
  <2>4. \A v \in Writers : worker[v] # "off" => worker'[v] # "off"
    BY <1>1, <2>2, StartedWorker
  <2>5. \A f \in Events \ {e} : status'[f] = status[f]
    BY <1>1, <1>3 DEF Submit, Becomes, TypeOK
  <2>6. \A w \in Writers : (~ accepting[w] /\ Empty(w)) => Empty(w)'
    BY <2>1, <2>2, <2>3, <2>5 DEF Empty, Unlocked, InHand
  <2>7. QED
    BY <1>1, <2>1, <2>4, <2>6, LeasesUntouched
<1>4. ASSUME NEW e \in Events, Put(e) PROVE LeaseParts'
  <2>1. UNCHANGED <<current, leases, accepting, stop, worker, writer, life, released, result>>
    BY <1>4 DEF Put, writers, lifespans
  <2>2. ~ Unlocked(writer[e]) /\ writer[e] \in Writers
    BY <1>1, <1>4 DEF Put, Unlocked, TypeOK
  <2>3. \A w \in Writers \ {writer[e]} : queue'[w] = queue[w]
    BY <1>1, <1>4 DEF Put, TypeOK
  <2>4. status'[e] # "claimed" /\ \A f \in Events \ {e} : status'[f] = status[f]
    <3>1. \E step \in {"accepted", "dropped"} : status' = [status EXCEPT ![e] = step]
      BY <1>4 DEF Put, Becomes
    <3>2. status \in [Events -> {"new", "found", "claimed", "accepted", "stored",
                                "failed", "dropped"}]
      BY <1>1 DEF TypeOK
    <3>3. QED
      BY <3>1, <3>2
  <2>5. \A w \in Writers : Empty(w) => Empty(w)'
    BY <2>1, <2>2, <2>3, <2>4 DEF Empty, Unlocked, InHand
  <2>6. QED
    BY <1>1, <2>1, <2>5, LeasesUntouched
<1>5. ASSUME NEW w \in Writers, WorkerStep(w) PROVE LeaseParts'
  <2>1. UNCHANGED <<current, leases, accepting, stop, writer, life, released, result>>
    BY <1>5 DEF WorkerStep, TakeEvent, TimesOut, LooksAtFlag, Store, Settle, Check, lifespans
  <2>2. PICK step \in WorkerSteps :
          worker' = [worker EXCEPT ![w] = step] /\ (step # "off" \/ stop[w])
    BY <1>5 DEF WorkerStep, TakeEvent, TimesOut, LooksAtFlag, Store, Settle, Check, Finished,
                Goto, WorkerSteps
  <2>3. /\ worker'[w] # "off" \/ stop[w]
        /\ \A v \in Writers \ {w} : worker'[v] = worker[v] /\ queue'[v] = queue[v]
    <3>1. queue' = queue \/ queue' = [queue EXCEPT ![w] = Tail(@)]
      BY <1>5 DEF WorkerStep, TakeEvent, TimesOut, LooksAtFlag, Store, Settle, Check
    <3>2. \A v \in Writers \ {w} : queue'[v] = queue[v]
      BY <1>1, <3>1 DEF TypeOK
    <3>3. worker'[w] = step /\ \A v \in Writers \ {w} : worker'[v] = worker[v]
      BY <1>1, <2>2 DEF TypeOK
    <3>4. QED
      BY <2>2, <3>2, <3>3
  <2>4. stop[w] => ~ accepting[w]
    BY <1>1 DEF LeaseParts, Flags
  <2>5. \A v \in Writers : Unlocked(v) => Unlocked(v)'
    <3>1. \A f \in Events : status'[f] = "claimed" => status[f] = "claimed"
      BY <1>1, <1>5
         DEF WorkerStep, TakeEvent, TimesOut, LooksAtFlag, Store, Settle, Check, Becomes, TypeOK
    <3>2. QED
      BY <2>1, <3>1 DEF Unlocked
  <2>6. Empty(w) => Empty(w)'
    <3>1. Empty(w) => worker[w] \notin {"storing", "stored"} /\ queue[w] = <<>>
      BY DEF Empty, InHand
    <3>2. Empty(w) => TimesOut(w) \/ LooksAtFlag(w) \/ Check(w)
      BY <1>5, <3>1 DEF WorkerStep, TakeEvent, Store, Settle
    <3>3. Empty(w) => queue' = queue
      BY <3>2 DEF TimesOut, LooksAtFlag, Check
    <3>4. Empty(w) => worker'[w] \in {"off", "waiting", "timed out"}
      <4>1. Empty(w) => \E s \in {"off", "waiting", "timed out"} :
                          worker' = [worker EXCEPT ![w] = s]
        BY <3>2 DEF TimesOut, LooksAtFlag, Check, Goto
      <4>2. worker \in [Writers -> WorkerSteps]
        BY <1>1 DEF TypeOK
      <4>3. QED
        BY <4>1, <4>2
    <3>5. QED
      BY <2>5, <3>1, <3>3, <3>4 DEF Empty, InHand
  <2>7. \A v \in Writers : Empty(v) => Empty(v)'
    BY <2>3, <2>5, <2>6 DEF Empty, InHand
  <2>8. QED
    BY <1>1, <2>1, <2>3, <2>4, <2>7, LeasesUntouched
<1>6. ASSUME NEW l \in Lifespans, Acquire(l) PROVE LeaseParts'
  <2>1. UNCHANGED <<accepting, stop, queue, status, writer, released, result>>
    BY <1>6 DEF Acquire
  <2>2. released[l] = 0 /\ result[l] = "none" /\ life'[l] = "holding"
    BY <1>1, <1>6 DEF Acquire, Moves, LeaseParts, Shutting, TypeOK
  <2>3. \A k \in Lifespans \ {l} : life'[k] = life[k]
    BY <1>1, <1>6 DEF Acquire, Moves, TypeOK
  <2>4. Shutting'
    BY <1>1, <2>1, <2>2, <2>3 DEF LeaseParts, Shutting
  <2>5. worker' = worker \/ \E v \in Writers : worker' = WithWorker(v)
    BY <1>1, <1>6 DEF Acquire, TypeOK
  <2>6. \A v \in Writers : \A s \in {"storing", "stored"} : worker'[v] = s <=> worker[v] = s
    BY <1>1, <2>5, StartedWorker
  <2>7. \A w \in Writers : Empty(w)' <=> Empty(w)
    BY <2>1, <2>6 DEF Empty, Unlocked, InHand
  <2>8. Drained'
    BY <1>1, <2>1, <2>2, <2>3, <2>7 DEF LeaseParts, Drained, TypeOK
  <2>9. CASE leases > 0
    <3>1. current' = current /\ worker' = worker /\ current \in Writers
      BY <1>1, <1>6, <2>9 DEF Acquire, TypeOK
    <3>2. Flags' /\ LeasedWriterAccepts'
      BY <1>1, <2>1, <2>9, <3>1 DEF LeaseParts, Flags, LeasedWriterAccepts
    <3>3. QED
      BY <2>4, <2>8, <3>2 DEF LeaseParts
  <2>10. CASE leases = 0
    <3>1. /\ current' = IF accepting[current] THEN current ELSE current + 1
          /\ worker' = WithWorker(current')
          /\ current \in Writers /\ current' \in Writers
      BY <1>1, <1>6, <2>10 DEF Acquire, TypeOK
    <3>2. accepting[current'] /\ current' >= current
      BY <1>1, <3>1 DEF LeaseParts, Flags, Writers
    <3>3. worker'[current'] # "off"
      BY <1>1, <3>1, StartedWorker
    <3>4. Flags'
      BY <1>1, <2>1, <3>1, <3>2 DEF LeaseParts, Flags, Writers
    <3>5. LeasedWriterAccepts'
      BY <2>1, <3>2, <3>3 DEF LeasedWriterAccepts
    <3>6. QED
      BY <2>4, <2>8, <3>4, <3>5 DEF LeaseParts
  <2>11. QED
    BY <1>6, <2>9, <2>10 DEF Acquire
<1>7. ASSUME NEW l \in Lifespans, Release(l) PROVE LeaseParts'
  <2>1. UNCHANGED <<current, worker, queue, status, writer>> /\ leases' = leases - 1
    BY <1>7 DEF Release
  <2>2. released[l] = 0 /\ life[l] = "holding" /\ \A k \in Lifespans \ {l} : life'[k] = life[k]
    BY <1>1, <1>7 DEF Release, Moves, LeaseParts, Shutting, TypeOK
  <2>3. \A w \in Writers : Empty(w)' <=> Empty(w)
    BY <2>1 DEF Empty, Unlocked, InHand
  <2>4. CASE leases > 1
    <3>1. /\ UNCHANGED <<accepting, stop, released>> /\ life'[l] = "ended"
          /\ \A k \in Lifespans \ {l} : result'[k] = result[k]
      BY <1>1, <1>7, <2>4 DEF Release, Moves, TypeOK
    <3>2. Flags'
      BY <1>1, <2>1, <3>1 DEF LeaseParts, Flags
    <3>3. Shutting'
      BY <1>1, <2>2, <3>1 DEF LeaseParts, Shutting
    <3>4. Drained'
      BY <1>1, <2>2, <2>3, <3>1 DEF LeaseParts, Drained, TypeOK
    <3>5. LeasedWriterAccepts'
      BY <1>1, <2>1, <2>4, <3>1 DEF LeaseParts, LeasedWriterAccepts, TypeOK
    <3>6. QED
      BY <3>2, <3>3, <3>4, <3>5 DEF LeaseParts
  <2>5. CASE leases = 1
    <3>0. current \in Writers /\ leases' = 0
      BY <1>1, <2>1, <2>5 DEF TypeOK
    <3>1. /\ ~ accepting'[current] /\ stop'[current]
          /\ \A w \in Writers \ {current} : accepting'[w] = accepting[w] /\ stop'[w] = stop[w]
      BY <1>1, <1>7, <2>5, <3>0 DEF Release, ClosedByLastRelease, Close, TypeOK
    <3>2. /\ life'[l] = "closing" /\ released'[l] = current /\ result' = result
          /\ \A k \in Lifespans \ {l} : released'[k] = released[k]
      BY <1>1, <1>7, <2>5 DEF Release, Moves, TypeOK
    <3>3. result[l] = "none"
      BY <1>1, <2>2 DEF LeaseParts, Shutting
    <3>4. Flags'
      BY <1>1, <2>1, <3>0, <3>1 DEF LeaseParts, Flags, Writers
    <3>5. Shutting'
      <4>1. ASSUME NEW k \in Lifespans, released'[k] # 0 PROVE ~ accepting'[released'[k]]
        <5>1. CASE k = l
          BY <3>1, <3>2, <5>1
        <5>2. CASE k # l
          <6>1. released'[k] = released[k] /\ released[k] \in Writers /\ ~ accepting[released[k]]
            BY <1>1, <3>2, <4>1, <5>2 DEF LeaseParts, Shutting, TypeOK
          <6>2. QED
            BY <3>1, <6>1
        <5>3. QED
          BY <5>1, <5>2
      <4>2. current # 0
        BY <3>0 DEF Writers
      <4>3. QED
        BY <1>1, <2>2, <3>2, <3>3, <4>1, <4>2 DEF LeaseParts, Shutting
    <3>6. Drained'
      BY <1>1, <2>2, <2>3, <3>2, <3>3 DEF LeaseParts, Drained, TypeOK
    <3>7. LeasedWriterAccepts'
      BY <3>0 DEF LeasedWriterAccepts
    <3>8. QED
      BY <3>4, <3>5, <3>6, <3>7 DEF LeaseParts
  <2>6. QED
    BY <1>7, <2>4, <2>5 DEF Release
<1>8. ASSUME NEW l \in Lifespans, BeginShutdown(l) PROVE LeaseParts'
  <2>1. UNCHANGED <<current, leases, worker, queue, status, writer, released, result>>
    BY <1>8 DEF BeginShutdown
  <2>2. life[l] = "closing" /\ life'[l] = "flushing" /\ \A k \in Lifespans \ {l} : life'[k] = life[k]
    BY <1>1, <1>8 DEF BeginShutdown, Moves, TypeOK
  <2>3. released[l] \in Writers /\ released[l] # 0 /\ ~ accepting[released[l]] /\ stop[released[l]]
    BY <1>1, <2>2 DEF LeaseParts, Shutting, Flags, TypeOK
  <2>4. accepting' = accepting /\ stop' = stop
    BY <1>1, <1>8, <2>3 DEF BeginShutdown, Close, TypeOK
  <2>5. Flags' /\ LeasedWriterAccepts'
    BY <1>1, <2>1, <2>4 DEF LeaseParts, Flags, LeasedWriterAccepts
  <2>6. Shutting'
    BY <1>1, <2>1, <2>2, <2>4 DEF LeaseParts, Shutting
  <2>7. \A w \in Writers : Empty(w)' <=> Empty(w)
    BY <2>1 DEF Empty, Unlocked, InHand
  <2>8. Drained'
    BY <1>1, <2>1, <2>2, <2>7 DEF LeaseParts, Drained, TypeOK
  <2>9. QED
    BY <2>5, <2>6, <2>8 DEF LeaseParts
<1>9. ASSUME NEW l \in Lifespans, Flush(l) PROVE LeaseParts'
  <2>1. UNCHANGED <<current, leases, accepting, stop, worker, queue, status, writer, released, result>>
    BY <1>9 DEF Flush, writers
  <2>2. /\ life[l] = "flushing"
        /\ life'[l] = IF pending[released[l]] = 0 THEN "joining" ELSE "late"
        /\ \A k \in Lifespans \ {l} : life'[k] = life[k]
    BY <1>1, <1>9 DEF Flush, Moves, TypeOK
  <2>3. PICK w \in Writers : w = released[l]
    BY <1>1, <2>2 DEF LeaseParts, Shutting, TypeOK
  <2>4. pending[w] = 0 => Empty(w)
    <3>1. pending[w] = Len(queue[w]) + InHand(w) + Claims(w)
      BY <1>1 DEF QueueParts, Counted
    <3>2. queue[w] \in Seq(Events) /\ InHand(w) \in Nat /\ Claims(w) \in Nat
      BY <1>1 DEF TypeOK, InHand, Claims
    <3>3. pending[w] = 0 => Len(queue[w]) = 0 /\ InHand(w) = 0 /\ Claims(w) = 0
      BY <3>1, <3>2
    <3>4. QED
      BY <3>2, <3>3 DEF Empty, Claims
  <2>5. \A v \in Writers : Empty(v)' <=> Empty(v)
    BY <2>1 DEF Empty, Unlocked, InHand
  <2>6. Flags' /\ LeasedWriterAccepts'
    BY <1>1, <2>1 DEF LeaseParts, Flags, LeasedWriterAccepts
  <2>7. Shutting'
    BY <1>1, <2>1, <2>2 DEF LeaseParts, Shutting
  <2>8. Drained'
    BY <1>1, <2>1, <2>2, <2>3, <2>4, <2>5 DEF LeaseParts, Drained, Shutting, TypeOK
  <2>9. QED
    BY <2>6, <2>7, <2>8 DEF LeaseParts
<1>10. ASSUME NEW l \in Lifespans, Join(l) PROVE LeaseParts'
  <2>1. UNCHANGED <<current, leases, accepting, stop, worker, queue, status, writer, released>>
    BY <1>10 DEF Join, writers
  <2>2. /\ life[l] \in {"joining", "late"} /\ life'[l] = "ended"
        /\ result'[l] = "complete" => life[l] = "joining"
        /\ \A k \in Lifespans \ {l} : life'[k] = life[k] /\ result'[k] = result[k]
    BY <1>1, <1>10 DEF Join, Moves, TypeOK
  <2>3. Flags' /\ LeasedWriterAccepts'
    BY <1>1, <2>1 DEF LeaseParts, Flags, LeasedWriterAccepts
  <2>4. Shutting'
    BY <1>1, <2>1, <2>2 DEF LeaseParts, Shutting
  <2>5. \A v \in Writers : Empty(v)' <=> Empty(v)
    BY <2>1 DEF Empty, Unlocked, InHand
  <2>6. Drained'
    BY <1>1, <2>1, <2>2, <2>5 DEF LeaseParts, Drained, TypeOK
  <2>7. QED
    BY <2>3, <2>4, <2>6 DEF LeaseParts
<1>11. CASE UNCHANGED vars \/ Exit
  <2>1. UNCHANGED <<current, leases, writers, queue, status, writer, life, released, result>>
    BY <1>11 DEF vars, lifespans, Exit
  <2>2. \A v \in Writers : Empty(v)' <=> Empty(v)
    BY <2>1 DEF Empty, Unlocked, InHand, writers
  <2>3. QED
    BY <1>1, <2>1, <2>2, LeasesUntouched DEF writers
<1>12. QED
  BY <1>2, <1>3, <1>4, <1>5, <1>6, <1>7, <1>8, <1>9, <1>10, <1>11 DEF Next, EventStep, LifespanStep

-----------------------------------------------------------------------------

LEMMA AuditSafe == Spec => []AuditInv
<1>1. Init => AuditInv
  BY AuditInit
<1>2. AuditInv /\ [Next]_vars => AuditInv'
  BY TypeStep, QueueStep, LeaseStep DEF AuditInv
<1>3. QED
  BY <1>1, <1>2, PTL DEF Spec

\* Every reachable state is well typed; in particular no queue grows beyond
\* its size and no count of pending events goes below zero.
THEOREM TypeCorrect == Spec => []TypeOK
<1>1. AuditInv => TypeOK
  BY DEF AuditInv
<1>2. QED
  BY <1>1, AuditSafe, PTL

\* While the application holds a lease the current writer takes events and has
\* a worker, however many lifespans come and go.
THEOREM LeasesSafe == Spec => []LeasedWriterAccepts
<1>1. AuditInv => LeasedWriterAccepts
  BY DEF AuditInv, LeaseParts
<1>2. QED
  BY <1>1, AuditSafe, PTL

LEMMA CompleteIsSettled == AuditInv => SuccessMeansSettled
<1> SUFFICES ASSUME AuditInv, NEW l \in Lifespans, NEW w \in Writers, NEW e \in Events,
                    released[l] = w, released[l] # 0, result[l] = "complete", writer[e] = w
             PROVE  status[e] \notin {"claimed", "accepted"}
  BY DEF SuccessMeansSettled, AuditInv, TypeOK
<1>1. Empty(w)
  BY DEF AuditInv, LeaseParts, Drained
<1>2. status[e] # "claimed"
  BY <1>1 DEF Empty, Unlocked
<1>3. Queued(w) = {} /\ worker[w] # "storing"
  BY <1>1 DEF Empty, InHand, Queued
<1>4. status[e] # "accepted"
  BY <1>3 DEF AuditInv, QueueParts, Placed
<1> QED
  BY <1>2, <1>4

\* A shutdown that reports success has lost no event.
THEOREM ShutdownSafe == Spec => []SuccessMeansSettled
BY CompleteIsSettled, AuditSafe, PTL

-----------------------------------------------------------------------------
(* Which events a worker may leave behind.                                 *)

\* Who is in the middle of a submission has a writer that goes on.
Submitting == \A w \in Writers : ~ Unlocked(w) => ~ stop[w] /\ worker[w] # "off"

\* A worker that has timed out has before it only what came since, and one
\* that has ended has left that, if it was told to stop, or nothing.
Leaving ==
    \A w \in Writers :
        /\ worker[w] = "timed out" => Queued(w) \subseteq gap
        /\ worker[w] = "off" => Queued(w) \subseteq gap /\ (Queued(w) # {} => stop[w])

\* An accepted event is before a worker that runs, or it came in the gap and
\* its writer was told to stop, or the process has ended after a shutdown that
\* was reported as incomplete.
AcceptedHasAWay ==
    \A e \in Events : status[e] = "accepted" =>
        LET w == writer[e] IN
            \/ ~ exited /\ worker[w] # "off" /\ (e \in Queued(w) \/ taken[w] = e)
            \/ e \in gap /\ stop[w]
            \/ exited /\ ToldIncomplete(w)

\* A queue holds events of its own writer.
LEMMA QueuedFacts ==
    ASSUME TypeOK, QueueParts, NEW w \in Writers
    PROVE  \A f \in Queued(w) : f \in Events /\ writer[f] = w
<1> SUFFICES ASSUME NEW f \in Queued(w)
             PROVE  f \in Events /\ writer[f] = w
  OBVIOUS
<1>1. PICK i \in 1..Len(queue[w]) : f = queue[w][i]
  BY DEF Queued
<1>2. queue[w] \in Seq(Events)
  BY DEF TypeOK
<1> QED
  BY <1>1, <1>2 DEF QueueParts, InPlace

\* What starts no submission, stops no worker and closes no writer that
\* somebody submits to.
LEMMA SubmittingKept ==
    ASSUME Submitting,
           \A v \in Writers : Unlocked(v) => Unlocked(v)',
           \A v \in Writers : ~ Unlocked(v) => stop'[v] = stop[v],
           \A v \in Writers : ~ Unlocked(v) /\ worker[v] # "off" => worker'[v] # "off"
    PROVE  Submitting'
BY DEF Submitting

\* What leaves the queues alone, and lets no worker time out or end.
LEMMA LeavingKept ==
    ASSUME Leaving, UNCHANGED <<queue, gap>>,
           \A v \in Writers : stop[v] => stop'[v],
           \A v \in Writers : worker'[v] \in {"timed out", "off"} => worker'[v] = worker[v]
    PROVE  Leaving'
<1>1. \A v \in Writers : Queued(v)' = Queued(v)
  BY DEF Queued
<1> QED
  BY <1>1 DEF Leaving

\* A worker that is started waits.
LEMMA StartedWaits ==
    ASSUME TypeOK, NEW w \in Writers, worker' = WithWorker(w)
    PROVE  \A v \in Writers : worker'[v] \in {"timed out", "off"} => worker'[v] = worker[v]
BY DEF WithWorker, TypeOK

LEMMA EventStrands ==
    ASSUME AuditInv, AuditInv', Submitting, Leaving, NEW e \in Events, EventStep(e)
    PROVE  Submitting' /\ Leaving'
<1>1. TypeOK /\ TypeOK' /\ QueueParts /\ Flags
  BY DEF AuditInv, LeaseParts
<1>2. CASE FindWriter(e) \/ Refuse(e)
  <2>1. UNCHANGED <<stop, worker, queue, gap>>
    BY <1>2 DEF FindWriter, Refuse, writers
  <2>2. status'[e] # "claimed" /\ \A f \in Events \ {e} : status'[f] = status[f] /\ writer'[f] = writer[f]
    BY <1>1, <1>2 DEF FindWriter, Refuse, Becomes, TypeOK
  <2>3. \A v \in Writers : Unlocked(v) => Unlocked(v)'
    BY <2>2 DEF Unlocked
  <2> QED
    BY <2>1, <2>3, SubmittingKept, LeavingKept
<1>3. CASE Submit(e)
  <2>1. UNCHANGED <<stop, queue, writer, gap>>
    BY <1>3 DEF Submit
  <2>2. writer[e] \in Writers /\ accepting[writer[e]] /\ worker' = WithWorker(writer[e])
    BY <1>1, <1>3 DEF Submit, TypeOK
  <2>3. \A f \in Events \ {e} : status'[f] = status[f]
    BY <1>1, <1>3 DEF Submit, Becomes, TypeOK
  <2>4. ASSUME NEW v \in Writers, ~ Unlocked(v)'
        PROVE  ~ stop[v] /\ worker'[v] # "off"
    <3>1. CASE v = writer[e]
      BY <1>1, <2>2, <3>1, StartedWorker DEF Flags
    <3>2. CASE v # writer[e]
      <4>1. ~ Unlocked(v)
        BY <2>1, <2>3, <2>4, <3>2 DEF Unlocked
      <4> QED
        BY <1>1, <2>2, <4>1, StartedWorker DEF Submitting
    <3> QED
      BY <3>1, <3>2
  <2>5. Submitting'
    BY <2>1, <2>4 DEF Submitting
  <2> QED
    BY <1>1, <2>1, <2>2, <2>5, StartedWaits, LeavingKept
<1>4. CASE Put(e)
  <2>1. UNCHANGED <<stop, worker, writer>>
    BY <1>4 DEF Put, writers
  <2>2. PICK w \in Writers : w = writer[e]
    BY <1>1 DEF TypeOK
  <2>3. status'[e] # "claimed" /\ \A f \in Events \ {e} : status'[f] = status[f]
    BY <1>1, <1>4 DEF Put, Becomes, TypeOK
  <2>4. \A v \in Writers : Unlocked(v) => Unlocked(v)'
    BY <2>1, <2>3 DEF Unlocked
  <2>5. Submitting'
    BY <2>1, <2>4, SubmittingKept
  <2>6. worker[w] # "off"
    BY <1>4, <2>2 DEF Put, Unlocked, Submitting
  <2>7. \A v \in Writers \ {w} : Queued(v)' = Queued(v)
    <3>1. \A v \in Writers \ {w} : queue'[v] = queue[v]
      BY <1>1, <1>4, <2>2 DEF Put, TypeOK
    <3> QED
      BY <3>1 DEF Queued
  <2>8. /\ gap \subseteq gap'
        /\ worker[w] = "timed out" /\ queue' # queue => e \in gap'
    BY <1>4, <2>2 DEF Put
  <2>9. Queued(w)' \subseteq Queued(w) \cup (IF queue' = queue THEN {} ELSE {e})
    <3>1. CASE queue' = queue
      BY <3>1 DEF Queued
    <3>2. CASE queue' # queue
      <4>1. queue[w] \in Seq(Events) /\ queue'[w] = Append(queue[w], e)
        BY <1>1, <1>4, <2>2, <3>2 DEF Put, TypeOK
      <4>2. \A i \in 1..Len(queue'[w]) :
              queue'[w][i] = e \/ (i \in 1..Len(queue[w]) /\ queue'[w][i] = queue[w][i])
        BY <4>1
      <4> QED
        BY <3>2, <4>2 DEF Queued
    <3> QED
      BY <3>1, <3>2
  <2>10. Leaving'
    <3> SUFFICES ASSUME NEW v \in Writers
                 PROVE  /\ worker[v] = "timed out" => Queued(v)' \subseteq gap'
                        /\ worker[v] = "off" => /\ Queued(v)' \subseteq gap'
                                                /\ Queued(v)' # {} => stop[v]
      BY <2>1 DEF Leaving
    <3>1. CASE v = w
      BY <2>6, <2>8, <2>9, <3>1 DEF Leaving
    <3>2. CASE v # w
      BY <2>7, <2>8, <3>2 DEF Leaving
    <3> QED
      BY <3>1, <3>2
  <2> QED
    BY <2>5, <2>10
<1> QED
  BY <1>2, <1>3, <1>4 DEF EventStep

LEMMA WorkerStrands ==
    ASSUME AuditInv, AuditInv', Submitting, Leaving, NEW w \in Writers, WorkerStep(w)
    PROVE  Submitting' /\ Leaving'
<1>1. TypeOK /\ TypeOK' /\ QueueParts
  BY DEF AuditInv
<1>2. UNCHANGED <<stop, writer>>
  BY DEF WorkerStep, TakeEvent, TimesOut, LooksAtFlag, Store, Settle, Check
<1>3. PICK step \in WorkerSteps :
        worker' = [worker EXCEPT ![w] = step] /\ (step # "off" \/ stop[w])
  BY DEF WorkerStep, TakeEvent, TimesOut, LooksAtFlag, Store, Settle, Check, Finished,
         Goto, WorkerSteps
<1>4. worker'[w] = step /\ \A v \in Writers \ {w} : worker'[v] = worker[v]
  BY <1>1, <1>3 DEF TypeOK
<1>5. Submitting'
  <2>1. \A f \in Events : status'[f] = "claimed" => status[f] = "claimed"
    BY <1>1 DEF WorkerStep, TakeEvent, TimesOut, LooksAtFlag, Store, Settle, Check, Becomes, TypeOK
  <2>2. \A v \in Writers : Unlocked(v) => Unlocked(v)'
    BY <1>2, <2>1 DEF Unlocked
  <2>3. \A v \in Writers : ~ Unlocked(v) => worker'[v] # "off"
    BY <1>3, <1>4 DEF Submitting
  <2> QED
    BY <1>2, <2>2, <2>3, SubmittingKept
<1>6. \A v \in Writers \ {w} : Queued(v)' = Queued(v)
  <2>1. queue' = queue \/ queue' = [queue EXCEPT ![w] = Tail(@)]
    BY DEF WorkerStep, TakeEvent, TimesOut, LooksAtFlag, Store, Settle, Check
  <2>2. \A v \in Writers \ {w} : queue'[v] = queue[v]
    BY <1>1, <2>1 DEF TypeOK
  <2> QED
    BY <2>2 DEF Queued
<1>7. \A v \in Writers \ {w} : gap \cap Queued(v) \subseteq gap'
  <2>1. gap' = gap \/ gap' = gap \ Queued(w)
    BY DEF WorkerStep, TakeEvent, TimesOut, LooksAtFlag, Store, Settle, Check
  <2>2. \A v \in Writers \ {w} : Queued(v) \cap Queued(w) = {}
    BY <1>1, QueuedFacts
  <2> QED
    BY <2>1, <2>2
<1>8. /\ worker'[w] = "timed out" => Queued(w)' \subseteq gap'
      /\ worker'[w] = "off" => Queued(w)' \subseteq gap' /\ (Queued(w)' # {} => stop[w])
  <2>1. CASE TimesOut(w)
    <3>1. queue' = queue /\ queue[w] = <<>> /\ worker'[w] = "timed out"
      BY <1>1, <2>1 DEF TimesOut, Goto, TypeOK
    <3>2. Queued(w) = {}
      <4>1. Len(queue[w]) = 0
        <5>1. queue[w] \in Seq(Events) /\ queue[w] = <<>>
          BY <1>1, <3>1 DEF TypeOK
        <5> QED
          BY <5>1
      <4> QED
        BY <4>1 DEF Queued
    <3>3. Queued(w)' = Queued(w)
      BY <3>1 DEF Queued
    <3> QED
      BY <3>1, <3>2, <3>3
  <2>2. CASE LooksAtFlag(w)
    <3>1. /\ worker[w] = "timed out" /\ Queued(w)' = Queued(w)
          /\ worker'[w] = IF stop[w] THEN "off" ELSE "waiting"
          /\ stop[w] => gap' = gap
      <4>1. worker[w] = "timed out" /\ queue' = queue /\ (stop[w] => gap' = gap)
        BY <2>2 DEF LooksAtFlag
      <4>2. worker' = [worker EXCEPT ![w] = IF stop[w] THEN "off" ELSE "waiting"]
        BY <2>2 DEF LooksAtFlag, Goto
      <4>3. worker'[w] = IF stop[w] THEN "off" ELSE "waiting"
        BY <1>1, <4>2 DEF TypeOK
      <4>4. Queued(w)' = Queued(w)
        BY <4>1 DEF Queued
      <4> QED
        BY <4>1, <4>3, <4>4
    <3> QED
      BY <3>1 DEF Leaving
  <2>3. CASE Check(w)
    <3>1. /\ worker'[w] = IF Finished(w) THEN "off" ELSE "waiting"
          /\ queue' = queue
      BY <1>1, <2>3 DEF Check, Goto, TypeOK
    <3> QED
      BY <3>1 DEF Finished, Queued
  <2>4. CASE TakeEvent(w) \/ Store(w) \/ Settle(w)
    <3>1. worker'[w] \in {"storing", "stored", "checking"}
      BY <1>1, <2>4 DEF TakeEvent, Store, Settle, Goto, TypeOK
    <3> QED
      BY <3>1
  <2> QED
    BY <2>1, <2>2, <2>3, <2>4 DEF WorkerStep
<1>9. Leaving'
  <2> SUFFICES ASSUME NEW v \in Writers
               PROVE  /\ worker'[v] = "timed out" => Queued(v)' \subseteq gap'
                      /\ worker'[v] = "off" => /\ Queued(v)' \subseteq gap'
                                               /\ Queued(v)' # {} => stop[v]
    BY <1>2 DEF Leaving
  <2>1. CASE v = w
    BY <1>8, <2>1
  <2>2. CASE v # w
    BY <1>4, <1>6, <1>7, <2>2 DEF Leaving
  <2> QED
    BY <2>1, <2>2
<1> QED
  BY <1>5, <1>9

LEMMA LifespanStrands ==
    ASSUME AuditInv, AuditInv', Submitting, Leaving, NEW l \in Lifespans, LifespanStep(l)
    PROVE  Submitting' /\ Leaving'
<1>1. TypeOK /\ TypeOK'
  BY DEF AuditInv
<1>2. UNCHANGED <<queue, gap, status, writer>>
  BY DEF LifespanStep, Acquire, Release, BeginShutdown, Flush, Join
<1>3. \A v \in Writers : Unlocked(v) => Unlocked(v)'
  BY <1>2 DEF Unlocked
<1>4. /\ \A v \in Writers : worker'[v] \in {"timed out", "off"} => worker'[v] = worker[v]
      /\ \A v \in Writers : worker[v] # "off" => worker'[v] # "off"
  <2>1. worker' = worker \/ \E v \in Writers : worker' = WithWorker(v)
    BY <1>1 DEF LifespanStep, Acquire, Release, BeginShutdown, Flush, Join, writers, TypeOK
  <2> QED
    BY <1>1, <2>1, StartedWorker, StartedWaits
<1>5. /\ \A v \in Writers : stop[v] => stop'[v]
      /\ \A v \in Writers : ~ Unlocked(v) => stop'[v] = stop[v]
  <2>1. stop' = stop \/ \E v \in Writers : Unlocked(v) /\ stop' = [stop EXCEPT ![v] = TRUE]
    <3>1. CASE Release(l)
      <4>1. CASE leases = 1
        BY <1>1, <3>1, <4>1 DEF Release, ClosedByLastRelease, Close, TypeOK
      <4>2. CASE leases # 1
        BY <3>1, <4>2 DEF Release
      <4> QED
        BY <4>1, <4>2
    <3>2. CASE BeginShutdown(l)
      <4>1. released[l] \in Writers
        BY <3>2 DEF BeginShutdown, AuditInv, LeaseParts, Shutting, TypeOK
      <4> QED
        BY <3>2, <4>1 DEF BeginShutdown, Close
    <3>3. CASE Acquire(l) \/ Flush(l) \/ Join(l)
      BY <3>3 DEF Acquire, Flush, Join, writers
    <3> QED
      BY <3>1, <3>2, <3>3 DEF LifespanStep
  <2>2. stop \in [Writers -> BOOLEAN]
    BY <1>1 DEF TypeOK
  <2>3. CASE stop' = stop
    BY <2>3
  <2>4. ASSUME NEW u \in Writers, Unlocked(u), stop' = [stop EXCEPT ![u] = TRUE]
        PROVE  /\ \A v \in Writers : stop[v] => stop'[v]
               /\ \A v \in Writers : ~ Unlocked(v) => stop'[v] = stop[v]
    BY <2>2, <2>4
  <2> QED
    BY <2>1, <2>3, <2>4
<1> QED
  BY <1>2, <1>3, <1>4, <1>5, SubmittingKept, LeavingKept

LEMMA Strands ==
    AuditInv /\ AuditInv' /\ Submitting /\ Leaving /\ [Next]_vars => Submitting' /\ Leaving'
<1> SUFFICES ASSUME AuditInv, AuditInv', Submitting, Leaving, [Next]_vars
             PROVE  Submitting' /\ Leaving'
  OBVIOUS
<1>1. CASE UNCHANGED vars \/ Exit
  <2>1. UNCHANGED <<stop, worker, queue, gap, status, writer>>
    BY <1>1 DEF vars, writers, Exit
  <2>2. \A v \in Writers : Unlocked(v) => Unlocked(v)'
    BY <2>1 DEF Unlocked
  <2> QED
    BY <2>1, <2>2, SubmittingKept, LeavingKept
<1> QED
  BY <1>1, EventStrands, WorkerStrands, LifespanStrands DEF Next

-----------------------------------------------------------------------------
(* What the end of the process leaves behind.                              *)

Holders == {l \in Lifespans : life[l] = "holding"}
LeasesCounted == IsFiniteSet(Holders) /\ leases = Cardinality(Holders)

\* A writer that does not accept any more was shut down by a lifespan: every
\* one that was replaced, and the current one when nobody holds a lease after
\* somebody did.
WritersReleased ==
    /\ \A w \in Writers : ~ accepting[w] => \E l \in Lifespans : released[l] = w
    /\ \A w \in Writers : w < current => ~ accepting[w]
    /\ leases = 0 /\ (\E l \in Lifespans : life[l] # "out") => ~ accepting[current]

\* Events come with no writer that is still to be created.
EventsFind == \A e \in Events : status[e] # "new" => writer[e] <= current

Answered == \A l \in Lifespans : life[l] = "ended" => result[l] # "none"

ExitTold ==
    exited => \A e \in Events : status[e] = "accepted" => ToldIncomplete(writer[e])

ExitInv == LeasesCounted /\ WritersReleased /\ EventsFind /\ Answered /\ ExitTold

LEMMA HoldersStep == AuditInv /\ LeasesCounted /\ [Next]_vars => LeasesCounted'
<1> SUFFICES ASSUME AuditInv, LeasesCounted, [Next]_vars PROVE LeasesCounted'
  OBVIOUS
<1> USE DEF LeasesCounted
<1>1. TypeOK
  BY DEF AuditInv
<1>2. ASSUME UNCHANGED leases,
             \A l \in Lifespans : life'[l] = "holding" <=> life[l] = "holding"
      PROVE  LeasesCounted'
  <2>1. Holders' = Holders
    BY <1>2 DEF Holders
  <2> QED
    BY <1>2, <2>1
<1>3. ASSUME NEW l \in Lifespans, Acquire(l) PROVE LeasesCounted'
  <2>1. Holders' = Holders \cup {l} /\ l \notin Holders /\ leases' = leases + 1
    BY <1>1, <1>3 DEF Acquire, Moves, Holders, TypeOK
  <2> QED
    BY <2>1, FS_AddElement
<1>4. ASSUME NEW l \in Lifespans, Release(l) PROVE LeasesCounted'
  <2>1. PICK step \in {"closing", "ended"} : life' = [life EXCEPT ![l] = step]
    BY <1>4 DEF Release, Moves
  <2>2. Holders' = Holders \ {l} /\ l \in Holders /\ leases' = leases - 1
    BY <1>1, <1>4, <2>1 DEF Release, Holders, TypeOK
  <2> QED
    BY <2>2, FS_RemoveElement
<1>5. ASSUME NEW l \in Lifespans, BeginShutdown(l) \/ Flush(l) \/ Join(l)
      PROVE  LeasesCounted'
  <2>1. PICK step \in {"flushing", "joining", "late", "ended"} :
          life' = [life EXCEPT ![l] = step]
    BY <1>5 DEF BeginShutdown, Flush, Join, Moves
  <2>2. UNCHANGED leases /\ life[l] # "holding"
    BY <1>5 DEF BeginShutdown, Flush, Join
  <2> QED
    BY <1>1, <1>2, <2>1, <2>2 DEF TypeOK
<1>6. ASSUME UNCHANGED <<leases, life>> PROVE LeasesCounted'
  BY <1>2, <1>6
<1>7. CASE UNCHANGED vars \/ Exit
  BY <1>6, <1>7 DEF vars, lifespans, Exit
<1>8. ASSUME NEW e \in Events, EventStep(e) PROVE LeasesCounted'
  BY <1>6, <1>8 DEF EventStep, FindWriter, Refuse, Submit, Put, lifespans
<1>9. ASSUME NEW w \in Writers, WorkerStep(w) PROVE LeasesCounted'
  BY <1>6, <1>9 DEF WorkerStep, TakeEvent, TimesOut, LooksAtFlag, Store, Settle, Check,
                    lifespans
<1> QED
  BY <1>3, <1>4, <1>5, <1>7, <1>8, <1>9 DEF Next, LifespanStep

\* What leaves lifespans and flags alone leaves the writers released.
LEMMA ReleasedStep == AuditInv /\ WritersReleased /\ [Next]_vars => WritersReleased'
<1> SUFFICES ASSUME AuditInv, WritersReleased, [Next]_vars PROVE WritersReleased'
  OBVIOUS
<1> USE DEF WritersReleased
<1>1. TypeOK /\ Flags /\ Shutting
  BY DEF AuditInv, LeaseParts
<1>2. ASSUME UNCHANGED <<current, leases, accepting, released>>,
             \A l \in Lifespans : life'[l] = "out" <=> life[l] = "out"
      PROVE  WritersReleased'
  BY <1>2
<1>3. ASSUME NEW l \in Lifespans, Acquire(l) PROVE WritersReleased'
  <2>1. /\ UNCHANGED <<accepting, released>> /\ leases' = leases + 1
        /\ \/ current' = current
           \/ current' = current + 1 /\ ~ accepting[current]
    BY <1>3 DEF Acquire
  <2>2. leases' # 0
    BY <1>1, <2>1 DEF TypeOK
  <2>3. current \in Int /\ \A w \in Writers : w \in Int
    BY <1>1 DEF TypeOK, Writers
  <2>4. ASSUME NEW w \in Writers, w < current' PROVE ~ accepting[w]
    <3>1. CASE current' = current
      BY <2>4, <3>1
    <3>2. CASE current' = current + 1 /\ ~ accepting[current]
      <4>1. w < current \/ w = current
        BY <2>3, <2>4, <3>2
      <4> QED
        BY <3>2, <4>1
    <3> QED
      BY <2>1, <3>1, <3>2
  <2> QED
    BY <2>1, <2>2, <2>4
<1>4. ASSUME NEW l \in Lifespans, Release(l) PROVE WritersReleased'
  <2>1. UNCHANGED current /\ leases' = leases - 1 /\ current \in Writers
    BY <1>1, <1>4 DEF Release, TypeOK
  <2>2. CASE leases > 1
    BY <1>1, <1>4, <2>1, <2>2 DEF Release, TypeOK
  <2>3. CASE leases = 1
    <3>1. /\ ~ accepting'[current]
          /\ \A w \in Writers \ {current} : accepting'[w] = accepting[w]
          /\ released'[l] = current /\ released[l] = 0
          /\ \A k \in Lifespans \ {l} : released'[k] = released[k]
      BY <1>1, <1>4, <2>1, <2>3 DEF Release, ClosedByLastRelease, Close, Shutting, TypeOK
    <3>2. ASSUME NEW w \in Writers, ~ accepting'[w]
          PROVE  \E k \in Lifespans : released'[k] = w
      <4>1. CASE w = current
        BY <3>1, <4>1
      <4>2. CASE w # current
        <5>1. PICK k \in Lifespans : released[k] = w
          BY <3>1, <3>2, <4>2
        <5>2. k # l
          BY <3>1, <5>1 DEF Writers
        <5> QED
          BY <3>1, <5>1, <5>2
      <4> QED
        BY <4>1, <4>2
    <3>3. \A w \in Writers : w < current' => ~ accepting'[w]
      BY <2>1, <3>1 DEF Writers
    <3> QED
      BY <2>1, <3>1, <3>2, <3>3
  <2> QED
    BY <1>4, <2>2, <2>3 DEF Release
<1>5. ASSUME NEW l \in Lifespans, BeginShutdown(l) \/ Flush(l) \/ Join(l)
      PROVE  WritersReleased'
  <2>1. PICK step \in {"flushing", "joining", "late", "ended"} :
          life' = [life EXCEPT ![l] = step]
    BY <1>5 DEF BeginShutdown, Flush, Join, Moves
  <2>2. life[l] # "out" /\ UNCHANGED <<current, leases, released>>
    BY <1>5 DEF BeginShutdown, Flush, Join
  <2>3. accepting' = accepting
    <3>1. CASE BeginShutdown(l)
      <4>1. released[l] \in Writers /\ ~ accepting[released[l]]
        BY <1>1, <3>1 DEF BeginShutdown, Shutting, TypeOK
      <4> QED
        BY <1>1, <3>1, <4>1 DEF BeginShutdown, Close, TypeOK
    <3>2. CASE Flush(l) \/ Join(l)
      BY <3>2 DEF Flush, Join, writers
    <3> QED
      BY <1>5, <3>1, <3>2
  <2> QED
    BY <1>1, <1>2, <2>1, <2>2, <2>3 DEF TypeOK
<1>6. ASSUME UNCHANGED <<current, leases, accepting, released, life>> PROVE WritersReleased'
  BY <1>2, <1>6
<1>7. CASE UNCHANGED vars \/ Exit
  BY <1>6, <1>7 DEF vars, writers, lifespans, Exit
<1>8. ASSUME NEW e \in Events, EventStep(e) PROVE WritersReleased'
  BY <1>6, <1>8 DEF EventStep, FindWriter, Refuse, Submit, Put, writers, lifespans
<1>9. ASSUME NEW w \in Writers, WorkerStep(w) PROVE WritersReleased'
  BY <1>6, <1>9 DEF WorkerStep, TakeEvent, TimesOut, LooksAtFlag, Store, Settle, Check,
                    lifespans
<1> QED
  BY <1>3, <1>4, <1>5, <1>7, <1>8, <1>9 DEF Next, LifespanStep

LEMMA FindStep == AuditInv /\ EventsFind /\ [Next]_vars => EventsFind'
<1> SUFFICES ASSUME AuditInv, EventsFind, [Next]_vars PROVE EventsFind'
  OBVIOUS
<1> USE DEF EventsFind
<1>1. TypeOK
  BY DEF AuditInv
<1>2. ASSUME UNCHANGED <<current, writer>>,
             \A e \in Events : status'[e] # "new" => status[e] # "new"
      PROVE  EventsFind'
  BY <1>2
<1>3. ASSUME NEW e \in Events, EventStep(e) PROVE EventsFind'
  <2>1. CASE FindWriter(e)
    <3>1. /\ writer'[e] = current /\ current' = current /\ current \in Nat
          /\ \A f \in Events \ {e} : status'[f] = status[f] /\ writer'[f] = writer[f]
      BY <1>1, <2>1 DEF FindWriter, Becomes, TypeOK, Writers
    <3> QED
      BY <3>1
  <2>2. CASE Refuse(e) \/ Submit(e) \/ Put(e)
    <3>1. PICK step \in {"claimed", "accepted", "dropped"} : status' = [status EXCEPT ![e] = step]
      BY <2>2 DEF Refuse, Submit, Put, Becomes
    <3>2. UNCHANGED <<current, writer>> /\ status[e] # "new"
      BY <2>2 DEF Refuse, Submit, Put
    <3> QED
      BY <1>1, <1>2, <3>1, <3>2 DEF TypeOK
  <2> QED
    BY <1>3, <2>1, <2>2 DEF EventStep
<1>4. ASSUME NEW w \in Writers, WorkerStep(w) PROVE EventsFind'
  <2>1. UNCHANGED <<current, writer>>
    BY <1>4 DEF WorkerStep, TakeEvent, TimesOut, LooksAtFlag, Store, Settle, Check
  <2>2. CASE Store(w)
    <3>1. Past(taken[w]) /\ taken[w] \in Events
      BY <2>2 DEF Store, AuditInv, QueueParts, InPlace
    <3> QED
      BY <1>1, <1>2, <2>1, <2>2, <3>1 DEF Store, Becomes, Past, PastSteps, TypeOK
  <2>3. CASE ~ Store(w)
    BY <1>2, <1>4, <2>1, <2>3 DEF WorkerStep, TakeEvent, TimesOut, LooksAtFlag, Settle, Check
  <2> QED
    BY <2>2, <2>3
<1>5. ASSUME NEW l \in Lifespans, LifespanStep(l) PROVE EventsFind'
  <2>1. UNCHANGED <<status, writer>>
    BY <1>5 DEF LifespanStep, Acquire, Release, BeginShutdown, Flush, Join
  <2>2. current' = current \/ current' = current + 1
    BY <1>5 DEF LifespanStep, Acquire, Release, BeginShutdown, Flush, Join
  <2>3. current \in Int /\ \A e \in Events : writer[e] \in Int
    BY <1>1 DEF TypeOK, Writers
  <2>4. ASSUME NEW e \in Events, status[e] # "new" PROVE writer[e] <= current'
    <3>1. writer[e] <= current
      BY <2>4
    <3> QED
      BY <2>2, <2>3, <3>1
  <2> QED
    BY <2>1, <2>4
<1>6. CASE UNCHANGED vars \/ Exit
  BY <1>6 DEF vars, Exit
<1> QED
  BY <1>3, <1>4, <1>5, <1>6 DEF Next

LEMMA AnsweredStep == AuditInv /\ Answered /\ [Next]_vars => Answered'
<1> SUFFICES ASSUME AuditInv, Answered, [Next]_vars PROVE Answered'
  OBVIOUS
<1> USE DEF Answered
<1>1. TypeOK
  BY DEF AuditInv
<1>2. ASSUME UNCHANGED <<life, result>> PROVE Answered'
  BY <1>2
<1>3. ASSUME NEW l \in Lifespans, LifespanStep(l) PROVE Answered'
  <2>1. \A k \in Lifespans \ {l} : life'[k] = life[k] /\ result'[k] = result[k]
    BY <1>1, <1>3 DEF LifespanStep, Acquire, Release, BeginShutdown, Flush, Join, Moves, TypeOK
  <2>2. life'[l] = "ended" => result'[l] # "none"
    BY <1>1, <1>3 DEF LifespanStep, Acquire, Release, BeginShutdown, Flush, Join, Moves, TypeOK
  <2> QED
    BY <2>1, <2>2
<1>4. CASE UNCHANGED vars \/ Exit
  BY <1>2, <1>4 DEF vars, lifespans, Exit
<1>5. ASSUME NEW e \in Events, EventStep(e) PROVE Answered'
  BY <1>2, <1>5 DEF EventStep, FindWriter, Refuse, Submit, Put, lifespans
<1>6. ASSUME NEW w \in Writers, WorkerStep(w) PROVE Answered'
  BY <1>2, <1>6 DEF WorkerStep, TakeEvent, TimesOut, LooksAtFlag, Store, Settle, Check,
                    lifespans
<1> QED
  BY <1>3, <1>4, <1>5, <1>6 DEF Next

\* When the process ends every writer that has accepted an event was shut down,
\* and the lifespan that did so has its answer.
LEMMA ExitTells ==
    ASSUME AuditInv, ExitInv, Exit, NEW e \in Events, status[e] = "accepted"
    PROVE  ToldIncomplete(writer[e])
<1>1. TypeOK /\ Shutting /\ LeasesCounted /\ WritersReleased /\ EventsFind /\ Answered
  BY DEF AuditInv, LeaseParts, ExitInv
<1>2. leases = 0
  <2>1. Holders = {}
    BY DEF Exit, Holders
  <2> QED
    BY <1>1, <2>1, FS_EmptySet DEF LeasesCounted
<1>3. ~ accepting[current] /\ writer[e] \in Writers /\ writer[e] <= current /\ current \in Writers
  BY <1>1, <1>2 DEF Exit, WritersReleased, EventsFind, TypeOK
<1>4. ~ accepting[writer[e]]
  <2>1. writer[e] = current \/ writer[e] < current
    BY <1>3 DEF Writers
  <2> QED
    BY <1>1, <1>3, <2>1 DEF WritersReleased
<1>5. PICK l \in Lifespans : released[l] = writer[e]
  BY <1>1, <1>3, <1>4 DEF WritersReleased
<1>6. released[l] # 0
  BY <1>3, <1>5 DEF Writers
<1>7. life[l] = "ended"
  BY <1>1, <1>6 DEF Exit, Shutting
<1>8. result[l] # "none" /\ result[l] # "complete"
  BY <1>1, <1>5, <1>6, <1>7, CompleteIsSettled DEF Answered, SuccessMeansSettled
<1> QED
  BY <1>1, <1>5, <1>8 DEF ToldIncomplete, TypeOK

LEMMA ExitStep == AuditInv /\ ExitInv /\ [Next]_vars => ExitInv'
<1> SUFFICES ASSUME AuditInv, ExitInv, [Next]_vars PROVE ExitInv'
  OBVIOUS
<1>1. LeasesCounted' /\ WritersReleased' /\ EventsFind' /\ Answered'
  BY HoldersStep, ReleasedStep, FindStep, AnsweredStep DEF ExitInv
<1>2. ExitTold'
  <2>1. CASE Exit
    <3>1. UNCHANGED <<status, writer, released, result>>
      BY <2>1 DEF Exit
    <3> QED
      BY <2>1, <3>1, ExitTells DEF ExitTold, ToldIncomplete
  <2>2. CASE UNCHANGED vars
    BY <2>2 DEF vars, lifespans, ExitInv, ExitTold, ToldIncomplete
  <2>3. CASE Next /\ ~ Exit
    <3>1. ~ exited /\ exited' = exited
      BY <2>3 DEF Next, EventStep, FindWriter, Refuse, Submit, Put, WorkerStep, TakeEvent,
                  TimesOut, LooksAtFlag, Store, Settle, Check, LifespanStep, Acquire, Release,
                  BeginShutdown, Flush, Join, lifespans
    <3> QED
      BY <3>1 DEF ExitTold
  <2> QED
    BY <2>1, <2>2, <2>3
<1> QED
  BY <1>1, <1>2 DEF ExitInv

\* No event is left behind but in two ways: an accepted event has a worker that
\* runs before it, or it was queued between a time-out of the worker and its
\* look at a flag that was raised in between, or the process has ended after
\* the shutdown of its writer was reported as incomplete.  With a worker that
\* is scheduled this is why every other event is settled.
THEOREM OnlyTheGapStrands == Spec => []AcceptedHasAWay
<1>1. Init => Submitting /\ Leaving
  BY DEF Init, Submitting, Leaving, Unlocked, Queued
<1>2. Init => ExitInv
  <2> SUFFICES ASSUME Init PROVE ExitInv
    OBVIOUS
  <2>1. Holders = {}
    BY DEF Init, Holders
  <2>2. LeasesCounted
    BY <2>1, FS_EmptySet DEF Init, LeasesCounted
  <2>3. WritersReleased /\ EventsFind /\ Answered /\ ExitTold
    BY DEF Init, WritersReleased, EventsFind, Answered, ExitTold, Writers
  <2> QED
    BY <2>2, <2>3 DEF ExitInv
<1>3. AuditInv /\ Submitting /\ Leaving /\ ExitInv => AcceptedHasAWay
  <2> SUFFICES ASSUME AuditInv, Submitting, Leaving, ExitInv, NEW e \in Events, NEW w \in Writers,
                      status[e] = "accepted", writer[e] = w
               PROVE  \/ ~ exited /\ worker[w] # "off" /\ (e \in Queued(w) \/ taken[w] = e)
                      \/ e \in gap /\ stop[w]
                      \/ exited /\ ToldIncomplete(w)
    BY DEF AcceptedHasAWay, AuditInv, TypeOK
  <2>1. e \in Queued(w) \/ (worker[w] = "storing" /\ taken[w] = e)
    BY DEF AuditInv, QueueParts, Placed
  <2>2. exited => ToldIncomplete(w)
    BY DEF ExitInv, ExitTold
  <2> QED
    BY <2>1, <2>2 DEF Leaving, AuditInv, TypeOK
<1> QED
  BY <1>1, <1>2, <1>3, AuditSafe, Strands, ExitStep, PTL DEF Spec

=============================================================================
