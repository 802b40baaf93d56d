-------------------------- MODULE AuditEventWriter --------------------------
(***************************************************************************)
(* The audit queue of app/mcp_audit.py: request threads submit events      *)
(* without blocking, a worker thread stores them, and the lifespans of the *)
(* application share one writer by a reference count.  The last release    *)
(* shuts the writer down, and the next lifespan gets a new one.  After the *)
(* lifespans the process may end, and its daemon threads with it.          *)
(*                                                                         *)
(* Threads interleave between any two operations on the queue, the stop    *)
(* flag and the locks.  A submission holds its writer's state lock from    *)
(* Submit to Put; the lifecycle lock is held within one step only.         *)
(***************************************************************************)
EXTENDS Naturals, Sequences

CONSTANTS
    Events,             \* each submitted once
    Lifespans,          \* each acquires and releases the writer once
    QueueSize,          \* max_queue_size
    MaxWriters,         \* bound on the writers that are created
    NoEvent             \* what an idle worker holds

ASSUME AuditConstants ==
    /\ QueueSize \in Nat \ {0}
    /\ MaxWriters \in Nat \ {0}
    /\ NoEvent \notin Events

\* In the order they are created.
Writers == 1..MaxWriters

VARIABLES
    current,            \* _audit_writer
    leases,             \* _audit_writer_refcount
    accepting, stop,    \* _accepting and _stop_requested of each writer
    queue, pending,     \* _queue and _pending
    worker,             \* where the thread of a writer stands
    taken,              \* the event it is storing
    status, writer,     \* how far an event has come, and with which writer
    gap,                \* events queued between a time-out and the look at the flag
    life, released,     \* where a lifespan stands, and the writer it shuts down, or 0
    result,             \* what release_audit_writer returned to it
    exited              \* the process has ended

writers == <<accepting, stop, worker>>
lifespans == <<life, released, result, exited>>
vars == <<current, leases, writers, queue, pending, taken, status, writer, gap, lifespans>>

-----------------------------------------------------------------------------

WorkerSteps == {"off", "waiting", "timed out", "storing", "stored", "checking"}

TypeOK ==
    /\ current \in Writers
    /\ leases \in Nat
    /\ accepting \in [Writers -> BOOLEAN]
    /\ stop \in [Writers -> BOOLEAN]
    /\ queue \in [Writers -> Seq(Events)]
    /\ \A w \in Writers : Len(queue[w]) <= QueueSize
    /\ pending \in [Writers -> Nat]
    /\ worker \in [Writers -> WorkerSteps]
    /\ taken \in [Writers -> Events \cup {NoEvent}]
    /\ status \in [Events -> {"new", "found", "claimed", "accepted", "stored",
                              "failed", "dropped"}]
    /\ writer \in [Events -> Writers]
    /\ gap \subseteq Events
    /\ life \in [Lifespans -> {"out", "holding", "closing", "flushing", "joining",
                               "late", "ended"}]
    /\ released \in [Lifespans -> Writers \cup {0}]
    /\ result \in [Lifespans -> {"none", "complete", "incomplete"}]
    /\ exited \in BOOLEAN

Init ==
    /\ current = 1
    /\ leases = 0
    /\ accepting = [w \in Writers |-> TRUE]
    /\ stop = [w \in Writers |-> FALSE]
    /\ queue = [w \in Writers |-> <<>>]
    /\ pending = [w \in Writers |-> 0]
    /\ worker = [w \in Writers |-> "off"]
    /\ taken = [w \in Writers |-> NoEvent]
    /\ status = [e \in Events |-> "new"]
    /\ writer = [e \in Events |-> 1]
    /\ gap = {}
    /\ life = [l \in Lifespans |-> "out"]
    /\ released = [l \in Lifespans |-> 0]
    /\ result = [l \in Lifespans |-> "none"]
    /\ exited = FALSE

-----------------------------------------------------------------------------
(* Submitting.                                                             *)

Queued(w) == {queue[w][i] : i \in 1..Len(queue[w])}

\* The state lock of a writer.
Unlocked(w) == \A e \in Events : ~ (status[e] = "claimed" /\ writer[e] = w)

\* _ensure_worker_locked.
WithWorker(w) == IF worker[w] = "off" THEN [worker EXCEPT ![w] = "waiting"] ELSE worker

Becomes(e, step) == status' = [status EXCEPT ![e] = step]

\* write_event reads the global before it calls submit.
FindWriter(e) ==
    /\ status[e] = "new"
    /\ Becomes(e, "found")
    /\ writer' = [writer EXCEPT ![e] = current]
    /\ UNCHANGED <<current, leases, writers, queue, pending, taken, gap, lifespans>>

\* submit, refused: the writer is closed, or its thread cannot be started.
Refuse(e) ==
    /\ status[e] = "found" /\ Unlocked(writer[e])
    /\ ~ accepting[writer[e]] \/ worker[writer[e]] = "off"
    /\ Becomes(e, "dropped")
    /\ UNCHANGED <<current, leases, writers, queue, pending, taken, writer, gap, lifespans>>

\* submit, up to the count of what is pending.
Submit(e) ==
    /\ status[e] = "found" /\ Unlocked(writer[e])
    /\ accepting[writer[e]]
    /\ worker' = WithWorker(writer[e])
    /\ pending' = [pending EXCEPT ![writer[e]] = @ + 1]
    /\ Becomes(e, "claimed")
    /\ UNCHANGED <<current, leases, accepting, stop, queue, taken, writer, gap, lifespans>>

Room(w) == Len(queue[w]) < QueueSize

\* submit, the queue: put_nowait, or Full.
Put(e) ==
    LET w == writer[e] IN
        /\ status[e] = "claimed"
        /\ IF Room(w)
           THEN /\ queue' = [queue EXCEPT ![w] = Append(@, e)]
                /\ gap' = IF worker[w] = "timed out" THEN gap \cup {e} ELSE gap
                /\ Becomes(e, "accepted")
                /\ UNCHANGED pending
           ELSE /\ pending' = [pending EXCEPT ![w] = @ - 1]
                /\ Becomes(e, "dropped")
                /\ UNCHANGED <<queue, gap>>
        /\ UNCHANGED <<current, leases, writers, taken, writer, lifespans>>

-----------------------------------------------------------------------------
(* The worker thread, _run.                                                *)

Goto(w, step) == worker' = [worker EXCEPT ![w] = step]

TakeEvent(w) ==
    /\ worker[w] = "waiting" /\ queue[w] # <<>>
    /\ taken' = [taken EXCEPT ![w] = Head(queue[w])]
    /\ queue' = [queue EXCEPT ![w] = Tail(@)]
    /\ Goto(w, "storing")
    /\ UNCHANGED <<current, leases, accepting, stop, pending, status, writer, gap, lifespans>>

\* get raises Empty; an event may be queued before the flag is looked at.
TimesOut(w) ==
    /\ worker[w] = "waiting" /\ queue[w] = <<>>
    /\ Goto(w, "timed out")
    /\ UNCHANGED <<current, leases, accepting, stop, queue, pending, taken, status, writer,
                   gap, lifespans>>

LooksAtFlag(w) ==
    /\ worker[w] = "timed out"
    /\ Goto(w, IF stop[w] THEN "off" ELSE "waiting")
    /\ gap' = IF stop[w] THEN gap ELSE gap \ Queued(w)
    /\ UNCHANGED <<current, leases, accepting, stop, queue, pending, taken, status, writer,
                   lifespans>>

\* insert_event; a failure is logged and the event is done with.
Store(w) ==
    /\ worker[w] = "storing"
    /\ \E outcome \in {"stored", "failed"} : Becomes(taken[w], outcome)
    /\ taken' = [taken EXCEPT ![w] = NoEvent]
    /\ Goto(w, "stored")
    /\ UNCHANGED <<current, leases, accepting, stop, queue, pending, writer, gap, lifespans>>

Settle(w) ==
    /\ worker[w] = "stored"
    /\ pending' = [pending EXCEPT ![w] = @ - 1]
    /\ Goto(w, "checking")
    /\ UNCHANGED <<current, leases, accepting, stop, queue, taken, status, writer, gap,
                   lifespans>>

\* Variant: the worker stops with events in its queue.
AtOnce(w) == stop[w]

Finished(w) == stop[w] /\ queue[w] = <<>>

Check(w) ==
    /\ worker[w] = "checking"
    /\ Goto(w, IF Finished(w) THEN "off" ELSE "waiting")
    /\ UNCHANGED <<current, leases, accepting, stop, queue, pending, taken, status, writer,
                   gap, lifespans>>

-----------------------------------------------------------------------------
(* Lifespans.                                                              *)

\* Variant: only the worker is told.
StopOnly(w) == stop' = [stop EXCEPT ![w] = TRUE] /\ UNCHANGED accepting

\* _begin_shutdown.
Close(w) ==
    /\ accepting' = [accepting EXCEPT ![w] = FALSE]
    /\ stop' = [stop EXCEPT ![w] = TRUE]

Moves(l, step) == life' = [life EXCEPT ![l] = step]

\* acquire_audit_writer: the first lease starts the writer, or replaces one
\* that was shut down.
Acquire(l) ==
    /\ life[l] = "out"
    /\ Moves(l, "holding")
    /\ leases' = leases + 1
    /\ \/ leases > 0 /\ UNCHANGED <<current, worker>>
       \/ /\ leases = 0 /\ Unlocked(current)
          /\ current' = IF accepting[current] THEN current ELSE current + 1
          /\ current' <= MaxWriters
          /\ worker' = WithWorker(current')
    /\ UNCHANGED <<accepting, stop, queue, pending, taken, status, writer, gap, released,
                   result, exited>>

\* Variant: the writer is closed when the lock is free again.
ClosedLater(w) == UNCHANGED <<accepting, stop>>

\* The last release closes the writer before it lets the lock go.
ClosedByLastRelease(w) == Unlocked(w) /\ Close(w)

\* release_audit_writer, under the lifecycle lock.
Release(l) ==
    /\ life[l] = "holding"
    /\ leases' = leases - 1
    /\ \/ /\ leases > 1
          /\ Moves(l, "ended")
          /\ result' = [result EXCEPT ![l] = "complete"]
          /\ UNCHANGED <<accepting, stop, released>>
       \/ /\ leases = 1
          /\ ClosedByLastRelease(current)
          /\ Moves(l, "closing")
          /\ released' = [released EXCEPT ![l] = current]
          /\ UNCHANGED result
    /\ UNCHANGED <<current, worker, queue, pending, taken, status, writer, gap, exited>>

\* shutdown, outside the lock, closes once more.
BeginShutdown(l) ==
    /\ life[l] = "closing" /\ Unlocked(released[l])
    /\ Close(released[l])
    /\ Moves(l, "flushing")
    /\ UNCHANGED <<current, leases, worker, queue, pending, taken, status, writer, gap,
                   released, result, exited>>

\* flush: nothing is pending, or the time is up.
Flush(l) ==
    /\ life[l] = "flushing"
    /\ Moves(l, IF pending[released[l]] = 0 THEN "joining" ELSE "late")
    /\ UNCHANGED <<current, leases, writers, queue, pending, taken, status, writer, gap,
                   released, result, exited>>

\* join, with what is left of the time, and the answer.
Join(l) ==
    /\ life[l] \in {"joining", "late"}
    /\ Moves(l, "ended")
    /\ result' = [result EXCEPT ![l] =
                    IF life[l] = "joining" /\ worker[released[l]] = "off"
                    THEN "complete" ELSE "incomplete"]
    /\ UNCHANGED <<current, leases, writers, queue, pending, taken, status, writer, gap,
                   released, exited>>

\* The server has ended its lifespans and the process ends, without waiting for
\* daemon threads.
Exit ==
    /\ \E l \in Lifespans : life[l] = "ended"
    /\ \A l \in Lifespans : life[l] \in {"out", "ended"}
    /\ exited' = TRUE
    /\ UNCHANGED <<current, leases, writers, queue, pending, taken, status, writer, gap,
                   life, released, result>>

-----------------------------------------------------------------------------

EventStep(e) == FindWriter(e) \/ Refuse(e) \/ Submit(e) \/ Put(e)

WorkerStep(w) ==
    TakeEvent(w) \/ TimesOut(w) \/ LooksAtFlag(w) \/ Store(w) \/ Settle(w) \/ Check(w)

LifespanStep(l) == Acquire(l) \/ Release(l) \/ BeginShutdown(l) \/ Flush(l) \/ Join(l)

Next ==
    /\ ~ exited
    /\ \/ \E e \in Events : EventStep(e)
       \/ \E w \in Writers : WorkerStep(w)
       \/ \E l \in Lifespans : LifespanStep(l)
       \/ Exit

Spec == Init /\ [][Next]_vars

\* As long as the process runs, threads that can go on are scheduled, and
\* storage answers or fails.  Nothing is assumed of lifespans or of the end of
\* the process: it may end at once, or run for ever.
AuditFairness ==
    /\ \A e \in Events : WF_vars(~ exited /\ Put(e))
    /\ \A w \in Writers : WF_vars(~ exited /\ WorkerStep(w))

FairSpec == Spec /\ AuditFairness

-----------------------------------------------------------------------------
(* What the writer promises.                                               *)

\* While a lifespan holds a lease the current writer takes events and has a
\* worker, although the lifespan that released the lease before may still be
\* shutting its writer down, and the next may have acquired in between.
LeasedWriterAccepts ==
    leases > 0 => accepting[current] /\ worker[current] # "off"

\* A shutdown that reports success has lost nothing: every event its writer
\* accepted is settled, and no event is accepted by it afterwards.
SuccessMeansSettled ==
    \A l \in Lifespans :
        (released[l] # 0 /\ result[l] = "complete") =>
            \A e \in Events :
                writer[e] = released[l] => status[e] \notin {"claimed", "accepted"}

\* The shutdown of a writer told its lifespan that it was not complete.
ToldIncomplete(w) == \E l \in Lifespans : released[l] = w /\ result[l] = "incomplete"

\* Every event that was accepted is stored, or its failure logged, also when
\* the application is shut down, but for two cases: it came, and the shutdown
\* with it, in the moment between a time-out of the worker and its look at the
\* flag; or the process has ended after the bounded shutdown of its writer,
\* which has said so.
AcceptedIsSettled ==
    \A e \in Events :
        status[e] = "accepted" ~>
            \/ status[e] \in {"stored", "failed"}
            \/ e \in gap /\ stop[writer[e]]
            \/ exited /\ ToldIncomplete(writer[e])

=============================================================================
