--------------------------- MODULE ConnectionSync ---------------------------
(***************************************************************************)
(* SyncOrchestrator (app/connections/sync.py) over one declarative         *)
(* connection: the interval job, and the occasional runs beside it (the    *)
(* first one after a start, the ones an administrator asks for), each in   *)
(* an event loop and thread of its own, serialised by a lock of the        *)
(* process that is polled.                                                 *)
(***************************************************************************)
EXTENDS DeclarativeSync

CONSTANTS
    Interval,   \* the worker of the interval job; the others are occasional
    Nobody      \* the lock is free

ASSUME OrchestratorConstants == Interval \in Workers /\ Nobody \notin Workers

VARIABLES
    eligible,   \* active, and stored or hybrid with sync enabled
    lock,       \* the lock of the connection
    stage,      \* where each worker stands
    resource    \* the resource it was asked for

orchestratorVars == <<eligible, lock, stage, resource>>
connectionVars == <<syncVars, orchestratorVars>>

OrchestratorTypeOK ==
    /\ SyncTypeOK
    /\ eligible \in BOOLEAN
    /\ lock \in Workers \cup {Nobody}
    /\ stage \in [Workers -> {"idle", "waiting", "locked", "running"}]
    /\ resource \in [Workers -> Resources]

ConnectionInit ==
    /\ SyncInit
    /\ eligible = TRUE
    /\ lock = Nobody
    /\ stage = [w \in Workers |-> "idle"]
    /\ resource = [w \in Workers |-> "default"]

-----------------------------------------------------------------------------
(* One worker.                                                             *)

\* run_scheduled lists the eligible connections and their configured
\* resources; a manual sync reads the connection and always asks for the
\* default resource.
Start(w) ==
    /\ stage[w] = "idle"
    /\ eligible
    /\ stage' = [stage EXCEPT ![w] = "waiting"]
    /\ \/ /\ w = Interval
          /\ resource' = [resource EXCEPT ![w] = upstream.configured]
          /\ UNCHANGED disturbances
       \/ /\ w # Interval
          /\ Disturb
          /\ \E r \in {upstream.configured, "default"} :
                resource' = [resource EXCEPT ![w] = r]
    /\ UNCHANGED <<eligible, lock, dataVars, storeVars, run>>

\* Variant: the lock belongs to an event loop, not to the process.
TakeLockInOwnLoop(w) ==
    /\ stage[w] = "waiting"
    /\ lock' = w
    /\ stage' = [stage EXCEPT ![w] = "locked"]
    /\ UNCHANGED <<eligible, resource, syncVars>>

TakeLock(w) ==
    /\ stage[w] = "waiting"
    /\ lock = Nobody
    /\ lock' = w
    /\ stage' = [stage EXCEPT ![w] = "locked"]
    /\ UNCHANGED <<eligible, resource, syncVars>>

FreeLock(w) ==
    /\ lock' = Nobody
    /\ stage' = [stage EXCEPT ![w] = "idle"]

\* The connection is read again under the lock; building its context may fail.
Refresh(w) ==
    /\ stage[w] = "locked"
    /\ \/ /\ eligible
          /\ stage' = [stage EXCEPT ![w] = "running"]
          /\ UNCHANGED <<lock, disturbances>>
       \/ ~ eligible /\ FreeLock(w) /\ UNCHANGED disturbances
       \/ eligible /\ Disturb /\ FreeLock(w)
    /\ UNCHANGED <<eligible, resource, dataVars, storeVars, run>>

\* connector.sync, one step at a time.
Sync(w) ==
    /\ stage[w] = "running"
    /\ SyncBegin(w, resource[w]) \/ SyncStep(w)
    /\ UNCHANGED orchestratorVars

\* The result, or sync_failed for any exception, goes into an event; the lock
\* is released either way.
Finish(w) ==
    /\ stage[w] = "running"
    /\ run[w].step \in {"ok", "error"}
    /\ run' = [run EXCEPT ![w] = Off]
    /\ FreeLock(w)
    /\ UNCHANGED <<eligible, resource, dataVars, storeVars, disturbances>>

SyncWorkerStep(w) == TakeLock(w) \/ Refresh(w) \/ Sync(w) \/ Finish(w)

-----------------------------------------------------------------------------
(* The rest of the world.                                                  *)

\* An administrator disables or enables the connection, its sync or its mode.
SetEligible ==
    /\ Disturb
    /\ eligible' = ~ eligible
    /\ UNCHANGED <<lock, stage, resource, dataVars, storeVars, run>>

\* The process restarts: locks and runs are gone, the tables are not.
Restart ==
    /\ Disturb
    /\ lock' = Nobody
    /\ stage' = [w \in Workers |-> "idle"]
    /\ run' = [w \in Workers |-> Off]
    /\ UNCHANGED <<eligible, resource, dataVars, storeVars>>

World == SetEligible \/ Restart \/ ((Publish \/ RefuseCursors) /\ UNCHANGED orchestratorVars)

ConnectionNext == World \/ \E w \in Workers : Start(w) \/ SyncWorkerStep(w)

\* The interval job keeps firing, and a task that can go on does so: it waits
\* for no more than a poll, a bounded request or a database call.
ConnectionFairness ==
    /\ WF_connectionVars(Start(Interval))
    /\ \A w \in Workers : WF_connectionVars(SyncWorkerStep(w))

ConnectionSpec ==
    ConnectionInit /\ [][ConnectionNext]_connectionVars /\ ConnectionFairness

-----------------------------------------------------------------------------
(* Liveness.                                                               *)

\* What can be synced at all: the resource asked for is the declared one, the
\* upstream keeps accepting its cursors, and it gives only cursors that can
\* be read back.
Syncable ==
    /\ upstream.configured = upstream.declared
    /\ ~ refusing
    /\ \A p \in DOMAIN upstream.forms : upstream.forms[p] = "short"

\* The pages a sync may see: all of them, or the first if it follows no cursor.
Reachable == IF upstream.paged THEN 1..published ELSE {1}

AllSynced ==
    \A e \in PageItems : e[1] \in Reachable /\ Keyed(e) => e \in records \cup cut

\* Whatever the upstream has is stored in the end, over as many runs as it
\* takes, if the connection stays enabled and can be synced at all.
EverythingSynced == <>[](eligible /\ Syncable) => []<>AllSynced

=============================================================================
