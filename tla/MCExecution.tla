---------------------------- MODULE MCExecution ----------------------------
(* What a connection executes, caches, syncs and records: small instances  *)
(* of ConnectionCache, DeclarativeTool, ConnectionSync and                 *)
(* AuditEventWriter, side by side.  A behaviour is one of them, the        *)
(* variables of the others standing still.                                 *)
EXTENDS ConnectionCache, MCDeclarativeTool, MCConnectionSync, AuditEventWriter

VARIABLE part   \* the module whose behaviour it is

allVars == <<part, cacheVars, toolVars, connectionVars, vars>>

ExecutionInit ==
    /\ part \in {"cache", "tool", "sync", "audit"}
    /\ CacheInit
    /\ ToolInit /\ (part # "tool" => doc = CHOOSE d \in Documents : TRUE)
    /\ ConnectionInit /\ (part # "sync" => upstream = CHOOSE u \in Upstreams : TRUE)
    /\ Init

InCache(A) ==
    part = "cache" /\ A /\ UNCHANGED <<part, toolVars, connectionVars, vars>>
InTool(A) ==
    part = "tool" /\ A /\ UNCHANGED <<part, cacheVars, connectionVars, vars>>
InSync(A) == part = "sync" /\ A /\ UNCHANGED <<part, cacheVars, toolVars, vars>>
InAudit(A) ==
    part = "audit" /\ A /\ UNCHANGED <<part, cacheVars, toolVars, connectionVars>>

ExecutionNext ==
    \/ InCache(CacheNext) \/ InTool(ToolNext)
    \/ InSync(ConnectionNext) \/ InAudit(Next)

\* The fairness of ConnectionCache, of ConnectionSync and of AuditEventWriter.
ExecutionFairness ==
    /\ \A c \in Calls :
          /\ WF_allVars(InCache(OwnerEnds(c)))
          /\ WF_allVars(InCache(WaiterResumes(c)))
          /\ WF_allVars(InCache(DirectEnds(c)))
    /\ WF_allVars(InSync(Start(Interval)))
    /\ \A w \in Workers : WF_allVars(InSync(SyncWorkerStep(w)))
    /\ \A e \in Events : WF_allVars(InAudit(~ exited /\ Put(e)))
    /\ \A w \in Writers : WF_allVars(InAudit(~ exited /\ WorkerStep(w)))

ExecutionSpec == ExecutionInit /\ [][ExecutionNext]_allVars /\ ExecutionFairness

=============================================================================
