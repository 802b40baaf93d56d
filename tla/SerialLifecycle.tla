-------------------------- MODULE SerialLifecycle --------------------------
(***************************************************************************)
(* What the management of a declarative connection promises, and           *)
(* DeclarativeLifecycle implements without holding a lock from the first   *)
(* read to the last write: every edit is judged by the connection it       *)
(* changes, as if its use case ran alone.  There are no requests here, no  *)
(* versions and nothing that anybody has read; quick onboarding is its     *)
(* three edits, each of them one that an administrator could have made.    *)
(***************************************************************************)
CONSTANTS
    Revisions, Documents, Tools, Secrets,
    ToolsOf,    \* the tools a document declares
    Accepts,    \* the credential sets a document's schema accepts
    NoRevision, NoDocument, NoSecret

VARIABLES
    tenant,       \* "enabled", "disabled" or "deleted"
    status,       \* of the connection, "gone" once it is deleted
    selected,     \* the revision it runs
    pending,      \* the revision staged to replace that one
    revisions,    \* what is stored under each identity
    policies,     \* the tools that have a policy
    credentials   \* the stored credential set

connection == <<status, selected, pending>>
serialVars == <<tenant, connection, revisions, policies, credentials>>

Missing == [status |-> "absent", document |-> NoDocument]

SerialInit ==
    /\ tenant = "enabled"
    /\ status = "draft" /\ selected = NoRevision /\ pending = NoRevision
    /\ revisions = [v \in Revisions |-> Missing]
    /\ policies = {} /\ credentials = NoSecret

-----------------------------------------------------------------------------
\* What activation would install, and what edits are held to.
Installable == IF pending # NoRevision THEN pending ELSE selected
Governing == IF status = "active" THEN selected ELSE Installable

Usable(v) == v \in Revisions /\ revisions[v].status = "published"
Declared(v) == ToolsOf[revisions[v].document]
Acceptable(v) == Accepts[revisions[v].document]

Open == status \in {"draft", "disabled"}

-----------------------------------------------------------------------------
\* A document is added under an identity that is free.
AddRevision(v, d) ==
    /\ Open /\ revisions[v] = Missing
    /\ revisions' = [revisions EXCEPT ![v] = [status |-> "draft", document |-> d]]
    /\ UNCHANGED <<tenant, connection, policies, credentials>>

PublishRevision(v) ==
    /\ Open /\ revisions[v] # Missing
    /\ revisions' = [revisions EXCEPT ![v].status = "published"]
    /\ IF status = "draft" THEN selected' = v /\ UNCHANGED pending
                           ELSE pending' = v /\ UNCHANGED selected
    /\ UNCHANGED <<tenant, status, policies, credentials>>

\* A connection goes into service whole: with the tools and the credentials of
\* the very revision it goes into service with, and under a live tenant.
GoActive ==
    /\ tenant = "enabled"
    /\ Open /\ Usable(Installable)
    /\ policies = Declared(Installable)
    /\ credentials \in Acceptable(Installable)
    /\ status' = "active" /\ selected' = Installable /\ pending' = NoRevision
    /\ UNCHANGED <<tenant, revisions, policies, credentials>>

\* An edit of the status, which makes nothing active.
SetStatus(s) ==
    /\ tenant = "enabled"
    /\ status # "gone" /\ Usable(selected)
    /\ s = "active" => status = "active"
    /\ s = "error" => status \in {"active", "error"}
    /\ s = "draft" => status # "active"
    /\ status' = s
    /\ UNCHANGED <<tenant, selected, pending, revisions, policies, credentials>>

SetPolicies(tools) ==
    /\ status # "gone"
    /\ Usable(Governing) /\ tools \subseteq Declared(Governing)
    /\ policies' = tools
    /\ UNCHANGED <<tenant, connection, revisions, credentials>>

SetCredentials(secret) ==
    /\ status # "gone"
    /\ Usable(Governing) /\ secret \in Acceptable(Governing)
    /\ credentials' = secret
    /\ UNCHANGED <<tenant, connection, revisions, policies>>

-----------------------------------------------------------------------------
SwitchOff ==
    /\ status # "gone" /\ status' = "disabled"
    /\ UNCHANGED <<tenant, selected, pending, revisions, policies, credentials>>

\* Only what the connection neither runs nor has staged is removed.
RemoveRevision(v) ==
    /\ status # "gone"
    /\ \/ revisions[v].status = "draft"
       \/ Usable(v) /\ v \notin {selected, pending}
    /\ revisions' = [revisions EXCEPT ![v] = Missing]
    /\ UNCHANGED <<tenant, connection, policies, credentials>>

Remove ==
    /\ status' = "gone" /\ selected' = NoRevision /\ pending' = NoRevision
    /\ UNCHANGED <<tenant, revisions, policies, credentials>>

SetTenant ==
    /\ tenant # "deleted" /\ tenant' \in {"enabled", "disabled"}
    /\ UNCHANGED <<connection, revisions, policies, credentials>>

\* Deleting the tenant takes the connection out of service in the same step.
DeleteTenant ==
    /\ tenant # "deleted" /\ tenant' = "deleted"
    /\ status' = IF status = "gone" THEN "gone" ELSE "disabled"
    /\ UNCHANGED <<selected, pending, revisions, policies, credentials>>

SerialNext ==
    \/ \E v \in Revisions :
          \/ \E d \in Documents : AddRevision(v, d)
          \/ PublishRevision(v) \/ RemoveRevision(v)
    \/ GoActive
    \/ \E s \in {"draft", "active", "disabled", "error"} : SetStatus(s)
    \/ \E tools \in SUBSET Tools : SetPolicies(tools)
    \/ \E secret \in Secrets \cup {NoSecret} : SetCredentials(secret)
    \/ SwitchOff \/ Remove \/ SetTenant \/ DeleteTenant

SerialSpec == SerialInit /\ [][SerialNext]_serialVars

=============================================================================
