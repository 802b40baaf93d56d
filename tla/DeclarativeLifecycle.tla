------------------------ MODULE DeclarativeLifecycle ------------------------
(***************************************************************************)
(* The life of one declarative (http_declarative) connection: the store's  *)
(* transactions of app/connections/store.py and the management use cases   *)
(* of app/admin_connections.py that call them.                             *)
(*                                                                         *)
(* A use case reads the connection without a lock, checks the request      *)
(* against what it read, and then runs one transaction that locks the row  *)
(* (SELECT ... FOR UPDATE) and compares config_version with the version it *)
(* read.  Reads and transaction are separate steps; a transaction is one   *)
(* step, because it holds the row locks until it commits.  The quick       *)
(* onboarding use case chains four such transactions around a live test.   *)
(*                                                                         *)
(* An OpenAPI document is one of Documents: what matters of it is the set  *)
(* of tools it declares and the credentials its schema accepts.            *)
(***************************************************************************)
EXTENDS Naturals, FiniteSets

CONSTANTS
    Admins,      \* concurrent management requests
    Revisions,   \* (spec_id, revision) identities of this connection
    Documents,   \* compiled documents
    Tools,       \* tool keys
    Secrets,     \* credential sets
    ToolsOf,     \* the tools a document declares
    Accepts,     \* the credential sets a document's schema accepts
    NoRevision, NoDocument, NoSecret, NoRow, NoRequest,
    MaxVersion   \* bound: transactions that would pass it are not explored

VARIABLES
    tenant,       \* tenant_config: "enabled", "disabled", or "deleted"
    row,          \* the connection_instance row, or NoRow once deleted
    revisions,    \* declarative_spec_revision rows: status and document
    policies,     \* tool names with a connection_tool_policy row
    credentials,  \* the stored credential set
    pc,           \* per request: how far its use case is
    request,      \* per request: what it asks
    seen,         \* per request: the row it read without a lock
    tested        \* per request: what its live test ran with

vars == <<tenant, row, revisions, policies, credentials, pc, request, seen, tested>>
stored == <<tenant, row, revisions, policies, credentials>>

Statuses == {"draft", "active", "disabled", "error"}
Rows == [status : Statuses, version : 1..MaxVersion,
         selected : Revisions \cup {NoRevision},
         pending : Revisions \cup {NoRevision}]
Absent == [status |-> "absent", document |-> NoDocument]
Stored == [status : {"draft", "published"}, document : Documents] \cup {Absent}

ASSUME LifecycleConstants ==
    /\ MaxVersion \in Nat \ {0}
    /\ ToolsOf \in [Documents -> SUBSET Tools]
    /\ Accepts \in [Documents -> SUBSET (Secrets \cup {NoSecret})]
    /\ NoRevision \notin Revisions
    /\ NoDocument \notin Documents
    /\ NoSecret \notin Secrets
    /\ NoRow \notin Rows

-----------------------------------------------------------------------------
(* _LEGAL_STATUS_TRANSITIONS *)
LegalTargets(status) ==
    CASE status = "draft"    -> {"draft", "active", "disabled"}
      [] status = "active"   -> {"active", "disabled", "error"}
      [] status = "disabled" -> {"disabled", "draft", "active"}
      [] status = "error"    -> {"error", "draft", "active", "disabled"}

(* _pending_revision_identity: what activation would install. *)
Staged(r) == IF r.pending # NoRevision THEN r.pending ELSE r.selected

(* _management_spec_for_record: whose tools and schema an edit is held to. *)
Managed(r) == IF r.status = "active" THEN r.selected ELSE Staged(r)

Published(v) == v \in Revisions /\ revisions[v].status = "published"
Declares(v) == ToolsOf[revisions[v].document]
Allows(v) == Accepts[revisions[v].document]

Changeable(r) == r.status \in {"draft", "disabled"}

(* The compare-and-set of every versioned transaction. *)
VersionUnchecked(r, expected) == TRUE
CurrentVersion(r, expected) == r.version = expected

(* config_version = config_version + 1 *)
NotBumped(r) == r
RolledBack(r) == [r EXCEPT !.version = @ - 1]
Bumped(r) == [r EXCEPT !.version = @ + 1]

(* _lock_live_tenant *)
TenantUnchecked == TRUE
LiveTenant == tenant = "enabled"

(* publish_declarative_revision: a draft connection selects at once, a     *)
(* disabled one keeps what it ran and stages the new revision.             *)
Selecting(r, v) ==
    IF r.status = "draft" THEN [r EXCEPT !.selected = v]
                          ELSE [r EXCEPT !.pending = v]

(* activate_declarative_revision: the staged revision becomes the selected *)
(* one and nothing is pending any more.                                    *)
KeepsPending(r, v) == [r EXCEPT !.status = "active", !.selected = v]
Activated(r, v) ==
    [r EXCEPT !.status = "active", !.selected = v, !.pending = NoRevision]

(* _revision_is_selected *)
IsRunning(r, v) == v = r.selected
IsSelected(r, v) == v \in {r.selected, r.pending}

-----------------------------------------------------------------------------
Requests ==
         [op : {"import"}, revision : Revisions, document : Documents]
    \cup [op : {"publish", "activate"}, revision : Revisions]
    \cup [op : {"update"}, status : Statuses]
    \cup [op : {"policies"}, tools : SUBSET Tools]
    \cup [op : {"credentials", "onboard"}, secret : Secrets \cup {NoSecret}]

(* What the live test of an onboarding runs with.                          *)
Tests == [revision : Revisions, secret : Secrets \cup {NoSecret}]

(* create_connection_with_token has just committed: a declarative          *)
(* connection starts as an empty draft without credentials.                *)
Init ==
    /\ tenant = "enabled"
    /\ row = [status |-> "draft", version |-> 1,
              selected |-> NoRevision, pending |-> NoRevision]
    /\ revisions = [v \in Revisions |-> Absent]
    /\ policies = {}
    /\ credentials = NoSecret
    /\ pc = [a \in Admins |-> "idle"]
    /\ request = [a \in Admins |-> NoRequest]
    /\ seen = [a \in Admins |-> NoRow]
    /\ tested = [a \in Admins |-> NoRequest]

(* What a use case checks against the row it read before it calls the      *)
(* store.  An update that names no status keeps the one it read, and one   *)
(* that names "active" is refused: here it asks for "active" only of an    *)
(* active connection.                                                      *)
Accepted(q, r) ==
    CASE q.op \in {"import", "publish"} -> Changeable(r)
      [] q.op = "activate"    -> r.status # "active" /\ Staged(r) = q.revision
                                 /\ Published(q.revision)
      [] q.op = "update"      -> Published(r.selected)
                                 /\ (q.status = "active" => r.status = "active")
      [] q.op = "policies"    -> Published(Managed(r)) /\ q.tools \subseteq Declares(Managed(r))
      [] q.op = "credentials" -> Published(Managed(r)) /\ q.secret \in Allows(Managed(r))
      [] q.op = "onboard"     -> r.status # "active" /\ Published(Staged(r))
                                 /\ q.secret \in Allows(Staged(r))

(* _owned and the checks of the use case. *)
Read(a, q) ==
    /\ pc[a] = "idle"
    /\ row # NoRow
    /\ Accepted(q, row)
    /\ pc' = [pc EXCEPT ![a] = IF q.op = "onboard" THEN "analysed" ELSE "read"]
    /\ request' = [request EXCEPT ![a] = q]
    /\ seen' = [seen EXCEPT ![a] = row]
    /\ UNCHANGED <<stored, tested>>

(* The request ends: answered, refused (409, 404, 422) or failed.          *)
Ends(a) ==
    /\ pc' = [pc EXCEPT ![a] = "idle"]
    /\ request' = [request EXCEPT ![a] = NoRequest]
    /\ seen' = [seen EXCEPT ![a] = NoRow]
    /\ tested' = [tested EXCEPT ![a] = NoRequest]

GivesUp(a) ==
    /\ pc[a] # "idle"
    /\ Ends(a)
    /\ UNCHANGED stored

(* A versioned transaction of request a: the row is locked and still at    *)
(* the version a read.                                                     *)
Transaction(a, op) ==
    /\ pc[a] = "read"
    /\ request[a] # NoRequest /\ request[a].op = op
    /\ row # NoRow
    /\ CurrentVersion(row, seen[a].version)
    /\ Ends(a)

WithinBound == row.version < MaxVersion

(* save_declarative_revision: append-only, the version is not bumped.      *)
Import(a) ==
    /\ Transaction(a, "import")
    /\ Changeable(row)
    /\ revisions[request[a].revision] = Absent
    /\ revisions' = [revisions EXCEPT ![request[a].revision] =
                        [status |-> "draft", document |-> request[a].document]]
    /\ UNCHANGED <<tenant, row, policies, credentials>>

(* publish_declarative_revision *)
Publish(a) ==
    LET v == request[a].revision IN
    /\ Transaction(a, "publish")
    /\ WithinBound
    /\ Changeable(row)
    /\ revisions[v] # Absent
    /\ revisions' = [revisions EXCEPT ![v].status = "published"]
    /\ row' = Bumped(Selecting(row, v))
    /\ UNCHANGED <<tenant, policies, credentials>>

(* activate_connection_spec_use_case reads the credentials after the row,  *)
(* without a lock, and after them the policies.                            *)
InspectCredentials(a) ==
    LET v == request[a].revision IN
    /\ pc[a] = "read"
    /\ request[a] # NoRequest /\ request[a].op = "activate"
    /\ Published(v)
    /\ credentials \in Allows(v)
    /\ pc' = [pc EXCEPT ![a] = "checked"]
    /\ UNCHANGED <<stored, request, seen, tested>>

(* They are compared with the document as it was loaded.  It can be gone by *)
(* now only if the version has moved on, and then nothing is activated.    *)
InspectPolicies(a) ==
    LET v == request[a].revision IN
    /\ pc[a] = "checked"
    /\ Published(v)
    /\ policies = Declares(v)
    /\ pc' = [pc EXCEPT ![a] = "inspected"]
    /\ UNCHANGED <<stored, request, seen, tested>>

(* activate_declarative_revision *)
Activate(a) ==
    LET v == request[a].revision IN
    /\ pc[a] = "inspected"
    /\ LiveTenant
    /\ row # NoRow
    /\ CurrentVersion(row, seen[a].version)
    /\ WithinBound
    /\ Changeable(row)
    /\ Staged(row) = v
    /\ Published(v)
    /\ row' = Bumped(Activated(row, v))
    /\ Ends(a)
    /\ UNCHANGED <<tenant, revisions, policies, credentials>>

(* update_connection: for a declarative connection only the status moves   *)
(* (display name and data mode are not modelled), and public_config is     *)
(* written back as it was read.                                            *)
Rewritten(r, status, old) ==
    [r EXCEPT !.status = status, !.selected = old.selected, !.pending = old.pending]

Update(a) ==
    /\ Transaction(a, "update")
    /\ WithinBound
    /\ LiveTenant
    /\ ~ (row.status # "active" /\ request[a].status = "active")
    /\ request[a].status \in LegalTargets(row.status)
    /\ row' = Bumped(Rewritten(row, request[a].status, seen[a]))
    /\ UNCHANGED <<tenant, revisions, policies, credentials>>

(* replace_tool_policies *)
ReplacePolicies(a) ==
    /\ Transaction(a, "policies")
    /\ WithinBound
    /\ policies' = request[a].tools
    /\ row' = Bumped(row)
    /\ UNCHANGED <<tenant, revisions, credentials>>

(* replace_credentials *)
ReplaceCredentials(a) ==
    /\ Transaction(a, "credentials")
    /\ WithinBound
    /\ credentials' = request[a].secret
    /\ row' = Bumped(row)
    /\ UNCHANGED <<tenant, revisions, policies>>

-----------------------------------------------------------------------------
(* activate_openapi_connection_use_case: replace the credentials, write a  *)
(* policy for every declared tool, run a live read-only test, and activate *)
(* if nothing moved.  Each stage expects the version the stage before left. *)

Onward(a, from, to) ==
    /\ pc[a] = from
    /\ pc' = [pc EXCEPT ![a] = to]
    /\ UNCHANGED request

OnboardCredentials(a) ==
    /\ Onward(a, "analysed", "credentialed")
    /\ row # NoRow
    /\ CurrentVersion(row, seen[a].version)
    /\ WithinBound
    /\ credentials' = request[a].secret
    /\ row' = Bumped(row)
    /\ UNCHANGED <<tenant, revisions, policies, seen, tested>>

OnboardPolicies(a) ==
    /\ Onward(a, "credentialed", "configured")
    /\ row # NoRow
    /\ CurrentVersion(row, seen[a].version + 1)
    /\ WithinBound
    /\ Published(Staged(row))
    /\ policies' = Declares(Staged(row))
    /\ row' = Bumped(row)
    /\ UNCHANGED <<tenant, revisions, credentials, seen, tested>>

(* The row is read again and must be the one the policies left.            *)
OnboardRecheck(a) ==
    /\ Onward(a, "configured", "testing")
    /\ row # NoRow
    /\ CurrentVersion(row, seen[a].version + 2)
    /\ UNCHANGED <<stored, seen, tested>>

(* test_connection_use_case reads the row on its own, and after it the     *)
(* credentials; then it awaits the provider.  A test that fails is GivesUp. *)
OnboardTest(a) ==
    /\ Onward(a, "testing", "loading")
    /\ row # NoRow
    /\ Published(Managed(row))
    /\ tested' = [tested EXCEPT ![a] = [revision |-> Managed(row), secret |-> NoSecret]]
    /\ UNCHANGED <<stored, seen>>

OnboardLoad(a) ==
    /\ Onward(a, "loading", "tested")
    /\ tested' = [tested EXCEPT ![a].secret = credentials]
    /\ UNCHANGED <<stored, seen>>

(* After the await: the row is at the same version, then the policies are  *)
(* those written above, and on to the ordinary activation, which reads the *)
(* row once more and takes it at that version only.                        *)
OnboardConfirm(a) ==
    /\ Onward(a, "tested", "confirmed")
    /\ row # NoRow
    /\ CurrentVersion(row, seen[a].version + 2)
    /\ UNCHANGED <<stored, seen, tested>>

OnboardCompare(a) ==
    /\ Onward(a, "confirmed", "compared")
    /\ Published(Staged(seen[a]))
    /\ policies = Declares(Staged(seen[a]))
    /\ UNCHANGED <<stored, seen, tested>>

OnboardApprove(a) ==
    /\ pc[a] = "compared"
    /\ row # NoRow
    /\ CurrentVersion(row, seen[a].version + 2)
    /\ row.status # "active"
    /\ Published(Staged(row))
    /\ pc' = [pc EXCEPT ![a] = "read"]
    /\ request' = [request EXCEPT ![a] = [op |-> "activate", revision |-> Staged(row)]]
    /\ seen' = [seen EXCEPT ![a] = row]
    /\ UNCHANGED <<stored, tested>>

-----------------------------------------------------------------------------
(* Transactions that compare no version. *)

Disabled(r) == [r EXCEPT !.status = "disabled"]

(* disable_connection *)
Disable ==
    /\ row # NoRow
    /\ WithinBound
    /\ "disabled" \in LegalTargets(row.status)
    /\ row' = Bumped(Disabled(row))
    /\ UNCHANGED <<tenant, revisions, policies, credentials, pc, request, seen, tested>>

(* update_connection_alias, to a different alias *)
Rename ==
    /\ row # NoRow
    /\ WithinBound
    /\ row' = Bumped(row)
    /\ UNCHANGED <<tenant, revisions, policies, credentials, pc, request, seen, tested>>

(* delete_declarative_revision, of a draft or of a published revision that *)
(* neither the connection nor a service binding uses.                      *)
DeleteRevision(v) ==
    /\ row # NoRow
    /\ \/ revisions[v].status = "draft"
       \/ revisions[v].status = "published" /\ ~ IsSelected(row, v)
    /\ revisions' = [revisions EXCEPT ![v] = Absent]
    /\ UNCHANGED <<tenant, row, policies, credentials, pc, request, seen, tested>>

(* delete_connection: only the row goes. *)
DeleteConnection ==
    /\ row # NoRow
    /\ row' = NoRow
    /\ UNCHANGED <<tenant, revisions, policies, credentials, pc, request, seen, tested>>

(* admin.update_tenant *)
SwitchTenant ==
    /\ tenant # "deleted"
    /\ tenant' = IF tenant = "enabled" THEN "disabled" ELSE "enabled"
    /\ UNCHANGED <<row, revisions, policies, credentials, pc, request, seen, tested>>

(* tenant_lifecycle.retire_tenant disables what is not disabled. *)
Running(r) == r.status # "disabled"

RetireTenant ==
    /\ tenant # "deleted"
    /\ tenant' = "deleted"
    /\ IF row # NoRow /\ Running(row)
          THEN WithinBound /\ row' = Bumped(Disabled(row))
          ELSE UNCHANGED row
    /\ UNCHANGED <<revisions, policies, credentials, pc, request, seen, tested>>

Inspect(a) == InspectCredentials(a) \/ InspectPolicies(a)

OnboardReads(a) ==
    \/ OnboardRecheck(a) \/ OnboardTest(a) \/ OnboardLoad(a)
    \/ OnboardConfirm(a) \/ OnboardCompare(a)

AdminStep(a) ==
    \/ \E q \in Requests : Read(a, q)
    \/ GivesUp(a)
    \/ Import(a) \/ Publish(a)
    \/ Inspect(a) \/ Activate(a)
    \/ Update(a) \/ ReplacePolicies(a) \/ ReplaceCredentials(a)
    \/ OnboardCredentials(a) \/ OnboardPolicies(a)
    \/ OnboardReads(a) \/ OnboardApprove(a)

Next ==
    \/ \E a \in Admins : AdminStep(a)
    \/ Disable \/ Rename \/ DeleteConnection
    \/ \E v \in Revisions : DeleteRevision(v)
    \/ SwitchTenant \/ RetireTenant

Spec == Init /\ [][Next]_vars

-----------------------------------------------------------------------------
Onboarding ==
    {"analysed", "credentialed", "configured", "testing", "loading", "tested",
     "confirmed", "compared"}
Stages == {"idle", "read", "checked", "inspected"} \cup Onboarding

StoredTypeOK ==
    /\ tenant \in {"enabled", "disabled", "deleted"}
    /\ row \in Rows \cup {NoRow}
    /\ revisions \in [Revisions -> Stored]
    /\ policies \subseteq Tools
    /\ credentials \in Secrets \cup {NoSecret}

RequestTypeOK ==
    /\ pc \in [Admins -> Stages]
    /\ request \in [Admins -> Requests \cup {NoRequest}]
    /\ seen \in [Admins -> Rows \cup {NoRow}]
    /\ tested \in [Admins -> Tests \cup {NoRequest}]
    /\ \A a \in Admins :
        /\ pc[a] # "idle" => request[a] \in Requests /\ seen[a] \in Rows
        /\ pc[a] \in {"checked", "inspected"} => request[a].op = "activate"
        /\ pc[a] \in {"loading", "tested", "confirmed", "compared"} => tested[a] \in Tests
        /\ pc[a] \in Onboarding => request[a].op = "onboard"

(* Every variable has its type, and a request that is under way has a      *)
(* question and a row it read.                                             *)
TypeOK == StoredTypeOK /\ RequestTypeOK

(* A connection never points at a revision that is not published: what it  *)
(* runs and what it would activate can neither be deleted nor replaced by  *)
(* a draft under it, whatever order imports, publications, deletions and   *)
(* stale updates arrive in.                                                *)
SelectionIsPublished ==
    row # NoRow =>
        \A v \in {row.selected, row.pending} \ {NoRevision} : Published(v)

(* An active connection is whole: it runs a published revision with nothing *)
(* left pending, every tool it has a policy for is declared by that        *)
(* revision, and its credentials satisfy that revision's schema.           *)
ActiveIsConsistent ==
    row # NoRow /\ row.status = "active" =>
        /\ row.pending = NoRevision
        /\ Published(row.selected)
        /\ policies \subseteq Declares(row.selected)
        /\ credentials \in Allows(row.selected)

(* Once the tenant is deleted its connection never comes back.             *)
RetiredStaysInactive ==
    tenant = "deleted" /\ row # NoRow => row.status # "active"

(* The step that activates a connection finds a policy for exactly the     *)
(* tools of the revision it activates, although it read the policies       *)
(* before it took the lock.                                                *)
ActivationIsComplete ==
    [][row # NoRow /\ row' # NoRow /\ row.status # "active" /\ row'.status = "active"
        => policies = Declares(row'.selected)]_vars

(* Quick onboarding activates the revision and the credentials its live    *)
(* test ran with, and not ones another request put there meanwhile.        *)
TestedIsActivated ==
    [][\A a \in Admins :
        Activate(a) /\ tested[a] # NoRequest =>
            tested[a] = [revision |-> row'.selected, secret |-> credentials']]_vars

(* A config_version names one configuration: no step changes the row, the  *)
(* policies or the credentials a gateway would cache under a version       *)
(* without moving to a later version.                                      *)
VersionNamesConfiguration ==
    [][row # NoRow /\ row' # NoRow /\ <<row, policies, credentials>>' # <<row, policies, credentials>>
        => row'.version > row.version]_vars

(* The connection as SerialLifecycle sees it: without its version.         *)
Serial == INSTANCE SerialLifecycle WITH
    status   <- IF row = NoRow THEN "gone" ELSE row.status,
    selected <- IF row = NoRow THEN NoRevision ELSE row.selected,
    pending  <- IF row = NoRow THEN NoRevision ELSE row.pending

(* The comparison of versions is as good as a lock held over the whole use *)
(* case: every edit that commits is one its use case would accept if it    *)
(* began only now, whatever was imported, published, deleted, edited or    *)
(* retired since it read; and quick onboarding, whose transactions others  *)
(* may come between, makes only such edits.                                *)
EditsSerialized == Serial!SerialSpec

(* What publish_declarative_revision publishes is what activation accepts  *)
(* next: analyze_openapi_connection_use_case asserts it right after the    *)
(* publication.                                                            *)
PublishedIsStaged ==
    [][\A a \in Admins : Publish(a) => Staged(row') = request[a].revision]_vars

-----------------------------------------------------------------------------
(* Why the compare-and-set suffices: a request whose version is still the  *)
(* row's has seen the row as it is, so what it checked then still holds,   *)
(* although revisions are imported and deleted without a new version.      *)
StillHolds(a) ==
    LET q == request[a] IN
    /\ seen[a] = row
    /\ pc[a] = "analysed" => row.status # "active"
    /\ pc[a] = "read" /\ q.op = "policies" =>
            Published(Managed(row)) /\ q.tools \subseteq Declares(Managed(row))
    /\ pc[a] = "read" /\ q.op = "credentials" =>
            Published(Managed(row)) /\ q.secret \in Allows(Managed(row))
    /\ pc[a] \in {"read", "checked", "inspected"} /\ q.op = "activate" =>
            Staged(row) = q.revision
    /\ pc[a] \in {"checked", "inspected"} =>
            Published(q.revision) /\ credentials \in Allows(q.revision)
    /\ pc[a] = "inspected" => policies = Declares(q.revision)

SnapshotOf(a) ==
    pc[a] # "idle" /\ row # NoRow =>
        /\ seen[a].version <= row.version
        /\ seen[a].version = row.version => StillHolds(a)

Snapshots == \A a \in Admins : SnapshotOf(a)

(* What a use case has accepted it would accept still, for as long as the  *)
(* version is the row's: its checks read nothing that changes under a      *)
(* version.                                                                *)
AcceptedOf(a) ==
    row # NoRow =>
        /\ pc[a] \in {"analysed", "read", "checked", "inspected"} /\ seen[a].version = row.version
                => Accepted(request[a], row)
        /\ pc[a] \in Onboarding => seen[a].status # "active"

AcceptedStill == \A a \in Admins : AcceptedOf(a)
=============================================================================
