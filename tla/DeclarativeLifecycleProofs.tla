--------------------- MODULE DeclarativeLifecycleProofs ---------------------
(***************************************************************************)
(* Proofs about DeclarativeLifecycle, for any number of requests,          *)
(* revisions, documents, tools and credentials and any bound on versions.  *)
(***************************************************************************)
EXTENDS DeclarativeLifecycle, TLAPS

(* The inductive invariant.                                                *)
LifecycleInv ==
    /\ TypeOK
    /\ SelectionIsPublished
    /\ ActiveIsConsistent
    /\ RetiredStaysInactive
    /\ Snapshots

-----------------------------------------------------------------------------
(* What the helpers on rows do.                                            *)

(* Moving to the next version changes nothing else of the row.             *)
LEMMA BumpedRow ==
    ASSUME NEW r \in Rows, r.version < MaxVersion
    PROVE  /\ Bumped(r) \in Rows
           /\ Bumped(r).version = r.version + 1
           /\ Bumped(r).status = r.status
           /\ Bumped(r).selected = r.selected
           /\ Bumped(r).pending = r.pending
BY LifecycleConstants DEF Bumped, Rows

(* A disabled row keeps its revisions and its version.                     *)
LEMMA DisabledRow ==
    ASSUME NEW r \in Rows
    PROVE  /\ Disabled(r) \in Rows
           /\ Disabled(r).version = r.version
           /\ Disabled(r).status = "disabled"
           /\ Disabled(r).selected = r.selected
           /\ Disabled(r).pending = r.pending
BY DEF Disabled, Rows, Statuses

(* An update takes its status from the request and its revisions from the  *)
(* row the request read.                                                   *)
LEMMA RewrittenRow ==
    ASSUME NEW r \in Rows, NEW st \in Statuses, NEW old \in Rows
    PROVE  /\ Rewritten(r, st, old) \in Rows
           /\ Rewritten(r, st, old).version = r.version
           /\ Rewritten(r, st, old).status = st
           /\ Rewritten(r, st, old).selected = old.selected
           /\ Rewritten(r, st, old).pending = old.pending
BY DEF Rewritten, Rows

(* Publication puts the revision in one of the two slots.                  *)
LEMMA SelectingRow ==
    ASSUME NEW r \in Rows, NEW v \in Revisions
    PROVE  /\ Selecting(r, v) \in Rows
           /\ Selecting(r, v).version = r.version
           /\ Selecting(r, v).status = r.status
           /\ {Selecting(r, v).selected, Selecting(r, v).pending}
                \subseteq {r.selected, r.pending, v}
BY DEF Selecting, Rows

(* Activation installs the revision and leaves nothing pending.            *)
LEMMA ActivatedRow ==
    ASSUME NEW r \in Rows, NEW v \in Revisions
    PROVE  /\ Activated(r, v) \in Rows
           /\ Activated(r, v).version = r.version
           /\ Activated(r, v).status = "active"
           /\ Activated(r, v).selected = v
           /\ Activated(r, v).pending = NoRevision
BY DEF Activated, Rows, Statuses

(* The fields of a request, by what it asks.                               *)
LEMMA RequestFields ==
    ASSUME NEW q \in Requests
    PROVE  /\ q.op = "import" => q.revision \in Revisions /\ q.document \in Documents
           /\ q.op \in {"publish", "activate"} => q.revision \in Revisions
           /\ q.op = "update" => q.status \in Statuses
           /\ q.op = "policies" => q.tools \subseteq Tools
           /\ q.op \in {"credentials", "onboard"} => q.secret \in Secrets \cup {NoSecret}
BY DEF Requests

(* A request to activate is a request.                                     *)
LEMMA ActivateRequest ==
    ASSUME NEW v \in Revisions
    PROVE  [op |-> "activate", revision |-> v] \in Requests
BY DEF Requests

(* The tools of a published revision are tools.                            *)
LEMMA DeclaredTools ==
    ASSUME StoredTypeOK, NEW v, Published(v)
    PROVE  Declares(v) \subseteq Tools
<1>1. revisions[v] \in Stored /\ revisions[v].status = "published"
  BY DEF StoredTypeOK, Published
<1>2. revisions[v].document \in Documents
  BY <1>1 DEF Stored, Absent
<1> QED BY <1>2, LifecycleConstants DEF Declares

-----------------------------------------------------------------------------
(* Typing.                                                                 *)

(* A request that ends is idle again and remembers nothing.                *)
LEMMA EndsTyped ==
    ASSUME RequestTypeOK, NEW a \in Admins, Ends(a)
    PROVE  RequestTypeOK'
BY DEF RequestTypeOK, Ends, Stages, Onboarding

\* Reading for a request keeps the types.
LEMMA ReadTyped ==
    ASSUME TypeOK, NEW a \in Admins, NEW q \in Requests, Read(a, q)
    PROVE  TypeOK'
<1>1. StoredTypeOK'
  BY DEF TypeOK, StoredTypeOK, Read, stored
<1>2. row \in Rows
  BY DEF TypeOK, StoredTypeOK, Read
<1>3. RequestTypeOK'
  BY <1>2 DEF TypeOK, RequestTypeOK, Read, Stages, Onboarding
<1> QED BY <1>1, <1>3 DEF TypeOK

\* Inspecting only moves the request on.
LEMMA InspectFrame ==
    ASSUME TypeOK, NEW a \in Admins, Inspect(a)
    PROVE  /\ UNCHANGED stored /\ UNCHANGED <<request, seen, tested>>
           /\ pc' \in [Admins -> Stages]
           /\ \A b \in Admins : b # a => pc'[b] = pc[b]
           /\ request[a].op = "activate"
           /\ \/ pc[a] = "read" /\ pc'[a] = "checked"
              \/ pc[a] = "checked" /\ pc'[a] = "inspected"
BY DEF Inspect, InspectCredentials, InspectPolicies, TypeOK, RequestTypeOK, Stages

(* The stages of an onboarding whose credentials and policies are written. *)
Written == {"configured", "testing", "loading", "tested", "confirmed", "compared"}

\* What an onboarding reads after that changes nothing that is stored.
LEMMA OnboardReadsFrame ==
    ASSUME TypeOK, NEW a \in Admins, OnboardReads(a)
    PROVE  /\ UNCHANGED stored /\ UNCHANGED <<request, seen>>
           /\ pc' \in [Admins -> Stages]
           /\ \A b \in Admins : b # a => pc'[b] = pc[b] /\ tested'[b] = tested[b]
           /\ pc[a] \in Written
           /\ pc'[a] \in Written \ {"configured"}
BY DEF OnboardReads, OnboardRecheck, OnboardTest, OnboardLoad, OnboardConfirm, OnboardCompare,
       Onward, Written, TypeOK, RequestTypeOK, Stages, Onboarding

(* The typed facts every transaction of a request starts from.             *)
LEMMA TransactionFacts ==
    ASSUME TypeOK, NEW a \in Admins, NEW op, Transaction(a, op)
    PROVE  /\ row \in Rows
           /\ request[a] \in Requests
           /\ request[a].op = op
           /\ seen[a] \in Rows
           /\ seen[a].version = row.version
BY DEF TypeOK, StoredTypeOK, RequestTypeOK, Transaction, CurrentVersion

\* The transactions of single-transaction requests keep the types.
LEMMA TransactionsTyped ==
    ASSUME TypeOK, NEW a \in Admins,
           Import(a) \/ Publish(a) \/ Update(a) \/ ReplacePolicies(a) \/ ReplaceCredentials(a)
    PROVE  TypeOK'
<1>1. CASE Import(a)
  <2>1. revisions' \in [Revisions -> Stored]
    <3>1. request[a].revision \in Revisions /\ request[a].document \in Documents
      BY <1>1, TransactionFacts, RequestFields DEF Import
    <3> QED BY <1>1, <3>1 DEF TypeOK, StoredTypeOK, Import, Stored
  <2>2. RequestTypeOK'
    BY <1>1, EndsTyped DEF Import, Transaction, TypeOK
  <2> QED BY <1>1, <2>1, <2>2 DEF TypeOK, StoredTypeOK, Import
<1>2. CASE Publish(a)
  <2>1. request[a].revision \in Revisions /\ row \in Rows
    BY <1>2, TransactionFacts, RequestFields DEF Publish
  <2>2. row' \in Rows
    BY <1>2, <2>1, SelectingRow, BumpedRow DEF Publish, WithinBound
  <2>3. revisions' \in [Revisions -> Stored]
    BY <1>2, <2>1 DEF TypeOK, StoredTypeOK, Publish, Stored
  <2>4. RequestTypeOK'
    BY <1>2, EndsTyped DEF Publish, Transaction, TypeOK
  <2> QED BY <1>2, <2>2, <2>3, <2>4 DEF TypeOK, StoredTypeOK, Publish
<1>3. CASE Update(a)
  <2>1. /\ row \in Rows /\ seen[a] \in Rows
        /\ request[a].status \in Statuses
    BY <1>3, TransactionFacts, RequestFields DEF Update
  <2>2. row' \in Rows
    BY <1>3, <2>1, RewrittenRow, BumpedRow DEF Update, WithinBound
  <2>3. RequestTypeOK'
    BY <1>3, EndsTyped DEF Update, Transaction, TypeOK
  <2> QED BY <1>3, <2>2, <2>3 DEF TypeOK, StoredTypeOK, Update
<1>4. CASE ReplacePolicies(a)
  <2>1. row \in Rows /\ request[a].tools \subseteq Tools
    BY <1>4, TransactionFacts, RequestFields DEF ReplacePolicies
  <2>2. row' \in Rows
    BY <1>4, <2>1, BumpedRow DEF ReplacePolicies, WithinBound
  <2>3. RequestTypeOK'
    BY <1>4, EndsTyped DEF ReplacePolicies, Transaction, TypeOK
  <2> QED BY <1>4, <2>1, <2>2, <2>3 DEF TypeOK, StoredTypeOK, ReplacePolicies
<1>5. CASE ReplaceCredentials(a)
  <2>1. row \in Rows /\ request[a].secret \in Secrets \cup {NoSecret}
    BY <1>5, TransactionFacts, RequestFields DEF ReplaceCredentials
  <2>2. row' \in Rows
    BY <1>5, <2>1, BumpedRow DEF ReplaceCredentials, WithinBound
  <2>3. RequestTypeOK'
    BY <1>5, EndsTyped DEF ReplaceCredentials, Transaction, TypeOK
  <2> QED BY <1>5, <2>1, <2>2, <2>3 DEF TypeOK, StoredTypeOK, ReplaceCredentials
<1> QED BY <1>1, <1>2, <1>3, <1>4, <1>5

\* The steps of an onboarding keep the types.
LEMMA OnboardingTyped ==
    ASSUME TypeOK, NEW a \in Admins,
           \/ OnboardCredentials(a) \/ OnboardPolicies(a)
           \/ OnboardReads(a) \/ OnboardApprove(a)
    PROVE  TypeOK'
<1> USE DEF TypeOK
<1>1. CASE OnboardCredentials(a)
  <2>1. row \in Rows
    BY <1>1 DEF OnboardCredentials, StoredTypeOK
  <2>2. row' \in Rows
    BY <1>1, <2>1, BumpedRow DEF OnboardCredentials, WithinBound
  <2>3. credentials' \in Secrets \cup {NoSecret}
    BY <1>1, RequestFields DEF OnboardCredentials, Onward, RequestTypeOK, Onboarding
  <2> QED BY <1>1, <2>2, <2>3
             DEF StoredTypeOK, RequestTypeOK, OnboardCredentials, Onward, Stages, Onboarding
<1>2. CASE OnboardPolicies(a)
  <2>1. row \in Rows
    BY <1>2 DEF OnboardPolicies, StoredTypeOK
  <2>2. row' \in Rows
    BY <1>2, <2>1, BumpedRow DEF OnboardPolicies, WithinBound
  <2>3. policies' \subseteq Tools
    BY <1>2, DeclaredTools DEF OnboardPolicies
  <2> QED BY <1>2, <2>2, <2>3
             DEF StoredTypeOK, RequestTypeOK, OnboardPolicies, Onward, Stages, Onboarding
<1>3. CASE OnboardReads(a)
  <2>1. StoredTypeOK'
    BY <1>3, OnboardReadsFrame DEF StoredTypeOK, stored
  <2>2. /\ tested' \in [Admins -> Tests \cup {NoRequest}]
        /\ pc'[a] \in {"loading", "tested", "confirmed", "compared"} => tested'[a] \in Tests
    <3>1. CASE OnboardTest(a)
      <4>1. [revision |-> Managed(row), secret |-> NoSecret] \in Tests
        BY <3>1 DEF OnboardTest, Published, Tests
      <4> QED BY <3>1, <4>1 DEF OnboardTest, RequestTypeOK
    <3>2. CASE OnboardLoad(a)
      <4>1. tested[a] \in Tests
        BY <3>2 DEF OnboardLoad, Onward, RequestTypeOK
      <4>2. [tested[a] EXCEPT !.secret = credentials] \in Tests
        BY <4>1 DEF Tests, StoredTypeOK
      <4> QED BY <3>2, <4>2 DEF OnboardLoad, RequestTypeOK
    <3>3. CASE OnboardRecheck(a) \/ OnboardConfirm(a) \/ OnboardCompare(a)
      BY <3>3 DEF OnboardRecheck, OnboardConfirm, OnboardCompare, Onward, RequestTypeOK
    <3> QED BY <1>3, <3>1, <3>2, <3>3 DEF OnboardReads
  <2>3. RequestTypeOK'
    BY <1>3, <2>2, OnboardReadsFrame DEF RequestTypeOK, Written, Onboarding
  <2> QED BY <2>1, <2>3
<1>4. CASE OnboardApprove(a)
  <2>1. row \in Rows
    BY <1>4 DEF OnboardApprove, StoredTypeOK
  <2>2. [op |-> "activate", revision |-> Staged(row)] \in Requests
    BY <1>4, ActivateRequest DEF OnboardApprove, Published
  <2> QED BY <1>4, <2>1, <2>2
          DEF StoredTypeOK, RequestTypeOK, OnboardApprove, Stages, Onboarding, stored
<1> QED BY <1>1, <1>2, <1>3, <1>4

(* Every step keeps the types.                                             *)
LEMMA NextTyped ==
    ASSUME TypeOK, Next
    PROVE  TypeOK'
<1>1. ASSUME NEW a \in Admins, AdminStep(a)
      PROVE  TypeOK'
  <2>1. CASE \E q \in Requests : Read(a, q)
    BY <2>1, ReadTyped
  <2>2. CASE GivesUp(a)
    BY <2>2, EndsTyped DEF GivesUp, stored, TypeOK, StoredTypeOK
  <2>3. CASE Inspect(a)
    BY <2>3, InspectFrame DEF stored, TypeOK, StoredTypeOK, RequestTypeOK, Onboarding
  <2>4. CASE Activate(a)
    <3>1. row \in Rows /\ Staged(row) \in Revisions
      BY <2>4 DEF Activate, TypeOK, StoredTypeOK, Published
    <3>2. row' \in Rows
      BY <2>4, <3>1, ActivatedRow, BumpedRow DEF Activate, WithinBound
    <3>3. RequestTypeOK'
      BY <2>4, EndsTyped DEF Activate, TypeOK
    <3> QED BY <2>4, <3>2, <3>3 DEF Activate, TypeOK, StoredTypeOK
  <2> QED BY <1>1, <2>1, <2>2, <2>3, <2>4, TransactionsTyped, OnboardingTyped DEF AdminStep
<1>2. CASE Disable
  <2>1. row \in Rows
    BY <1>2 DEF Disable, TypeOK, StoredTypeOK
  <2>2. row' \in Rows
    BY <1>2, <2>1, DisabledRow, BumpedRow DEF Disable, WithinBound
  <2> QED BY <1>2, <2>2 DEF Disable, TypeOK, StoredTypeOK, RequestTypeOK
<1>3. CASE Rename
  <2>1. row \in Rows
    BY <1>3 DEF Rename, TypeOK, StoredTypeOK
  <2>2. row' \in Rows
    BY <1>3, <2>1, BumpedRow DEF Rename, WithinBound
  <2> QED BY <1>3, <2>2 DEF Rename, TypeOK, StoredTypeOK, RequestTypeOK
<1>4. CASE DeleteConnection
  BY <1>4 DEF DeleteConnection, TypeOK, StoredTypeOK, RequestTypeOK
<1>5. ASSUME NEW v \in Revisions, DeleteRevision(v)
      PROVE  TypeOK'
  BY <1>5 DEF DeleteRevision, TypeOK, StoredTypeOK, RequestTypeOK, Stored
<1>6. CASE SwitchTenant
  BY <1>6 DEF SwitchTenant, TypeOK, StoredTypeOK, RequestTypeOK
<1>7. CASE RetireTenant
  <2>1. row' \in Rows \cup {NoRow}
    <3>1. CASE row # NoRow /\ Running(row)
      <4>1. row \in Rows
        BY <3>1 DEF TypeOK, StoredTypeOK
      <4> QED BY <1>7, <3>1, <4>1, DisabledRow, BumpedRow DEF RetireTenant, WithinBound
    <3>2. CASE ~ (row # NoRow /\ Running(row))
      BY <1>7, <3>2 DEF RetireTenant, TypeOK, StoredTypeOK
    <3> QED BY <3>1, <3>2
  <2> QED BY <1>7, <2>1 DEF RetireTenant, TypeOK, StoredTypeOK, RequestTypeOK
<1> QED BY <1>1, <1>2, <1>3, <1>4, <1>5, <1>6, <1>7 DEF Next

\* The initial states are well typed.
LEMMA InitTyped ==
    ASSUME Init
    PROVE  TypeOK
<1>1. row \in Rows
  BY LifecycleConstants DEF Init, Rows, Statuses
<1> QED BY <1>1 DEF Init, TypeOK, StoredTypeOK, RequestTypeOK, Stored, Stages, Onboarding

(* Every variable keeps its type.                                          *)
THEOREM TypeCorrect == Spec => []TypeOK
<1>1. Init => TypeOK
  BY InitTyped
<1>2. TypeOK /\ [Next]_vars => TypeOK'
  <2>1. TypeOK /\ UNCHANGED vars => TypeOK'
    BY DEF TypeOK, StoredTypeOK, RequestTypeOK, vars
  <2> QED BY <2>1, NextTyped
<1> QED BY <1>1, <1>2, PTL DEF Spec

-----------------------------------------------------------------------------
(* Safety.                                                                 *)

Safe ==
    /\ SelectionIsPublished
    /\ ActiveIsConsistent
    /\ RetiredStaysInactive

(* What a step leaves alone when it writes neither the row nor what hangs  *)
(* from it: the revisions the row points at keep their documents.          *)
Undisturbed ==
    /\ row' = row
    /\ policies' = policies
    /\ credentials' = credentials
    /\ \A v \in Revisions : Published(v) /\ IsSelected(row, v) => revisions'[v] = revisions[v]

(* What activation and edits look at is one of the row's two revisions.    *)
LEMMA OneOfTwo ==
    /\ IsSelected(row, row.selected)
    /\ IsSelected(row, row.pending)
    /\ IsSelected(row, Staged(row))
    /\ IsSelected(row, Managed(row))
BY DEF Staged, Managed, IsSelected

\* A revision the row names survives such a step with its document.
LEMMA UndisturbedRevision ==
    ASSUME Undisturbed, NEW v, Published(v), IsSelected(row, v)
    PROVE  Published(v)' /\ Declares(v)' = Declares(v) /\ Allows(v)' = Allows(v)
BY DEF Undisturbed, Published, Declares, Allows

(* Such a step keeps the connection safe unless it revives the tenant.     *)
LEMMA UndisturbedSafe ==
    ASSUME TypeOK, Safe, Undisturbed,
           tenant' = tenant \/ (tenant # "deleted" /\ tenant' # "deleted")
    PROVE  Safe'
<1>1. SelectionIsPublished'
  BY UndisturbedRevision, OneOfTwo DEF Undisturbed, Safe, SelectionIsPublished
<1>2. ActiveIsConsistent'
  <2> SUFFICES ASSUME row # NoRow, row.status = "active"
               PROVE  /\ row.pending = NoRevision
                      /\ Published(row.selected)'
                      /\ policies \subseteq Declares(row.selected)'
                      /\ credentials \in Allows(row.selected)'
    BY DEF Undisturbed, ActiveIsConsistent
  <2>1. Published(row.selected) /\ IsSelected(row, row.selected)
    BY OneOfTwo DEF Safe, ActiveIsConsistent
  <2>2. /\ Published(row.selected)'
        /\ Declares(row.selected)' = Declares(row.selected)
        /\ Allows(row.selected)' = Allows(row.selected)
    BY <2>1, UndisturbedRevision DEF Undisturbed
  <2> QED BY <2>2 DEF Safe, ActiveIsConsistent
<1>3. RetiredStaysInactive'
  BY DEF Undisturbed, Safe, RetiredStaysInactive
<1> QED BY <1>1, <1>2, <1>3 DEF Safe

(* A request that such a step does not touch has still seen the row.       *)
LEMMA UndisturbedSnapshot ==
    ASSUME TypeOK, Undisturbed, NEW b \in Admins, SnapshotOf(b),
           pc'[b] = pc[b], request'[b] = request[b], seen'[b] = seen[b]
    PROVE  SnapshotOf(b)'
<1> SUFFICES ASSUME pc[b] # "idle", row # NoRow, seen[b].version = row.version
             PROVE  StillHolds(b)'
  BY DEF SnapshotOf, Undisturbed
<1>1. StillHolds(b)
  BY DEF SnapshotOf
<1>2. Managed(row)' = Managed(row) /\ Staged(row)' = Staged(row)
  BY DEF Undisturbed, Managed, Staged
<1>3. Published(Managed(row)) =>
        /\ Published(Managed(row))'
        /\ Declares(Managed(row))' = Declares(Managed(row))
        /\ Allows(Managed(row))' = Allows(Managed(row))
  BY <1>2, OneOfTwo, UndisturbedRevision DEF Undisturbed, Published, Declares, Allows, IsSelected
<1>4. pc[b] \in {"checked", "inspected"} =>
        /\ Published(request[b].revision)'
        /\ Declares(request[b].revision)' = Declares(request[b].revision)
        /\ Allows(request[b].revision)' = Allows(request[b].revision)
  <2> SUFFICES ASSUME pc[b] \in {"checked", "inspected"}
               PROVE  /\ Published(request[b].revision)'
                      /\ Declares(request[b].revision)' = Declares(request[b].revision)
                      /\ Allows(request[b].revision)' = Allows(request[b].revision)
    OBVIOUS
  <2>1. request[b].op = "activate"
    BY DEF TypeOK, RequestTypeOK
  <2>2. Staged(row) = request[b].revision /\ Published(request[b].revision)
    BY <1>1, <2>1 DEF StillHolds
  <2>3. IsSelected(row, request[b].revision)
    BY <2>2, OneOfTwo
  <2> QED BY <2>2, <2>3, UndisturbedRevision DEF Undisturbed, Published, Declares, Allows
<1> QED BY <1>1, <1>2, <1>3, <1>4 DEF StillHolds, Undisturbed

(* A step to a new version leaves every snapshot behind.                   *)
LEMMA BumpedSnapshots ==
    ASSUME TypeOK, Snapshots, row # NoRow, row \in Rows, row' \in Rows,
           row'.version = row.version + 1,
           \A b \in Admins : pc'[b] = "idle" \/ (pc[b] # "idle" /\ seen'[b] = seen[b])
    PROVE  Snapshots'
<1> SUFFICES ASSUME NEW b \in Admins, pc'[b] # "idle"
             PROVE  seen'[b].version <= row'.version /\ seen'[b].version # row'.version
  BY DEF Snapshots, SnapshotOf
<1>1. pc[b] # "idle" /\ seen'[b] = seen[b]
  OBVIOUS
<1>2. row # NoRow => seen[b].version <= row.version
  BY <1>1 DEF Snapshots, SnapshotOf
<1>3. seen[b].version \in Nat /\ row.version \in Nat
  BY <1>1 DEF TypeOK, RequestTypeOK, Rows
<1> QED BY <1>1, <1>2, <1>3

(* A step to a new version that keeps the status and the revisions of the  *)
(* row, and leaves the connection inactive or still whole.                 *)
LEMMA RewriteSafe ==
    ASSUME TypeOK, Safe, row # NoRow, row \in Rows, row' \in Rows,
           UNCHANGED <<tenant, revisions>>,
           row'.selected = row.selected, row'.pending = row.pending,
           row'.status = "active" =>
                /\ row.status = "active"
                /\ policies' \subseteq Declares(row.selected)
                /\ credentials' \in Allows(row.selected)
    PROVE  Safe'
<1>1. SelectionIsPublished'
  BY DEF Safe, SelectionIsPublished, Published
<1>2. ActiveIsConsistent'
  BY DEF Safe, ActiveIsConsistent, Published, Declares, Allows
<1>3. RetiredStaysInactive'
  BY DEF Safe, RetiredStaysInactive
<1> QED BY <1>1, <1>2, <1>3 DEF Safe

(* Another request is untouched by a step of a.                            *)
LEMMA EndsOthers ==
    ASSUME TypeOK, NEW a \in Admins, Ends(a), NEW b \in Admins
    PROVE  \/ pc'[b] = "idle"
           \/ pc'[b] = pc[b] /\ request'[b] = request[b] /\ seen'[b] = seen[b] /\ pc[b] # "idle"
BY DEF TypeOK, RequestTypeOK, Ends

\* Such a step that ends a request leaves the other snapshots.
LEMMA UndisturbedEnds ==
    ASSUME TypeOK, Snapshots, Undisturbed, NEW a \in Admins, Ends(a)
    PROVE  Snapshots'
<1> SUFFICES ASSUME NEW b \in Admins
             PROVE  SnapshotOf(b)'
  BY DEF Snapshots
<1>1. CASE pc'[b] = "idle"
  BY <1>1 DEF SnapshotOf
<1>2. CASE pc'[b] # "idle"
  <2>1. pc'[b] = pc[b] /\ request'[b] = request[b] /\ seen'[b] = seen[b]
    BY <1>2, EndsOthers
  <2> QED BY <2>1, UndisturbedSnapshot DEF Snapshots
<1> QED BY <1>1, <1>2

\* A step that leaves the stored state alone disturbs nothing.
LEMMA StoredUndisturbed ==
    ASSUME UNCHANGED stored
    PROVE  Undisturbed
BY DEF stored, Undisturbed

\* Reading for a request keeps the lifecycle invariant.
LEMMA ReadInv ==
    ASSUME LifecycleInv, NEW a \in Admins, NEW q \in Requests, Read(a, q)
    PROVE  Safe' /\ Snapshots'
<1>1. Undisturbed
  BY StoredUndisturbed DEF Read
<1>2. Safe'
  BY <1>1, UndisturbedSafe DEF LifecycleInv, Safe, Read, stored
<1>3. ASSUME NEW b \in Admins
      PROVE  SnapshotOf(b)'
  <2>1. CASE b # a
    <3>1. pc'[b] = pc[b] /\ request'[b] = request[b] /\ seen'[b] = seen[b]
      BY <2>1 DEF Read, LifecycleInv, TypeOK, RequestTypeOK
    <3> QED BY <1>1, <3>1, UndisturbedSnapshot DEF LifecycleInv, Snapshots
  <2>2. CASE b = a
    <3>1. /\ pc'[a] = IF q.op = "onboard" THEN "analysed" ELSE "read"
          /\ request'[a] = q /\ seen'[a] = row
          /\ UNCHANGED stored
      BY DEF Read, LifecycleInv, TypeOK, RequestTypeOK
    <3>2. row \in Rows
      BY DEF Read, LifecycleInv, TypeOK, StoredTypeOK
    <3>3. /\ q.op = "onboard" => row.status # "active"
          /\ q.op = "policies" =>
                Published(Managed(row)) /\ q.tools \subseteq Declares(Managed(row))
          /\ q.op = "credentials" =>
                Published(Managed(row)) /\ q.secret \in Allows(Managed(row))
          /\ q.op = "activate" => Staged(row) = q.revision
      BY DEF Read, Accepted
    <3>4. StillHolds(a)'
      BY <3>1, <3>3 DEF StillHolds, stored, Published, Managed, Staged, Declares, Allows
    <3>5. row.version <= row.version
      BY <3>2 DEF Rows
    <3> QED BY <2>2, <3>1, <3>4, <3>5 DEF SnapshotOf, stored
  <2> QED BY <2>1, <2>2
<1> QED BY <1>2, <1>3 DEF Snapshots

(* Publication publishes its revision and unpublishes none.                *)
LEMMA PublishedStays ==
    ASSUME revisions \in [Revisions -> Stored], NEW v \in Revisions, revisions[v] # Absent,
           revisions' = [revisions EXCEPT ![v].status = "published"]
    PROVE  Published(v)' /\ \A w \in Revisions : Published(w) => Published(w)'
<1>1. revisions[v] \in [status : {"draft", "published"}, document : Documents]
  BY DEF Stored
<1> DEFINE new == [revisions[v] EXCEPT !.status = "published"]
<1>2. new.status = "published"
  BY <1>1
<1>3. revisions' = [revisions EXCEPT ![v] = new]
  OBVIOUS
<1> HIDE DEF new
<1>4. revisions'[v] = new /\ \A w \in Revisions : w # v => revisions'[w] = revisions[w]
  BY <1>3
<1> QED BY <1>2, <1>4 DEF Published

\* The single-transaction requests keep the lifecycle invariant.
LEMMA TransactionInv ==
    ASSUME LifecycleInv, NEW a \in Admins,
           Import(a) \/ Publish(a) \/ Update(a) \/ ReplacePolicies(a) \/ ReplaceCredentials(a)
    PROVE  Safe' /\ Snapshots'
<1> USE DEF LifecycleInv
<1>0. TypeOK /\ Safe /\ Snapshots /\ TypeOK'
  BY TransactionsTyped DEF Safe
<1>1. CASE Import(a)
  <2>1. Undisturbed
    <3>1. request[a].revision \in Revisions
      BY <1>1, TransactionFacts, RequestFields DEF Import
    <3>2. revisions[request[a].revision].status # "published"
      BY <1>1 DEF Import, Absent
    <3> QED BY <1>1, <3>1, <3>2 DEF Import, Undisturbed, Published, TypeOK, StoredTypeOK
  <2>2. Safe'
    BY <1>1, <2>1, UndisturbedSafe DEF Import, Safe
  <2> QED BY <1>1, <2>1, <2>2, UndisturbedEnds DEF Import, Transaction
<1> DEFINE Outdated == \A b \in Admins : pc'[b] = "idle" \/ (pc[b] # "idle" /\ seen'[b] = seen[b])
<1>2. CASE Publish(a)
  <2>0. request[a].revision \in Revisions /\ row \in Rows /\ row # NoRow
    BY <1>2, TransactionFacts, RequestFields DEF Publish, Transaction
  <2> PICK v \in Revisions : v = request[a].revision
    BY <2>0
  <2>1. v \in Revisions /\ row \in Rows /\ row # NoRow
    BY <2>0
  <2>2. /\ row' \in Rows /\ row'.version = row.version + 1
        /\ row'.status = row.status
        /\ {row'.selected, row'.pending} \subseteq {row.selected, row.pending, v}
    <3> DEFINE chosen == Selecting(row, v)
    <3>1. /\ chosen \in Rows /\ chosen.version = row.version /\ chosen.status = row.status
          /\ {chosen.selected, chosen.pending} \subseteq {row.selected, row.pending, v}
      BY <2>1, SelectingRow
    <3>2. chosen.version < MaxVersion /\ row' = Bumped(chosen)
      BY <1>2, <3>1 DEF Publish, WithinBound
    <3> HIDE DEF chosen
    <3>3. /\ row' \in Rows /\ row'.version = chosen.version + 1 /\ row'.status = chosen.status
          /\ row'.selected = chosen.selected /\ row'.pending = chosen.pending
      BY <3>1, <3>2, BumpedRow
    <3> QED BY <3>1, <3>3
  <2>3. Published(v)' /\ \A w \in Revisions : Published(w) => Published(w)'
    <3>1. revisions \in [Revisions -> Stored]
      BY DEF TypeOK, StoredTypeOK
    <3>2. /\ revisions' = [revisions EXCEPT ![v].status = "published"]
          /\ revisions[v] # Absent
      BY <1>2 DEF Publish
    <3> QED BY <3>1, <3>2, PublishedStays, Zenon
  <2>4. SelectionIsPublished'
    BY <2>1, <2>2, <2>3 DEF SelectionIsPublished, Published, Rows
  <2>5. row.status # "active"
    BY <1>2 DEF Publish, Changeable
  <2>6. Safe'
    BY <2>2, <2>4, <2>5 DEF Safe, ActiveIsConsistent, RetiredStaysInactive
  <2>7. Outdated
    BY <1>2, EndsOthers DEF Publish, Transaction
  <2> QED BY <2>1, <2>2, <2>6, <2>7, BumpedSnapshots
<1>3. CASE Update(a)
  <2>1. /\ row \in Rows /\ row # NoRow /\ seen[a] \in Rows /\ seen[a].version = row.version
        /\ pc[a] # "idle"
        /\ request[a].status \in Statuses
    BY <1>3, TransactionFacts, RequestFields DEF Update, Transaction
  <2>2. seen[a] = row
    BY <2>1 DEF Snapshots, SnapshotOf, StillHolds
  <2>3. /\ row' \in Rows /\ row'.version = row.version + 1
        /\ row'.status = request[a].status
        /\ row'.selected = row.selected /\ row'.pending = row.pending
    BY <1>3, <2>1, <2>2, RewrittenRow, BumpedRow DEF Update, WithinBound
  <2>4. row'.status = "active" => row.status = "active"
    BY <1>3, <2>3 DEF Update
  <2>5. Safe'
    BY <1>0, <1>3, <2>1, <2>3, <2>4, RewriteSafe DEF Update, Safe, ActiveIsConsistent
  <2>6. Outdated
    BY <1>3, EndsOthers DEF Update, Transaction
  <2> QED BY <2>1, <2>3, <2>5, <2>6, BumpedSnapshots
<1>4. CASE ReplacePolicies(a)
  <2>1. /\ row \in Rows /\ row # NoRow /\ seen[a].version = row.version
        /\ pc[a] = "read" /\ request[a].op = "policies"
    BY <1>4, TransactionFacts DEF ReplacePolicies, Transaction
  <2>2. request[a].tools \subseteq Declares(Managed(row))
    BY <2>1 DEF Snapshots, SnapshotOf, StillHolds
  <2>3. /\ row' \in Rows /\ row'.version = row.version + 1 /\ row'.status = row.status
        /\ row'.selected = row.selected /\ row'.pending = row.pending
    BY <1>4, <2>1, BumpedRow DEF ReplacePolicies, WithinBound
  <2>4. row.status = "active" => policies' \subseteq Declares(row.selected)
    BY <1>4, <2>2 DEF ReplacePolicies, Managed
  <2>5. Safe'
    BY <1>0, <1>4, <2>1, <2>3, <2>4, RewriteSafe DEF ReplacePolicies, Safe, ActiveIsConsistent
  <2>6. Outdated
    BY <1>4, EndsOthers DEF ReplacePolicies, Transaction
  <2> QED BY <2>1, <2>3, <2>5, <2>6, BumpedSnapshots
<1>5. CASE ReplaceCredentials(a)
  <2>1. /\ row \in Rows /\ row # NoRow /\ seen[a].version = row.version
        /\ pc[a] = "read" /\ request[a].op = "credentials"
    BY <1>5, TransactionFacts DEF ReplaceCredentials, Transaction
  <2>2. request[a].secret \in Allows(Managed(row))
    BY <2>1 DEF Snapshots, SnapshotOf, StillHolds
  <2>3. /\ row' \in Rows /\ row'.version = row.version + 1 /\ row'.status = row.status
        /\ row'.selected = row.selected /\ row'.pending = row.pending
    BY <1>5, <2>1, BumpedRow DEF ReplaceCredentials, WithinBound
  <2>4. row.status = "active" => credentials' \in Allows(row.selected)
    BY <1>5, <2>2 DEF ReplaceCredentials, Managed
  <2>5. Safe'
    BY <1>0, <1>5, <2>1, <2>3, <2>4, RewriteSafe DEF ReplaceCredentials, Safe, ActiveIsConsistent
  <2>6. Outdated
    BY <1>5, EndsOthers DEF ReplaceCredentials, Transaction
  <2> QED BY <2>1, <2>3, <2>5, <2>6, BumpedSnapshots
<1> QED BY <1>1, <1>2, <1>3, <1>4, <1>5

\* The inspection of an activation keeps the lifecycle invariant.
LEMMA InspectInv ==
    ASSUME LifecycleInv, NEW a \in Admins, Inspect(a)
    PROVE  Safe' /\ Snapshots'
<1>0. TypeOK
  BY DEF LifecycleInv
<1>1. Undisturbed
  BY <1>0, InspectFrame, StoredUndisturbed
<1>2. Safe'
  BY <1>0, <1>1, InspectFrame, UndisturbedSafe DEF LifecycleInv, Safe, stored
<1>3. ASSUME NEW b \in Admins
      PROVE  SnapshotOf(b)'
  <2>1. CASE b # a
    <3>1. pc'[b] = pc[b] /\ request'[b] = request[b] /\ seen'[b] = seen[b]
      BY <1>0, <2>1, InspectFrame
    <3> QED BY <1>1, <3>1, UndisturbedSnapshot DEF LifecycleInv, Snapshots
  <2>2. CASE b = a
    <3>1. SnapshotOf(a) /\ pc[a] # "idle" /\ UNCHANGED <<row, request, seen>>
      BY <1>0, InspectFrame DEF LifecycleInv, Snapshots, stored
    <3>2. ASSUME StillHolds(a)
          PROVE  StillHolds(a)'
      <4>1. \A v : /\ Published(v)' <=> Published(v)
                   /\ Declares(v)' = Declares(v) /\ Allows(v)' = Allows(v)
        BY <1>0, InspectFrame DEF stored, Published, Declares, Allows
      <4>2. /\ Published(request[a].revision)
            /\ credentials \in Allows(request[a].revision)
            /\ pc'[a] = "inspected" => policies = Declares(request[a].revision)
        BY <1>0, <3>2, InspectFrame
           DEF Inspect, InspectCredentials, InspectPolicies, StillHolds
      <4>3. /\ request[a].op = "activate" /\ pc[a] \in {"read", "checked"}
            /\ pc'[a] \in {"checked", "inspected"}
            /\ UNCHANGED <<row, policies, credentials>>
        BY <1>0, InspectFrame DEF stored
      <4>4. Staged(row)' = Staged(row) /\ Staged(row) = request[a].revision
        BY <3>2, <4>3 DEF StillHolds, Staged
      <4>5. seen[a] = row
        BY <3>2 DEF StillHolds
      <4> QED BY <3>1, <4>1, <4>2, <4>3, <4>4, <4>5 DEF StillHolds
    <3> QED BY <2>2, <3>1, <3>2 DEF SnapshotOf
  <2> QED BY <2>1, <2>2
<1> QED BY <1>2, <1>3 DEF Snapshots

(* The facts activation commits under: nothing moved since they were read. *)
LEMMA ActivateFacts ==
    ASSUME LifecycleInv, NEW a \in Admins, Activate(a)
    PROVE  /\ row \in Rows /\ row # NoRow
           /\ request[a].revision \in Revisions
           /\ Published(request[a].revision)
           /\ policies = Declares(request[a].revision)
           /\ credentials \in Allows(request[a].revision)
           /\ row' \in Rows /\ row'.version = row.version + 1
           /\ row'.status = "active"
           /\ row'.selected = request[a].revision
           /\ row'.pending = NoRevision
<1>1. /\ row \in Rows /\ row # NoRow /\ pc[a] = "inspected"
      /\ seen[a].version = row.version
      /\ Published(request[a].revision) /\ request[a].revision \in Revisions
  BY DEF LifecycleInv, TypeOK, StoredTypeOK, Activate, CurrentVersion, Published
<1>2. StillHolds(a)
  BY <1>1 DEF LifecycleInv, Snapshots, SnapshotOf
<1>3. /\ Activated(row, request[a].revision) \in Rows
      /\ Activated(row, request[a].revision).version = row.version
      /\ Activated(row, request[a].revision).status = "active"
      /\ Activated(row, request[a].revision).selected = request[a].revision
      /\ Activated(row, request[a].revision).pending = NoRevision
  BY <1>1, ActivatedRow
<1>4. /\ row' \in Rows /\ row'.version = row.version + 1
      /\ row'.status = "active"
      /\ row'.selected = request[a].revision
      /\ row'.pending = NoRevision
  BY <1>1, <1>3, BumpedRow DEF Activate, WithinBound
<1> QED BY <1>1, <1>2, <1>4 DEF StillHolds

\* The activation transaction keeps the lifecycle invariant.
LEMMA ActivateInv ==
    ASSUME LifecycleInv, NEW a \in Admins, Activate(a)
    PROVE  Safe' /\ Snapshots'
<1> PICK v \in Revisions : v = request[a].revision
  BY ActivateFacts
<1>1. /\ row \in Rows /\ row # NoRow
      /\ Published(v) /\ policies = Declares(v) /\ credentials \in Allows(v)
      /\ row' \in Rows /\ row'.version = row.version + 1
      /\ row'.status = "active" /\ row'.selected = v /\ row'.pending = NoRevision
  BY ActivateFacts
<1>2. /\ UNCHANGED <<tenant, revisions, policies, credentials>>
      /\ tenant = "enabled"
      /\ Ends(a)
  BY DEF Activate, LiveTenant
<1>3. SelectionIsPublished'
  BY <1>1, <1>2 DEF SelectionIsPublished, Published
<1>4. ActiveIsConsistent'
  BY <1>1, <1>2 DEF ActiveIsConsistent, Published, Declares, Allows
<1>5. RetiredStaysInactive'
  BY <1>2 DEF RetiredStaysInactive
<1>6. Snapshots'
  <2>1. \A b \in Admins : pc'[b] = "idle" \/ (pc[b] # "idle" /\ seen'[b] = seen[b])
    BY <1>2, EndsOthers DEF LifecycleInv
  <2> QED BY <1>1, <2>1, BumpedSnapshots DEF LifecycleInv
<1> QED BY <1>3, <1>4, <1>5, <1>6 DEF Safe

\* The writing steps of an onboarding keep the lifecycle invariant.
LEMMA OnboardWritesInv ==
    ASSUME LifecycleInv, NEW a \in Admins, OnboardCredentials(a) \/ OnboardPolicies(a)
    PROVE  Safe' /\ Snapshots'
<1> USE DEF LifecycleInv
<1>0. TypeOK /\ Safe /\ Snapshots
  BY DEF Safe
<1>1. CASE OnboardCredentials(a)
  <2>1. /\ row \in Rows /\ row # NoRow /\ pc[a] = "analysed" /\ seen[a].version = row.version
    BY <1>1 DEF OnboardCredentials, Onward, CurrentVersion, TypeOK, StoredTypeOK
  <2>2. row.status # "active"
    BY <2>1 DEF Snapshots, SnapshotOf, StillHolds
  <2>3. /\ row' \in Rows /\ row'.version = row.version + 1 /\ row'.status = row.status
        /\ row'.selected = row.selected /\ row'.pending = row.pending
    BY <1>1, <2>1, BumpedRow DEF OnboardCredentials, WithinBound
  <2>4. Safe'
    BY <1>0, <1>1, <2>1, <2>2, <2>3, RewriteSafe DEF OnboardCredentials
  <2>5. \A b \in Admins : pc'[b] = "idle" \/ (pc[b] # "idle" /\ seen'[b] = seen[b])
    BY <1>1 DEF OnboardCredentials, Onward, TypeOK, RequestTypeOK
  <2> QED BY <2>1, <2>3, <2>4, <2>5, BumpedSnapshots
<1>2. CASE OnboardPolicies(a)
  <2>1. /\ row \in Rows /\ row # NoRow
        /\ policies' = Declares(Staged(row))
    BY <1>2 DEF OnboardPolicies, TypeOK, StoredTypeOK
  <2>2. row.status = "active" => Staged(row) = row.selected
    BY <2>1 DEF ActiveIsConsistent, Staged
  <2>3. /\ row' \in Rows /\ row'.version = row.version + 1 /\ row'.status = row.status
        /\ row'.selected = row.selected /\ row'.pending = row.pending
    BY <1>2, <2>1, BumpedRow DEF OnboardPolicies, WithinBound
  <2>4. row.status = "active" =>
            policies' \subseteq Declares(row.selected) /\ credentials' \in Allows(row.selected)
    BY <1>2, <2>1, <2>2 DEF OnboardPolicies, ActiveIsConsistent
  <2>5. Safe'
    BY <1>0, <1>2, <2>1, <2>3, <2>4, RewriteSafe DEF OnboardPolicies
  <2>6. \A b \in Admins : pc'[b] = "idle" \/ (pc[b] # "idle" /\ seen'[b] = seen[b])
    BY <1>2 DEF OnboardPolicies, Onward, TypeOK, RequestTypeOK
  <2> QED BY <2>1, <2>3, <2>5, <2>6, BumpedSnapshots
<1> QED BY <1>1, <1>2

\* The reading steps of an onboarding keep the lifecycle invariant.
LEMMA OnboardReadsInv ==
    ASSUME LifecycleInv, NEW a \in Admins,
           OnboardReads(a) \/ OnboardApprove(a)
    PROVE  Safe' /\ Snapshots'
<1>0. TypeOK
  BY DEF LifecycleInv
<1>1. UNCHANGED stored
  BY <1>0, OnboardReadsFrame DEF OnboardApprove
<1>2. Undisturbed
  BY <1>1, StoredUndisturbed
<1>3. Safe'
  BY <1>1, <1>2, UndisturbedSafe DEF LifecycleInv, Safe, stored
<1>4. ASSUME NEW b \in Admins
      PROVE  SnapshotOf(b)'
  <2>1. CASE b # a
    <3>1. pc'[b] = pc[b] /\ request'[b] = request[b] /\ seen'[b] = seen[b]
      BY <1>0, <2>1, OnboardReadsFrame DEF OnboardApprove, TypeOK, RequestTypeOK
    <3> QED BY <1>2, <3>1, UndisturbedSnapshot DEF LifecycleInv, Snapshots
  <2>2. CASE b = a /\ OnboardReads(a)
    <3>1. /\ pc'[a] \in Written /\ pc[a] # "idle"
          /\ request'[a] = request[a] /\ seen'[a] = seen[a] /\ row' = row
      BY <1>0, <1>1, <2>2, OnboardReadsFrame DEF stored, Written
    <3>2. SnapshotOf(a)
      BY DEF LifecycleInv, Snapshots
    <3>3. StillHolds(a) => StillHolds(a)'
      BY <3>1 DEF StillHolds, Written
    <3> QED BY <2>2, <3>1, <3>2, <3>3 DEF SnapshotOf
  <2>3. CASE b = a /\ OnboardApprove(a)
    <3>1. /\ pc'[a] = "read" /\ seen'[a] = row /\ row' = row
          /\ request'[a] = [op |-> "activate", revision |-> Staged(row)]
      BY <1>1, <2>3 DEF OnboardApprove, stored, LifecycleInv, TypeOK, RequestTypeOK
    <3>2. StillHolds(a)'
      BY <3>1 DEF StillHolds, Staged
    <3>3. row # NoRow => row.version <= row.version
      BY DEF LifecycleInv, TypeOK, StoredTypeOK, Rows
    <3> QED BY <2>3, <3>1, <3>2, <3>3 DEF SnapshotOf
  <2> QED BY <2>1, <2>2, <2>3
<1> QED BY <1>3, <1>4 DEF Snapshots

\* Every step of a request keeps the lifecycle invariant.
LEMMA AdminInv ==
    ASSUME LifecycleInv, NEW a \in Admins, AdminStep(a)
    PROVE  Safe' /\ Snapshots'
<1>1. CASE GivesUp(a)
  <2>1. Undisturbed
    BY <1>1, StoredUndisturbed DEF GivesUp
  <2>2. Safe'
    BY <1>1, <2>1, UndisturbedSafe DEF LifecycleInv, Safe, GivesUp, stored
  <2> QED BY <1>1, <2>1, <2>2, UndisturbedEnds DEF LifecycleInv, GivesUp
<1> QED
  BY <1>1, ReadInv, TransactionInv, InspectInv, ActivateInv, OnboardWritesInv,
     OnboardReadsInv DEF AdminStep

\* Every step outside a request keeps the lifecycle invariant.
LEMMA OtherInv ==
    ASSUME LifecycleInv,
           \/ Disable \/ Rename \/ DeleteConnection
           \/ \E v \in Revisions : DeleteRevision(v)
           \/ SwitchTenant \/ RetireTenant
    PROVE  Safe' /\ Snapshots'
<1> USE DEF LifecycleInv
<1>0. TypeOK /\ Safe /\ Snapshots
  BY DEF Safe
<1> DEFINE Same == UNCHANGED <<pc, request, seen>>
<1>a. ASSUME Undisturbed, Same
      PROVE  Snapshots'
  BY <1>a, UndisturbedSnapshot DEF Snapshots
<1>b. ASSUME row # NoRow, row \in Rows, row' \in Rows, row'.version = row.version + 1, Same
      PROVE  Snapshots'
  BY <1>0, <1>b, BumpedSnapshots DEF Snapshots, SnapshotOf
<1>1. CASE Disable
  <2>1. row \in Rows /\ row # NoRow
    BY <1>1 DEF Disable, TypeOK, StoredTypeOK
  <2>2. /\ row' \in Rows /\ row'.version = row.version + 1 /\ row'.status = "disabled"
        /\ row'.selected = row.selected /\ row'.pending = row.pending
    BY <1>1, <2>1, DisabledRow, BumpedRow DEF Disable, WithinBound
  <2>3. Safe'
    BY <1>0, <1>1, <2>1, <2>2, RewriteSafe DEF Disable
  <2> QED BY <1>1, <1>b, <2>1, <2>2, <2>3 DEF Disable
<1>2. CASE Rename
  <2>1. row \in Rows /\ row # NoRow
    BY <1>2 DEF Rename, TypeOK, StoredTypeOK
  <2>2. /\ row' \in Rows /\ row'.version = row.version + 1 /\ row'.status = row.status
        /\ row'.selected = row.selected /\ row'.pending = row.pending
    BY <1>2, <2>1, BumpedRow DEF Rename, WithinBound
  <2>3. Safe'
    BY <1>0, <1>2, <2>1, <2>2, RewriteSafe DEF Rename, ActiveIsConsistent
  <2> QED BY <1>2, <1>b, <2>1, <2>2, <2>3 DEF Rename
<1>3. CASE DeleteConnection
  BY <1>3 DEF DeleteConnection, Safe, SelectionIsPublished, ActiveIsConsistent,
              RetiredStaysInactive, Snapshots, SnapshotOf
<1>4. ASSUME NEW v \in Revisions, DeleteRevision(v)
      PROVE  Safe' /\ Snapshots'
  <2>1. ~ (Published(v) /\ IsSelected(row, v))
    BY <1>4 DEF DeleteRevision, Published
  <2>2. Undisturbed
    BY <1>4, <2>1 DEF DeleteRevision, Undisturbed, TypeOK, StoredTypeOK
  <2>3. Safe'
    BY <1>0, <1>4, <2>2, UndisturbedSafe DEF DeleteRevision
  <2> QED BY <1>4, <1>a, <2>2, <2>3 DEF DeleteRevision
<1>5. CASE SwitchTenant
  <2>1. Undisturbed
    BY <1>5 DEF SwitchTenant, Undisturbed
  <2>2. tenant # "deleted" /\ tenant' # "deleted"
    BY <1>5 DEF SwitchTenant
  <2>3. Safe'
    BY <1>0, <2>1, <2>2, UndisturbedSafe
  <2> QED BY <1>5, <1>a, <2>1, <2>3 DEF SwitchTenant
<1>6. CASE RetireTenant
  <2>1. CASE row # NoRow /\ Running(row)
    <3>1. row \in Rows
      BY <2>1 DEF TypeOK, StoredTypeOK
    <3>2. /\ row' \in Rows /\ row'.version = row.version + 1 /\ row'.status = "disabled"
          /\ row'.selected = row.selected /\ row'.pending = row.pending
      BY <1>6, <2>1, <3>1, DisabledRow, BumpedRow DEF RetireTenant, WithinBound
    <3>3. revisions' = revisions
      BY <1>6 DEF RetireTenant
    <3>4. Safe'
      <4>1. SelectionIsPublished'
        BY <2>1, <3>2, <3>3 DEF SelectionIsPublished, Published
      <4>2. ActiveIsConsistent' /\ RetiredStaysInactive'
        BY <3>2 DEF ActiveIsConsistent, RetiredStaysInactive
      <4> QED BY <4>1, <4>2 DEF Safe
    <3> QED BY <1>6, <1>b, <2>1, <3>1, <3>2, <3>4 DEF RetireTenant
  <2>2. CASE ~ (row # NoRow /\ Running(row))
    <3>1. row' = row /\ UNCHANGED <<revisions, policies, credentials, pc, request, seen>>
      BY <1>6, <2>2 DEF RetireTenant
    <3>2. Undisturbed
      BY <3>1 DEF Undisturbed
    <3>3. row # NoRow => row.status # "active"
      BY <2>2 DEF Running
    <3>4. Safe'
      BY <3>1, <3>3 DEF Safe, SelectionIsPublished, ActiveIsConsistent,
                        RetiredStaysInactive, Published
    <3> QED BY <1>a, <3>1, <3>2, <3>4
  <2> QED BY <2>1, <2>2
<1> QED BY <1>1, <1>2, <1>3, <1>4, <1>5, <1>6

\* Every step keeps the lifecycle invariant.
LEMMA NextInv ==
    ASSUME LifecycleInv, [Next]_vars
    PROVE  LifecycleInv'
<1>1. CASE Next
  <2>1. TypeOK'
    BY <1>1, NextTyped DEF LifecycleInv
  <2>2. Safe' /\ Snapshots'
    BY <1>1, AdminInv, OtherInv DEF Next
  <2> QED BY <2>1, <2>2 DEF LifecycleInv, Safe
<1>2. CASE UNCHANGED vars
  <2>1. UNCHANGED stored /\ UNCHANGED <<pc, request, seen>>
    BY <1>2 DEF vars, stored
  <2>2. Undisturbed
    BY <2>1, StoredUndisturbed
  <2>3. TypeOK'
    BY <1>2 DEF LifecycleInv, TypeOK, StoredTypeOK, RequestTypeOK, vars
  <2>4. Safe'
    BY <2>1, <2>2, UndisturbedSafe DEF LifecycleInv, Safe, stored
  <2>5. Snapshots'
    BY <2>1, <2>2, UndisturbedSnapshot DEF LifecycleInv, Snapshots
  <2> QED BY <2>3, <2>4, <2>5 DEF LifecycleInv, Safe
<1> QED BY <1>1, <1>2

\* The lifecycle invariant holds initially.
LEMMA InitInv ==
    ASSUME Init
    PROVE  LifecycleInv
<1>1. TypeOK
  BY InitTyped
<1>2. SelectionIsPublished /\ ActiveIsConsistent /\ RetiredStaysInactive
  BY DEF Init, SelectionIsPublished, ActiveIsConsistent, RetiredStaysInactive
<1>3. Snapshots
  BY DEF Init, Snapshots, SnapshotOf
<1> QED BY <1>1, <1>2, <1>3 DEF LifecycleInv

\* The lifecycle invariant holds in every reachable state.
LEMMA Invariance == Spec => []LifecycleInv
BY InitInv, NextInv, PTL DEF Spec

-----------------------------------------------------------------------------
(* Theorems.                                                               *)

(* What a connection runs or would activate is always published, and so    *)
(* neither deletable nor replaceable.                                      *)
THEOREM SelectionSafe == Spec => []SelectionIsPublished
<1>1. LifecycleInv => SelectionIsPublished
  BY DEF LifecycleInv
<1> QED BY <1>1, Invariance, PTL

(* An active connection runs a published revision with tools and           *)
(* credentials of that very revision.                                      *)
THEOREM ActiveSafe == Spec => []ActiveIsConsistent
<1>1. LifecycleInv => ActiveIsConsistent
  BY DEF LifecycleInv
<1> QED BY <1>1, Invariance, PTL

(* A deleted tenant's connection never becomes active again.               *)
THEOREM RetirementSafe == Spec => []RetiredStaysInactive
<1>1. LifecycleInv => RetiredStaysInactive
  BY DEF LifecycleInv
<1> QED BY <1>1, Invariance, PTL

(* Only the activation transaction makes a connection active.              *)
LEMMA OnlyActivation ==
    ASSUME LifecycleInv, Next, row # NoRow, row' # NoRow,
           row.status # "active", row'.status = "active"
    PROVE  \E a \in Admins : Activate(a)
<1>1. row \in Rows
  BY DEF LifecycleInv, TypeOK, StoredTypeOK
<1>2. ASSUME NEW a \in Admins, AdminStep(a)
      PROVE  Activate(a)
  <2>1. ~ (Publish(a) \/ ReplacePolicies(a) \/ ReplaceCredentials(a)
            \/ OnboardCredentials(a) \/ OnboardPolicies(a))
    <3>1. Bumped(row).status = row.status \/ ~ WithinBound
      BY <1>1, BumpedRow DEF WithinBound
    <3>2. ~ Publish(a)
      <4> SUFFICES ASSUME Publish(a)
                   PROVE  FALSE
        OBVIOUS
      <4>1. request[a].revision \in Revisions
        BY TransactionFacts, RequestFields DEF LifecycleInv, Publish
      <4>2. /\ Selecting(row, request[a].revision) \in Rows
            /\ Selecting(row, request[a].revision).version < MaxVersion
            /\ Selecting(row, request[a].revision).status = row.status
        BY <1>1, <4>1, SelectingRow DEF Publish, WithinBound
      <4> QED BY <4>2, BumpedRow DEF Publish
    <3> QED BY <3>1, <3>2 DEF ReplacePolicies, ReplaceCredentials,
                              OnboardCredentials, OnboardPolicies
  <2>2. ~ Update(a)
    <3> SUFFICES ASSUME Update(a)
                 PROVE  FALSE
      OBVIOUS
    <3>1. request[a].status \in Statuses /\ seen[a] \in Rows
      BY TransactionFacts, RequestFields DEF LifecycleInv, Update
    <3>2. /\ Rewritten(row, request[a].status, seen[a]) \in Rows
          /\ Rewritten(row, request[a].status, seen[a]).version < MaxVersion
          /\ Rewritten(row, request[a].status, seen[a]).status = request[a].status
      BY <1>1, <3>1, RewrittenRow DEF Update, WithinBound
    <3> QED BY <3>2, BumpedRow DEF Update
  <2>3. row' # row
    OBVIOUS
  <2> QED BY <1>2, <2>1, <2>2, <2>3, InspectFrame, OnboardReadsFrame
          DEF LifecycleInv, AdminStep, Read, GivesUp, Import, OnboardApprove, stored
<1>3. ~ (Disable \/ RetireTenant)
  <2>1. ~ WithinBound \/ Bumped(Disabled(row)).status = "disabled"
    BY <1>1, DisabledRow, BumpedRow DEF WithinBound
  <2> QED BY <2>1 DEF Disable, RetireTenant
<1>4. ~ Rename
  BY <1>1, BumpedRow DEF Rename, WithinBound
<1>5. ~ (DeleteConnection \/ SwitchTenant \/ \E v \in Revisions : DeleteRevision(v))
  BY DEF DeleteConnection, SwitchTenant, DeleteRevision
<1> QED BY <1>2, <1>3, <1>4, <1>5 DEF Next

(* Activation finds a policy for exactly the tools of its revision.        *)
THEOREM ActivationComplete == Spec => ActivationIsComplete
<1>1. LifecycleInv /\ [Next]_vars =>
        [row # NoRow /\ row' # NoRow /\ row.status # "active" /\ row'.status = "active"
            => policies = Declares(row'.selected)]_vars
  <2> SUFFICES ASSUME LifecycleInv, Next, row # NoRow, row' # NoRow,
                      row.status # "active", row'.status = "active"
               PROVE  policies = Declares(row'.selected)
    OBVIOUS
  <2>1. PICK a \in Admins : Activate(a)
    BY OnlyActivation
  <2> QED BY <2>1, ActivateFacts DEF Declares
<1> QED BY <1>1, Invariance, PTL DEF Spec, ActivationIsComplete

-----------------------------------------------------------------------------
(* The version as the name of a configuration.                             *)

\* The next version of a row that moved on keeps its number.
LEMMA BumpedVersion ==
    ASSUME NEW r \in Rows, NEW s \in Rows, s.version = r.version, r.version < MaxVersion
    PROVE  Bumped(s) \in Rows /\ Bumped(s).version = r.version + 1
BY BumpedRow

(* A step of a request either leaves the configuration alone or moves the  *)
(* row to its next version.                                                *)
LEMMA AdminMoves ==
    ASSUME TypeOK, NEW a \in Admins, AdminStep(a)
    PROVE  \/ UNCHANGED <<row, policies, credentials>>
           \/ row \in Rows /\ row' \in Rows /\ row'.version = row.version + 1
<1> DEFINE Moves == row \in Rows /\ row' \in Rows /\ row'.version = row.version + 1
<1>1. ASSUME row # NoRow
      PROVE  row \in Rows
  BY <1>1 DEF TypeOK, StoredTypeOK
<1>2. CASE Publish(a)
  <2>1. row \in Rows /\ request[a].revision \in Revisions
    BY <1>2, TransactionFacts, RequestFields DEF Publish
  <2>2. /\ Selecting(row, request[a].revision) \in Rows
        /\ Selecting(row, request[a].revision).version = row.version
    BY <2>1, SelectingRow
  <2> QED BY <1>2, <2>1, <2>2, BumpedVersion DEF Publish, WithinBound
<1>3. CASE Activate(a)
  <2>1. row \in Rows /\ request[a].revision \in Revisions
    BY <1>1, <1>3 DEF Activate, Published
  <2>2. /\ Activated(row, request[a].revision) \in Rows
        /\ Activated(row, request[a].revision).version = row.version
    BY <2>1, ActivatedRow
  <2> QED BY <1>3, <2>1, <2>2, BumpedVersion DEF Activate, WithinBound
<1>4. CASE Update(a)
  <2>1. row \in Rows /\ request[a].status \in Statuses /\ seen[a] \in Rows
    BY <1>4, TransactionFacts, RequestFields DEF Update
  <2>2. /\ Rewritten(row, request[a].status, seen[a]) \in Rows
        /\ Rewritten(row, request[a].status, seen[a]).version = row.version
    BY <2>1, RewrittenRow
  <2> QED BY <1>4, <2>1, <2>2, BumpedVersion DEF Update, WithinBound
<1>5. CASE \/ ReplacePolicies(a) \/ ReplaceCredentials(a)
           \/ OnboardCredentials(a) \/ OnboardPolicies(a)
  <2>1. row \in Rows /\ row.version < MaxVersion /\ row' = Bumped(row)
    BY <1>1, <1>5 DEF ReplacePolicies, ReplaceCredentials, Transaction,
                      OnboardCredentials, OnboardPolicies, WithinBound
  <2> QED BY <2>1, BumpedVersion
<1>6. CASE \/ \E q \in Requests : Read(a, q)
           \/ GivesUp(a) \/ Import(a) \/ Inspect(a)
           \/ OnboardReads(a) \/ OnboardApprove(a)
  BY <1>6, InspectFrame, OnboardReadsFrame DEF Read, GivesUp, Import, OnboardApprove, stored
<1> QED BY <1>2, <1>3, <1>4, <1>5, <1>6 DEF AdminStep

(* Every step that leaves the connection there does.                       *)
LEMMA StepMoves ==
    ASSUME TypeOK, Next, row' # NoRow
    PROVE  \/ UNCHANGED <<row, policies, credentials>>
           \/ row \in Rows /\ row' \in Rows /\ row'.version = row.version + 1
<1>1. CASE Disable \/ Rename
  <2>1. row \in Rows /\ row.version < MaxVersion
    BY <1>1 DEF Disable, Rename, WithinBound, TypeOK, StoredTypeOK
  <2> QED BY <1>1, <2>1, DisabledRow, BumpedVersion DEF Disable, Rename
<1>2. CASE RetireTenant
  <2>1. CASE row # NoRow /\ Running(row)
    <3>1. row \in Rows /\ row.version < MaxVersion /\ row' = Bumped(Disabled(row))
      BY <1>2, <2>1 DEF RetireTenant, WithinBound, TypeOK, StoredTypeOK
    <3> QED BY <3>1, DisabledRow, BumpedVersion
  <2>2. CASE ~ (row # NoRow /\ Running(row))
    BY <1>2, <2>2 DEF RetireTenant
  <2> QED BY <2>1, <2>2
<1>3. CASE SwitchTenant \/ \E v \in Revisions : DeleteRevision(v)
  BY <1>3 DEF SwitchTenant, DeleteRevision
<1>4. ~ DeleteConnection
  BY DEF DeleteConnection
<1> QED BY <1>1, <1>2, <1>3, <1>4, AdminMoves DEF Next

\* A connection that is gone stays gone.
LEMMA GoneStays ==
    ASSUME TypeOK, Next, row = NoRow
    PROVE  row' = NoRow
BY InspectFrame, OnboardReadsFrame
   DEF Next, AdminStep, Read, GivesUp, Import, Publish, Activate, Update,
       ReplacePolicies, ReplaceCredentials, Transaction, OnboardCredentials,
       OnboardPolicies, OnboardApprove, Disable, Rename,
       DeleteConnection, DeleteRevision, SwitchTenant, RetireTenant, stored

(* No step changes the row, the policies or the credentials under the      *)
(* version a gateway may have cached them by.                              *)
THEOREM VersionsName == Spec => VersionNamesConfiguration
<1>1. LifecycleInv /\ [Next]_vars =>
        [row # NoRow /\ row' # NoRow
            /\ <<row, policies, credentials>>' # <<row, policies, credentials>>
            => row'.version > row.version]_vars
  <2> SUFFICES ASSUME LifecycleInv, Next, row' # NoRow,
                      <<row, policies, credentials>>' # <<row, policies, credentials>>
               PROVE  row'.version > row.version
    OBVIOUS
  <2>1. row \in Rows /\ row' \in Rows /\ row'.version = row.version + 1
    BY StepMoves DEF LifecycleInv
  <2> QED BY <2>1 DEF Rows
<1> QED BY <1>1, Invariance, PTL DEF Spec, VersionNamesConfiguration

-----------------------------------------------------------------------------
(* Quick onboarding activates what it tested.  The stages before the test  *)
(* check their version only when they act, so the argument runs along the  *)
(* versions: a request that acts at the version it counts on finds the row *)
(* and the credentials as its test did.                                    *)

(* The versions each stage has made, and what the test ran with for as     *)
(* long as the version it counts on is the row's.                          *)
TestFollows(a) ==
    /\ tested[a] # NoRequest =>
            pc[a] \in {"loading", "tested", "confirmed", "compared"}
                     \cup {"read", "checked", "inspected"}
    /\ row # NoRow =>
        /\ pc[a] = "credentialed" => seen[a].version < row.version
        /\ pc[a] \in Written => seen[a].version + 1 < row.version
        /\ pc[a] = "loading" /\ row.version = seen[a].version + 2 =>
                tested[a].revision = Managed(row)
        /\ pc[a] \in {"tested", "confirmed", "compared"} /\ row.version = seen[a].version + 2 =>
                tested[a] = [revision |-> Managed(row), secret |-> credentials]
        /\ pc[a] \in {"read", "checked", "inspected"} /\ tested[a] # NoRequest
             /\ row.version = seen[a].version =>
                /\ request[a].op = "activate"
                /\ tested[a] = [revision |-> request[a].revision, secret |-> credentials]

TestsFollow == \A a \in Admins : TestFollows(a)

(* What a step of another request leaves of a request.                     *)
Bystander(b) ==
    /\ pc'[b] = pc[b] /\ request'[b] = request[b]
    /\ seen'[b] = seen[b] /\ tested'[b] = tested[b]

\* A step of one request leaves the other requests as they are.
LEMMA AdminBystanders ==
    ASSUME TypeOK, NEW a \in Admins, AdminStep(a), NEW b \in Admins, b # a
    PROVE  Bystander(b)
BY InspectFrame, OnboardReadsFrame
   DEF AdminStep, Read, GivesUp, Import, Publish, Activate, Update, ReplacePolicies,
       ReplaceCredentials, Transaction, Ends, Onward, OnboardCredentials, OnboardPolicies,
       OnboardApprove, Bystander, TypeOK, RequestTypeOK

(* A request whose own state a step leaves alone keeps its test: the       *)
(* configuration is as it was, or the version it counts on has passed.     *)
LEMMA BystanderFollows ==
    ASSUME LifecycleInv, NEW b \in Admins, TestFollows(b), Next, Bystander(b)
    PROVE  TestFollows(b)'
<1>1. CASE row' = NoRow
  BY <1>1 DEF TestFollows, Bystander, Written
<1>2. CASE row' # NoRow
  <2>1. row # NoRow
    BY <1>2, GoneStays DEF LifecycleInv
  <2>2. CASE UNCHANGED <<row, policies, credentials>>
    <3>1. Managed(row)' = Managed(row)
      BY <2>2 DEF Managed, Staged
    <3> QED BY <2>2, <3>1 DEF TestFollows, Bystander
  <2>3. CASE row \in Rows /\ row' \in Rows /\ row'.version = row.version + 1
    <3>1. row.version \in Nat
      BY <2>3 DEF Rows
    <3>2. pc[b] # "idle" => seen[b].version \in Nat /\ seen[b].version <= row.version
      BY <2>1 DEF LifecycleInv, TypeOK, RequestTypeOK, Rows, Snapshots, SnapshotOf
    <3> QED BY <2>1, <2>3, <3>1, <3>2 DEF TestFollows, Bystander, Written
  <2> QED BY <1>2, <2>2, <2>3, StepMoves DEF LifecycleInv
<1> QED BY <1>1, <1>2

\* A request that ends has no test.
LEMMA EndedFollows ==
    ASSUME TypeOK, NEW a \in Admins, Ends(a)
    PROVE  TestFollows(a)'
BY DEF TypeOK, RequestTypeOK, Ends, TestFollows, Written

(* The steps of an onboarding count their versions and take the test along. *)
LEMMA OnboardingFollows ==
    ASSUME LifecycleInv, NEW a \in Admins, TestFollows(a),
           \/ OnboardCredentials(a) \/ OnboardPolicies(a)
           \/ OnboardReads(a) \/ OnboardApprove(a)
    PROVE  TestFollows(a)'
<1>0. TypeOK
  BY DEF LifecycleInv
<1>a. ASSUME row # NoRow
      PROVE  row \in Rows /\ row.version \in Nat
  BY <1>0, <1>a DEF TypeOK, StoredTypeOK, Rows
<1>b. pc[a] # "idle" /\ seen[a] \in Rows /\ seen[a].version \in Nat
  <2>1. pc[a] # "idle"
    BY <1>0, OnboardReadsFrame
       DEF OnboardCredentials, OnboardPolicies, OnboardApprove, Onward, Written
  <2> QED BY <1>0, <2>1 DEF TypeOK, RequestTypeOK, Rows
<1>1. CASE OnboardCredentials(a) \/ OnboardPolicies(a)
  <2>1. row # NoRow /\ row' = Bumped(row) /\ row.version < MaxVersion
    BY <1>1 DEF OnboardCredentials, OnboardPolicies, WithinBound
  <2>2. row' \in Rows /\ row'.version = row.version + 1
    BY <1>a, <2>1, BumpedVersion
  <2>3. /\ seen'[a] = seen[a] /\ tested'[a] = tested[a] /\ tested[a] = NoRequest
        /\ \/ pc'[a] = "credentialed" /\ row.version = seen[a].version
           \/ pc'[a] = "configured" /\ row.version = seen[a].version + 1
    BY <1>0, <1>1 DEF OnboardCredentials, OnboardPolicies, Onward, CurrentVersion, TestFollows,
                TypeOK, RequestTypeOK
  <2> QED BY <1>a, <1>b, <2>1, <2>2, <2>3 DEF TestFollows, Written
<1>2. CASE OnboardReads(a)
  <2>1. /\ UNCHANGED <<row, credentials>> /\ seen'[a] = seen[a]
        /\ pc[a] \in Written /\ pc'[a] \in Written \ {"configured"}
        /\ Managed(row)' = Managed(row)
    BY <1>0, <1>2, OnboardReadsFrame DEF stored, Managed, Staged
  <2>2. row # NoRow => seen[a].version + 1 < row.version
    BY <2>1 DEF TestFollows
  <2>3. CASE OnboardRecheck(a)
    <3>1. pc'[a] = "testing" /\ tested'[a] = NoRequest
      BY <1>0, <2>3 DEF OnboardRecheck, Onward, TestFollows, TypeOK, RequestTypeOK
    <3> QED BY <2>1, <2>2, <3>1 DEF TestFollows
  <2>4. CASE OnboardTest(a)
    <3>1. pc'[a] = "loading" /\ tested'[a] = [revision |-> Managed(row), secret |-> NoSecret]
      BY <1>0, <2>4 DEF OnboardTest, Onward, TypeOK, RequestTypeOK
    <3> QED BY <2>1, <2>2, <3>1 DEF TestFollows
  <2>5. CASE OnboardLoad(a)
    <3>1. /\ pc[a] = "loading" /\ tested[a] \in Tests
          /\ pc'[a] = "tested" /\ tested'[a] = [tested[a] EXCEPT !.secret = credentials]
      BY <1>0, <2>5 DEF OnboardLoad, Onward, TypeOK, RequestTypeOK
    <3>2. tested'[a] = [revision |-> tested[a].revision, secret |-> credentials]
      BY <3>1 DEF Tests
    <3>3. row # NoRow /\ row.version = seen[a].version + 2 => tested[a].revision = Managed(row)
      BY <3>1 DEF TestFollows
    <3> QED BY <2>1, <2>2, <3>1, <3>2, <3>3 DEF TestFollows
  <2>6. CASE OnboardConfirm(a) \/ OnboardCompare(a)
    <3>1. /\ pc[a] \in {"tested", "confirmed"} /\ pc'[a] \in {"confirmed", "compared"}
          /\ tested'[a] = tested[a]
      BY <1>0, <2>6 DEF OnboardConfirm, OnboardCompare, Onward, TypeOK, RequestTypeOK
    <3> QED BY <2>1, <2>2, <3>1 DEF TestFollows
  <2> QED BY <1>2, <2>3, <2>4, <2>5, <2>6 DEF OnboardReads
<1>3. CASE OnboardApprove(a)
  <2>1. tested[a] = [revision |-> Managed(row), secret |-> credentials]
    BY <1>3 DEF OnboardApprove, CurrentVersion, TestFollows
  <2>2. Managed(row) = Staged(row)
    BY <1>3 DEF OnboardApprove, Managed
  <2>3. /\ pc'[a] = "read" /\ tested'[a] = tested[a] /\ credentials' = credentials
        /\ request'[a] = [op |-> "activate", revision |-> Staged(row)]
    BY <1>0, <1>3 DEF OnboardApprove, stored, TypeOK, RequestTypeOK
  <2> QED BY <2>1, <2>2, <2>3 DEF TestFollows, Written
<1> QED BY <1>1, <1>2, <1>3

\* Every step of a request keeps every request's test.
LEMMA AdminFollows ==
    ASSUME LifecycleInv, TestsFollow, NEW a \in Admins, AdminStep(a)
    PROVE  TestsFollow'
<1>0. Next
  BY DEF Next
<1>1. \A b \in Admins : b # a => Bystander(b)
  BY AdminBystanders DEF LifecycleInv
<1>2. \A b \in Admins : b # a => TestFollows(b)'
  BY <1>0, <1>1, BystanderFollows DEF TestsFollow
<1>3. TestFollows(a)'
  <2>1. CASE \E q \in Requests : Read(a, q)
    <3>1. /\ pc'[a] \in {"analysed", "read"}
          /\ tested'[a] = tested[a] /\ tested[a] = NoRequest
      BY <2>1 DEF Read, TestsFollow, TestFollows, LifecycleInv, TypeOK, RequestTypeOK
    <3> QED BY <3>1 DEF TestFollows, Written
  <2>2. CASE Inspect(a)
    <3>1. /\ pc[a] \in {"read", "checked"} /\ pc'[a] \in {"checked", "inspected"}
          /\ UNCHANGED <<row, credentials, request, seen, tested>>
      BY <2>2, InspectFrame DEF stored, LifecycleInv
    <3> QED BY <3>1 DEF TestsFollow, TestFollows, Written
  <2>3. CASE \/ GivesUp(a) \/ Import(a) \/ Publish(a) \/ Activate(a)
             \/ Update(a) \/ ReplacePolicies(a) \/ ReplaceCredentials(a)
    <3>1. Ends(a)
      BY <2>3 DEF GivesUp, Import, Publish, Activate, Update, ReplacePolicies,
                  ReplaceCredentials, Transaction
    <3> QED BY <3>1, EndedFollows DEF LifecycleInv
  <2> QED BY <2>1, <2>2, <2>3, OnboardingFollows DEF TestsFollow, AdminStep
<1> QED BY <1>2, <1>3 DEF TestsFollow

\* Every step keeps every request's test.
LEMMA FollowsNext ==
    ASSUME LifecycleInv, TestsFollow, [Next]_vars
    PROVE  TestsFollow'
<1>1. CASE \E a \in Admins : AdminStep(a)
  BY <1>1, AdminFollows
<1>2. CASE \/ Disable \/ Rename \/ DeleteConnection
           \/ \E v \in Revisions : DeleteRevision(v)
           \/ SwitchTenant \/ RetireTenant
  <2>1. Next
    BY <1>2 DEF Next
  <2>2. \A b \in Admins : Bystander(b)
    BY <1>2 DEF Disable, Rename, DeleteConnection, DeleteRevision, SwitchTenant,
                RetireTenant, Bystander
  <2> QED BY <2>1, <2>2, BystanderFollows DEF TestsFollow
<1>3. CASE UNCHANGED vars
  BY <1>3 DEF vars, TestsFollow, TestFollows, Written, Managed, Staged
<1> QED BY <1>1, <1>2, <1>3 DEF Next

\* The test of every request is followed in every reachable state.
LEMMA FollowsHolds == Spec => [](LifecycleInv /\ TestsFollow)
<1>1. Init => LifecycleInv /\ TestsFollow
  BY InitInv DEF Init, TestsFollow, TestFollows, Written
<1>2. LifecycleInv /\ TestsFollow /\ [Next]_vars => LifecycleInv' /\ TestsFollow'
  BY NextInv, FollowsNext
<1> QED BY <1>1, <1>2, PTL DEF Spec

(* The activation that ends a quick onboarding installs the revision and   *)
(* finds the credentials its live test ran with.                           *)
THEOREM OnboardingActivatesTested == Spec => TestedIsActivated
<1>1. LifecycleInv /\ TestsFollow /\ [Next]_vars =>
        [\A a \in Admins : Activate(a) /\ tested[a] # NoRequest =>
            tested[a] = [revision |-> row'.selected, secret |-> credentials']]_vars
  <2> SUFFICES ASSUME LifecycleInv, TestsFollow,
                      NEW a \in Admins, Activate(a), tested[a] # NoRequest
               PROVE  tested[a] = [revision |-> row'.selected, secret |-> credentials']
    OBVIOUS
  <2>1. row'.selected = request[a].revision
    BY ActivateFacts
  <2>2. /\ pc[a] = "inspected" /\ row # NoRow /\ row.version = seen[a].version
        /\ credentials' = credentials
    BY DEF Activate, CurrentVersion
  <2>3. tested[a] = [revision |-> request[a].revision, secret |-> credentials]
    BY <2>2 DEF TestsFollow, TestFollows
  <2> QED BY <2>1, <2>2, <2>3
<1> QED BY <1>1, FollowsHolds, PTL DEF Spec, TestedIsActivated

-----------------------------------------------------------------------------
(* No update is lost.                                                      *)

(* The versioned transaction of a request that commits finds the row as    *)
(* the request has read it, whatever ran in between: an edit written back  *)
(* from what was read undoes nobody else's.                                *)
THEOREM NoLostUpdate ==
    Spec => [][\A a \in Admins :
                  Publish(a) \/ Update(a) \/ ReplacePolicies(a) \/ ReplaceCredentials(a)
                    \/ Activate(a) => seen[a] = row]_vars
<1>1. ASSUME LifecycleInv, NEW a \in Admins,
             Publish(a) \/ Update(a) \/ ReplacePolicies(a) \/ ReplaceCredentials(a)
               \/ Activate(a)
      PROVE  seen[a] = row
  <2>1. pc[a] # "idle" /\ row # NoRow /\ seen[a].version = row.version
    BY <1>1 DEF Publish, Update, ReplacePolicies, ReplaceCredentials, Transaction,
                Activate, CurrentVersion
  <2> QED BY <1>1, <2>1 DEF LifecycleInv, Snapshots, SnapshotOf, StillHolds
<1>2. LifecycleInv /\ [Next]_vars =>
        [\A a \in Admins :
            Publish(a) \/ Update(a) \/ ReplacePolicies(a) \/ ReplaceCredentials(a)
              \/ Activate(a) => seen[a] = row]_vars
  BY <1>1
<1> QED BY <1>2, Invariance, PTL DEF Spec

-----------------------------------------------------------------------------
(* A quick onboarding that is approved was undivided.                      *)

(* What the first two transactions of the onboarding of a leave.           *)
LeftAsEdited(a) ==
    /\ credentials = request[a].secret
    /\ row.status = seen[a].status
    /\ row.selected = seen[a].selected
    /\ row.pending = seen[a].pending

(* The row is as the onboarding left it for as long as its version is.     *)
EditsStandOf(a) ==
    row # NoRow =>
        /\ pc[a] = "credentialed" /\ row.version = seen[a].version + 1 => LeftAsEdited(a)
        /\ pc[a] \in Written /\ row.version = seen[a].version + 2
                => LeftAsEdited(a)

EditsStand == \A a \in Admins : EditsStandOf(a)

(* A step of somebody else leaves the edits or moves past their version.   *)
LEMMA BystanderStands ==
    ASSUME LifecycleInv, NEW b \in Admins, TestFollows(b), EditsStandOf(b), Next, Bystander(b)
    PROVE  EditsStandOf(b)'
<1> SUFFICES ASSUME row' # NoRow
             PROVE  EditsStandOf(b)'
  BY DEF EditsStandOf
<1>1. row # NoRow
  BY GoneStays DEF LifecycleInv
<1>2. CASE UNCHANGED <<row, policies, credentials>>
  BY <1>1, <1>2 DEF EditsStandOf, LeftAsEdited, Bystander
<1>3. CASE row \in Rows /\ row' \in Rows /\ row'.version = row.version + 1
  <2>1. row.version \in Nat
    BY <1>3 DEF Rows
  <2>2. pc[b] # "idle" => seen[b].version \in Nat
    BY DEF LifecycleInv, TypeOK, RequestTypeOK, Rows
  <2> QED BY <1>1, <1>3, <2>1, <2>2 DEF EditsStandOf, TestFollows, Bystander, Written
<1> QED BY <1>2, <1>3, StepMoves DEF LifecycleInv

(* The steps of an onboarding make the edits and leave them.               *)
LEMMA OnboardingStands ==
    ASSUME LifecycleInv, NEW a \in Admins, EditsStandOf(a),
           OnboardCredentials(a) \/ OnboardPolicies(a) \/ OnboardReads(a)
    PROVE  EditsStandOf(a)'
<1>0. TypeOK
  BY DEF LifecycleInv
<1>1. CASE OnboardCredentials(a) \/ OnboardPolicies(a)
  <2>0. row # NoRow /\ row \in Rows
    BY <1>0, <1>1 DEF OnboardCredentials, OnboardPolicies, TypeOK, StoredTypeOK
  <2>1. row' = Bumped(row) /\ row.version < MaxVersion
    BY <1>1 DEF OnboardCredentials, OnboardPolicies, WithinBound
  <2>2. /\ row'.status = row.status /\ row'.selected = row.selected
        /\ row'.pending = row.pending
    BY <2>0, <2>1, BumpedRow
  <2>3. seen'[a] = seen[a] /\ request'[a] = request[a] /\ pc[a] \in {"analysed", "credentialed"}
    BY <1>1 DEF OnboardCredentials, OnboardPolicies, Onward
  <2>4. LeftAsEdited(a)'
    <3>1. CASE OnboardCredentials(a)
      <4>1. seen[a] = row
        BY <2>0, <3>1 DEF OnboardCredentials, Onward, CurrentVersion, LifecycleInv,
                          Snapshots, SnapshotOf, StillHolds
      <4>2. credentials' = request[a].secret
        BY <3>1 DEF OnboardCredentials
      <4> QED BY <2>2, <2>3, <4>1, <4>2 DEF LeftAsEdited
    <3>2. CASE OnboardPolicies(a)
      <4>1. pc[a] = "credentialed" /\ row.version = seen[a].version + 1
            /\ credentials' = credentials
        BY <3>2 DEF OnboardPolicies, Onward, CurrentVersion
      <4>2. LeftAsEdited(a)
        BY <2>0, <4>1 DEF EditsStandOf
      <4> QED BY <2>2, <2>3, <4>1, <4>2 DEF LeftAsEdited
    <3> QED BY <1>1, <3>1, <3>2
  <2> QED BY <2>4 DEF EditsStandOf
<1>2. CASE OnboardReads(a)
  <2>1. /\ pc[a] \in Written /\ pc'[a] \in Written
        /\ UNCHANGED <<row, credentials, request, seen>>
    BY <1>0, <1>2, OnboardReadsFrame DEF stored
  <2> QED BY <2>1 DEF EditsStandOf, LeftAsEdited, Written
<1> QED BY <1>1, <1>2

\* Every step leaves the edits of every onboarding standing.
LEMMA StandsNext ==
    ASSUME LifecycleInv, TestsFollow, EditsStand, [Next]_vars
    PROVE  EditsStand'
<1>1. ASSUME NEW a \in Admins, AdminStep(a), NEW b \in Admins
      PROVE  EditsStandOf(b)'
  <2>1. CASE b # a
    <3>1. Next
      BY <1>1 DEF Next
    <3>2. Bystander(b)
      BY <1>1, <2>1, AdminBystanders DEF LifecycleInv
    <3> QED BY <3>1, <3>2, BystanderStands DEF TestsFollow, EditsStand
  <2>2. CASE b = a /\ (OnboardCredentials(a) \/ OnboardPolicies(a) \/ OnboardReads(a))
    BY <2>2, OnboardingStands DEF EditsStand
  <2>3. CASE b = a /\ ~ (OnboardCredentials(a) \/ OnboardPolicies(a) \/ OnboardReads(a))
    <3>1. pc'[a] \in {"idle", "analysed", "read", "checked", "inspected"}
      BY <1>1, <2>3, InspectFrame
         DEF AdminStep, Read, GivesUp, Import, Publish, Activate, Update, ReplacePolicies,
             ReplaceCredentials, Transaction, Ends, OnboardApprove, LifecycleInv, TypeOK,
             RequestTypeOK
    <3> QED BY <2>3, <3>1 DEF EditsStandOf, Written
  <2> QED BY <2>1, <2>2, <2>3
<1>2. CASE \/ Disable \/ Rename \/ DeleteConnection
           \/ \E v \in Revisions : DeleteRevision(v)
           \/ SwitchTenant \/ RetireTenant
  <2>1. Next
    BY <1>2 DEF Next
  <2>2. \A b \in Admins : Bystander(b)
    BY <1>2 DEF Disable, Rename, DeleteConnection, DeleteRevision, SwitchTenant,
                RetireTenant, Bystander
  <2> QED BY <2>1, <2>2, BystanderStands DEF TestsFollow, EditsStand
<1>3. CASE UNCHANGED vars
  BY <1>3 DEF vars, EditsStand, EditsStandOf, LeftAsEdited, Written
<1> QED BY <1>1, <1>2, <1>3 DEF Next, EditsStand

(* Where quick onboarding approves, nobody has come between its stages:    *)
(* the credentials are the ones it brought, the connection has the status  *)
(* and the revisions it analysed, and its test ran with just these.        *)
THEOREM OnboardingUndivided ==
    Spec => [][\A a \in Admins : OnboardApprove(a) =>
                  /\ LeftAsEdited(a)
                  /\ tested[a] = [revision |-> Staged(seen[a]),
                                  secret |-> request[a].secret]]_vars
<1>1. Init => EditsStand
  BY DEF Init, EditsStand, EditsStandOf, Written
<1>2. LifecycleInv /\ TestsFollow /\ EditsStand /\ [Next]_vars => EditsStand'
  BY StandsNext
<1>3. ASSUME LifecycleInv, TestsFollow, EditsStand, NEW a \in Admins, OnboardApprove(a)
      PROVE  /\ LeftAsEdited(a)
             /\ tested[a] = [revision |-> Staged(seen[a]), secret |-> request[a].secret]
  <2>1. /\ pc[a] = "compared" /\ row # NoRow /\ row.version = seen[a].version + 2
        /\ row.status # "active"
    BY <1>3 DEF OnboardApprove, CurrentVersion
  <2>2. LeftAsEdited(a)
    BY <1>3, <2>1 DEF EditsStand, EditsStandOf, Written
  <2>3. tested[a] = [revision |-> Managed(row), secret |-> credentials]
    BY <1>3, <2>1 DEF TestsFollow, TestFollows
  <2>4. Managed(row) = Staged(seen[a])
    BY <2>1, <2>2 DEF Managed, Staged, LeftAsEdited
  <2> QED BY <2>2, <2>3, <2>4 DEF LeftAsEdited
<1>4. LifecycleInv /\ TestsFollow /\ EditsStand /\ [Next]_vars =>
        [\A a \in Admins : OnboardApprove(a) =>
            /\ LeftAsEdited(a)
            /\ tested[a] = [revision |-> Staged(seen[a]), secret |-> request[a].secret]]_vars
  BY <1>3
<1> QED BY <1>1, <1>2, <1>4, FollowsHolds, PTL DEF Spec

-----------------------------------------------------------------------------
(* Every edit is as good as serial.                                        *)

(* Under one version no revision that the row names changes.               *)
LEMMA StepUndisturbs ==
    ASSUME LifecycleInv, Next, row' # NoRow, UNCHANGED <<row, policies, credentials>>
    PROVE  Undisturbed
<1>0. row \in Rows /\ row.version \in Nat /\ revisions \in [Revisions -> Stored]
  BY DEF LifecycleInv, TypeOK, StoredTypeOK, Rows
<1> SUFFICES ASSUME NEW v \in Revisions, Published(v), IsSelected(row, v)
             PROVE  revisions'[v] = revisions[v]
  BY DEF Undisturbed
<1>1. ASSUME NEW a \in Admins, Import(a)
      PROVE  revisions'[v] = revisions[v]
  BY <1>0, <1>1 DEF Import, Published, Absent
<1>2. ~ \E a \in Admins : Publish(a)
  <2> SUFFICES ASSUME NEW a \in Admins, Publish(a)
               PROVE  FALSE
    OBVIOUS
  <2>1. request[a].revision \in Revisions
    BY TransactionFacts, RequestFields DEF LifecycleInv, Publish
  <2>2. row'.version = row.version + 1
    BY <1>0, <2>1, SelectingRow, BumpedVersion DEF Publish, WithinBound
  <2> QED BY <1>0, <2>2
<1>3. ASSUME NEW w \in Revisions, DeleteRevision(w)
      PROVE  revisions'[v] = revisions[v]
  BY <1>0, <1>3 DEF DeleteRevision, Published
<1>4. UNCHANGED revisions \/ (\E a \in Admins : Import(a) \/ Publish(a))
        \/ \E w \in Revisions : DeleteRevision(w)
  BY InspectFrame, OnboardReadsFrame
     DEF LifecycleInv, Next, AdminStep, Read, GivesUp, Activate, Update, ReplacePolicies,
         ReplaceCredentials, OnboardCredentials, OnboardPolicies, OnboardApprove, Disable,
         Rename, DeleteConnection, SwitchTenant, RetireTenant, stored
<1> QED BY <1>1, <1>2, <1>3, <1>4

\* What was accepted is accepted after a step that disturbs nothing.
LEMMA UndisturbedAccepted ==
    ASSUME Undisturbed, NEW q \in Requests, Accepted(q, row)
    PROVE  Accepted(q, row)'
<1>1. Managed(row)' = Managed(row) /\ Staged(row)' = Staged(row)
  BY DEF Undisturbed, Managed, Staged
<1>2. \A v \in {row.selected, Staged(row), Managed(row)} : Published(v) =>
        Published(v)' /\ Declares(v)' = Declares(v) /\ Allows(v)' = Allows(v)
  BY UndisturbedRevision, OneOfTwo
<1>3. q.op \in {"import", "publish", "activate", "update", "policies", "credentials", "onboard"}
  BY DEF Requests
<1>4. CASE q.op \in {"import", "publish"}
  BY <1>4 DEF Accepted, Undisturbed, Changeable
<1>5. CASE q.op = "activate"
  BY <1>1, <1>2, <1>5 DEF Accepted, Undisturbed, Published
<1>6. CASE q.op = "update"
  BY <1>2, <1>6 DEF Accepted, Undisturbed, Published
<1>7. CASE q.op = "policies"
  BY <1>1, <1>2, <1>7 DEF Accepted, Published, Declares
<1>8. CASE q.op = "credentials"
  BY <1>1, <1>2, <1>8 DEF Accepted, Published, Allows
<1>9. CASE q.op = "onboard"
  BY <1>1, <1>2, <1>9 DEF Accepted, Undisturbed, Published, Allows
<1> QED BY <1>3, <1>4, <1>5, <1>6, <1>7, <1>8, <1>9

\* A step of somebody else leaves what a use case has accepted, or a new version.
LEMMA BystanderAccepted ==
    ASSUME LifecycleInv, NEW b \in Admins, AcceptedOf(b), Next, Bystander(b)
    PROVE  AcceptedOf(b)'
<1> SUFFICES ASSUME row' # NoRow
             PROVE  AcceptedOf(b)'
  BY DEF AcceptedOf
<1>1. row # NoRow
  BY GoneStays DEF LifecycleInv
<1>2. pc[b] # "idle" => request[b] \in Requests /\ seen[b].version \in Nat
                        /\ seen[b].version <= row.version
  BY <1>1 DEF LifecycleInv, TypeOK, RequestTypeOK, Rows, Snapshots, SnapshotOf
<1>3. pc'[b] \in Onboarding => seen'[b].status # "active"
  BY <1>1 DEF AcceptedOf, Bystander
<1>4. CASE UNCHANGED <<row, policies, credentials>>
  <2> SUFFICES ASSUME pc[b] \in {"analysed", "read", "checked", "inspected"},
                      seen[b].version = row.version
               PROVE  Accepted(request[b], row)'
    BY <1>3, <1>4 DEF AcceptedOf, Bystander
  <2>1. PICK q \in Requests : q = request[b]
    BY <1>2
  <2>2. Accepted(q, row)
    BY <1>1, <2>1 DEF AcceptedOf
  <2>3. Accepted(q, row)'
    BY <1>4, <2>2, StepUndisturbs, UndisturbedAccepted
  <2>4. request'[b] = q
    BY <2>1 DEF Bystander
  <2> QED BY <2>3, <2>4
<1>5. CASE row \in Rows /\ row' \in Rows /\ row'.version = row.version + 1
  <2>1. row.version \in Nat
    BY <1>5 DEF Rows
  <2>2. pc'[b] # "idle" => seen'[b].version # row'.version
    BY <1>2, <1>5, <2>1 DEF Bystander
  <2> QED BY <1>3, <2>2 DEF AcceptedOf
<1> QED BY <1>4, <1>5, StepMoves DEF LifecycleInv

\* The steps of a use case keep what it has accepted.
LEMMA OwnAccepted ==
    ASSUME LifecycleInv, NEW a \in Admins, AcceptedOf(a), AdminStep(a)
    PROVE  AcceptedOf(a)'
<1>1. ASSUME NEW q \in Requests, Read(a, q)
      PROVE  AcceptedOf(a)'
  <2>1. /\ Accepted(q, row) /\ row' = row /\ revisions' = revisions
        /\ seen'[a] = row /\ request'[a] = q
        /\ pc'[a] = IF q.op = "onboard" THEN "analysed" ELSE "read"
    BY <1>1 DEF Read, stored, LifecycleInv, TypeOK, RequestTypeOK
  <2>2. Accepted(q, row)'
    BY <2>1 DEF Accepted, Published, Declares, Allows, Managed, Staged, Changeable
  <2>3. pc'[a] \in Onboarding => q.op = "onboard"
    BY <2>1 DEF Onboarding
  <2>4. q.op = "onboard" => row.status # "active"
    BY <2>1 DEF Accepted
  <2> QED BY <2>1, <2>2, <2>3, <2>4 DEF AcceptedOf
<1>2. CASE Inspect(a)
  <2>1. /\ pc[a] \in {"read", "checked"} /\ pc'[a] \in {"checked", "inspected"}
        /\ UNCHANGED <<request, seen, row, revisions>>
    BY <1>2, InspectFrame DEF stored, LifecycleInv
  <2>2. Accepted(request[a], row)' <=> Accepted(request[a], row)
    BY <2>1 DEF Accepted, Published, Declares, Allows, Managed, Staged, Changeable
  <2> QED BY <2>1, <2>2 DEF AcceptedOf, Onboarding
<1>3. CASE OnboardCredentials(a) \/ OnboardPolicies(a) \/ OnboardReads(a)
  <2>1. /\ pc'[a] \in Written \cup {"credentialed"}
        /\ pc[a] \in Onboarding /\ seen'[a] = seen[a] /\ (row # NoRow \/ row' = row)
    BY <1>3, OnboardReadsFrame
       DEF OnboardCredentials, OnboardPolicies, Onward, Written, Onboarding, stored,
           LifecycleInv, TypeOK, RequestTypeOK
  <2> QED BY <2>1 DEF AcceptedOf, Written
<1>4. CASE OnboardApprove(a)
  <2>1. /\ pc'[a] = "read" /\ UNCHANGED <<row, revisions>>
        /\ request'[a] = [op |-> "activate", revision |-> Staged(row)]
        /\ row.status # "active" /\ Published(Staged(row))
    BY <1>4 DEF OnboardApprove, stored, LifecycleInv, TypeOK, RequestTypeOK
  <2>2. request'[a].op = "activate" /\ request'[a].revision = Staged(row)
    BY <2>1
  <2>3. Accepted(request[a], row)'
    BY <2>1, <2>2 DEF Accepted, Published, Staged
  <2> QED BY <2>1, <2>3 DEF AcceptedOf, Onboarding
<1>5. CASE \/ GivesUp(a) \/ Import(a) \/ Publish(a) \/ Activate(a)
           \/ Update(a) \/ ReplacePolicies(a) \/ ReplaceCredentials(a)
  <2>1. pc'[a] = "idle"
    BY <1>5 DEF GivesUp, Import, Publish, Activate, Update, ReplacePolicies,
                ReplaceCredentials, Transaction, Ends, LifecycleInv, TypeOK, RequestTypeOK
  <2> QED BY <2>1 DEF AcceptedOf, Onboarding
<1> QED BY <1>1, <1>2, <1>3, <1>4, <1>5 DEF AdminStep

\* Every step keeps what every use case has accepted.
LEMMA AcceptedNext ==
    ASSUME LifecycleInv, AcceptedStill, [Next]_vars
    PROVE  AcceptedStill'
<1>1. ASSUME NEW a \in Admins, AdminStep(a)
      PROVE  AcceptedStill'
  <2>1. Next
    BY <1>1 DEF Next
  <2>2. \A b \in Admins : b # a => Bystander(b)
    BY <1>1, AdminBystanders DEF LifecycleInv
  <2> QED BY <1>1, <2>1, <2>2, BystanderAccepted, OwnAccepted DEF AcceptedStill
<1>2. CASE \/ Disable \/ Rename \/ DeleteConnection
           \/ \E v \in Revisions : DeleteRevision(v)
           \/ SwitchTenant \/ RetireTenant
  <2>1. Next
    BY <1>2 DEF Next
  <2>2. \A b \in Admins : Bystander(b)
    BY <1>2 DEF Disable, Rename, DeleteConnection, DeleteRevision, SwitchTenant,
                RetireTenant, Bystander
  <2> QED BY <2>1, <2>2, BystanderAccepted DEF AcceptedStill
<1>3. CASE UNCHANGED vars
  <2>1. ASSUME NEW b \in Admins
        PROVE  Accepted(request[b], row)' <=> Accepted(request[b], row)
    <3>1. request'[b] = request[b] /\ row' = row /\ revisions' = revisions
      BY <1>3 DEF vars
    <3> QED BY <3>1 DEF Accepted, Published, Declares, Allows, Managed, Staged, Changeable
  <2> QED BY <1>3, <2>1 DEF vars, AcceptedStill, AcceptedOf
<1> QED BY <1>1, <1>2, <1>3 DEF Next

(* What the refinement rests on: the lifecycle, the edits of an onboarding *)
(* and what has been accepted.                                             *)
SerialInv == LifecycleInv /\ TestsFollow /\ EditsStand /\ AcceptedStill

LEMMA SerialInvHolds == Spec => []SerialInv
<1>1. Init => SerialInv
  BY InitInv DEF Init, SerialInv, TestsFollow, TestFollows, EditsStand, EditsStandOf,
                 AcceptedStill, AcceptedOf, Onboarding, Written
<1>2. SerialInv /\ [Next]_vars => SerialInv'
  BY NextInv, FollowsNext, StandsNext, AcceptedNext DEF SerialInv
<1> QED BY <1>1, <1>2, PTL DEF Spec

-----------------------------------------------------------------------------
(* DeclarativeLifecycle implements SerialLifecycle.                        *)

\* A row that is there is what SerialLifecycle sees.
LEMMA SerialView ==
    ASSUME row # NoRow
    PROVE  /\ Serial!Installable = Staged(row)
           /\ Serial!Governing = Managed(row)
           /\ Serial!Open <=> Changeable(row)
BY DEF Serial!Installable, Serial!Governing, Serial!Open, Staged, Managed, Changeable

LEMMA SerialRevisions ==
    /\ Serial!Missing = Absent
    /\ \A v : /\ Serial!Usable(v) <=> Published(v)
              /\ Serial!Declared(v) = Declares(v)
              /\ Serial!Acceptable(v) = Allows(v)
BY DEF Serial!Missing, Absent, Serial!Usable, Serial!Declared, Serial!Acceptable,
       Published, Declares, Allows

\* A new version alone is nothing that SerialLifecycle sees.
LEMMA SerialSame ==
    ASSUME row # NoRow, row' # NoRow, row'.status = row.status,
           row'.selected = row.selected, row'.pending = row.pending
    PROVE  UNCHANGED Serial!connection
BY DEF Serial!connection

\* Adding and publishing a revision.
LEMMA RevisionRefines ==
    ASSUME SerialInv, NEW a \in Admins, Import(a) \/ Publish(a)
    PROVE  Serial!SerialNext
<1> DEFINE v == request[a].revision
           d == request[a].document
<1>0. LifecycleInv /\ TypeOK
  BY DEF SerialInv, LifecycleInv
<1>1. CASE Import(a)
  <2>1. v \in Revisions /\ d \in Documents /\ row # NoRow /\ row' = row
    BY <1>0, <1>1, TransactionFacts, RequestFields DEF Import, Transaction
  <2>2. Serial!AddRevision(v, d)
    BY <1>1, <2>1, SerialView, SerialRevisions
       DEF Import, Serial!AddRevision, Serial!connection
  <2> QED BY <2>1, <2>2 DEF Serial!SerialNext
<1>2. CASE Publish(a)
  <2>1. v \in Revisions /\ row \in Rows /\ row # NoRow
    BY <1>0, <1>2, TransactionFacts, RequestFields DEF Publish, Transaction
  <2>2. /\ Selecting(row, v) \in Rows
        /\ Selecting(row, v).version = row.version
        /\ Selecting(row, v).status = row.status
    BY <2>1, SelectingRow
  <2>3. /\ row.status = "draft" => Selecting(row, v).selected = v
                                   /\ Selecting(row, v).pending = row.pending
        /\ row.status # "draft" => Selecting(row, v).pending = v
                                   /\ Selecting(row, v).selected = row.selected
    BY <2>1 DEF Selecting, Rows
  <2>4. /\ row' \in Rows
        /\ row'.status = row.status
        /\ row'.selected = Selecting(row, v).selected
        /\ row'.pending = Selecting(row, v).pending
    BY <1>2, <2>2, BumpedRow DEF Publish, WithinBound
  <2>5. row' # NoRow
    BY <2>4, LifecycleConstants
  <2>6. Serial!PublishRevision(v)
    BY <1>2, <2>1, <2>3, <2>4, <2>5, SerialView, SerialRevisions
       DEF Publish, Serial!PublishRevision
  <2> QED BY <2>1, <2>6 DEF Serial!SerialNext
<1> QED BY <1>1, <1>2

\* Activation finds what the connection needs to go into service.
LEMMA ActivateRefines ==
    ASSUME SerialInv, NEW a \in Admins, Activate(a)
    PROVE  Serial!SerialNext
<1>1. /\ row # NoRow /\ Staged(row) = request[a].revision /\ Changeable(row)
      /\ tenant = "enabled"
      /\ UNCHANGED <<tenant, revisions, policies, credentials>>
  BY DEF Activate, LiveTenant
<1>2. /\ Published(Staged(row)) /\ policies = Declares(Staged(row))
      /\ credentials \in Allows(Staged(row))
      /\ row' # NoRow /\ row'.status = "active"
      /\ row'.selected = Staged(row) /\ row'.pending = NoRevision
  BY <1>1, ActivateFacts, LifecycleConstants DEF SerialInv
<1>3. Serial!GoActive
  BY <1>1, <1>2, SerialView, SerialRevisions DEF Serial!GoActive
<1> QED BY <1>3 DEF Serial!SerialNext

\* What a use case that acts at its version has accepted.
LEMMA ActsAccepted ==
    ASSUME SerialInv, NEW a \in Admins, NEW op, Transaction(a, op)
    PROVE  /\ row # NoRow /\ row \in Rows
           /\ request[a] \in Requests /\ request[a].op = op
           /\ seen[a] = row
           /\ Accepted(request[a], row)
<1>1. /\ row \in Rows /\ request[a] \in Requests /\ request[a].op = op
      /\ row # NoRow /\ pc[a] = "read" /\ seen[a].version = row.version
  BY TransactionFacts DEF SerialInv, LifecycleInv, Transaction
<1>2. Accepted(request[a], row)
  BY <1>1 DEF SerialInv, AcceptedStill, AcceptedOf
<1>3. seen[a] = row
  BY <1>1 DEF SerialInv, LifecycleInv, Snapshots, SnapshotOf, StillHolds
<1> QED BY <1>1, <1>2, <1>3

\* An edit of the status writes back what the row has.
LEMMA UpdateRefines ==
    ASSUME SerialInv, NEW a \in Admins, Update(a)
    PROVE  Serial!SerialNext
<1> DEFINE s == request[a].status
<1>1. /\ row # NoRow /\ row \in Rows /\ seen[a] = row /\ s \in Statuses
      /\ Published(row.selected)
  BY ActsAccepted, RequestFields DEF Update, Accepted
<1>2. /\ Rewritten(row, s, row) \in Rows
      /\ Rewritten(row, s, row).version = row.version
      /\ Rewritten(row, s, row).status = s
      /\ Rewritten(row, s, row).selected = row.selected
      /\ Rewritten(row, s, row).pending = row.pending
  BY <1>1 DEF Rewritten, Rows
<1>3. /\ row' \in Rows /\ row'.status = s
      /\ row'.selected = row.selected /\ row'.pending = row.pending
  BY <1>1, <1>2, BumpedRow DEF Update, WithinBound
<1>4. row' # NoRow
  BY <1>3, LifecycleConstants
<1>5. /\ s = "active" => row.status = "active"
      /\ s = "error" => row.status \in {"active", "error"}
      /\ s = "draft" => row.status # "active"
  BY <1>1 DEF Update, LegalTargets, Rows, Statuses
<1>6. Serial!SetStatus(s)
  <2>1. tenant = "enabled" /\ UNCHANGED <<tenant, revisions, policies, credentials>>
    BY DEF Update, LiveTenant
  <2>2. row.status # "gone"
    BY <1>1 DEF Rows, Statuses
  <2> QED BY <1>1, <1>3, <1>4, <1>5, <2>1, <2>2, SerialRevisions DEF Serial!SetStatus
<1> QED BY <1>1, <1>6 DEF Serial!SerialNext, Statuses

\* A bumped row is the same to SerialLifecycle.
LEMMA BumpedSame ==
    ASSUME row \in Rows, row # NoRow, row.version < MaxVersion, row' = Bumped(row)
    PROVE  UNCHANGED Serial!connection
<1>1. /\ row' \in Rows /\ row'.status = row.status
      /\ row'.selected = row.selected /\ row'.pending = row.pending
  BY BumpedRow
<1>2. row' # NoRow
  BY <1>1, LifecycleConstants
<1> QED BY <1>1, <1>2, SerialSame

\* The edits of policies and credentials, of an onboarding or not.
LEMMA EditRefines ==
    ASSUME SerialInv, NEW a \in Admins,
           \/ ReplacePolicies(a) \/ ReplaceCredentials(a)
           \/ OnboardCredentials(a) \/ OnboardPolicies(a)
    PROVE  Serial!SerialNext
<1>1. /\ row # NoRow /\ row \in Rows /\ row.version < MaxVersion /\ row' = Bumped(row)
      /\ UNCHANGED <<tenant, revisions>>
  BY DEF SerialInv, LifecycleInv, TypeOK, StoredTypeOK, ReplacePolicies, ReplaceCredentials,
         Transaction, OnboardCredentials, OnboardPolicies, WithinBound
<1>2. UNCHANGED Serial!connection /\ row.status # "gone"
  BY <1>1, BumpedSame DEF Rows, Statuses
<1>3. ASSUME NEW tools \in SUBSET Tools, Published(Managed(row)),
             tools \subseteq Declares(Managed(row)),
             policies' = tools, credentials' = credentials
      PROVE  Serial!SerialNext
  <2>1. Serial!SetPolicies(tools)
    BY <1>1, <1>2, <1>3, SerialView, SerialRevisions DEF Serial!SetPolicies
  <2> QED BY <2>1 DEF Serial!SerialNext
<1>4. ASSUME NEW secret \in Secrets \cup {NoSecret}, Published(Managed(row)),
             secret \in Allows(Managed(row)),
             credentials' = secret, policies' = policies
      PROVE  Serial!SerialNext
  <2>1. Serial!SetCredentials(secret)
    BY <1>1, <1>2, <1>4, SerialView, SerialRevisions DEF Serial!SetCredentials
  <2> QED BY <2>1 DEF Serial!SerialNext
<1>5. CASE ReplacePolicies(a)
  <2>1. Accepted(request[a], row) /\ request[a].op = "policies" /\ request[a].tools \subseteq Tools
    BY <1>5, ActsAccepted, RequestFields DEF ReplacePolicies
  <2> QED BY <1>3, <1>5, <2>1 DEF ReplacePolicies, Accepted
<1>6. CASE ReplaceCredentials(a)
  <2>1. /\ Accepted(request[a], row) /\ request[a].op = "credentials"
        /\ request[a].secret \in Secrets \cup {NoSecret}
    BY <1>6, ActsAccepted, RequestFields DEF ReplaceCredentials
  <2> QED BY <1>4, <1>6, <2>1 DEF ReplaceCredentials, Accepted
<1>7. CASE OnboardCredentials(a)
  <2>1. /\ pc[a] = "analysed" /\ seen[a].version = row.version
        /\ request[a] \in Requests /\ request[a].op = "onboard"
    BY <1>7 DEF OnboardCredentials, Onward, CurrentVersion, Onboarding,
                SerialInv, LifecycleInv, TypeOK, RequestTypeOK
  <2>2. Accepted(request[a], row) /\ request[a].secret \in Secrets \cup {NoSecret}
    BY <1>1, <2>1, RequestFields DEF SerialInv, AcceptedStill, AcceptedOf
  <2>3. Managed(row) = Staged(row) /\ Published(Staged(row)) /\ request[a].secret \in Allows(Staged(row))
    BY <2>1, <2>2 DEF Accepted, Managed
  <2> QED BY <1>4, <1>7, <2>2, <2>3 DEF OnboardCredentials
<1>8. CASE OnboardPolicies(a)
  <2>1. pc[a] = "credentialed" /\ row.version = seen[a].version + 1
    BY <1>8 DEF OnboardPolicies, Onward, CurrentVersion
  <2>2. row.status = seen[a].status /\ seen[a].status # "active"
    BY <1>1, <2>1 DEF SerialInv, EditsStand, EditsStandOf, LeftAsEdited, AcceptedStill,
                      AcceptedOf, Onboarding
  <2>3. Managed(row) = Staged(row) /\ Published(Staged(row)) /\ policies' = Declares(Staged(row))
        /\ credentials' = credentials
    BY <1>8, <2>2 DEF OnboardPolicies, Managed
  <2>4. Declares(Staged(row)) \in SUBSET Tools
    BY <2>3, DeclaredTools DEF SerialInv, LifecycleInv, TypeOK
  <2> QED BY <1>3, <2>3, <2>4
<1> QED BY <1>5, <1>6, <1>7, <1>8

\* The transactions that compare no version.
LEMMA OtherRefines ==
    ASSUME SerialInv,
           \/ Disable \/ Rename \/ DeleteConnection
           \/ \E v \in Revisions : DeleteRevision(v)
           \/ SwitchTenant \/ RetireTenant
    PROVE  [Serial!SerialNext]_(Serial!serialVars)
<1>0. row # NoRow => row \in Rows /\ row.status # "gone"
  BY DEF SerialInv, LifecycleInv, TypeOK, StoredTypeOK, Rows, Statuses
<1>1. CASE Rename
  BY <1>0, <1>1, BumpedSame DEF Rename, WithinBound, Serial!serialVars
<1>2. ASSUME row # NoRow, row.version < MaxVersion, row' = Bumped(Disabled(row))
      PROVE  /\ row' # NoRow /\ row'.status = "disabled"
             /\ row'.selected = row.selected /\ row'.pending = row.pending
  BY <1>0, <1>2, DisabledRow, BumpedRow, LifecycleConstants
<1>3. CASE Disable
  <2>1. Serial!SwitchOff
    BY <1>0, <1>2, <1>3 DEF Disable, WithinBound, Serial!SwitchOff
  <2> QED BY <2>1 DEF Serial!SerialNext
<1>4. CASE DeleteConnection
  <2>1. Serial!Remove
    BY <1>4 DEF DeleteConnection, Serial!Remove
  <2> QED BY <2>1 DEF Serial!SerialNext
<1>5. ASSUME NEW v \in Revisions, DeleteRevision(v)
      PROVE  Serial!SerialNext
  <2>1. row # NoRow /\ row' = row
    BY <1>5 DEF DeleteRevision
  <2>2. Serial!RemoveRevision(v)
    BY <1>0, <1>5, <2>1, SerialRevisions
       DEF DeleteRevision, IsSelected, Published, Serial!RemoveRevision, Serial!connection
  <2> QED BY <2>2 DEF Serial!SerialNext
<1>6. CASE SwitchTenant
  <2>1. Serial!SetTenant
    BY <1>6 DEF SwitchTenant, Serial!SetTenant, Serial!connection
  <2> QED BY <2>1 DEF Serial!SerialNext
<1>7. CASE RetireTenant
  <2>1. CASE row # NoRow /\ Running(row)
    <3>1. Serial!DeleteTenant
      BY <1>0, <1>2, <1>7, <2>1 DEF RetireTenant, WithinBound, Serial!DeleteTenant
    <3> QED BY <3>1 DEF Serial!SerialNext
  <2>2. CASE ~ (row # NoRow /\ Running(row))
    <3>1. Serial!DeleteTenant
      BY <1>0, <1>7, <2>2 DEF RetireTenant, Running, Serial!DeleteTenant
    <3> QED BY <3>1 DEF Serial!SerialNext
  <2> QED BY <2>1, <2>2
<1> QED BY <1>1, <1>3, <1>4, <1>5, <1>6, <1>7

\* Reading, inspecting, testing and giving up are nothing that it sees.
LEMMA SerialUnseen ==
    ASSUME UNCHANGED stored
    PROVE  UNCHANGED Serial!serialVars
BY DEF stored, Serial!serialVars, Serial!connection

LEMMA SerialStep == SerialInv /\ [Next]_vars => [Serial!SerialNext]_(Serial!serialVars)
<1> SUFFICES ASSUME SerialInv, [Next]_vars
             PROVE  [Serial!SerialNext]_(Serial!serialVars)
  OBVIOUS
<1>1. ASSUME NEW a \in Admins, AdminStep(a)
      PROVE  [Serial!SerialNext]_(Serial!serialVars)
  <2>1. CASE \/ \E q \in Requests : Read(a, q)
             \/ GivesUp(a) \/ Inspect(a)
             \/ OnboardReads(a) \/ OnboardApprove(a)
    <3>1. UNCHANGED stored
      BY <2>1, InspectFrame, OnboardReadsFrame
         DEF SerialInv, LifecycleInv, Read, GivesUp, OnboardApprove
    <3> QED BY <3>1, SerialUnseen
  <2> QED BY <1>1, <2>1, RevisionRefines, ActivateRefines, UpdateRefines, EditRefines
             DEF AdminStep
<1>2. CASE UNCHANGED vars
  BY <1>2, SerialUnseen DEF vars, stored
<1> QED BY <1>1, <1>2, OtherRefines DEF Next

(* However use cases overlap, what they do to the connection they could    *)
(* have done one after the other, each judging the connection it changes.  *)
THEOREM LifecycleImplements == Spec => EditsSerialized
<1>1. Init => Serial!SerialInit
  <2> SUFFICES ASSUME Init
               PROVE  Serial!SerialInit
    OBVIOUS
  <2>1. row \in Rows
    BY LifecycleConstants DEF Init, Rows, Statuses
  <2>2. row # NoRow
    BY <2>1, LifecycleConstants
  <2> QED BY <2>2 DEF Init, Serial!SerialInit, Serial!Missing, Absent
<1> QED BY <1>1, SerialStep, SerialInvHolds, PTL
        DEF Spec, EditsSerialized, Serial!SerialSpec
=============================================================================
