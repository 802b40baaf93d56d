-------------------------- MODULE McpServicesProofs --------------------------
(***************************************************************************)
(* Theorems about McpServices, for any tenants, connections, services,     *)
(* tokens, editors and calls.  Its properties are inductive together with  *)
(* these facts: a row and its tenant are of the same life also while the   *)
(* tenant is deleted; what the rows of a deleted tenant may be, row by row;*)
(* what a page of a current version, read in two steps, still shows; whose *)
(* the default connections are, and of which life every token is.          *)
(***************************************************************************)
EXTENDS McpServices, TLAPS

\* A row belongs to the latest life of its tenant's id.
ErasAgree ==
    /\ \A c \in Connections :
          ConnectionExists(c) => connections[c].era = tenants[connections[c].tenant].era
    /\ \A s \in Services :
          ServiceExists(s) => services[s].era = tenants[services[s].tenant].era

Absent(t) == tenants[t].status = "absent"

\* Whether the owner of a token is a row of a deleted tenant.
Orphaned(o) ==
    \/ o \in Connections /\ ConnectionExists(o) /\ Absent(connections[o].tenant)
    \/ o \in Services /\ ServiceExists(o) /\ Absent(services[o].tenant)

ConnectionsClosed == \A c \in Connections : Orphaned(c) => connections[c].status # "active"
ServicesClosed == \A s \in Services : Orphaned(s) => services[s].status # "active"

Void(k) == tokens[k].revoked /\ ~ tokens[k].sealed

TokensClosed ==
    \A k \in Tokens : \A o \in Connections \cup Services :
        tokens[k] # Nothing /\ tokens[k].of = o /\ Orphaned(o) => Void(k)

\* A page whose version is current shows the row as it is, and so the
\* bindings, unless they were replaced before the row was read.
PageCurrent(page, row, bound, tears) ==
    /\ page.row = Nothing \/ page.row = row
    /\ page.bound = Nothing \/ page.bound = bound \/ tears

ViewsCurrent ==
    \A e \in Editors :
        edits[e] # Nothing /\ e \notin stale =>
            PageCurrent(edits[e], services[edits[e].service], bindings[edits[e].service],
                        e \in torn)

\* The default connections are the tenants' own, each of one tenant.
DefaultsOwned ==
    \A t \in Tenants : legacy[t] # Nothing =>
        /\ connections[legacy[t]] # Nothing
        /\ ConnectionExists(legacy[t]) => connections[legacy[t]].tenant = t
        /\ \A u \in Tenants : legacy[u] = legacy[t] => u = t

IsDefault(o) == \E t \in Tenants : legacy[t] = o

\* A token is of the life of the row it leads to, unless that row is a default
\* connection.
TokensAgree ==
    \A k \in Tokens : tokens[k] # Nothing =>
        /\ \A c \in Connections : tokens[k].of = c =>
              /\ connections[c] # Nothing
              /\ ConnectionExists(c) => tokens[k].era = connections[c].era \/ IsDefault(c)
        /\ \A s \in Services : tokens[k].of = s =>
              ServiceExists(s) /\ tokens[k].era = services[s].era

\* A call that has begun knows its token and service.
CallsKnow == \A c \in Calls : stage[c] # "idle" => target[c] \in Targets

RowsInv ==
    /\ ErasAgree
    /\ ConnectionsClosed /\ ServicesClosed /\ TokensClosed
    /\ ViewsCurrent /\ BindingsOwned

ServicesInv == TypeOK /\ CallsKnow /\ RowsInv /\ DefaultsOwned /\ TokensAgree

-----------------------------------------------------------------------------
(* Rows.                                                                   *)

LEMMA RowFacts ==
    ASSUME TypeOK
    PROVE  /\ \A c \in Connections : ConnectionExists(c) =>
                /\ connections[c] \in ConnectionRows
                /\ connections[c].tenant \in Tenants /\ connections[c].era \in 0..MaxEra
           /\ \A s \in Services : ServiceExists(s) =>
                /\ services[s] \in ServiceRows
                /\ services[s].tenant \in Tenants /\ services[s].era \in 0..MaxEra
           /\ \A k \in Tokens : tokens[k] # Nothing =>
                tokens[k] \in TokenRows /\ tokens[k].of \in Connections \cup Services
           /\ \A e \in Editors : edits[e] # Nothing =>
                edits[e] \in Pages /\ edits[e].service \in Services
BY DEF TypeOK, ConnectionExists, ServiceExists, ConnectionRows, ServiceRows, TokenRows, Pages

\* A row that is there is neither of the two marks.
LEMMA RealRows ==
    /\ \A r \in ConnectionRows : r # Nothing /\ r # Gone
    /\ \A r \in ServiceRows : r # Nothing
    /\ \A r \in TokenRows : r # Nothing
    /\ \A r \in Pages : r # Nothing
    /\ \A c \in Connections : c # Nothing
    /\ \A c \in Connections : c \notin Services
    /\ Gone # Nothing
BY ServiceConstants

LEMMA RevokedFacts ==
    ASSUME NEW row \in TokenRows
    PROVE  /\ Revoked(row) \in TokenRows
           /\ Revoked(row).of = row.of /\ Revoked(row).era = row.era
           /\ Revoked(row).revoked /\ ~ Revoked(row).sealed
BY DEF Revoked, TokenRows

\* Tokens revoked together: the others are left alone.
LEMMA RevokeAllFacts ==
    ASSUME TypeOK, NEW ks, \A k \in Tokens : k \in ks => tokens[k] # Nothing
    PROVE  /\ RevokeAll(ks) \in [Tokens -> TokenRows \cup {Nothing}]
           /\ \A k \in Tokens :
                /\ k \notin ks => RevokeAll(ks)[k] = tokens[k]
                /\ k \in ks => /\ RevokeAll(ks)[k] # Nothing
                               /\ RevokeAll(ks)[k].of = tokens[k].of
                               /\ RevokeAll(ks)[k].era = tokens[k].era
                               /\ RevokeAll(ks)[k].revoked /\ ~ RevokeAll(ks)[k].sealed
<1>1. ASSUME NEW k \in Tokens, k \in ks
      PROVE  /\ Revoked(tokens[k]) \in TokenRows /\ Revoked(tokens[k]).of = tokens[k].of
             /\ Revoked(tokens[k]).era = tokens[k].era
             /\ Revoked(tokens[k]).revoked /\ ~ Revoked(tokens[k]).sealed
             /\ Revoked(tokens[k]) # Nothing
  BY <1>1, RowFacts, RevokedFacts, RealRows
<1>2. \A k \in Tokens : tokens[k] \in TokenRows \cup {Nothing}
  BY DEF TypeOK
<1> QED
  BY <1>1, <1>2 DEF RevokeAll

LEMMA NewTokenFacts ==
    ASSUME NEW o \in Connections \cup Services, NEW era \in 0..MaxEra
    PROVE  /\ NewToken(o, era) \in TokenRows /\ NewToken(o, era) # Nothing
           /\ NewToken(o, era).of = o /\ NewToken(o, era).era = era
BY RealRows DEF NewToken, TokenRows

LEMMA TenantEra ==
    ASSUME TypeOK, NEW t \in Tenants
    PROVE  tenants[t].era \in 0..MaxEra
BY DEF TypeOK, TenantRows

\* A page is one of a service, also when nothing has been read for it.
LEMMA PageFacts ==
    ASSUME TypeOK, NEW e \in Editors, NEW s \in Services
    PROVE  /\ Page(e, s) \in Pages
           /\ edits[e] = Nothing => /\ Page(e, s).row = Nothing
                                    /\ Page(e, s).bound = Nothing
           /\ edits[e] # Nothing => Page(e, s) = edits[e]
           /\ \A r \in ServiceRows :
                LET p == [Page(e, s) EXCEPT !.row = r] IN
                p \in Pages /\ p.row = r /\ p.bound = Page(e, s).bound
                /\ p.service = Page(e, s).service
           /\ \A cs \in SUBSET Connections :
                LET p == [Page(e, s) EXCEPT !.bound = cs] IN
                p \in Pages /\ p.bound = cs /\ p.row = Page(e, s).row
                /\ p.service = Page(e, s).service
<1>1. EmptyPage(s) \in Pages /\ EmptyPage(s).row = Nothing /\ EmptyPage(s).bound = Nothing
  BY DEF EmptyPage, Pages
<1>2. Page(e, s) \in Pages
  BY <1>1, RowFacts DEF Page
<1> QED
  BY <1>1, <1>2 DEF Page, Pages

-----------------------------------------------------------------------------
(* Types.                                                                  *)

LEMMA TenantTypes == TypeOK /\ TenantStep => TypeOK'
<1> SUFFICES ASSUME TypeOK, TenantStep
             PROVE  TypeOK'
  OBVIOUS
<1> USE DEF TypeOK, pages
<1>1. ASSUME NEW t \in Tenants, NEW enabled \in BOOLEAN, CreateTenant(t, enabled)
      PROVE  TypeOK'
  <2> DEFINE r == [status |-> IF enabled THEN "enabled" ELSE "disabled",
                   era |-> tenants[t].era + 1]
  <2>1. tenants[t].era \in 0..MaxEra /\ tenants[t].era < MaxEra /\ MaxEra \in Nat
    BY <1>1, ServiceConstants DEF CreateTenant, TenantRows
  <2>2. tenants[t].era + 1 \in 0..MaxEra
    BY <2>1
  <2>3. r \in TenantRows /\ tenants' = [tenants EXCEPT ![t] = r]
    BY <1>1, <2>2 DEF CreateTenant, TenantRows
  <2> HIDE DEF r
  <2> QED
    BY <1>1, <2>3 DEF CreateTenant
<1>2. ASSUME NEW t \in Tenants, NEW enabled \in BOOLEAN, SwitchTenant(t, enabled)
      PROVE  TypeOK'
  BY <1>2 DEF SwitchTenant, TenantRows
<1>3. ASSUME NEW t \in Tenants, RetireTenant(t)
      PROVE  TypeOK'
  <2>1. tenants' \in [Tenants -> TenantRows]
    BY <1>3 DEF RetireTenant, TenantRows
  <2>2. connections' \in [Connections -> ConnectionRows \cup {Nothing, Gone}]
    BY <1>3, RowFacts DEF RetireTenant, ConnectionsOf, ConnectionRows, ConnectionStates
  <2>3. services' \in [Services -> ServiceRows \cup {Nothing}]
    BY <1>3, RowFacts DEF RetireTenant, ServicesOf, ServiceRows, ServiceStates
  <2>4. tokens' \in [Tokens -> TokenRows \cup {Nothing}]
    BY <1>3, RevokeAllFacts DEF RetireTenant, TokensOf
  <2>5. stale' \subseteq Editors
    BY <1>3 DEF RetireTenant, Bumped
  <2> QED
    BY <1>3, <2>1, <2>2, <2>3, <2>4, <2>5 DEF RetireTenant
<1> QED
  BY <1>1, <1>2, <1>3 DEF TenantStep

LEMMA ConnectionTypes == TypeOK /\ ConnectionStep => TypeOK'
<1> SUFFICES ASSUME TypeOK, ConnectionStep
             PROVE  TypeOK'
  OBVIOUS
<1> USE DEF TypeOK, pages
<1>1. ASSUME NEW c \in Connections, NEW t \in Tenants, NEW status \in {"draft", "active"},
             NEW k \in Tokens, CreateConnection(c, t, status, k)
      PROVE  TypeOK'
  <2>1. [tenant |-> t, era |-> tenants[t].era, status |-> status] \in ConnectionRows
    BY DEF ConnectionRows, ConnectionStates, TenantRows
  <2> QED
    BY <1>1, <2>1, NewTokenFacts, TenantEra DEF CreateConnection
<1>2. ASSUME NEW c \in Connections, NEW status \in ConnectionStates,
             SetConnectionStatus(c, status)
      PROVE  TypeOK'
  <2>1. connections[c] \in ConnectionRows
    BY <1>2, RowFacts DEF SetConnectionStatus
  <2>2. [connections[c] EXCEPT !.status = status] \in ConnectionRows
    BY <2>1 DEF ConnectionRows
  <2> QED
    BY <1>2, <2>2 DEF SetConnectionStatus
<1>3. ASSUME NEW c \in Connections, DeleteConnection(c)
      PROVE  TypeOK'
  BY <1>3 DEF DeleteConnection
<1>4. ASSUME NEW c \in Connections, NEW k \in Tokens, NEW rotate \in BOOLEAN,
             IssueConnectionToken(c, k, rotate)
      PROVE  TypeOK'
  <2> DEFINE old == IF rotate THEN TokensOf({c}) ELSE {}
  <2>1. \A j \in Tokens : j \in old => tokens[j] # Nothing
    BY DEF TokensOf
  <2> HIDE DEF old
  <2>2. RevokeAll(old) \in [Tokens -> TokenRows \cup {Nothing}]
    BY <2>1, RevokeAllFacts
  <2> DEFINE era == tenants[connections[c].tenant].era
  <2>3. tokens' = [RevokeAll(old) EXCEPT ![k] = NewToken(c, era)]
    BY <1>4 DEF IssueConnectionToken, old
  <2>4. tokens' \in [Tokens -> TokenRows \cup {Nothing}]
    <3> HIDE DEF TypeOK
    <3>1. NewToken(c, era) \in TokenRows
      <4>1. connections[c].tenant \in Tenants
        BY <1>4, RowFacts DEF IssueConnectionToken
      <4> QED
        BY <4>1, NewTokenFacts, TenantEra
    <3> QED
      BY <2>2, <2>3, <3>1
  <2> QED
    BY <1>4, <2>4 DEF IssueConnectionToken
<1> QED
  BY <1>1, <1>2, <1>3, <1>4 DEF ConnectionStep

\* What a current version tells an editor who changes a service.
LEMMA ViewFacts ==
    ASSUME TypeOK, ViewsCurrent, NEW e \in Editors, SameVersion(e)
    PROVE  /\ edits[e].service \in Services
           /\ ServiceExists(edits[e].service)
           /\ edits[e].row = services[edits[e].service]
           /\ \/ edits[e].bound = Nothing
              \/ edits[e].bound = bindings[edits[e].service]
              \/ e \in torn
<1>1. edits[e] \in Pages /\ edits[e].service \in Services
  BY RowFacts DEF SameVersion
<1>2. /\ edits[e].row = services[edits[e].service]
      /\ \/ edits[e].bound = Nothing
         \/ edits[e].bound = bindings[edits[e].service]
         \/ e \in torn
  BY DEF ViewsCurrent, SameVersion, PageCurrent
<1> QED
  BY <1>1, <1>2 DEF ServiceExists, SameVersion

LEMMA StartTypes == TypeOK /\ StartStep => TypeOK'
<1> SUFFICES ASSUME TypeOK, NEW t \in Tenants, NEW c \in Connections, CopyDefault(t, c)
             PROVE  TypeOK'
  BY DEF StartStep
<1> DEFINE r == [tenant |-> t, era |-> tenants[t].era,
                 status |-> IF Enabled(t) THEN "active" ELSE "disabled"]
<1>1. r \in ConnectionRows
  BY TenantEra DEF ConnectionRows, ConnectionStates
<1>2. connections' = [connections EXCEPT ![c] = r]
  BY DEF CopyDefault
<1> HIDE DEF r
<1>3. connections' \in [Connections -> ConnectionRows \cup {Nothing, Gone}]
  BY <1>1, <1>2 DEF TypeOK
<1>4. tokens' \in [Tokens -> TokenRows \cup {Nothing}]
  <2>1. CASE UNCHANGED tokens
    BY <2>1 DEF TypeOK
  <2>2. ASSUME NEW k \in Tokens, tokens' = [tokens EXCEPT ![k] = NewToken(c, 1)],
               tenants[t].era = 1
        PROVE  tokens' \in [Tokens -> TokenRows \cup {Nothing}]
    <3>1. NewToken(c, 1) \in TokenRows
      BY <2>2, NewTokenFacts, TenantEra
    <3> QED
      BY <2>2, <3>1 DEF TypeOK
  <2>3. ASSUME NEW k \in Tokens, tokens[k] # Nothing,
               tokens' = [tokens EXCEPT ![k].sealed = TRUE]
        PROVE  tokens' \in [Tokens -> TokenRows \cup {Nothing}]
    <3>1. [tokens[k] EXCEPT !.sealed = TRUE] \in TokenRows
      BY <2>3, RowFacts DEF TokenRows
    <3> QED
      BY <2>3, <3>1 DEF TypeOK
  <2> QED
    BY <2>1, <2>2, <2>3 DEF CopyDefault
<1>5. legacy' \in [Tenants -> Connections \cup {Nothing}]
  BY DEF CopyDefault, TypeOK
<1>6. /\ stage' = [d \in Calls |-> IF stage[d] = "idle" THEN "idle" ELSE "refused"]
      /\ UNCHANGED <<tenants, services, bindings, pages, target>>
  BY DEF CopyDefault
<1> QED
  BY <1>3, <1>4, <1>5, <1>6 DEF TypeOK, pages

LEMMA OtherTypes ==
    /\ TypeOK /\ CallsKnow /\ ViewsCurrent
    /\ TokenStep \/ ServiceStep \/ EditStep \/ CallStep
    => TypeOK'
<1> SUFFICES ASSUME TypeOK, CallsKnow, ViewsCurrent, TokenStep \/ ServiceStep \/ EditStep \/ CallStep
             PROVE  TypeOK'
  OBVIOUS
<1> USE DEF TypeOK, pages
<1>1. ASSUME NEW k \in Tokens, RevokeToken(k)
      PROVE  TypeOK'
  <2>1. \A j \in Tokens : j \in {k} => tokens[j] # Nothing
    BY <1>1 DEF RevokeToken
  <2> QED
    BY <1>1, <2>1, RevokeAllFacts DEF RevokeToken
<1>2. ASSUME NEW k \in Tokens, TokenExpires(k)
      PROVE  TypeOK'
  <2>1. [tokens[k] EXCEPT !.expired = TRUE] \in TokenRows
    BY <1>2, RowFacts DEF TokenExpires, TokenRows
  <2> QED
    BY <1>2, <2>1 DEF TokenExpires
<1>3. ASSUME NEW s \in Services, NEW t \in Tenants, CreateService(s, t)
      PROVE  TypeOK'
  <2>1. [tenant |-> t, era |-> tenants[t].era, status |-> "draft"] \in ServiceRows
    BY DEF ServiceRows, ServiceStates, TenantRows
  <2> QED
    BY <1>3, <2>1 DEF CreateService
<1>4. ASSUME NEW s \in Services, NEW k \in Tokens, IssueServiceToken(s, k)
      PROVE  TypeOK'
  <2>1. services[s].tenant \in Tenants
    BY <1>4, RowFacts DEF IssueServiceToken
  <2> QED
    BY <1>4, <2>1, NewTokenFacts, TenantEra DEF IssueServiceToken
<1>5. ASSUME NEW s \in Services, NEW e \in Editors, ReadService(e, s) \/ ReadBindings(e, s)
      PROVE  TypeOK'
  <2>1. ASSUME NEW p \in Pages, edits' = [edits EXCEPT ![e] = p]
        PROVE  edits' \in [Editors -> Pages \cup {Nothing}]
    BY <2>1
  <2>2. CASE ReadService(e, s)
    <3>1. services[s] \in ServiceRows
      BY <2>2, RowFacts DEF ReadService
    <3> QED
      BY <2>1, <2>2, <3>1, PageFacts DEF ReadService, rows
  <2>3. CASE ReadBindings(e, s)
    BY <2>1, <2>3, PageFacts DEF ReadBindings, rows
  <2> QED
    BY <1>5, <2>2, <2>3
<1>6. ASSUME NEW e \in Editors, NEW status \in ServiceStates, UpdateServiceStatus(e, status)
      PROVE  TypeOK'
  <2> DEFINE s == edits[e].service
  <2>1. s \in Services
    BY <1>6, RowFacts DEF UpdateServiceStatus, SameVersion
  <2>2. services[s] \in ServiceRows => [services[s] EXCEPT !.status = status] \in ServiceRows
    BY DEF ServiceRows
  <2>3. services' = [services EXCEPT ![s].status = status] /\ stale' \subseteq Editors
    BY <1>6 DEF UpdateServiceStatus, Bumped
  <2>4. services[s] \in ServiceRows
    BY <1>6, <2>1, ViewFacts, RowFacts DEF UpdateServiceStatus
  <2> HIDE DEF s
  <2>5. services' \in [Services -> ServiceRows \cup {Nothing}] /\ services'[s] \in ServiceRows
    BY <2>1, <2>2, <2>3, <2>4
  <2>6. [edits[e] EXCEPT !.row = services'[s]] \in Pages
    BY <1>6, <2>5, RowFacts DEF UpdateServiceStatus, SameVersion, Pages
  <2>7. edits' = [edits EXCEPT ![e] = [edits[e] EXCEPT !.row = services'[s]]]
    BY <1>6 DEF UpdateServiceStatus, s
  <2>8. edits' \in [Editors -> Pages \cup {Nothing}]
    BY <2>6, <2>7
  <2> QED
    BY <1>6, <2>3, <2>5, <2>8 DEF UpdateServiceStatus
<1>7. ASSUME NEW e \in Editors, NEW cs \in SUBSET Connections, ReplaceBindings(e, cs)
      PROVE  TypeOK'
  <2>1. [edits[e] EXCEPT !.bound = cs] \in Pages
    BY <1>7, RowFacts DEF ReplaceBindings, SameVersion, Pages
  <2>2. edits' \in [Editors -> Pages \cup {Nothing}]
    BY <1>7, <2>1 DEF ReplaceBindings
  <2> QED
    BY <1>7, <2>2 DEF ReplaceBindings, Bumped, HalfRead
<1>8. ASSUME NEW c \in Calls, NEW k \in Tokens, Peek(c, k)
      PROVE  TypeOK'
  <2>1. [token |-> k, service |-> tokens[k].of, connection |-> Nothing] \in Targets
    BY <1>8 DEF Peek, Admits, Targets
  <2> QED
    BY <1>8, <2>1 DEF Peek, Goto, rows
<1>9. ASSUME NEW c \in Calls, Confirm(c) \/ Execute(c)
      PROVE  TypeOK'
  BY <1>9 DEF Confirm, Execute, Goto, rows
<1>10. ASSUME NEW c \in Calls, SelectBinding(c)
       PROVE  TypeOK'
  <2>1. target[c] \in Targets /\ target[c].service \in Services
    BY <1>10 DEF SelectBinding, CallsKnow, Targets
  <2>2. \A n \in bindings[target[c].service] : [target[c] EXCEPT !.connection = n] \in Targets
    BY <2>1 DEF Targets
  <2> QED
    BY <1>10, <2>2 DEF SelectBinding, Goto, rows
<1> QED
  BY <1>1, <1>2, <1>3, <1>4, <1>5, <1>6, <1>7, <1>8, <1>9, <1>10
     DEF TokenStep, ServiceStep, EditStep, CallStep

LEMMA KnowStep == TypeOK /\ CallsKnow /\ [Next]_vars => CallsKnow'
<1> SUFFICES ASSUME TypeOK, CallsKnow, [Next]_vars
             PROVE  CallsKnow'
  OBVIOUS
<1> USE DEF CallsKnow
<1>1. ASSUME UNCHANGED <<stage, target>>
      PROVE  CallsKnow'
  BY <1>1
<1>2. CASE TenantStep
  BY <1>1, <1>2 DEF TenantStep, CreateTenant, SwitchTenant, RetireTenant
<1>3. CASE ConnectionStep
  BY <1>1, <1>3 DEF ConnectionStep, CreateConnection, SetConnectionStatus, DeleteConnection,
                    IssueConnectionToken
<1>4. CASE TokenStep \/ ServiceStep \/ EditStep
  BY <1>1, <1>4 DEF TokenStep, RevokeToken, TokenExpires, ServiceStep, CreateService,
                    IssueServiceToken, ReadService, ReadBindings, EditStep,
                    UpdateServiceStatus, ReplaceBindings
<1>5. ASSUME NEW c \in Calls, NEW k \in Tokens, Peek(c, k)
      PROVE  CallsKnow'
  <2>1. [token |-> k, service |-> tokens[k].of, connection |-> Nothing] \in Targets
    BY <1>5 DEF Peek, Admits, Targets
  <2> QED
    BY <1>5, <2>1 DEF Peek, Goto, TypeOK
<1>6. ASSUME NEW c \in Calls, Confirm(c) \/ Execute(c)
      PROVE  CallsKnow'
  BY <1>6 DEF Confirm, Execute, Goto, TypeOK
<1>7. ASSUME NEW c \in Calls, SelectBinding(c)
      PROVE  CallsKnow'
  <2>1. target[c] \in Targets /\ target[c].service \in Services
    BY <1>7 DEF SelectBinding, Targets
  <2>2. \A n \in bindings[target[c].service] : [target[c] EXCEPT !.connection = n] \in Targets
    BY <2>1 DEF Targets, TypeOK
  <2> QED
    BY <1>7, <2>1, <2>2 DEF SelectBinding, Goto, TypeOK
<1>8. CASE UNCHANGED vars
  BY <1>1, <1>8 DEF vars
<1>9. CASE StartStep
  BY <1>9 DEF StartStep, CopyDefault
<1> QED
  BY <1>2, <1>3, <1>4, <1>5, <1>6, <1>7, <1>8, <1>9 DEF Next, CallStep

LEMMA TypeStep == ServicesInv /\ [Next]_vars => TypeOK'
<1>1. TypeOK /\ UNCHANGED vars => TypeOK'
  BY DEF TypeOK, vars, rows, pages
<1> QED
  BY <1>1, TenantTypes, ConnectionTypes, StartTypes, OtherTypes DEF Next, ServicesInv, RowsInv

-----------------------------------------------------------------------------
(* Tenants.                                                                *)

LEMMA CreateTenantStep ==
    ASSUME ServicesInv, NEW t \in Tenants, NEW enabled \in BOOLEAN, CreateTenant(t, enabled)
    PROVE  RowsInv'
<1> USE DEF ServicesInv, RowsInv
<1>1. /\ UNCHANGED <<connections, services, bindings, tokens, edits, stale, torn>>
      /\ \A u \in Tenants : u # t => tenants'[u] = tenants[u]
      /\ tenants'[t].status # "absent"
      /\ ConnectionsOf(t) = {} /\ ServicesOf(t) = {}
  BY DEF CreateTenant, NothingRetained, TypeOK, pages
<1>2. /\ \A c \in Connections : ConnectionExists(c) => connections[c].tenant \in Tenants \ {t}
      /\ \A s \in Services : ServiceExists(s) => services[s].tenant \in Tenants \ {t}
  BY <1>1, RowFacts DEF ConnectionsOf, ServicesOf
<1>3. ErasAgree'
  BY <1>1, <1>2 DEF ErasAgree, ConnectionExists, ServiceExists
<1>4. \A o : Orphaned(o)' => Orphaned(o)
  BY <1>1, <1>2 DEF Orphaned, Absent, ConnectionExists, ServiceExists
<1>5. ConnectionsClosed' /\ ServicesClosed' /\ TokensClosed'
  BY <1>1, <1>4 DEF ConnectionsClosed, ServicesClosed, TokensClosed, Void
<1>6. ViewsCurrent' /\ BindingsOwned'
  BY <1>1 DEF ViewsCurrent, BindingsOwned, ConnectionExists, ServiceExists
<1> QED
  BY <1>3, <1>5, <1>6

LEMMA SwitchTenantStep ==
    ASSUME ServicesInv, NEW t \in Tenants, NEW enabled \in BOOLEAN, SwitchTenant(t, enabled)
    PROVE  RowsInv'
<1> USE DEF ServicesInv, RowsInv
<1>1. /\ UNCHANGED <<connections, services, bindings, tokens, edits, stale, torn>>
      /\ \A u \in Tenants : tenants'[u].era = tenants[u].era /\ (Absent(u)' <=> Absent(u))
  BY DEF SwitchTenant, TypeOK, TenantRows, Absent, pages
<1>2. ErasAgree'
  BY <1>1, RowFacts DEF ErasAgree, ConnectionExists, ServiceExists
<1>3. \A o : Orphaned(o)' => Orphaned(o)
  BY <1>1, RowFacts DEF Orphaned, ConnectionExists, ServiceExists
<1>4. ConnectionsClosed' /\ ServicesClosed' /\ TokensClosed'
  BY <1>1, <1>3 DEF ConnectionsClosed, ServicesClosed, TokensClosed, Void
<1>5. ViewsCurrent' /\ BindingsOwned'
  BY <1>1 DEF ViewsCurrent, BindingsOwned, ConnectionExists, ServiceExists
<1> QED
  BY <1>2, <1>4, <1>5

\* Everything of the tenant is disabled and revoked, the rest left alone.
LEMMA RetireTenantStep ==
    ASSUME ServicesInv, NEW t \in Tenants, RetireTenant(t)
    PROVE  RowsInv'
<1> USE DEF ServicesInv, RowsInv
<1>1. \A u \in Tenants : /\ tenants'[u].era = tenants[u].era
                         /\ u # t => tenants'[u] = tenants[u]
  BY DEF RetireTenant, TypeOK, TenantRows
<1>2. ASSUME NEW c \in Connections
      PROVE  /\ ConnectionExists(c)' <=> ConnectionExists(c)
             /\ ConnectionExists(c) => /\ connections'[c].tenant = connections[c].tenant
                                       /\ connections'[c].era = connections[c].era
             /\ c \in ConnectionsOf(t) => connections'[c].status = "disabled"
             /\ c \notin ConnectionsOf(t) => connections'[c] = connections[c]
  <2>1. CASE c \in ConnectionsOf(t)
    <3>1. /\ connections'[c] = [connections[c] EXCEPT !.status = "disabled"]
          /\ connections[c] \in ConnectionRows
      BY <2>1, RowFacts DEF RetireTenant, ConnectionsOf
    <3>2. /\ connections'[c] \in ConnectionRows /\ connections'[c].status = "disabled"
          /\ connections'[c].tenant = connections[c].tenant
          /\ connections'[c].era = connections[c].era
      BY <3>1 DEF ConnectionRows, ConnectionStates
    <3> QED
      BY <2>1, <3>1, <3>2, RealRows DEF ConnectionExists
  <2>2. CASE c \notin ConnectionsOf(t)
    BY <2>2 DEF RetireTenant, ConnectionExists
  <2> QED
    BY <2>1, <2>2
<1>3. ASSUME NEW s \in Services
      PROVE  /\ ServiceExists(s)' <=> ServiceExists(s)
             /\ ServiceExists(s) => /\ services'[s].tenant = services[s].tenant
                                    /\ services'[s].era = services[s].era
             /\ s \in ServicesOf(t) => services'[s].status = "disabled"
             /\ s \notin ServicesOf(t) \/ services[s].status = "disabled"
                  => services'[s] = services[s]
  <2>1. CASE s \in ServicesOf(t)
    <3>1. /\ services'[s] = [services[s] EXCEPT !.status = "disabled"]
          /\ services[s] \in ServiceRows
      BY <2>1, RowFacts DEF RetireTenant, ServicesOf
    <3>2. /\ services'[s] \in ServiceRows /\ services'[s].status = "disabled"
          /\ services'[s].tenant = services[s].tenant /\ services'[s].era = services[s].era
          /\ services[s].status = "disabled" => services'[s] = services[s]
      BY <3>1 DEF ServiceRows, ServiceStates
    <3> QED
      BY <2>1, <3>1, <3>2, RealRows DEF ServiceExists
  <2>2. CASE s \notin ServicesOf(t)
    BY <2>2 DEF RetireTenant, ServiceExists
  <2> QED
    BY <2>1, <2>2
<1>4. ErasAgree'
  BY <1>1, <1>2, <1>3, RowFacts DEF ErasAgree
<1>5. ASSUME NEW o, Orphaned(o)'
      PROVE  \/ Orphaned(o)
             \/ o \in ConnectionsOf(t)
             \/ o \in ServicesOf(t)
  BY <1>1, <1>2, <1>3, <1>5, RowFacts DEF Orphaned, Absent, ConnectionsOf, ServicesOf
<1>6. ConnectionsClosed'
  BY <1>2, <1>5, RealRows DEF ConnectionsClosed, ServicesOf
<1>7. ServicesClosed'
  <2>1. ASSUME NEW s \in Services, Orphaned(s)'
        PROVE  services'[s].status # "active"
    <3>1. Orphaned(s) \/ s \in ServicesOf(t)
      BY <1>5, <2>1, RealRows DEF ConnectionsOf
    <3>2. CASE s \in ServicesOf(t)
      BY <1>3, <3>2
    <3>3. CASE s \notin ServicesOf(t)
      BY <1>3, <3>1, <3>3 DEF ServicesClosed
    <3> QED
      BY <3>2, <3>3
  <2> QED
    BY <2>1 DEF ServicesClosed
<1>8. TokensClosed'
  <2> DEFINE ks == TokensOf(ConnectionsOf(t) \cup ServicesOf(t))
  <2>1. \A k \in Tokens : k \in ks <=>
           tokens[k] # Nothing /\ tokens[k].of \in ConnectionsOf(t) \cup ServicesOf(t)
    BY DEF TokensOf
  <2>2. tokens' = RevokeAll(ks)
    BY DEF RetireTenant
  <2> HIDE DEF ks
  <2>3. \A k \in Tokens :
           /\ k \notin ks => tokens'[k] = tokens[k]
           /\ k \in ks => Void(k)'
    BY <2>1, <2>2, RevokeAllFacts DEF Void
  <2>4. ASSUME NEW k \in Tokens, NEW o \in Connections \cup Services,
               tokens'[k] # Nothing, tokens'[k].of = o, Orphaned(o)'
        PROVE  Void(k)'
    <3>1. CASE k \in ks
      BY <2>3, <3>1
    <3>2. CASE k \notin ks
      <4>1. tokens'[k] = tokens[k]
        BY <2>3, <3>2
      <4>2. Orphaned(o)
        BY <1>5, <2>1, <2>4, <3>2, <4>1
      <4> QED
        BY <2>4, <4>1, <4>2 DEF TokensClosed, Void
    <3> QED
      BY <3>1, <3>2
  <2> QED
    BY <2>4 DEF TokensClosed
<1>9. ViewsCurrent'
  <2> DEFINE bumped == {s \in ServicesOf(t) : services[s].status # "disabled"}
  <2>1. /\ UNCHANGED <<edits, bindings, torn>>
        /\ stale' = stale \cup {e \in Editors : /\ edits[e] # Nothing /\ edits[e].row # Nothing
                                              /\ edits[e].service \in bumped}
    BY DEF RetireTenant, Bumped
  <2>2. \A s \in Services : s \notin bumped => services'[s] = services[s]
    BY <1>3
  <2> HIDE DEF bumped
  <2>3. ASSUME NEW e \in Editors, edits[e] # Nothing, e \notin stale'
        PROVE  PageCurrent(edits[e], services'[edits[e].service], bindings[edits[e].service],
                           e \in torn)
    <3>1. /\ edits[e].service \in Services
          /\ PageCurrent(edits[e], services[edits[e].service], bindings[edits[e].service],
                         e \in torn)
      BY <2>1, <2>3, RowFacts DEF ViewsCurrent
    <3>2. edits[e].row = Nothing \/ services'[edits[e].service] = services[edits[e].service]
      BY <2>1, <2>2, <2>3, <3>1
    <3> QED
      BY <3>1, <3>2 DEF PageCurrent
  <2> QED
    BY <2>1, <2>3 DEF ViewsCurrent
<1>10. BindingsOwned'
  <2>1. bindings' = bindings
    BY DEF RetireTenant
  <2>2. \A s \in Services : bindings[s] \subseteq Connections
    BY DEF TypeOK
  <2> QED
    BY <1>2, <1>3, <2>1, <2>2 DEF BindingsOwned
<1> QED
  BY <1>4, <1>6, <1>7, <1>8, <1>9, <1>10

-----------------------------------------------------------------------------
(* Connections and tokens.                                                 *)

LEMMA CreateConnectionStep ==
    ASSUME ServicesInv, NEW c \in Connections, NEW t \in Tenants,
           NEW status \in {"draft", "active"}, NEW k \in Tokens,
           CreateConnection(c, t, status, k)
    PROVE  RowsInv'
<1> USE DEF ServicesInv, RowsInv
<1>1. /\ UNCHANGED <<tenants, services, bindings, edits, stale, torn>>
      /\ connections[c] = Nothing /\ ~ Absent(t)
      /\ connections'[c] = [tenant |-> t, era |-> tenants[t].era, status |-> status]
      /\ \A d \in Connections : d # c => connections'[d] = connections[d]
      /\ tokens'[k] = NewToken(c, tenants[t].era)
      /\ \A j \in Tokens : j # k => tokens'[j] = tokens[j]
  BY DEF CreateConnection, LiveTenant, Enabled, Absent, TypeOK, pages
<1>2. ErasAgree'
  BY <1>1 DEF ErasAgree, ConnectionExists, ServiceExists
<1>3. ~ Orphaned(c)'
  BY <1>1, RealRows DEF Orphaned, Absent
<1>4. \A o : Orphaned(o)' => o # c /\ Orphaned(o)
  BY <1>1, <1>3 DEF Orphaned, ConnectionExists, ServiceExists, Absent
<1>5. ConnectionsClosed' /\ ServicesClosed'
  BY <1>1, <1>4 DEF ConnectionsClosed, ServicesClosed
<1>6. TokensClosed'
  BY <1>1, <1>4, NewTokenFacts, TenantEra DEF TokensClosed, Void
<1>7. ViewsCurrent'
  BY <1>1 DEF ViewsCurrent
<1>8. BindingsOwned'
  <2>1. \A s \in Services : bindings[s] \subseteq Connections /\ c \notin bindings[s]
    BY <1>1 DEF TypeOK, BindingsOwned, ConnectionExists
  <2> QED
    BY <1>1, <2>1 DEF BindingsOwned, ConnectionExists, ServiceExists
<1> QED
  BY <1>2, <1>5, <1>6, <1>7, <1>8

LEMMA SetConnectionStatusStep ==
    ASSUME ServicesInv, NEW c \in Connections, NEW status \in ConnectionStates,
           SetConnectionStatus(c, status)
    PROVE  RowsInv'
<1> USE DEF ServicesInv, RowsInv
<1>1. /\ UNCHANGED <<tenants, services, bindings, tokens, edits, stale, torn>>
      /\ ConnectionExists(c) /\ connections[c] \in ConnectionRows
      /\ connections'[c] = [connections[c] EXCEPT !.status = status]
      /\ \A d \in Connections : d # c => connections'[d] = connections[d]
      /\ ~ Absent(connections[c].tenant) \/ status = "disabled"
  BY RowFacts DEF SetConnectionStatus, LiveTenant, Enabled, Absent, TypeOK, pages
<1>2. /\ connections'[c] \in ConnectionRows /\ connections'[c].status = status
      /\ connections'[c].tenant = connections[c].tenant
      /\ connections'[c].era = connections[c].era
  BY <1>1 DEF ConnectionRows
<1>3. /\ ConnectionExists(c)'
      /\ \A d \in Connections :
           /\ ConnectionExists(d)' <=> ConnectionExists(d)
           /\ connections'[d].tenant = connections[d].tenant
           /\ connections'[d].era = connections[d].era
  BY <1>1, <1>2, RealRows DEF ConnectionExists
<1>4. ErasAgree'
  BY <1>1, <1>3 DEF ErasAgree, ServiceExists
<1>5. \A o : Orphaned(o)' <=> Orphaned(o)
  BY <1>1, <1>3 DEF Orphaned, ServiceExists, Absent
<1>6. ConnectionsClosed'
  <2>1. Orphaned(c) => status = "disabled"
    BY <1>1, RealRows DEF Orphaned
  <2> QED
    BY <1>1, <1>2, <1>5, <2>1 DEF ConnectionsClosed
<1>7. ServicesClosed' /\ TokensClosed'
  BY <1>1, <1>5 DEF ServicesClosed, TokensClosed, Void
<1>8. ViewsCurrent'
  BY <1>1 DEF ViewsCurrent
<1>9. BindingsOwned'
  <2>1. \A s \in Services : bindings[s] \subseteq Connections
    BY DEF TypeOK
  <2> QED
    BY <1>1, <1>3, <2>1 DEF BindingsOwned, ServiceExists
<1> QED
  BY <1>4, <1>6, <1>7, <1>8, <1>9

LEMMA DeleteConnectionStep ==
    ASSUME ServicesInv, NEW c \in Connections, DeleteConnection(c)
    PROVE  RowsInv'
<1> USE DEF ServicesInv, RowsInv
<1>1. /\ UNCHANGED <<tenants, services, bindings, tokens, edits, stale, torn>>
      /\ connections'[c] = Gone
      /\ \A d \in Connections : d # c => connections'[d] = connections[d]
      /\ \A s \in Services : bindings[s] \subseteq Connections /\ c \notin bindings[s]
  BY DEF DeleteConnection, Deletable, TypeOK, pages
<1>2. ErasAgree'
  BY <1>1 DEF ErasAgree, ConnectionExists, ServiceExists
<1>3. \A o : Orphaned(o)' => o # c /\ Orphaned(o)
  BY <1>1, RealRows DEF Orphaned, ConnectionExists, ServiceExists, Absent
<1>4. ConnectionsClosed' /\ ServicesClosed' /\ TokensClosed'
  BY <1>1, <1>3 DEF ConnectionsClosed, ServicesClosed, TokensClosed, Void
<1>5. ViewsCurrent' /\ BindingsOwned'
  BY <1>1 DEF ViewsCurrent, BindingsOwned, ConnectionExists, ServiceExists
<1> QED
  BY <1>2, <1>4, <1>5

\* A step on tokens alone has to answer for the tokens of deleted tenants.
LEMMA OnlyTokens ==
    ASSUME ServicesInv, TokensClosed',
           UNCHANGED <<tenants, connections, services, bindings, edits, stale, torn>>
    PROVE  RowsInv'
BY DEF ServicesInv, RowsInv, ErasAgree, ConnectionsClosed, ServicesClosed, Orphaned, Absent,
       ViewsCurrent, BindingsOwned, ConnectionExists, ServiceExists

LEMMA OwnersStay ==
    ASSUME UNCHANGED <<tenants, connections, services>>, NEW o
    PROVE  Orphaned(o)' <=> Orphaned(o)
BY DEF Orphaned, Absent, ConnectionExists, ServiceExists

LEMMA IssueStep ==
    ASSUME ServicesInv, NEW k \in Tokens, NEW rotate \in BOOLEAN,
           \/ \E c \in Connections : IssueConnectionToken(c, k, rotate)
           \/ \E s \in Services : IssueServiceToken(s, k)
    PROVE  RowsInv'
<1> USE DEF ServicesInv, RowsInv
<1>1. UNCHANGED <<tenants, connections, services, bindings, edits, stale, torn>>
  BY DEF IssueConnectionToken, IssueServiceToken, pages
<1>2. ASSUME NEW o \in Connections \cup Services, ~ Orphaned(o), NEW era \in 0..MaxEra,
             tokens'[k] = NewToken(o, era),
             \A j \in Tokens : j # k =>
                 tokens'[j] = tokens[j] \/ (tokens'[j].revoked /\ ~ tokens'[j].sealed)
      PROVE  TokensClosed'
  BY <1>1, <1>2, OwnersStay, NewTokenFacts DEF TokensClosed, Void
<1>3. ASSUME NEW c \in Connections, IssueConnectionToken(c, k, rotate)
      PROVE  TokensClosed'
  <2> DEFINE old == IF rotate THEN TokensOf({c}) ELSE {}
  <2>1. \A j \in Tokens : j \in old => tokens[j] # Nothing
    BY DEF TokensOf
  <2> HIDE DEF old
  <2> DEFINE era == tenants[connections[c].tenant].era
  <2>2. tokens' = [RevokeAll(old) EXCEPT ![k] = NewToken(c, era)]
    BY <1>3 DEF IssueConnectionToken, old
  <2>3. era \in 0..MaxEra
    BY <1>3, RowFacts, TenantEra DEF IssueConnectionToken
  <2> HIDE DEF era
  <2>4. ~ Orphaned(c)
    BY <1>3, RealRows DEF IssueConnectionToken, LiveTenant, Enabled, Orphaned, Absent
  <2>5. \A j \in Tokens : j # k =>
            tokens'[j] = tokens[j] \/ (tokens'[j].revoked /\ ~ tokens'[j].sealed)
    BY <2>1, <2>2, RevokeAllFacts
  <2>6. tokens'[k] = NewToken(c, era)
    BY <2>1, <2>2, RevokeAllFacts
  <2> QED
    BY <1>2, <2>4, <2>5, <2>6, <2>3
<1>4. ASSUME NEW s \in Services, IssueServiceToken(s, k)
      PROVE  TokensClosed'
  <2>1. ~ Orphaned(s)
    BY <1>4, RealRows DEF IssueServiceToken, LiveTenant, Enabled, Orphaned, Absent
  <2> DEFINE era == tenants[services[s].tenant].era
  <2>2. era \in 0..MaxEra
    BY <1>4, RowFacts, TenantEra DEF IssueServiceToken
  <2>3. tokens'[k] = NewToken(s, era) /\ \A j \in Tokens : j # k => tokens'[j] = tokens[j]
    BY <1>4 DEF IssueServiceToken, TypeOK
  <2> HIDE DEF era
  <2> QED
    BY <1>2, <2>1, <2>3, <2>2
<1> QED
  BY <1>1, <1>3, <1>4, OnlyTokens

LEMMA TokenSteps ==
    ASSUME ServicesInv, TokenStep
    PROVE  RowsInv'
<1> USE DEF ServicesInv, RowsInv
<1>1. PICK k \in Tokens : RevokeToken(k) \/ TokenExpires(k)
  BY DEF TokenStep
<1>2. UNCHANGED <<tenants, connections, services, bindings, edits, stale, torn>> /\ tokens[k] # Nothing
  BY <1>1 DEF RevokeToken, TokenExpires, pages
<1>3. /\ \A j \in Tokens : j # k => tokens'[j] = tokens[j]
      /\ tokens'[k].of = tokens[k].of
      /\ Void(k) => Void(k)'
  <2>1. CASE RevokeToken(k)
    <3>1. \A j \in Tokens : j \in {k} => tokens[j] # Nothing
      BY <1>2
    <3> QED
      BY <2>1, <3>1, RevokeAllFacts DEF RevokeToken, Void
  <2>2. CASE TokenExpires(k)
    <3>1. tokens[k] \in TokenRows /\ tokens' = [tokens EXCEPT ![k].expired = TRUE]
      BY <1>2, <2>2, RowFacts DEF TokenExpires
    <3> QED
      BY <3>1 DEF TokenRows, Void, TypeOK
  <2> QED
    BY <1>1, <2>1, <2>2
<1>4. TokensClosed'
  BY <1>2, <1>3, OwnersStay DEF TokensClosed, Void
<1> QED
  BY <1>2, <1>4, OnlyTokens

-----------------------------------------------------------------------------
(* Services, their editors, and calls.                                     *)

LEMMA CreateServiceStep ==
    ASSUME ServicesInv, NEW s \in Services, NEW t \in Tenants, CreateService(s, t)
    PROVE  RowsInv'
<1> USE DEF ServicesInv, RowsInv
<1>1. /\ UNCHANGED <<tenants, connections, bindings, tokens, edits, stale, torn>>
      /\ ~ ServiceExists(s) /\ ~ Absent(t)
      /\ services'[s] = [tenant |-> t, era |-> tenants[t].era, status |-> "draft"]
      /\ \A u \in Services : u # s => services'[u] = services[u]
  BY DEF CreateService, LiveTenant, Enabled, Absent, TypeOK, ServiceExists, pages
<1>2. ErasAgree'
  BY <1>1 DEF ErasAgree, ConnectionExists, ServiceExists
<1>3. ~ Orphaned(s)'
  BY <1>1, RealRows DEF Orphaned, Absent
<1>4. \A o : Orphaned(o)' => o # s /\ Orphaned(o)
  BY <1>1, <1>3 DEF Orphaned, ConnectionExists, ServiceExists, Absent
<1>5. ConnectionsClosed' /\ ServicesClosed' /\ TokensClosed'
  BY <1>1, <1>4 DEF ConnectionsClosed, ServicesClosed, TokensClosed, Void
<1>6. ViewsCurrent'
  <2>1. ASSUME NEW e \in Editors, edits[e] # Nothing, e \notin stale
        PROVE  PageCurrent(edits[e], services'[edits[e].service], bindings[edits[e].service],
                           e \in torn)
    <3>1. /\ edits[e].service \in Services
          /\ PageCurrent(edits[e], services[edits[e].service], bindings[edits[e].service],
                         e \in torn)
      BY <2>1, RowFacts DEF ViewsCurrent
    <3>2. edits[e].service = s => edits[e].row = Nothing
      BY <1>1, <3>1 DEF PageCurrent, ServiceExists
    <3> QED
      BY <1>1, <3>1, <3>2 DEF PageCurrent
  <2> QED
    BY <1>1, <2>1 DEF ViewsCurrent
<1>7. BindingsOwned'
  <2>1. bindings[s] = {} /\ \A u \in Services : bindings[u] \subseteq Connections
    BY <1>1 DEF BindingsOwned, TypeOK
  <2> QED
    BY <1>1, <2>1 DEF BindingsOwned, ConnectionExists, ServiceExists
<1> QED
  BY <1>2, <1>5, <1>6, <1>7

\* What a page shows is current when it is read.
LEMMA ReadStep ==
    ASSUME ServicesInv, NEW s \in Services, NEW e \in Editors,
           ReadService(e, s) \/ ReadBindings(e, s)
    PROVE  RowsInv'
<1> USE DEF ServicesInv, RowsInv
<1>1. UNCHANGED <<tenants, connections, services, bindings, tokens, stale, torn>>
  BY DEF ReadService, ReadBindings, rows
<1>2. ErasAgree' /\ BindingsOwned'
  BY <1>1 DEF ErasAgree, BindingsOwned, ConnectionExists, ServiceExists
<1>3. ConnectionsClosed' /\ ServicesClosed' /\ TokensClosed'
  BY <1>1, OwnersStay DEF ConnectionsClosed, ServicesClosed, TokensClosed, Void
<1>4. e \notin stale => PageCurrent(Page(e, s), services[s], bindings[s], e \in torn)
  <2>1. CASE edits[e] = Nothing
    BY <2>1, PageFacts DEF PageCurrent
  <2>2. CASE edits[e] # Nothing
    <3>1. Page(e, s) = edits[e] /\ edits[e].service = s
      BY <2>2, PageFacts DEF ReadService, ReadBindings
    <3> QED
      BY <2>2, <3>1 DEF ViewsCurrent
  <2> QED
    BY <2>1, <2>2
<1>5. PICK p \in Pages :
         /\ edits' = [edits EXCEPT ![e] = p]
         /\ p.service = s
         /\ \/ p.row = services[s] /\ p.bound = Page(e, s).bound
            \/ p.bound = bindings[s] /\ p.row = Page(e, s).row
  <2>1. CASE ReadService(e, s)
    <3>1. services[s] \in ServiceRows
      BY <2>1, RowFacts DEF ReadService
    <3> DEFINE p == [Page(e, s) EXCEPT !.row = services[s]]
    <3>2. p \in Pages /\ p.service = s /\ p.row = services[s] /\ p.bound = Page(e, s).bound
      BY <2>1, <3>1, PageFacts DEF ReadService
    <3>3. edits' = [edits EXCEPT ![e] = p]
      BY <2>1 DEF ReadService
    <3> HIDE DEF p
    <3> QED
      BY <3>2, <3>3
  <2>2. CASE ReadBindings(e, s)
    <3>1. bindings[s] \in SUBSET Connections
      BY DEF TypeOK
    <3> DEFINE p == [Page(e, s) EXCEPT !.bound = bindings[s]]
    <3>2. p \in Pages /\ p.service = s /\ p.bound = bindings[s] /\ p.row = Page(e, s).row
      BY <2>2, <3>1, PageFacts DEF ReadBindings
    <3>3. edits' = [edits EXCEPT ![e] = p]
      BY <2>2 DEF ReadBindings
    <3> HIDE DEF p
    <3> QED
      BY <3>2, <3>3
  <2> QED
    BY <2>1, <2>2
<1>6. e \notin stale => PageCurrent(p, services[s], bindings[s], e \in torn)
  BY <1>4, <1>5 DEF PageCurrent
<1>7. /\ edits'[e] = p
      /\ \A f \in Editors : f # e => edits'[f] = edits[f]
  BY <1>5 DEF TypeOK
<1>8. ViewsCurrent'
  BY <1>1, <1>5, <1>6, <1>7 DEF ViewsCurrent
<1> QED
  BY <1>2, <1>3, <1>8

LEMMA UpdateServiceStatusStep ==
    ASSUME ServicesInv, NEW e \in Editors, NEW status \in ServiceStates,
           UpdateServiceStatus(e, status)
    PROVE  RowsInv'
<1> USE DEF ServicesInv, RowsInv
<1> DEFINE s == edits[e].service
<1>1. /\ SameVersion(e) /\ s \in Services /\ ServiceExists(s)
      /\ services[s] \in ServiceRows
  BY ViewFacts, RowFacts DEF UpdateServiceStatus
<1>2. /\ UNCHANGED <<tenants, connections, bindings, tokens, torn>>
      /\ services' = [services EXCEPT ![s].status = status]
      /\ edits' = [edits EXCEPT ![e].row = services'[s]]
      /\ stale' = Bumped({s}) \ {e}
      /\ status = "active" => ~ Absent(services[s].tenant)
  BY DEF UpdateServiceStatus, LiveTenant, Enabled, Absent
<1> HIDE DEF s
<1>3. /\ services'[s] = [services[s] EXCEPT !.status = status]
      /\ \A u \in Services : u # s => services'[u] = services[u]
  BY <1>1, <1>2 DEF TypeOK
<1>4. /\ services'[s] \in ServiceRows /\ services'[s].status = status
      /\ services'[s].tenant = services[s].tenant /\ services'[s].era = services[s].era
  BY <1>1, <1>3 DEF ServiceRows
<1>5. \A u \in Services : /\ ServiceExists(u)' <=> ServiceExists(u)
                          /\ services'[u].tenant = services[u].tenant
                          /\ services'[u].era = services[u].era
  BY <1>1, <1>3, <1>4, RealRows DEF ServiceExists
<1>6. ErasAgree'
  BY <1>2, <1>5 DEF ErasAgree, ConnectionExists
<1>7. \A o : Orphaned(o)' <=> Orphaned(o)
  BY <1>2, <1>5 DEF Orphaned, ConnectionExists, Absent
<1>8. ConnectionsClosed' /\ TokensClosed'
  BY <1>2, <1>7 DEF ConnectionsClosed, TokensClosed, Void
<1>9. ServicesClosed'
  <2>1. Orphaned(s) => status # "active"
    BY <1>1, <1>2, RealRows DEF Orphaned
  <2> QED
    BY <1>3, <1>4, <1>7, <2>1 DEF ServicesClosed
<1>10. ViewsCurrent'
  <2>1. ASSUME NEW f \in Editors, f # e, edits[f] # Nothing, f \notin stale'
        PROVE  PageCurrent(edits[f], services'[edits[f].service],
                           bindings'[edits[f].service], f \in torn')
    <3>1. /\ edits[f].service \in Services
          /\ PageCurrent(edits[f], services[edits[f].service], bindings[edits[f].service],
                         f \in torn)
          /\ edits[f].service = s => edits[f].row = Nothing
      BY <1>2, <2>1, RowFacts DEF ViewsCurrent, Bumped
    <3> QED
      BY <1>2, <1>3, <3>1 DEF PageCurrent
  <2>2. PageCurrent(edits'[e], services'[edits'[e].service], bindings'[edits'[e].service],
                    e \in torn')
    <3>1. edits[e] \in Pages /\ edits[e].service = s
      BY <1>1, RowFacts DEF SameVersion, s
    <3>2. /\ edits'[e].row = services'[s] /\ edits'[e].service = s
          /\ edits'[e].bound = edits[e].bound
      BY <1>2, <3>1 DEF Pages, TypeOK
    <3>3. edits[e].bound = Nothing \/ edits[e].bound = bindings[s] \/ e \in torn
      BY <1>1, <3>1, ViewFacts
    <3> QED
      BY <1>2, <3>2, <3>3 DEF PageCurrent
  <2>3. \A f \in Editors : f # e => edits'[f] = edits[f]
    BY <1>2 DEF TypeOK
  <2> QED
    BY <2>1, <2>2, <2>3 DEF ViewsCurrent
<1>11. BindingsOwned'
  BY <1>2, <1>5 DEF BindingsOwned, ConnectionExists
<1> QED
  BY <1>6, <1>8, <1>9, <1>10, <1>11

LEMMA ReplaceBindingsStep ==
    ASSUME ServicesInv, NEW e \in Editors, NEW cs \in SUBSET Connections,
           ReplaceBindings(e, cs)
    PROVE  RowsInv'
<1> USE DEF ServicesInv, RowsInv
<1> DEFINE s == edits[e].service
<1>1. SameVersion(e) /\ s \in Services /\ ServiceExists(s)
  BY ViewFacts DEF ReplaceBindings
<1>2. /\ UNCHANGED <<tenants, connections, services, tokens>>
      /\ bindings' = [bindings EXCEPT ![s] = cs]
      /\ edits' = [edits EXCEPT ![e].bound = cs]
      /\ stale' = Bumped({s}) \ {e}
      /\ torn' = (torn \cup HalfRead(s)) \ {e}
      /\ cs \subseteq ConnectionsOf(services[s].tenant)
  BY DEF ReplaceBindings, OwnedConnections
<1> HIDE DEF s
<1>3. bindings'[s] = cs /\ \A u \in Services : u # s => bindings'[u] = bindings[u]
  BY <1>1, <1>2 DEF TypeOK
<1>4. ErasAgree'
  BY <1>2 DEF ErasAgree, ConnectionExists, ServiceExists
<1>5. ConnectionsClosed' /\ ServicesClosed' /\ TokensClosed'
  BY <1>2, OwnersStay DEF ConnectionsClosed, ServicesClosed, TokensClosed, Void
<1>6. ViewsCurrent'
  <2>1. ASSUME NEW f \in Editors, f # e, edits[f] # Nothing, f \notin stale'
        PROVE  PageCurrent(edits[f], services'[edits[f].service],
                           bindings'[edits[f].service], f \in torn')
    <3>1. /\ edits[f].service \in Services
          /\ PageCurrent(edits[f], services[edits[f].service], bindings[edits[f].service],
                         f \in torn)
          /\ edits[f].service = s => edits[f].row = Nothing /\ f \in torn'
          /\ f \in torn => f \in torn'
      BY <1>2, <2>1, RowFacts DEF ViewsCurrent, Bumped, HalfRead
    <3> QED
      BY <1>2, <1>3, <3>1 DEF PageCurrent
  <2>2. PageCurrent(edits'[e], services'[edits'[e].service], bindings'[edits'[e].service],
                    e \in torn')
    <3>1. edits[e] \in Pages /\ edits[e].service = s
      BY <1>1, RowFacts DEF SameVersion, s
    <3>2. /\ edits'[e].bound = cs /\ edits'[e].service = s
          /\ edits'[e].row = edits[e].row
      BY <1>2, <3>1 DEF Pages, TypeOK
    <3>3. edits[e].row = services[s]
      BY <1>1, <3>1, ViewFacts
    <3> QED
      BY <1>2, <1>3, <3>2, <3>3 DEF PageCurrent
  <2>3. \A f \in Editors : f # e => edits'[f] = edits[f]
    BY <1>2 DEF TypeOK
  <2> QED
    BY <2>1, <2>2, <2>3 DEF ViewsCurrent
<1>7. BindingsOwned'
  <2>1. ASSUME NEW c \in cs
        PROVE  /\ c \in Connections /\ ConnectionExists(c)
               /\ connections[c].tenant = services[s].tenant
               /\ connections[c].era = services[s].era
    BY <1>1, <1>2 DEF ConnectionsOf, ErasAgree
  <2> QED
    BY <1>1, <1>2, <1>3, <2>1 DEF BindingsOwned, ConnectionExists, ServiceExists
<1> QED
  BY <1>4, <1>5, <1>6, <1>7

\* A copied default connection is of an existing tenant, and only a row that
\* was not there, or the same one, becomes it.
LEMMA CopyFacts ==
    ASSUME ServicesInv, NEW t \in Tenants, NEW c \in Connections, CopyDefault(t, c)
    PROVE  /\ UNCHANGED <<tenants, services, bindings, edits, stale, torn>>
           /\ ~ Absent(t)
           /\ ConnectionExists(c)'
           /\ connections'[c].tenant = t /\ connections'[c].era = tenants[t].era
           /\ \A d \in Connections : d # c => connections'[d] = connections[d]
           /\ ConnectionExists(c) =>
                connections[c].tenant = t /\ connections[c].era = tenants[t].era
           /\ legacy'[t] = c /\ \A u \in Tenants : u # t => legacy'[u] = legacy[u]
           /\ legacy[t] = c \/ (legacy[t] = Nothing /\ connections[c] = Nothing)
           /\ \A k \in Tokens :
                tokens'[k] = tokens[k] \/ (tokens'[k].of = c /\ tokens'[k].era = tenants[t].era)
<1> USE DEF ServicesInv, RowsInv
<1> DEFINE r == [tenant |-> t, era |-> tenants[t].era,
                 status |-> IF Enabled(t) THEN "active" ELSE "disabled"]
<1>1. r \in ConnectionRows /\ r.tenant = t /\ r.era = tenants[t].era
  BY TenantEra DEF ConnectionRows, ConnectionStates
<1>2. /\ connections' = [connections EXCEPT ![c] = r]
      /\ legacy' = [legacy EXCEPT ![t] = c]
      /\ UNCHANGED <<tenants, services, bindings, edits, stale, torn>>
      /\ ~ Absent(t)
      /\ legacy[t] = c \/ (legacy[t] = Nothing /\ connections[c] = Nothing)
  BY DEF CopyDefault, pages, Absent
<1> HIDE DEF r
<1>3. connections'[c] = r /\ \A d \in Connections : d # c => connections'[d] = connections[d]
  BY <1>2 DEF TypeOK
<1>4. ConnectionExists(c)'
  BY <1>1, <1>3, RealRows DEF ConnectionExists
<1>5. ConnectionExists(c) => connections[c].tenant = t /\ connections[c].era = tenants[t].era
  <2> SUFFICES ASSUME ConnectionExists(c)
               PROVE  connections[c].tenant = t /\ connections[c].era = tenants[t].era
    OBVIOUS
  <2>1. legacy[t] = c
    BY <1>2 DEF ConnectionExists
  <2>2. connections[c].tenant = t
    BY <2>1, RealRows DEF DefaultsOwned
  <2> QED
    BY <2>2 DEF ErasAgree
<1>6. legacy'[t] = c /\ \A u \in Tenants : u # t => legacy'[u] = legacy[u]
  BY <1>2 DEF TypeOK
<1>7. \A k \in Tokens :
         tokens'[k] = tokens[k] \/ (tokens'[k].of = c /\ tokens'[k].era = tenants[t].era)
  <2>1. ASSUME NEW j \in Tokens, tokens' = [tokens EXCEPT ![j] = NewToken(c, 1)],
               tenants[t].era = 1
        PROVE  \A k \in Tokens :
                  tokens'[k] = tokens[k] \/ (tokens'[k].of = c /\ tokens'[k].era = tenants[t].era)
    <3>1. NewToken(c, 1).of = c /\ NewToken(c, 1).era = 1
      BY <2>1, NewTokenFacts, TenantEra
    <3> QED
      BY <2>1, <3>1 DEF TypeOK
  <2>2. ASSUME NEW j \in Tokens, tokens[j] # Nothing, tokens[j].of = c, tokens[j].era = 1,
               tokens' = [tokens EXCEPT ![j].sealed = TRUE], tenants[t].era = 1
        PROVE  \A k \in Tokens :
                  tokens'[k] = tokens[k] \/ (tokens'[k].of = c /\ tokens'[k].era = tenants[t].era)
    <3>1. tokens[j] \in TokenRows
      BY <2>2, RowFacts
    <3>2. tokens'[j].of = c /\ tokens'[j].era = 1
      BY <2>2, <3>1 DEF TypeOK, TokenRows
    <3> QED
      BY <2>2, <3>2 DEF TypeOK
  <2> QED
    BY <2>1, <2>2 DEF CopyDefault
<1> QED
  BY <1>1, <1>2, <1>3, <1>4, <1>5, <1>6, <1>7

LEMMA CopyDefaultStep ==
    ASSUME ServicesInv, NEW t \in Tenants, NEW c \in Connections, CopyDefault(t, c)
    PROVE  RowsInv'
<1> USE DEF ServicesInv, RowsInv
<1>1. /\ UNCHANGED <<tenants, services, bindings, edits, stale, torn>>
      /\ ~ Absent(t) /\ ConnectionExists(c)'
      /\ connections'[c].tenant = t /\ connections'[c].era = tenants[t].era
      /\ \A d \in Connections : d # c => connections'[d] = connections[d]
      /\ ConnectionExists(c) =>
           connections[c].tenant = t /\ connections[c].era = tenants[t].era
      /\ \A k \in Tokens : tokens'[k] = tokens[k] \/ tokens'[k].of = c
  BY CopyFacts
<1>2. ErasAgree'
  BY <1>1 DEF ErasAgree, ConnectionExists, ServiceExists
<1>3. ~ Orphaned(c)'
  BY <1>1, RealRows DEF Orphaned, Absent
<1>4. \A o : Orphaned(o)' => o # c /\ Orphaned(o)
  BY <1>1, <1>3 DEF Orphaned, ConnectionExists, ServiceExists, Absent
<1>5. ConnectionsClosed' /\ ServicesClosed' /\ TokensClosed'
  BY <1>1, <1>4 DEF ConnectionsClosed, ServicesClosed, TokensClosed, Void
<1>6. ViewsCurrent'
  BY <1>1 DEF ViewsCurrent
<1>7. BindingsOwned'
  <2>1. ASSUME NEW s \in Services, NEW d \in bindings[s]
        PROVE  /\ ServiceExists(s)' /\ ConnectionExists(d)'
               /\ connections'[d].tenant = services[s].tenant
               /\ connections'[d].era = services[s].era
    <3>1. /\ d \in Connections /\ ServiceExists(s) /\ ConnectionExists(d)
          /\ connections[d].tenant = services[s].tenant
          /\ connections[d].era = services[s].era
      BY <2>1 DEF BindingsOwned, TypeOK
    <3> QED
      BY <1>1, <3>1 DEF ConnectionExists, ServiceExists
  <2> QED
    BY <1>1, <2>1 DEF BindingsOwned
<1> QED
  BY <1>2, <1>5, <1>6, <1>7

\* Calls change no row, and no editor's page.
LEMMA CallOrStutter ==
    ASSUME ServicesInv, CallStep \/ UNCHANGED vars
    PROVE  RowsInv'
<1> USE DEF ServicesInv, RowsInv
<1>1. UNCHANGED <<tenants, connections, services, bindings, tokens, edits, stale, torn>>
  BY DEF CallStep, Peek, Confirm, SelectBinding, Execute, vars, rows, pages
<1>2. ErasAgree' /\ BindingsOwned' /\ ViewsCurrent'
  BY <1>1 DEF ErasAgree, BindingsOwned, ViewsCurrent, ConnectionExists, ServiceExists
<1>3. ConnectionsClosed' /\ ServicesClosed' /\ TokensClosed'
  BY <1>1, OwnersStay DEF ConnectionsClosed, ServicesClosed, TokensClosed, Void
<1> QED
  BY <1>2, <1>3

-----------------------------------------------------------------------------
(* What becomes of rows and tokens.                                        *)

LEMMA ServicesStay ==
    ASSUME ServicesInv, [Next]_vars, NEW s \in Services, ServiceExists(s)
    PROVE  /\ ServiceExists(s)'
           /\ services'[s].tenant = services[s].tenant /\ services'[s].era = services[s].era
<1> USE DEF ServicesInv
<1> DEFINE Stays == /\ ServiceExists(s)'
                    /\ services'[s].tenant = services[s].tenant
                    /\ services'[s].era = services[s].era
<1>1. services[s] \in ServiceRows
  BY RowFacts
<1>2. ASSUME NEW status, services'[s] = [services[s] EXCEPT !.status = status],
             status \in ServiceStates
      PROVE  Stays
  <2>1. /\ services'[s] \in ServiceRows /\ services'[s].tenant = services[s].tenant
        /\ services'[s].era = services[s].era
    BY <1>1, <1>2 DEF ServiceRows
  <2> QED
    BY <2>1, RealRows DEF ServiceExists
<1>3. ASSUME services'[s] = services[s]
      PROVE  Stays
  BY <1>3 DEF ServiceExists
<1>4. ASSUME NEW t \in Tenants, RetireTenant(t)
      PROVE  Stays
  <2>1. services'[s] = IF s \in ServicesOf(t) THEN [services[s] EXCEPT !.status = "disabled"]
                       ELSE services[s]
    BY <1>4 DEF RetireTenant
  <2> QED
    BY <1>2, <1>3, <2>1 DEF ServiceStates
<1>5. CASE TenantStep
  <2>1. ASSUME NEW t \in Tenants, NEW enabled \in BOOLEAN,
               CreateTenant(t, enabled) \/ SwitchTenant(t, enabled)
        PROVE  services'[s] = services[s]
    BY <2>1 DEF CreateTenant, SwitchTenant
  <2> QED
    BY <1>3, <1>4, <1>5, <2>1 DEF TenantStep
<1>6. CASE ConnectionStep \/ TokenStep \/ StartStep \/ CallStep \/ UNCHANGED vars
  BY <1>3, <1>6 DEF ConnectionStep, CreateConnection, SetConnectionStatus, DeleteConnection,
                    IssueConnectionToken, TokenStep, RevokeToken, TokenExpires, StartStep,
                    CopyDefault, CallStep, Peek, Confirm, SelectBinding, Execute, vars, rows
<1>7. CASE ServiceStep
  <2>1. ASSUME NEW u \in Services, NEW t \in Tenants, CreateService(u, t)
        PROVE  services'[s] = services[s]
    BY <2>1 DEF CreateService, ServiceExists, TypeOK
  <2> QED
    BY <1>3, <1>7, <2>1 DEF ServiceStep, IssueServiceToken, ReadService,
                             ReadBindings, rows
<1>8. ASSUME NEW e \in Editors, NEW status \in ServiceStates, UpdateServiceStatus(e, status)
      PROVE  Stays
  <2>1. \/ services'[s] = services[s]
        \/ services'[s] = [services[s] EXCEPT !.status = status]
    BY <1>8 DEF UpdateServiceStatus, TypeOK
  <2> QED
    BY <1>2, <1>3, <2>1
<1>9. CASE EditStep
  BY <1>3, <1>8, <1>9 DEF EditStep, ReplaceBindings
<1> QED
  BY <1>5, <1>6, <1>7, <1>9 DEF Next

\* What becomes of a connection: only a default one comes back.
LEMMA ConnectionsStay ==
    ASSUME ServicesInv, [Next]_vars, NEW c \in Connections
    PROVE  /\ connections[c] # Nothing => connections'[c] # Nothing
           /\ ConnectionExists(c) /\ ConnectionExists(c)' =>
                /\ connections'[c].tenant = connections[c].tenant
                /\ connections'[c].era = connections[c].era
           /\ connections[c] # Nothing /\ ConnectionExists(c)' /\ ~ ConnectionExists(c)
                => IsDefault(c)
<1> USE DEF ServicesInv
<1> DEFINE Stays ==
           /\ connections[c] # Nothing => connections'[c] # Nothing
           /\ ConnectionExists(c) /\ ConnectionExists(c)' =>
                /\ connections'[c].tenant = connections[c].tenant
                /\ connections'[c].era = connections[c].era
           /\ connections[c] # Nothing /\ ConnectionExists(c)' /\ ~ ConnectionExists(c)
                => IsDefault(c)
<1>1. ASSUME connections'[c] = connections[c]
      PROVE  Stays
  BY <1>1 DEF ConnectionExists
<1>2. ASSUME NEW status \in ConnectionStates, ConnectionExists(c),
             connections'[c] = [connections[c] EXCEPT !.status = status]
      PROVE  Stays
  <2>1. connections[c] \in ConnectionRows
    BY <1>2, RowFacts
  <2>2. /\ connections'[c] \in ConnectionRows
        /\ connections'[c].tenant = connections[c].tenant
        /\ connections'[c].era = connections[c].era
    BY <1>2, <2>1 DEF ConnectionRows
  <2> QED
    BY <1>2, <2>2, RealRows
<1>3. CASE TenantStep
  <2>1. ASSUME NEW t \in Tenants, RetireTenant(t)
        PROVE  Stays
    <3>1. connections'[c] = IF c \in ConnectionsOf(t)
                            THEN [connections[c] EXCEPT !.status = "disabled"]
                            ELSE connections[c]
      BY <2>1 DEF RetireTenant
    <3> QED
      BY <1>1, <1>2, <3>1 DEF ConnectionsOf, ConnectionStates
  <2> QED
    BY <1>1, <1>3, <2>1 DEF TenantStep, CreateTenant, SwitchTenant
<1>4. CASE ConnectionStep
  <2>1. ASSUME NEW d \in Connections, NEW t \in Tenants, NEW status \in {"draft", "active"},
               NEW k \in Tokens, CreateConnection(d, t, status, k)
        PROVE  Stays
    <3>1. connections[d] = Nothing /\ (c # d => connections'[c] = connections[c])
      BY <2>1 DEF CreateConnection, TypeOK
    <3> QED
      BY <1>1, <3>1 DEF ConnectionExists
  <2>2. ASSUME NEW d \in Connections, NEW status \in ConnectionStates,
               SetConnectionStatus(d, status)
        PROVE  Stays
    <3>1. \/ connections'[c] = connections[c]
          \/ /\ ConnectionExists(c)
             /\ connections'[c] = [connections[c] EXCEPT !.status = status]
      BY <2>2 DEF SetConnectionStatus, TypeOK
    <3> QED
      BY <1>1, <1>2, <3>1
  <2>3. ASSUME NEW d \in Connections, DeleteConnection(d)
        PROVE  Stays
    <3>1. connections'[c] = Gone \/ connections'[c] = connections[c]
      BY <2>3 DEF DeleteConnection, TypeOK
    <3> QED
      BY <1>1, <3>1, RealRows DEF ConnectionExists
  <2> QED
    BY <1>1, <1>4, <2>1, <2>2, <2>3 DEF ConnectionStep, IssueConnectionToken
<1>5. ASSUME NEW t \in Tenants, NEW d \in Connections, CopyDefault(t, d)
      PROVE  Stays
  <2>1. CASE c # d
    BY <1>1, <1>5, <2>1, CopyFacts
  <2>2. CASE c = d
    BY <1>5, <2>2, CopyFacts DEF ConnectionExists, IsDefault
  <2> QED
    BY <2>1, <2>2
<1>6. CASE TokenStep \/ ServiceStep \/ EditStep \/ CallStep \/ UNCHANGED vars
  BY <1>1, <1>6 DEF TokenStep, RevokeToken, TokenExpires, ServiceStep, CreateService,
                    IssueServiceToken, ReadService, ReadBindings, EditStep, UpdateServiceStatus,
                    ReplaceBindings, CallStep, Peek, Confirm, SelectBinding, Execute, vars, rows
<1> QED
  BY <1>3, <1>4, <1>5, <1>6 DEF Next, StartStep

LEMMA DefaultsStep == ServicesInv /\ [Next]_vars => DefaultsOwned'
<1> SUFFICES ASSUME ServicesInv, [Next]_vars
             PROVE  DefaultsOwned'
  OBVIOUS
<1> USE DEF ServicesInv
<1>1. ASSUME UNCHANGED legacy,
             \A c \in Connections : ConnectionExists(c)' /\ connections[c] # Nothing
                                     => ConnectionExists(c)
      PROVE  DefaultsOwned'
  <2>1. ASSUME NEW t \in Tenants, legacy[t] # Nothing
        PROVE  /\ connections'[legacy[t]] # Nothing
               /\ ConnectionExists(legacy[t])' => connections'[legacy[t]].tenant = t
    <3>1. PICK c \in Connections : c = legacy[t]
      BY <2>1 DEF TypeOK
    <3>2. connections[c] # Nothing /\ (ConnectionExists(c) => connections[c].tenant = t)
      BY <2>1, <3>1 DEF DefaultsOwned
    <3>3. connections'[c] # Nothing /\ (ConnectionExists(c)' => connections'[c].tenant = t)
      BY <1>1, <3>2, ConnectionsStay
    <3> QED
      BY <1>1, <3>1, <3>3 DEF ConnectionExists
  <2> QED
    BY <1>1, <2>1 DEF DefaultsOwned, ConnectionExists
<1>2. CASE TenantStep
  <2>1. ASSUME NEW t \in Tenants, RetireTenant(t), NEW c \in Connections,
               ConnectionExists(c)', connections[c] # Nothing
        PROVE  ConnectionExists(c)
    BY <2>1 DEF RetireTenant, ConnectionsOf, ConnectionExists
  <2>2. UNCHANGED legacy
    BY <1>2 DEF TenantStep, CreateTenant, SwitchTenant, RetireTenant
  <2> QED
    BY <1>1, <1>2, <2>1, <2>2 DEF TenantStep, CreateTenant, SwitchTenant, ConnectionExists
<1>3. CASE ConnectionStep
  <2>1. UNCHANGED legacy
    BY <1>3 DEF ConnectionStep, CreateConnection, SetConnectionStatus, DeleteConnection,
                IssueConnectionToken
  <2>2. ASSUME NEW c \in Connections, ConnectionExists(c)', connections[c] # Nothing
        PROVE  ConnectionExists(c)
    BY <1>3, <2>2 DEF ConnectionStep, CreateConnection, SetConnectionStatus, DeleteConnection,
                      IssueConnectionToken, ConnectionExists, TypeOK
  <2> QED
    BY <1>1, <2>1, <2>2
<1>4. ASSUME NEW t \in Tenants, NEW c \in Connections, CopyDefault(t, c)
      PROVE  DefaultsOwned'
  <2>1. /\ ConnectionExists(c)' /\ connections'[c].tenant = t
        /\ \A d \in Connections : d # c => connections'[d] = connections[d]
        /\ legacy'[t] = c /\ \A u \in Tenants : u # t => legacy'[u] = legacy[u]
        /\ legacy[t] = c \/ (legacy[t] = Nothing /\ connections[c] = Nothing)
    BY <1>4, CopyFacts
  <2>2. \A u \in Tenants : u # t => legacy[u] # c
    BY <2>1, RealRows DEF DefaultsOwned
  <2>3. \A u \in Tenants : legacy[u] # Nothing => legacy[u] \in Connections
    BY DEF TypeOK
  <2> QED
    BY <2>1, <2>2, <2>3 DEF DefaultsOwned, ConnectionExists
<1>5. CASE TokenStep \/ ServiceStep \/ EditStep \/ CallStep \/ UNCHANGED vars
  <2>1. UNCHANGED <<connections, legacy>>
    BY <1>5 DEF TokenStep, RevokeToken, TokenExpires, ServiceStep, CreateService,
                IssueServiceToken, ReadService, ReadBindings, EditStep, UpdateServiceStatus,
                ReplaceBindings, CallStep, Peek, Confirm, SelectBinding, Execute, vars, rows
  <2> QED
    BY <1>1, <2>1 DEF ConnectionExists
<1> QED
  BY <1>2, <1>3, <1>4, <1>5 DEF Next, StartStep

LEMMA DefaultsRemain ==
    ASSUME ServicesInv, [Next]_vars, NEW o \in Connections, IsDefault(o)
    PROVE  IsDefault(o)'
<1>1. CASE StartStep
  <2>1. PICK t \in Tenants, c \in Connections : CopyDefault(t, c)
    BY <1>1 DEF StartStep
  <2>2. PICK u \in Tenants : legacy[u] = o
    BY DEF IsDefault
  <2>3. legacy'[u] = o
    BY <2>1, <2>2, CopyFacts, RealRows
  <2> QED
    BY <2>3 DEF IsDefault
<1>2. CASE ~ StartStep
  <2>1. UNCHANGED legacy
    BY <1>2 DEF Next, TenantStep, CreateTenant, SwitchTenant, RetireTenant, ConnectionStep,
                CreateConnection, SetConnectionStatus, DeleteConnection, IssueConnectionToken,
                TokenStep, RevokeToken, TokenExpires, ServiceStep, CreateService,
                IssueServiceToken, ReadService, ReadBindings, EditStep, UpdateServiceStatus,
                ReplaceBindings, CallStep, Peek, Confirm, SelectBinding, Execute, vars, rows
  <2> QED
    BY <2>1 DEF IsDefault
<1> QED
  BY <1>1, <1>2

\* Whether a token is of the life of the row it leads to.
IssuedFor(k) ==
    \/ \E c \in Connections : /\ tokens[k].of = c /\ ConnectionExists(c)
                             /\ tokens[k].era = connections[c].era
    \/ \E s \in Services : /\ tokens[k].of = s /\ ServiceExists(s)
                          /\ tokens[k].era = services[s].era

\* A token keeps its owner, and a new one is of the life of a row that is there.
LEMMA TokenOrigins ==
    ASSUME ServicesInv, [Next]_vars, NEW k \in Tokens, tokens'[k] # Nothing
    PROVE  \/ /\ tokens[k] # Nothing
              /\ tokens'[k].of = tokens[k].of /\ tokens'[k].era = tokens[k].era
           \/ IssuedFor(k)'
<1> USE DEF ServicesInv
<1> DEFINE Kept == /\ tokens[k] # Nothing
                   /\ tokens'[k].of = tokens[k].of /\ tokens'[k].era = tokens[k].era
           New == IssuedFor(k)'
<1>1. ASSUME tokens'[k] = tokens[k]
      PROVE  Kept
  BY <1>1
<1>2. ASSUME NEW ks, \A j \in Tokens : j \in ks => tokens[j] # Nothing,
             tokens'[k] = RevokeAll(ks)[k]
      PROVE  Kept
  BY <1>2, RevokeAllFacts
<1>3. CASE TenantStep
  <2>1. ASSUME NEW t \in Tenants, RetireTenant(t)
        PROVE  Kept
    <3> DEFINE ks == TokensOf(ConnectionsOf(t) \cup ServicesOf(t))
    <3>1. /\ \A j \in Tokens : j \in ks => tokens[j] # Nothing
          /\ tokens' = RevokeAll(ks)
      BY <2>1 DEF RetireTenant, TokensOf
    <3> HIDE DEF ks
    <3> QED
      BY <1>2, <3>1
  <2> QED
    BY <1>1, <1>3, <2>1 DEF TenantStep, CreateTenant, SwitchTenant
<1>4. ASSUME NEW o \in Connections \cup Services, NEW j \in Tokens, NEW ks,
             NEW era \in 0..MaxEra,
             \A i \in Tokens : i \in ks => tokens[i] # Nothing,
             tokens' = [RevokeAll(ks) EXCEPT ![j] = NewToken(o, era)],
             \/ o \in Connections /\ ConnectionExists(o)' /\ connections'[o].era = era
             \/ o \in Services /\ ServiceExists(o)' /\ services'[o].era = era
      PROVE  Kept \/ New
  <2>1. CASE k = j
    <3>1. tokens'[k] = NewToken(o, era)
      BY <1>4, <2>1, RevokeAllFacts
    <3>2. tokens'[k].of = o /\ tokens'[k].era = era
      BY <3>1, NewTokenFacts
    <3> QED
      BY <1>4, <3>2 DEF IssuedFor, ConnectionExists, ServiceExists
  <2>2. CASE k # j
    BY <1>2, <1>4, <2>2, RevokeAllFacts
  <2> QED
    BY <2>1, <2>2
<1>5. ASSUME NEW o \in Connections \cup Services, NEW j \in Tokens, NEW era \in 0..MaxEra,
             tokens' = [tokens EXCEPT ![j] = NewToken(o, era)],
             \/ o \in Connections /\ ConnectionExists(o)' /\ connections'[o].era = era
             \/ o \in Services /\ ServiceExists(o)' /\ services'[o].era = era
      PROVE  Kept \/ New
  <2>1. CASE k = j
    <3>1. tokens'[k].of = o /\ tokens'[k].era = era
      BY <1>5, <2>1, NewTokenFacts DEF TypeOK
    <3> QED
      BY <1>5, <3>1 DEF IssuedFor, ConnectionExists, ServiceExists
  <2>2. CASE k # j
    BY <1>1, <1>5, <2>2
  <2> QED
    BY <2>1, <2>2
<1>6. CASE ConnectionStep
  <2>1. ASSUME NEW c \in Connections, NEW t \in Tenants, NEW status \in {"draft", "active"},
               NEW j \in Tokens, CreateConnection(c, t, status, j)
        PROVE  Kept \/ New
    <3>1. tokens' = [tokens EXCEPT ![j] = NewToken(c, tenants[t].era)]
      BY <2>1 DEF CreateConnection
    <3>2. connections'[c] = [tenant |-> t, era |-> tenants[t].era, status |-> status]
      BY <2>1 DEF CreateConnection, TypeOK
    <3>3. /\ tenants[t].era \in 0..MaxEra /\ connections'[c].era = tenants[t].era
          /\ connections'[c] \in ConnectionRows
      BY <3>2, TenantEra DEF ConnectionRows, ConnectionStates
    <3>4. ConnectionExists(c)'
      BY <3>3, RealRows DEF ConnectionExists
    <3> QED
      BY <1>5, <3>1, <3>3, <3>4
  <2>2. ASSUME NEW c \in Connections, NEW j \in Tokens, NEW rotate \in BOOLEAN,
               IssueConnectionToken(c, j, rotate)
        PROVE  Kept \/ New
    <3> DEFINE ks == IF rotate THEN TokensOf({c}) ELSE {}
               era == tenants[connections[c].tenant].era
    <3>1. /\ \A i \in Tokens : i \in ks => tokens[i] # Nothing
          /\ tokens' = [RevokeAll(ks) EXCEPT ![j] = NewToken(c, era)]
      BY <2>2 DEF IssueConnectionToken, TokensOf
    <3>2. /\ ConnectionExists(c)' /\ connections'[c].era = era
          /\ era \in 0..MaxEra
      BY <2>2, RowFacts DEF IssueConnectionToken, ConnectionExists, RowsInv, ErasAgree
    <3> HIDE DEF ks, era
    <3> QED
      BY <1>4, <3>1, <3>2
  <2>3. ASSUME NEW c \in Connections,
               (\E status \in ConnectionStates : SetConnectionStatus(c, status)) \/ DeleteConnection(c)
        PROVE  Kept
    BY <1>1, <2>3 DEF SetConnectionStatus, DeleteConnection
  <2> QED
    BY <1>6, <2>1, <2>2, <2>3 DEF ConnectionStep
<1>7. CASE TokenStep
  <2>1. ASSUME NEW j \in Tokens, RevokeToken(j)
        PROVE  Kept
    <3>1. \A i \in Tokens : i \in {j} => tokens[i] # Nothing
      BY <2>1 DEF RevokeToken
    <3> QED
      BY <1>2, <2>1, <3>1 DEF RevokeToken
  <2>2. ASSUME NEW j \in Tokens, TokenExpires(j)
        PROVE  Kept
    <3>1. tokens[j] \in TokenRows /\ tokens' = [tokens EXCEPT ![j].expired = TRUE]
      BY <2>2, RowFacts DEF TokenExpires
    <3>2. /\ tokens'[j].of = tokens[j].of /\ tokens'[j].era = tokens[j].era
          /\ tokens[j] # Nothing
      BY <2>2, <3>1 DEF TokenExpires, TokenRows, TypeOK
    <3> QED
      BY <1>1, <3>1, <3>2
  <2> QED
    BY <1>7, <2>1, <2>2 DEF TokenStep
<1>8. CASE ServiceStep
  <2>1. ASSUME NEW s \in Services, NEW j \in Tokens, IssueServiceToken(s, j)
        PROVE  Kept \/ New
    <3> DEFINE era == tenants[services[s].tenant].era
    <3>1. tokens' = [tokens EXCEPT ![j] = NewToken(s, era)]
      BY <2>1 DEF IssueServiceToken
    <3>2. /\ ServiceExists(s)' /\ services'[s].era = era
          /\ era \in 0..MaxEra
      BY <2>1, RowFacts DEF IssueServiceToken, ServiceExists, RowsInv, ErasAgree
    <3> HIDE DEF era
    <3> QED
      BY <1>5, <3>1, <3>2
  <2> QED
    BY <1>1, <1>8, <2>1 DEF ServiceStep, CreateService, ReadService, ReadBindings, rows
<1>9. CASE EditStep \/ CallStep \/ UNCHANGED vars
  BY <1>1, <1>9 DEF EditStep, UpdateServiceStatus, ReplaceBindings, CallStep, Peek, Confirm,
                    SelectBinding, Execute, vars, rows
<1>10. ASSUME NEW t \in Tenants, NEW c \in Connections, CopyDefault(t, c)
      PROVE  Kept \/ New
  <2>1. tokens'[k] = tokens[k] \/ (tokens'[k].of = c /\ tokens'[k].era = tenants[t].era)
    BY <1>10, CopyFacts
  <2>2. ConnectionExists(c)' /\ connections'[c].era = tenants[t].era
    BY <1>10, CopyFacts
  <2> QED
    BY <1>1, <2>1, <2>2 DEF IssuedFor, ConnectionExists
<1> QED
  BY <1>3, <1>6, <1>7, <1>8, <1>9, <1>10 DEF Next, StartStep

LEMMA AgreeStep == ServicesInv /\ [Next]_vars => TokensAgree'
<1> SUFFICES ASSUME ServicesInv, [Next]_vars, NEW k \in Tokens, tokens'[k] # Nothing
             PROVE  /\ \A c \in Connections : tokens'[k].of = c =>
                         /\ connections'[c] # Nothing
                         /\ ConnectionExists(c)' =>
                              tokens'[k].era = connections'[c].era \/ IsDefault(c)'
                    /\ \A s \in Services : tokens'[k].of = s =>
                         ServiceExists(s)' /\ tokens'[k].era = services'[s].era
  BY DEF TokensAgree, ConnectionExists, ServiceExists, IsDefault
<1>1. CASE /\ tokens[k] # Nothing
           /\ tokens'[k].of = tokens[k].of /\ tokens'[k].era = tokens[k].era
  <2>1. ASSUME NEW c \in Connections, tokens[k].of = c
        PROVE  /\ connections'[c] # Nothing
               /\ ConnectionExists(c)' =>
                    tokens[k].era = connections'[c].era \/ IsDefault(c)'
    <3>1. /\ connections[c] # Nothing
          /\ ConnectionExists(c) => tokens[k].era = connections[c].era \/ IsDefault(c)
      BY <1>1, <2>1 DEF ServicesInv, TokensAgree
    <3>2. IsDefault(c) => IsDefault(c)'
      BY DefaultsRemain
    <3> QED
      BY <3>1, <3>2, ConnectionsStay
  <2>2. ASSUME NEW s \in Services, tokens[k].of = s
        PROVE  ServiceExists(s)' /\ tokens[k].era = services'[s].era
    BY <1>1, <2>2, ServicesStay DEF ServicesInv, TokensAgree
  <2> QED
    BY <1>1, <2>1, <2>2
<1>2. CASE IssuedFor(k)'
  BY <1>2, RealRows DEF IssuedFor, ConnectionExists, ServiceExists
<1> QED
  BY <1>1, <1>2, TokenOrigins

-----------------------------------------------------------------------------
(* The invariant.                                                          *)

LEMMA ServicesInitInv == Init => ServicesInv
<1> SUFFICES ASSUME Init
             PROVE  ServicesInv
  OBVIOUS
<1>1. TypeOK
  BY ServiceConstants DEF Init, TypeOK, TenantRows
<1>2. ErasAgree /\ ConnectionsClosed /\ ServicesClosed /\ TokensClosed
  BY DEF Init, ErasAgree, ConnectionsClosed, ServicesClosed, TokensClosed, Orphaned,
         ConnectionExists, ServiceExists
<1>3. ViewsCurrent /\ BindingsOwned /\ CallsKnow
  BY DEF Init, ViewsCurrent, BindingsOwned, CallsKnow
<1>4. DefaultsOwned /\ TokensAgree
  BY DEF Init, DefaultsOwned, TokensAgree
<1> QED
  BY <1>1, <1>2, <1>3, <1>4 DEF ServicesInv, RowsInv

LEMMA RowsStep == ServicesInv /\ [Next]_vars => RowsInv'
<1> SUFFICES ASSUME ServicesInv, [Next]_vars
             PROVE  RowsInv'
  OBVIOUS
<1>1. CASE TenantStep
  BY <1>1, CreateTenantStep, SwitchTenantStep, RetireTenantStep DEF TenantStep
<1>2. CASE ConnectionStep
  BY <1>2, CreateConnectionStep, SetConnectionStatusStep, DeleteConnectionStep, IssueStep
     DEF ConnectionStep
<1>3. CASE ServiceStep
  <2>1. ASSUME NEW s \in Services, NEW k \in Tokens, IssueServiceToken(s, k)
        PROVE  RowsInv'
    BY <2>1, IssueStep
  <2> QED
    BY <1>3, <2>1, CreateServiceStep, ReadStep DEF ServiceStep
<1>4. CASE EditStep
  BY <1>4, UpdateServiceStatusStep, ReplaceBindingsStep DEF EditStep
<1>5. CASE StartStep
  BY <1>5, CopyDefaultStep DEF StartStep
<1> QED
  BY <1>1, <1>2, <1>3, <1>4, <1>5, TokenSteps, CallOrStutter DEF Next

LEMMA ServicesInvHolds == Spec => []ServicesInv
<1>1. ServicesInv /\ [Next]_vars => ServicesInv'
  BY TypeStep, KnowStep, RowsStep, DefaultsStep, AgreeStep DEF ServicesInv
<1> QED
  BY ServicesInitInv, <1>1, PTL DEF Spec

-----------------------------------------------------------------------------
(* What is promised.                                                       *)

\* Every reachable state is of the types of the model.
THEOREM ServicesTypeCorrect == Spec => []TypeOK
BY ServicesInvHolds, PTL DEF ServicesInv

\* Whatever is bound, deleted, retired and created again, a binding leads to
\* an existing connection of the service's own tenant and of its life.
THEOREM BindingsSafe == Spec => []BindingsOwned
BY ServicesInvHolds, PTL DEF ServicesInv, RowsInv

\* No row of a deleted tenant is active and no token of one usable, whatever
\* was issued or activated around the deletion.
THEOREM RetirementFinal == Spec => []RetiredTenantHasNoAccess
<1>1. ServicesInv => RetiredTenantHasNoAccess
  <2> SUFFICES ASSUME ServicesInv, NEW t \in Tenants, Absent(t)
               PROVE  /\ \A c \in ConnectionsOf(t) : connections[c].status # "active"
                      /\ \A s \in ServicesOf(t) : services[s].status # "active"
                      /\ \A k \in TokensOf(ConnectionsOf(t) \cup ServicesOf(t)) : Void(k)
    BY DEF RetiredTenantHasNoAccess, Absent, Void
  <2>1. \A o \in ConnectionsOf(t) \cup ServicesOf(t) : o \in Connections \cup Services /\ Orphaned(o)
    BY DEF ConnectionsOf, ServicesOf, Orphaned
  <2>2. \A c \in ConnectionsOf(t) : connections[c].status # "active"
    BY <2>1 DEF ServicesInv, RowsInv, ConnectionsClosed, ConnectionsOf
  <2>3. \A s \in ServicesOf(t) : services[s].status # "active"
    BY <2>1 DEF ServicesInv, RowsInv, ServicesClosed, ServicesOf
  <2>4. \A k \in TokensOf(ConnectionsOf(t) \cup ServicesOf(t)) : Void(k)
    BY <2>1 DEF ServicesInv, RowsInv, TokensClosed, TokensOf
  <2> QED
    BY <2>2, <2>3, <2>4
<1> QED
  BY ServicesInvHolds, <1>1, PTL

\* A tenant under an id that was used before owns nothing of the former one,
\* and no token of the former leads to it but through the default connection.
THEOREM NothingIsInherited == Spec => []NothingInherited
<1>1. ServicesInv => NothingInherited
  <2> SUFFICES ASSUME ServicesInv, NEW t \in Tenants
               PROVE  /\ \A c \in ConnectionsOf(t) : connections[c].era = tenants[t].era
                      /\ \A s \in ServicesOf(t) : services[s].era = tenants[t].era
                      /\ \A k \in TokensOf(ConnectionsOf(t) \cup ServicesOf(t)) :
                            tokens[k].era = tenants[t].era \/ tokens[k].of = legacy[t]
    BY DEF NothingInherited
  <2> USE DEF ServicesInv
  <2>1. /\ \A c \in ConnectionsOf(t) : connections[c].era = tenants[t].era
        /\ \A s \in ServicesOf(t) : services[s].era = tenants[t].era
    BY DEF RowsInv, ErasAgree, ConnectionsOf, ServicesOf
  <2>2. ASSUME NEW c \in ConnectionsOf(t), IsDefault(c)
        PROVE  legacy[t] = c
    <3>1. PICK u \in Tenants : legacy[u] = c
      BY <2>2 DEF IsDefault
    <3>2. c \in Connections /\ ConnectionExists(c) /\ connections[c].tenant = t
      BY <2>2 DEF ConnectionsOf
    <3> QED
      BY <3>1, <3>2, RealRows DEF DefaultsOwned
  <2>3. ASSUME NEW k \in Tokens, tokens[k] # Nothing, NEW c \in ConnectionsOf(t), tokens[k].of = c
        PROVE  tokens[k].era = tenants[t].era \/ tokens[k].of = legacy[t]
    <3>1. c \in Connections /\ ConnectionExists(c)
      BY <2>3 DEF ConnectionsOf
    <3>2. tokens[k].era = connections[c].era \/ IsDefault(c)
      BY <2>3, <3>1 DEF TokensAgree
    <3> QED
      BY <2>1, <2>2, <2>3, <3>2
  <2>4. ASSUME NEW k \in Tokens, tokens[k] # Nothing, NEW s \in ServicesOf(t), tokens[k].of = s
        PROVE  tokens[k].era = tenants[t].era
    <3>1. s \in Services
      BY <2>4 DEF ServicesOf
    <3> QED
      BY <2>1, <2>4, <3>1 DEF TokensAgree
  <2> QED
    BY <2>1, <2>3, <2>4 DEF TokensOf
<1> QED
  BY ServicesInvHolds, <1>1, PTL

\* An edit of a service replaces the row its editor saw, and the bindings its
\* editor saw unless they were replaced before the row was read: the version
\* that is compared was read with the row.
THEOREM EditsLoseNothing == Spec => EditsReplaceWhatWasRead
<1>1. ASSUME ServicesInv, NEW e \in Editors, NEW status \in ServiceStates,
             UpdateServiceStatus(e, status)
      PROVE  edits[e].row = services[edits[e].service]
  BY <1>1, ViewFacts DEF UpdateServiceStatus, ServicesInv, RowsInv
<1>2. ASSUME ServicesInv, NEW e \in Editors, NEW cs \in SUBSET Connections,
             ReplaceBindings(e, cs)
      PROVE  /\ edits[e].row = services[edits[e].service]
             /\ edits[e].bound = bindings[edits[e].service] \/ e \in torn
  BY <1>2, ViewFacts DEF ReplaceBindings, ServicesInv, RowsInv
<1>3. ServicesInv =>
        \A e \in Editors :
          /\ \A status \in ServiceStates :
                UpdateServiceStatus(e, status) => edits[e].row = services[edits[e].service]
          /\ \A cs \in SUBSET Connections :
                ReplaceBindings(e, cs) =>
                   /\ edits[e].row = services[edits[e].service]
                   /\ edits[e].bound = bindings[edits[e].service] \/ e \in torn
  BY <1>1, <1>2
<1> QED
  BY ServicesInvHolds, <1>3, PTL DEF EditsReplaceWhatWasRead

\* The step with which a call reaches its connection.
LEMMA ExecutingStep ==
    ASSUME ServicesInv, [Next]_vars, NEW c \in Calls,
           stage[c] # "executing", stage'[c] = "executing"
    PROVE  Execute(c) /\ UsableConnection(c)
<1>1. ASSUME UNCHANGED stage
      PROVE  FALSE
  BY <1>1
<1>2. ~ StartStep
  BY DEF StartStep, CopyDefault, ServicesInv, TypeOK
<1>3. CallStep
  BY <1>1, <1>2 DEF Next, vars, TenantStep, CreateTenant, SwitchTenant, RetireTenant,
              ConnectionStep, CreateConnection, SetConnectionStatus,
              DeleteConnection, IssueConnectionToken,
              TokenStep, RevokeToken, TokenExpires,
              ServiceStep, CreateService, IssueServiceToken, ReadService, ReadBindings,
              EditStep, UpdateServiceStatus, ReplaceBindings, pages
<1>4. PICK d \in Calls : (\E k \in Tokens : Peek(d, k)) \/ Confirm(d) \/ SelectBinding(d)
                         \/ Execute(d)
  BY <1>3 DEF CallStep
<1>5. d = c /\ Execute(c)
  BY <1>4 DEF Peek, Confirm, SelectBinding, Execute, Goto, ServicesInv, TypeOK
<1> QED
  BY <1>5 DEF Execute, Goto, ServicesInv, TypeOK

\* A call that passed every check of the gateway before its tenant was deleted
\* does not reach the connection.
THEOREM CallsStopped == Spec => RetirementStopsCalls
<1> DEFINE Owner(c) == services[target[c].service].tenant
<1>1. ASSUME ServicesInv, [Next]_vars, NEW c \in Calls,
             stage[c] # "executing", stage'[c] = "executing"
      PROVE  ~ Absent(Owner(c))
  <2>1. PICK n \in Connections : /\ ConnectionExists(n) /\ connections[n].tenant = Owner(c)
                                 /\ connections[n].status = "active"
    BY <1>1, ExecutingStep DEF UsableConnection, ConnectionsOf
  <2> QED
    BY <1>1, <2>1 DEF ServicesInv, RowsInv, ConnectionsClosed, Orphaned
<1>2. ServicesInv /\ [Next]_vars =>
         \A c \in Calls :
            (stage[c] # "executing" /\ stage'[c] = "executing") =>
               tenants[services[target[c].service].tenant].status # "absent"
  BY <1>1 DEF Absent
<1> QED
  BY ServicesInvHolds, <1>2, PTL DEF Spec, RetirementStopsCalls

-----------------------------------------------------------------------------
(* Where a call may end up.                                                *)

\* A service that is being called is not taken back.
OwnersRemain == \A c \in Calls : stage[c] # "idle" => ServiceExists(target[c].service)

LEMMA RemainStep == ServicesInv /\ OwnersRemain /\ [Next]_vars => OwnersRemain'
<1> SUFFICES ASSUME ServicesInv, OwnersRemain, [Next]_vars
             PROVE  OwnersRemain'
  OBVIOUS
<1>2. ASSUME NEW c \in Calls, stage'[c] # "idle"
      PROVE  services'[target'[c].service] # Nothing
  <2>1. ASSUME stage[c] # "idle", target'[c].service = target[c].service
        PROVE  services'[target'[c].service] # Nothing
    <3>1. ServiceExists(target[c].service) /\ target[c].service \in Services
      BY <2>1 DEF OwnersRemain, ServicesInv, CallsKnow, Targets
    <3>2. PICK s \in Services : s = target[c].service
      BY <3>1
    <3>3. ServiceExists(s)'
      BY <3>1, <3>2, ServicesStay
    <3> QED
      BY <2>1, <3>2, <3>3 DEF ServiceExists
  <2>2. CASE UNCHANGED <<stage, target>>
    BY <1>2, <2>1, <2>2
  <2>3. CASE CallStep
    <3>1. ASSUME NEW d \in Calls, NEW k \in Tokens, Peek(d, k)
          PROVE  services'[target'[c].service] # Nothing
      <4>1. CASE d = c
        <5>1. tokens[k].of \in Services /\ ServiceExists(tokens[k].of)
          BY <3>1 DEF Peek, Admits, ServicesInv, TokensAgree
        <5>2. target'[c].service = tokens[k].of /\ services' = services
          BY <3>1, <4>1 DEF Peek, rows, ServicesInv, TypeOK
        <5> QED
          BY <5>1, <5>2 DEF ServiceExists
      <4>2. CASE d # c
        BY <1>2, <2>1, <3>1, <4>2 DEF Peek, Goto, ServicesInv, TypeOK
      <4> QED
        BY <4>1, <4>2
    <3>2. ASSUME NEW d \in Calls, Confirm(d) \/ Execute(d)
          PROVE  services'[target'[c].service] # Nothing
      BY <1>2, <2>1, <3>2 DEF Confirm, Execute, Goto, ServicesInv, TypeOK
    <3>3. ASSUME NEW d \in Calls, SelectBinding(d)
          PROVE  services'[target'[c].service] # Nothing
      <4>1. target' = target \/ \E n : target' = [target EXCEPT ![d].connection = n]
        BY <3>3 DEF SelectBinding
      <4>2. stage[d] # "idle" /\ \A b \in Calls \ {d} : stage'[b] = stage[b]
        BY <3>3 DEF SelectBinding, Goto, ServicesInv, TypeOK
      <4>3. stage[c] # "idle"
        BY <1>2, <4>2
      <4>4. target[c] \in Targets
        BY <4>3 DEF ServicesInv, CallsKnow
      <4>5. target'[c].service = target[c].service
        BY <4>1, <4>4 DEF Targets, ServicesInv, TypeOK
      <4> QED
        BY <2>1, <4>3, <4>5
    <3> QED
      BY <2>3, <3>1, <3>2, <3>3 DEF CallStep
  <2>4. CASE TenantStep \/ ConnectionStep \/ TokenStep \/ ServiceStep \/ EditStep
    BY <2>2, <2>4 DEF TenantStep, CreateTenant, SwitchTenant, RetireTenant,
                      ConnectionStep, CreateConnection, SetConnectionStatus,
                      DeleteConnection, IssueConnectionToken,
                      TokenStep, RevokeToken, TokenExpires,
                      ServiceStep, CreateService, IssueServiceToken, ReadService,
                      ReadBindings, EditStep, UpdateServiceStatus, ReplaceBindings
  <2>5. CASE StartStep
    <3>1. stage[c] # "idle" /\ target' = target
      BY <1>2, <2>5 DEF StartStep, CopyDefault
    <3> QED
      BY <2>1, <3>1
  <2> QED
    BY <2>2, <2>3, <2>4, <2>5 DEF Next, vars
<1> QED
  BY <1>2 DEF OwnersRemain, ServiceExists

\* A call reaches only connections of its own service's tenant, in the present
\* life of the tenant's id, whatever was bound, deleted and created again
\* between the four reads it makes.
CallsStayInTenant ==
    [][\A c \in Calls :
          (stage[c] # "executing" /\ stage'[c] = "executing") =>
             LET s == services[target[c].service]
                 n == connections[target[c].connection]
             IN  /\ n.tenant = s.tenant /\ n.era = s.era
                 /\ s.era = tenants[s.tenant].era /\ tenants[s.tenant].status # "absent"]_vars

\* What a call was bound to may have been retired, and its tenant's id given
\* away again, since the binding was read: the call reaches its connection
\* only within the life of the tenant that its service is of.
THEOREM CallsOfOneLife == Spec => CallsStayInTenant
<1> DEFINE Row(c) == services[target[c].service]
           Bound(c) == connections[target[c].connection]
<1>1. ASSUME ServicesInv, OwnersRemain, [Next]_vars, NEW c \in Calls,
             stage[c] # "executing", stage'[c] = "executing"
      PROVE  /\ Bound(c).tenant = Row(c).tenant /\ Bound(c).era = Row(c).era
             /\ Row(c).era = tenants[Row(c).tenant].era
             /\ tenants[Row(c).tenant].status # "absent"
  <2>1. Execute(c) /\ UsableConnection(c)
    BY <1>1, ExecutingStep
  <2>2. stage[c] # "idle" /\ target[c] \in Targets
    BY <1>1, <2>1 DEF Execute, ServicesInv, CallsKnow
  <2>3. ServiceExists(target[c].service) /\ target[c].service \in Services
    BY <1>1, <2>2 DEF OwnersRemain, Targets
  <2>4. PICK n \in Connections : /\ n = target[c].connection
                                 /\ ConnectionExists(n) /\ connections[n].tenant = Row(c).tenant
                                 /\ connections[n].status = "active"
    BY <2>1 DEF UsableConnection, ConnectionsOf
  <2>5. Row(c).era = tenants[Row(c).tenant].era /\ Bound(c).era = Row(c).era
    BY <1>1, <2>3, <2>4 DEF ServicesInv, RowsInv, ErasAgree
  <2>6. ~ Absent(Row(c).tenant)
    BY <1>1, <2>4 DEF ServicesInv, RowsInv, ConnectionsClosed, Orphaned
  <2> QED
    BY <2>4, <2>5, <2>6 DEF Absent
<1>2. ServicesInv /\ OwnersRemain /\ [Next]_vars =>
        [\A c \in Calls :
          (stage[c] # "executing" /\ stage'[c] = "executing") =>
             LET s == services[target[c].service]
                 n == connections[target[c].connection]
             IN  /\ n.tenant = s.tenant /\ n.era = s.era
                 /\ s.era = tenants[s.tenant].era /\ tenants[s.tenant].status # "absent"]_vars
  BY <1>1
<1>3. Init => OwnersRemain
  BY DEF Init, OwnersRemain
<1> QED
  BY ServicesInvHolds, RemainStep, <1>2, <1>3, PTL DEF Spec, CallsStayInTenant

=============================================================================
