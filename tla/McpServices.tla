---------------------------- MODULE McpServices ----------------------------
(***************************************************************************)
(* Tenants, their connections and MCP services, the bindings of services   *)
(* to connections, the bearer tokens of both, and the calls of the service *)
(* gateway (app/admin.py, app/tenant_lifecycle.py, app/connections/store.py*)
(* app/mcp_services/store.py, app/mcp_service_gateway.py).                 *)
(*                                                                         *)
(* The schema has no foreign keys: what keeps the rows consistent are the  *)
(* checks each transaction makes on the rows it has locked.  A transaction *)
(* holds its row locks until it commits, so it is one step; an edit of a   *)
(* service is three, because the editor's page first reads the row, with   *)
(* its configuration version, and the bindings, in two requests of which   *)
(* either may be first, and then saves; what it saved and the version that *)
(* is answered are what the page shows from then on.  A call of the gateway*)
(* is four, each with a read of its own.                                   *)
(*                                                                         *)
(* Ids of connections, services and tokens are fresh UUIDs, so a row that  *)
(* is gone does not come back, but for one connection of each tenant: the  *)
(* id of the default connection is made from the tenant's, and a start may *)
(* insert it again (LegacyMigration models the starts).  A tenant id is    *)
(* chosen by an administrator and can be created again: `era' counts its   *)
(* creations.                                                              *)
(***************************************************************************)
EXTENDS Naturals, FiniteSets

CONSTANTS
    Tenants, Connections, Services,
    Tokens,             \* bearer tokens, of a connection or of a service
    Editors,            \* pages that show a service, each opened once
    Calls,              \* calls of the service gateway, each made once
    MaxEra,             \* bound on the creations of one tenant id
    Nothing,            \* "none"
    Gone                \* "there was a row, and it was deleted"

ServiceStates == {"draft", "active", "disabled"}
ConnectionStates == {"draft", "active", "disabled"}
TenantRows == [status : {"absent", "enabled", "disabled"}, era : 0..MaxEra]
ConnectionRows == [tenant : Tenants, era : 0..MaxEra, status : ConnectionStates]
ServiceRows == [tenant : Tenants, era : 0..MaxEra, status : ServiceStates]
TokenRows == [of : Connections \cup Services,
              era : 0..MaxEra,      \* of the tenant it was issued to
              revoked : BOOLEAN, expired : BOOLEAN,
              sealed : BOOLEAN]     \* is there a ciphertext to reveal?
Pages == [service : Services, row : ServiceRows \cup {Nothing},
          bound : {Nothing} \cup SUBSET Connections]
Targets == [token : Tokens, service : Services,
            connection : Connections \cup {Nothing}]

ASSUME ServiceConstants ==
    /\ MaxEra \in Nat
    /\ Connections \cap Services = {}
    /\ Nothing \notin Connections \cup ConnectionRows \cup ServiceRows \cup TokenRows
    /\ Nothing \notin Pages \cup Targets
    /\ \A cs \in SUBSET Connections : cs # Nothing
    /\ Gone \notin ConnectionRows \cup {Nothing}

VARIABLES
    tenants,        \* tenant_config
    connections,    \* connection_instance, Nothing before and Gone after a row
    services,       \* mcp_service
    bindings,       \* mcp_service_tool_binding: the connections of a service
    tokens,         \* connection_token and mcp_service_token
    legacy,         \* the default connection of each tenant id, once it is copied
    edits,          \* what the page of an editor shows of a service
    stale,          \* editors whose config_version is not the row's any more
    torn,           \* history: editors whose bindings were replaced before they
                    \* read the row, and that have not saved theirs since
    stage,          \* where each call stands
    target          \* the token, service and connection of a call

rows == <<tenants, connections, services, bindings, tokens, legacy>>
pages == <<edits, stale, torn>>
vars == <<rows, pages, stage, target>>

-----------------------------------------------------------------------------

TypeOK ==
    /\ tenants \in [Tenants -> TenantRows]
    /\ connections \in [Connections -> ConnectionRows \cup {Nothing, Gone}]
    /\ services \in [Services -> ServiceRows \cup {Nothing}]
    /\ bindings \in [Services -> SUBSET Connections]
    /\ tokens \in [Tokens -> TokenRows \cup {Nothing}]
    /\ legacy \in [Tenants -> Connections \cup {Nothing}]
    /\ edits \in [Editors -> Pages \cup {Nothing}]
    /\ stale \subseteq Editors /\ torn \subseteq Editors
    /\ stage \in [Calls -> {"idle", "resolving", "resolved", "bound", "executing", "refused"}]
    /\ target \in [Calls -> Targets \cup {Nothing}]

Init ==
    /\ tenants = [t \in Tenants |-> [status |-> "absent", era |-> 0]]
    /\ connections = [c \in Connections |-> Nothing]
    /\ services = [s \in Services |-> Nothing]
    /\ bindings = [s \in Services |-> {}]
    /\ tokens = [k \in Tokens |-> Nothing]
    /\ legacy = [t \in Tenants |-> Nothing]
    /\ edits = [e \in Editors |-> Nothing]
    /\ stale = {} /\ torn = {}
    /\ stage = [c \in Calls |-> "idle"]
    /\ target = [c \in Calls |-> Nothing]

-----------------------------------------------------------------------------
(* Rows.                                                                   *)

Enabled(t) == tenants[t].status = "enabled"

\* Variant: the tenant row is not locked and checked.
AnyTenant(t) == tenants[t].era > 0

\* _lock_live_tenant, of both stores.
LiveTenant(t) == Enabled(t)

ConnectionExists(c) == connections[c] \notin {Nothing, Gone}
ConnectionsOf(t) == {c \in Connections : ConnectionExists(c) /\ connections[c].tenant = t}
ServiceExists(s) == services[s] # Nothing
ServicesOf(t) == {s \in Services : ServiceExists(s) /\ services[s].tenant = t}

TokensOf(owners) == {k \in Tokens : tokens[k] # Nothing /\ tokens[k].of \in owners}

\* A revoked token keeps its row, not its ciphertext.
Revoked(row) == [row EXCEPT !.revoked = TRUE, !.sealed = FALSE]

RevokeAll(ks) == [k \in Tokens |-> IF k \in ks THEN Revoked(tokens[k]) ELSE tokens[k]]

NewToken(owner, era) == [of |-> owner, era |-> era, revoked |-> FALSE,
                         expired |-> FALSE, sealed |-> TRUE]

\* Variant: config_version is left as it is.
NotBumped(changed) == stale

\* config_version of these services is bumped: what was read of them is old.
Bumped(changed) ==
    stale \cup {e \in Editors : /\ edits[e] # Nothing /\ edits[e].row # Nothing
                              /\ edits[e].service \in changed}

-----------------------------------------------------------------------------
(* Tenants.                                                                *)

\* Variant: rows that remain of an earlier tenant are not looked for.
ReuseId(t) == TRUE

NothingRetained(t) == ConnectionsOf(t) = {} /\ ServicesOf(t) = {}

\* create_tenant.
CreateTenant(t, enabled) ==
    /\ tenants[t].status = "absent" /\ tenants[t].era < MaxEra
    /\ NothingRetained(t)
    /\ tenants' = [tenants EXCEPT ![t] =
                     [status |-> IF enabled THEN "enabled" ELSE "disabled",
                      era |-> @.era + 1]]
    /\ UNCHANGED <<connections, services, bindings, tokens, legacy, pages, stage, target>>

\* update_tenant.
SwitchTenant(t, enabled) ==
    /\ tenants[t].status # "absent"
    /\ tenants' = [tenants EXCEPT ![t].status = IF enabled THEN "enabled" ELSE "disabled"]
    /\ UNCHANGED <<connections, services, bindings, tokens, legacy, pages, stage, target>>

\* retire_tenant: rows stay as history, without any authority.
RetireTenant(t) ==
    /\ tenants[t].status # "absent"
    /\ tenants' = [tenants EXCEPT ![t].status = "absent"]
    /\ connections' = [c \in Connections |->
                         IF c \in ConnectionsOf(t)
                         THEN [connections[c] EXCEPT !.status = "disabled"]
                         ELSE connections[c]]
    /\ services' = [s \in Services |->
                      IF s \in ServicesOf(t)
                      THEN [services[s] EXCEPT !.status = "disabled"]
                      ELSE services[s]]
    /\ tokens' = RevokeAll(TokensOf(ConnectionsOf(t) \cup ServicesOf(t)))
    /\ stale' = Bumped({s \in ServicesOf(t) : services[s].status # "disabled"})
    /\ UNCHANGED <<bindings, legacy, edits, torn, stage, target>>

-----------------------------------------------------------------------------
(* Connections.                                                            *)

\* create_connection_with_token.
CreateConnection(c, t, status, k) ==
    /\ LiveTenant(t)
    /\ connections[c] = Nothing /\ tokens[k] = Nothing
    /\ connections' = [connections EXCEPT ![c] =
                         [tenant |-> t, era |-> tenants[t].era, status |-> status]]
    /\ tokens' = [tokens EXCEPT ![k] = NewToken(c, tenants[t].era)]
    /\ UNCHANGED <<tenants, services, bindings, legacy, pages, stage, target>>

\* update_connection, and disable_connection, which needs no live tenant.
SetConnectionStatus(c, status) ==
    /\ ConnectionExists(c)
    /\ LiveTenant(connections[c].tenant) \/ status = "disabled"
    /\ status # "draft" \/ connections[c].status = "disabled"
    /\ connections' = [connections EXCEPT ![c].status = status]
    /\ UNCHANGED <<tenants, services, bindings, tokens, legacy, pages, stage, target>>

\* assert_connection_deletable.
Deletable(c) == \A s \in Services : c \notin bindings[s]

\* delete_connection; the tokens of the row stay, with no row to belong to.
DeleteConnection(c) ==
    /\ ConnectionExists(c)
    /\ Deletable(c)
    /\ connections' = [connections EXCEPT ![c] = Gone]
    /\ UNCHANGED <<tenants, services, bindings, tokens, legacy, pages, stage, target>>

\* issue_token, and rotate_token, which revokes the current ones first.
IssueConnectionToken(c, k, rotate) ==
    /\ ConnectionExists(c)
    /\ LiveTenant(connections[c].tenant)
    /\ tokens[k] = Nothing
    /\ tokens' = [RevokeAll(IF rotate THEN TokensOf({c}) ELSE {})
                    EXCEPT ![k] = NewToken(c, tenants[connections[c].tenant].era)]
    /\ UNCHANGED <<tenants, connections, services, bindings, legacy, pages, stage, target>>

\* revoke_token, of both stores: the owner must be the tenant's own row.
RevokeToken(k) ==
    /\ tokens[k] # Nothing
    /\ tokens[k].of \in Services \cup {c \in Connections : ConnectionExists(c)}
    /\ tokens' = RevokeAll({k})
    /\ UNCHANGED <<tenants, connections, services, bindings, legacy, pages, stage, target>>

\* expires_at passes; only service tokens have one.
TokenExpires(k) ==
    /\ tokens[k] # Nothing /\ tokens[k].of \in Services
    /\ ~ tokens[k].expired
    /\ tokens' = [tokens EXCEPT ![k].expired = TRUE]
    /\ UNCHANGED <<tenants, connections, services, bindings, legacy, pages, stage, target>>

-----------------------------------------------------------------------------
(* Starts.                                                                 *)

\* _backfill_legacy_tenant, by a start that finds no mark of an earlier copy:
\* the default connection of an existing tenant, live or not, is inserted, or
\* overwritten, under the same id whenever it is copied.  The token of the old
\* row is copied with it, and when it is copied again, as one of the tokens of
\* the connection, it gets its ciphertext back, revoked or not; a tenant created
\* again has none in its row.  No call outlives the process.
CopyDefault(t, c) ==
    /\ tenants[t].status # "absent"
    /\ IF legacy[t] = Nothing THEN connections[c] = Nothing ELSE c = legacy[t]
    /\ connections' = [connections EXCEPT ![c] =
                         [tenant |-> t, era |-> tenants[t].era,
                          status |-> IF Enabled(t) THEN "active" ELSE "disabled"]]
    /\ legacy' = [legacy EXCEPT ![t] = c]
    /\ \/ UNCHANGED tokens
       \/ \E k \in Tokens :
             /\ tenants[t].era = 1
             /\ \/ /\ legacy[t] = Nothing /\ tokens[k] = Nothing
                   /\ tokens' = [tokens EXCEPT ![k] = NewToken(c, 1)]
                \/ /\ tokens[k] # Nothing /\ tokens[k].of = c /\ tokens[k].era = 1
                   /\ tokens' = [tokens EXCEPT ![k].sealed = TRUE]
    /\ stage' = [d \in Calls |-> IF stage[d] = "idle" THEN "idle" ELSE "refused"]
    /\ UNCHANGED <<tenants, services, bindings, pages, target>>

-----------------------------------------------------------------------------
(* Services.                                                               *)

\* create_service, always as a draft.
CreateService(s, t) ==
    /\ LiveTenant(t)
    /\ services[s] = Nothing
    /\ services' = [services EXCEPT ![s] =
                      [tenant |-> t, era |-> tenants[t].era, status |-> "draft"]]
    /\ UNCHANGED <<tenants, connections, bindings, tokens, legacy, pages, stage, target>>

\* issue_token of a service.
IssueServiceToken(s, k) ==
    /\ ServiceExists(s)
    /\ LiveTenant(services[s].tenant) /\ services[s].status = "active"
    /\ tokens[k] = Nothing
    /\ tokens' = [tokens EXCEPT ![k] = NewToken(s, tenants[services[s].tenant].era)]
    /\ UNCHANGED <<tenants, connections, services, bindings, legacy, pages, stage, target>>

\* The page of an editor before it has read anything.
EmptyPage(s) == [service |-> s, row |-> Nothing, bound |-> Nothing]

Page(e, s) == IF edits[e] = Nothing THEN EmptyPage(s) ELSE edits[e]

\* get_service.
ReadService(e, s) ==
    /\ ServiceExists(s)
    /\ Page(e, s).service = s /\ Page(e, s).row = Nothing
    /\ edits' = [edits EXCEPT ![e] = [Page(e, s) EXCEPT !.row = services[s]]]
    /\ UNCHANGED <<rows, stale, torn, stage, target>>

\* list_bindings, whose answer carries no version.
ReadBindings(e, s) ==
    /\ ServiceExists(s)
    /\ Page(e, s).service = s /\ Page(e, s).bound = Nothing
    /\ edits' = [edits EXCEPT ![e] = [Page(e, s) EXCEPT !.bound = bindings[s]]]
    /\ UNCHANGED <<rows, stale, torn, stage, target>>

\* The version the editor read is compared with the row's.
SameVersion(e) == edits[e] # Nothing /\ edits[e].row # Nothing /\ e \notin stale

\* _SERVICE_STATUS_TRANSITIONS.
Transitions == [draft |-> {"active", "disabled"}, active |-> {"disabled"},
                disabled |-> {"draft", "active"}]

\* update_service_status.
UpdateServiceStatus(e, status) ==
    /\ SameVersion(e)
    /\ LET s == edits[e].service IN
          /\ status = "active" => LiveTenant(services[s].tenant)
          /\ status \in Transitions[services[s].status]
          /\ services' = [services EXCEPT ![s].status = status]
          /\ edits' = [edits EXCEPT ![e].row = services'[s]]
          /\ stale' = Bumped({s}) \ {e}
    /\ UNCHANGED <<tenants, connections, bindings, tokens, legacy, torn, stage, target>>

\* Variant: any connection that exists may be bound.
AnyConnection(cs, t) == \A c \in cs : ConnectionExists(c)

\* _lock_connections.
OwnedConnections(cs, t) == cs \subseteq ConnectionsOf(t)

\* Pages that have read the bindings of a service and not yet its row.
HalfRead(s) == {e \in Editors : edits[e] # Nothing /\ edits[e].service = s /\ edits[e].row = Nothing}

\* replace_bindings, from a page that shows both.
ReplaceBindings(e, cs) ==
    /\ SameVersion(e) /\ edits[e].bound # Nothing
    /\ LET s == edits[e].service IN
          /\ OwnedConnections(cs, services[s].tenant)
          /\ services[s].status # "disabled"
          /\ bindings' = [bindings EXCEPT ![s] = cs]
          /\ edits' = [edits EXCEPT ![e].bound = cs]
          /\ stale' = Bumped({s}) \ {e}
          /\ torn' = (torn \cup HalfRead(s)) \ {e}
    /\ UNCHANGED <<tenants, connections, services, tokens, legacy, stage, target>>

-----------------------------------------------------------------------------
(* The service gateway.                                                    *)

\* The condition of resolve_token, over the three rows it joins.
Admits(k) ==
    /\ tokens[k] # Nothing /\ tokens[k].of \in Services
    /\ ~ tokens[k].revoked /\ ~ tokens[k].expired
    /\ services[tokens[k].of].status = "active"
    /\ Enabled(services[tokens[k].of].tenant)

Goto(c, step) == stage' = [stage EXCEPT ![c] = step]

\* resolve_token, first without locks.
Peek(c, k) ==
    /\ stage[c] = "idle"
    /\ Admits(k)
    /\ target' = [target EXCEPT ![c] = [token |-> k, service |-> tokens[k].of,
                                        connection |-> Nothing]]
    /\ Goto(c, "resolving")
    /\ UNCHANGED <<rows, pages>>

\* ... and again once tenant, service and token are locked.
Confirm(c) ==
    /\ stage[c] = "resolving"
    /\ Goto(c, IF Admits(target[c].token) THEN "resolved" ELSE "refused")
    /\ UNCHANGED <<rows, pages, target>>

\* call_tool: the binding of the alias is looked up.
SelectBinding(c) ==
    /\ stage[c] = "resolved"
    /\ \/ \E n \in bindings[target[c].service] :
             /\ target' = [target EXCEPT ![c].connection = n]
             /\ Goto(c, "bound")
       \/ Goto(c, "refused") /\ UNCHANGED target
    /\ UNCHANGED <<rows, pages>>

\* Variant: only the existence of the connection is checked.
ExistingConnection(c) == ConnectionExists(target[c].connection)

\* _resolve_projection: the record must be the tenant's, and active.
UsableConnection(c) ==
    LET n == target[c].connection IN
        /\ n \in ConnectionsOf(services[target[c].service].tenant)
        /\ connections[n].status = "active"

Execute(c) ==
    /\ stage[c] = "bound"
    /\ Goto(c, IF UsableConnection(c) THEN "executing" ELSE "refused")
    /\ UNCHANGED <<rows, pages, target>>

-----------------------------------------------------------------------------

TenantStep ==
    \E t \in Tenants :
        \/ \E enabled \in BOOLEAN : CreateTenant(t, enabled) \/ SwitchTenant(t, enabled)
        \/ RetireTenant(t)

ConnectionStep ==
    \E c \in Connections :
        \/ \E t \in Tenants, status \in {"draft", "active"}, k \in Tokens :
              CreateConnection(c, t, status, k)
        \/ \E status \in ConnectionStates : SetConnectionStatus(c, status)
        \/ DeleteConnection(c)
        \/ \E k \in Tokens, rotate \in BOOLEAN : IssueConnectionToken(c, k, rotate)

StartStep == \E t \in Tenants, c \in Connections : CopyDefault(t, c)

TokenStep == \E k \in Tokens : RevokeToken(k) \/ TokenExpires(k)

ServiceStep ==
    \E s \in Services :
        \/ \E t \in Tenants : CreateService(s, t)
        \/ \E k \in Tokens : IssueServiceToken(s, k)
        \/ \E e \in Editors : ReadService(e, s) \/ ReadBindings(e, s)

EditStep ==
    \E e \in Editors :
        \/ \E status \in ServiceStates : UpdateServiceStatus(e, status)
        \/ \E cs \in SUBSET Connections : ReplaceBindings(e, cs)

CallStep ==
    \E c \in Calls :
        \/ \E k \in Tokens : Peek(c, k)
        \/ Confirm(c) \/ SelectBinding(c) \/ Execute(c)

Next ==
    \/ TenantStep \/ ConnectionStep \/ TokenStep \/ StartStep
    \/ ServiceStep \/ EditStep \/ CallStep

Spec == Init /\ [][Next]_vars

-----------------------------------------------------------------------------
(* What the checks are for.                                                *)

\* No foreign key says so: whatever the order of binding, deletion, deletion
\* of the tenant and reuse of its id, a binding leads to an existing
\* connection of the service's own tenant, and of the same life of its id.
BindingsOwned ==
    \A s \in Services : \A c \in bindings[s] :
        /\ ServiceExists(s) /\ ConnectionExists(c)
        /\ connections[c].tenant = services[s].tenant
        /\ connections[c].era = services[s].era

\* Deletion of a tenant is final for its credentials: none of its rows is
\* active, none of their tokens usable or revealable, also if the tokens were
\* being issued, or the rows activated, around the deletion.
RetiredTenantHasNoAccess ==
    \A t \in Tenants : tenants[t].status = "absent" =>
        /\ \A c \in ConnectionsOf(t) : connections[c].status # "active"
        /\ \A s \in ServicesOf(t) : services[s].status # "active"
        /\ \A k \in TokensOf(ConnectionsOf(t) \cup ServicesOf(t)) :
              tokens[k].revoked /\ ~ tokens[k].sealed

\* A tenant created under an id that was used before owns nothing of the
\* former one, and no token issued to the former one leads to it, but for
\* tokens of the default connection, which a start may insert again.
NothingInherited ==
    \A t \in Tenants : tenants[t].status # "absent" =>
        /\ \A c \in ConnectionsOf(t) : connections[c].era = tenants[t].era
        /\ \A s \in ServicesOf(t) : services[s].era = tenants[t].era
        /\ \A k \in TokensOf(ConnectionsOf(t) \cup ServicesOf(t)) :
              tokens[k].era = tenants[t].era \/ tokens[k].of = legacy[t]

\* No lost update: an editor replaces the row its page shows, and the
\* bindings its page shows unless they were replaced between its two reads.
EditsReplaceWhatWasRead ==
    [][\A e \in Editors :
          /\ \A status \in ServiceStates :
                UpdateServiceStatus(e, status) => edits[e].row = services[edits[e].service]
          /\ \A cs \in SUBSET Connections :
                ReplaceBindings(e, cs) =>
                   /\ edits[e].row = services[edits[e].service]
                   /\ edits[e].bound = bindings[edits[e].service] \/ e \in torn]_vars

\* What the page says of saving, that the version check finds every conflict:
\* the bindings replaced are the bindings shown.
VersionFindsConflicts ==
    [][\A e \in Editors, cs \in SUBSET Connections :
          ReplaceBindings(e, cs) => edits[e].bound = bindings[edits[e].service]]_vars

\* A call that was authorized before its tenant was deleted, and has read its
\* binding, is still stopped when it comes to the connection.
RetirementStopsCalls ==
    [][\A c \in Calls :
          (stage[c] # "executing" /\ stage'[c] = "executing") =>
             tenants[services[target[c].service].tenant].status # "absent"]_vars

=============================================================================
