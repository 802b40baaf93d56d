--------------------------- MODULE LegacyMigration ---------------------------
(***************************************************************************)
(* What every start does for the tenants of the old, single-connection     *)
(* schema: the default WeCom connection of a tenant is copied from its     *)
(* tenant_config row (app/connections/store.py), then the call log of its  *)
(* schema into the central one (app/mcp_log_store.py).  Watermarks keep a  *)
(* copy from being repeated; a copy without one is repeated by the next    *)
(* start, whatever happened to it while the application was up.            *)
(*                                                                         *)
(* The log of a schema is copied in one statement, so one entry stands for *)
(* all of it; entries too old to be copied are left out.                   *)
(***************************************************************************)
CONSTANTS
    Tenants,
    Legacy,     \* the tenants of the old schema; the others are created later
    Nothing     \* no connection, no token

ASSUME LegacyConstants ==
    /\ Legacy \subseteq Tenants
    /\ Nothing \notin {"live", "revoked"}

VARIABLES
    phase,      \* "down", copying "connections" or "logs", or "up"
    todo,       \* the tenants read and not yet copied
    half,       \* of these, those copied and not yet marked
    complete,   \* all_succeeded
    tenant,     \* tenant_config: absent, or enabled or not, with a schema and token or not
    default,    \* the default connection of each tenant
    token,      \* the row of its legacy token
    entry,      \* its log in the central table
    marked,     \* tenants with a watermark
    logsMarked, \* the watermark of the logs
    copied,     \* history: tenants whose connection was once copied
    deleted     \* history: tenants whose entries were once deleted

bootVars == <<phase, todo, half, complete>>
rowVars == <<tenant, default, token, entry, deleted>>
migrationVars == <<bootVars, rowVars, marked, logsMarked, copied>>

TenantRows == [status : {"absent", "enabled", "disabled"}, legacy : BOOLEAN]
DefaultRows == [status : {"active", "disabled"}, edited : BOOLEAN]

MigrationTypeOK ==
    /\ phase \in {"down", "connections", "logs", "up"}
    /\ todo \subseteq Tenants /\ half \subseteq todo
    /\ complete \in BOOLEAN
    /\ tenant \in [Tenants -> TenantRows]
    /\ default \in [Tenants -> DefaultRows \cup {Nothing}]
    /\ token \in [Tenants -> {Nothing, "live", "revoked"}]
    /\ entry \in [Tenants -> {"absent", "plain", "attributed"}]
    /\ marked \subseteq Tenants /\ copied \subseteq Tenants /\ deleted \subseteq Tenants
    /\ logsMarked \in BOOLEAN

MigrationInit ==
    /\ phase = "down" /\ todo = {} /\ half = {} /\ complete = TRUE
    /\ tenant \in [Tenants -> TenantRows]
    /\ \A t \in Tenants : tenant[t].legacy <=> t \in Legacy
    /\ \A t \in Tenants : tenant[t].status = "absent" <=> t \notin Legacy
    /\ default = [t \in Tenants |-> Nothing]
    /\ token = [t \in Tenants |-> Nothing]
    /\ entry = [t \in Tenants |-> "absent"]
    /\ marked = {} /\ logsMarked = FALSE /\ copied = {} /\ deleted = {}

-----------------------------------------------------------------------------
(* The start of the application.                                           *)

Existing == {t \in Tenants : tenant[t].status # "absent"}

Boot ==
    /\ phase = "down"
    /\ phase' = "connections"
    /\ todo' = Existing
    /\ UNCHANGED <<half, complete, rowVars, marked, logsMarked, copied>>

Done(t) == todo' = todo \ {t} /\ half' = half \ {t}

SkipMarked(t) ==
    /\ phase = "connections" /\ t \in todo \ half
    /\ t \in marked
    /\ Done(t)
    /\ UNCHANGED <<phase, complete, rowVars, marked, logsMarked, copied>>

\* Variant: a token row that is there is written anew.
TokenReplaced(t) == IF tenant[t].legacy THEN "live" ELSE token[t]

\* The token of the old row becomes a row of its own; one that is there keeps
\* its revocation.
TokenCopied(t) == IF tenant[t].legacy /\ token[t] = Nothing THEN "live" ELSE token[t]

\* One transaction: the connection, inserted or overwritten, its credentials
\* and its token.
Copy(t) ==
    /\ phase = "connections" /\ t \in todo \ half
    /\ t \notin marked
    /\ default' = [default EXCEPT ![t] =
                     [status |-> IF tenant[t].status = "enabled" THEN "active" ELSE "disabled",
                      edited |-> FALSE]]
    /\ token' = [token EXCEPT ![t] = TokenCopied(t)]
    /\ half' = half \cup {t}
    /\ copied' = copied \cup {t}
    /\ UNCHANGED <<phase, todo, complete, tenant, entry, deleted, marked, logsMarked>>

Mark(t) ==
    /\ t \in half
    /\ marked' = marked \cup {t}
    /\ Done(t)
    /\ UNCHANGED <<phase, complete, rowVars, logsMarked, copied>>

\* Either transaction fails: that is logged, and the next tenant's turn.
BackfillFails(t) ==
    /\ phase = "connections" /\ t \in todo
    /\ t \in marked => t \in half
    /\ Done(t)
    /\ UNCHANGED <<phase, complete, rowVars, marked, logsMarked, copied>>

\* migrate_legacy_logs, unless it was completed before or nobody is there.
ToLogs ==
    /\ phase = "connections" /\ todo = {}
    /\ complete' = TRUE
    /\ IF logsMarked \/ Existing = {} THEN phase' = "up" /\ UNCHANGED todo
       ELSE phase' = "logs" /\ todo' = Existing
    /\ UNCHANGED <<half, rowVars, marked, logsMarked, copied>>

\* Entries that are there only get the connection they lack.
CopyLog(t) ==
    /\ phase = "logs" /\ t \in todo
    /\ tenant[t].legacy
    /\ entry' = [entry EXCEPT ![t] =
                   IF default[t] # Nothing THEN "attributed"
                   ELSE IF @ = "absent" THEN "plain" ELSE @]
    /\ todo' = todo \ {t}
    /\ UNCHANGED <<phase, half, complete, tenant, default, token, deleted, marked,
                   logsMarked, copied>>

\* A tenant without a schema of the old kind, or a copy that fails.
CopyLogFails(t) ==
    /\ phase = "logs" /\ t \in todo
    /\ todo' = todo \ {t}
    /\ complete' = FALSE
    /\ UNCHANGED <<phase, half, rowVars, marked, logsMarked, copied>>

\* Variant: what failed is not remembered.
AllTried == TRUE

AllSucceeded == complete

\* A watermark that cannot be written ends the start (ProcessDies).
FinishLogs ==
    /\ phase = "logs" /\ todo = {}
    /\ logsMarked' = (logsMarked \/ AllSucceeded)
    /\ phase' = "up"
    /\ UNCHANGED <<todo, half, complete, rowVars, marked, copied>>

\* At any moment, and when a step of the start raises.
ProcessDies ==
    /\ phase # "down"
    /\ phase' = "down" /\ todo' = {} /\ half' = {}
    /\ UNCHANGED <<complete, rowVars, marked, logsMarked, copied>>

BootStep ==
    \/ Boot \/ ToLogs \/ FinishLogs
    \/ \E t \in Tenants :
          SkipMarked(t) \/ Copy(t) \/ Mark(t) \/ BackfillFails(t) \/ CopyLog(t) \/ CopyLogFails(t)

-----------------------------------------------------------------------------
(* Administrators, while the application is up.                            *)

Administers == phase = "up" /\ UNCHANGED <<bootVars, marked, logsMarked, copied>>

EditDefault(t) ==
    /\ Administers
    /\ default[t] # Nothing
    /\ \E status \in {"active", "disabled"} :
          default' = [default EXCEPT ![t] = [status |-> status, edited |-> TRUE]]
    /\ UNCHANGED <<tenant, token, entry, deleted>>

\* The token row and the watermark stay.
DeleteDefault(t) ==
    /\ Administers
    /\ default[t] # Nothing
    /\ default' = [default EXCEPT ![t] = Nothing]
    /\ UNCHANGED <<tenant, token, entry, deleted>>

RevokeLegacyToken(t) ==
    /\ Administers
    /\ default[t] # Nothing /\ token[t] = "live"
    /\ token' = [token EXCEPT ![t] = "revoked"]
    /\ UNCHANGED <<tenant, default, entry, deleted>>

\* The connections of the tenant are disabled and their tokens revoked.
Retire(t) ==
    /\ Administers
    /\ t \in Existing
    /\ tenant' = [tenant EXCEPT ![t] = [status |-> "absent", legacy |-> FALSE]]
    /\ IF default[t] = Nothing THEN UNCHANGED <<default, token>>
       ELSE /\ default' = [default EXCEPT ![t].status = "disabled"]
            /\ token' = [token EXCEPT ![t] = IF @ = "live" THEN "revoked" ELSE @]
    /\ UNCHANGED <<entry, deleted>>

\* update_tenant; the next copy of the tenant takes its status over.
Switch(t) ==
    /\ Administers
    /\ t \in Existing
    /\ \E status \in {"enabled", "disabled"} :
          tenant' = [tenant EXCEPT ![t].status = status]
    /\ UNCHANGED <<default, token, entry, deleted>>

\* An id is not reused while a connection of it is left.
Create(t) ==
    /\ Administers
    /\ t \notin Existing /\ default[t] = Nothing
    /\ \E status \in {"enabled", "disabled"} :
          tenant' = [tenant EXCEPT ![t] = [status |-> status, legacy |-> FALSE]]
    /\ UNCHANGED <<default, token, entry, deleted>>

\* The retention, or an administrator.
DeleteEntry(t) ==
    /\ Administers
    /\ entry[t] # "absent"
    /\ entry' = [entry EXCEPT ![t] = "absent"]
    /\ deleted' = deleted \cup {t}
    /\ UNCHANGED <<tenant, default, token>>

MigrationNext ==
    \/ BootStep \/ ProcessDies
    \/ \E t \in Tenants :
          \/ EditDefault(t) \/ DeleteDefault(t) \/ RevokeLegacyToken(t)
          \/ Retire(t) \/ Switch(t) \/ Create(t) \/ DeleteEntry(t)

MigrationSpec == MigrationInit /\ [][MigrationNext]_migrationVars

-----------------------------------------------------------------------------
(* Properties.                                                             *)

\* A watermark vouches for what it stands for, through failures and crashes:
\* the connection of a marked tenant was copied, and when the logs are marked
\* no tenant is left whose log was never copied.
WatermarksHold ==
    /\ marked \subseteq copied
    /\ logsMarked => \A t \in Tenants :
          tenant[t].legacy => entry[t] # "absent" \/ t \in deleted

\* A start leaves a marked tenant's connection and token alone, whatever an
\* administrator made of them; and it never revives a revoked token, marked
\* or not, although it may copy the token's row once more.
RestartsRespectEdits ==
    [][\A t \in Tenants :
          /\ phase # "up" /\ t \in marked
                => default'[t] = default[t] /\ token'[t] = token[t]
          /\ token[t] = "revoked" => token'[t] = "revoked"]_migrationVars

=============================================================================
