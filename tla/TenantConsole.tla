--------------------------- MODULE TenantConsole ---------------------------
(***************************************************************************)
(* The login of one tenant: its identity row (app/admin.py,                *)
(* app/tenant_lifecycle.py), its account and its sessions                  *)
(* (app/tenant_auth/).                                                     *)
(*                                                                         *)
(* The handlers are ordinary functions on a thread pool, and each call of  *)
(* the store is a transaction of its own.  A login is therefore four       *)
(* steps: read the account, compare the password (slow, and without a      *)
(* lock), count the attempt under the row lock, store a session.  A change *)
(* of password is the same with another last step.  Administrators create, *)
(* switch, reset and delete the tenant between any two of them.            *)
(*                                                                         *)
(* Every stored password is hashed with a fresh salt, so a hash names one  *)
(* act of setting a password, also when the password is the same.          *)
(***************************************************************************)
EXTENDS Naturals

CONSTANTS
    Requests,           \* logins and password changes, each made once
    Passwords,          \* what may be typed or set
    LockThreshold,      \* _LOCK_THRESHOLD
    MaxHashes,          \* bound on the passwords that are set
    MaxFailed,          \* bound on failed_attempts when a lock lapses
    NoAccount,          \* "no row in tenant_account"
    NoRead              \* what a request knows before it has read the account

Hashes == [password : Passwords, salt : 1..MaxHashes]
Accounts == [hash : Hashes,
             status : {"active", "disabled", "locked"},
             failed : 0..(MaxFailed + 1),
             until : {"none", "ahead", "past"}]     \* locked_until against the clock
Reads == [hash : Hashes, past : BOOLEAN]

ASSUME ConsoleConstants ==
    /\ LockThreshold \in Nat \ {0}
    /\ MaxHashes \in Nat
    /\ MaxFailed \in Nat /\ MaxFailed + 1 >= LockThreshold
    /\ NoAccount \notin Accounts
    /\ NoRead \notin Reads

VARIABLES
    tenantState,    \* tenant_config: "absent", "enabled" or "disabled"
    admin,          \* what an administrator's request has seen of the tenant
    retained,       \* do connections or services of the tenant id exist?
    account,        \* the row of tenant_account
    hashes,         \* how many passwords have been set
    sessions,       \* the session row of each login
    pc,             \* where each request stands
    kind,           \* "login" or "change"
    typed,          \* the password a request authenticates with
    read,           \* what it read of the account before it compared
    overtaken,      \* requests that had authenticated when the password was set
    guesses         \* wrong passwords counted since the count began anew

identity == <<tenantState, admin, retained>>
login == <<account, sessions, guesses>>
attempt == <<pc, kind, typed, read>>
vars == <<identity, login, attempt, hashes, overtaken>>

-----------------------------------------------------------------------------

Steps == {"idle", "reading", "comparing", "authenticated", "done", "failed"}

TypeOK ==
    /\ tenantState \in {"absent", "enabled", "disabled"}
    /\ admin \in {"idle", "exists", "active", "disabled"}
    /\ retained \in BOOLEAN
    /\ account \in Accounts \cup {NoAccount}
    /\ hashes \in 0..MaxHashes
    /\ sessions \in [Requests -> {"none", "live", "revoked", "expired"}]
    /\ pc \in [Requests -> Steps]
    /\ kind \in [Requests -> {"login", "change"}]
    /\ typed \in [Requests -> Passwords]
    /\ read \in [Requests -> Reads \cup {NoRead}]
    /\ overtaken \subseteq Requests
    /\ guesses \in Nat

Init ==
    /\ tenantState = "absent"
    /\ admin = "idle"
    /\ retained = FALSE
    /\ account = NoAccount
    /\ hashes = 0
    /\ sessions = [r \in Requests |-> "none"]
    /\ pc = [r \in Requests |-> "idle"]
    /\ kind = [r \in Requests |-> "login"]
    /\ typed \in [Requests -> Passwords]
    /\ read = [r \in Requests |-> NoRead]
    /\ overtaken = {}
    /\ guesses = 0

-----------------------------------------------------------------------------
(* The transactions of the store.                                          *)

\* resolve_session: the request is the tenant's if all three rows agree.
Resolves(s) ==
    /\ sessions[s] = "live"
    /\ account # NoAccount
    /\ account.status = "active"
    /\ tenantState = "enabled"

\* Variant: setting a password leaves the sessions alone.
SessionsKept == sessions

\* _revoke_tenant_sessions.
RevokedSessions ==
    [s \in Requests |-> IF sessions[s] = "live" THEN "revoked" ELSE sessions[s]]

\* upsert_account: the row is replaced or inserted, every session revoked.
UpsertAccount(password, status) ==
    /\ hashes < MaxHashes
    /\ hashes' = hashes + 1
    /\ account' = [hash |-> [password |-> password, salt |-> hashes + 1],
                   status |-> status, failed |-> 0, until |-> "none"]
    /\ sessions' = RevokedSessions
    /\ overtaken' = overtaken \cup {r \in Requests : pc[r] = "authenticated"}
    /\ guesses' = 0

\* set_account_status, which changes nothing if there is no account.
SetAccountStatus(status) ==
    /\ account' = IF account = NoAccount
                  THEN NoAccount
                  ELSE [account EXCEPT !.status = status, !.failed = 0, !.until = "none"]
    /\ sessions' = IF status = "disabled" THEN RevokedSessions ELSE sessions
    /\ guesses' = 0
    /\ UNCHANGED <<hashes, overtaken>>

-----------------------------------------------------------------------------
(* Logins and changes of password.                                         *)

Advance(r, step) == pc' = [pc EXCEPT ![r] = step]

\* login: the tenant id and password of the form.
BeginLogin(r) ==
    /\ pc[r] = "idle"
    /\ Advance(r, "reading")
    /\ UNCHANGED <<identity, login, hashes, kind, typed, read, overtaken>>

\* change_password: require_tenant_principal has resolved the session.
BeginChange(r, s) ==
    /\ pc[r] = "idle"
    /\ Resolves(s)
    /\ Advance(r, "reading")
    /\ kind' = [kind EXCEPT ![r] = "change"]
    /\ UNCHANGED <<identity, login, hashes, typed, read, overtaken>>

\* authenticate: the unlocked read.  Without an account a dummy is compared.
ReadAccount(r) ==
    /\ pc[r] = "reading"
    /\ IF account = NoAccount
       THEN Advance(r, "failed") /\ UNCHANGED read
       ELSE /\ Advance(r, "comparing")
            /\ read' = [read EXCEPT ![r] = [hash |-> account.hash,
                                            past |-> account.until = "past"]]
    /\ UNCHANGED <<identity, login, hashes, kind, typed, overtaken>>

\* Variant: the deadline of a lock is not compared with the clock.
LapsedAtOnce(r) == account.status = "locked"

\* The clock is read before the account: a lock that lapses afterwards holds.
Lapsed(r) == account.status = "locked" /\ account.until = "past" /\ read[r].past

\* Variant: the hash is not compared again under the lock.
AnyHash(r) == account # NoAccount

\* The row a request finds under the lock is the one it compared with.
SameHash(r) == account # NoAccount /\ account.hash = read[r].hash

MayTry(r) == SameHash(r) /\ (account.status = "active" \/ Lapsed(r))

Matches(r) == read[r].hash.password = typed[r]

\* authenticate, the locked part: the account changed, or may not log in.
Refused(r) ==
    /\ pc[r] = "comparing"
    /\ ~ MayTry(r)
    /\ Advance(r, "failed")
    /\ UNCHANGED <<identity, login, hashes, kind, typed, read, overtaken>>

\* A wrong password is counted on the count as it was read, also when the
\* lock has just lapsed and the row was set back to zero.
WrongPassword(r) ==
    /\ pc[r] = "comparing"
    /\ MayTry(r) /\ ~ Matches(r)
    /\ LET failed == account.failed + 1
           lock == failed >= LockThreshold
       IN account' = [account EXCEPT !.failed = failed,
                          !.status = IF lock THEN "locked" ELSE "active",
                          !.until = IF lock THEN "ahead" ELSE "none"]
    /\ guesses' = guesses + 1
    /\ Advance(r, "failed")
    /\ UNCHANGED <<identity, hashes, sessions, kind, typed, read, overtaken>>

RightPassword(r) ==
    /\ pc[r] = "comparing"
    /\ MayTry(r) /\ Matches(r)
    /\ account' = [account EXCEPT !.failed = 0, !.status = "active", !.until = "none"]
    /\ guesses' = 0
    /\ Advance(r, "authenticated")
    /\ UNCHANGED <<identity, hashes, sessions, kind, typed, read, overtaken>>

\* login: issue_session checks nothing, authenticate has.
IssueSession(r) ==
    /\ pc[r] = "authenticated" /\ kind[r] = "login"
    /\ sessions' = [sessions EXCEPT ![r] = "live"]
    /\ Advance(r, "done")
    /\ UNCHANGED <<identity, account, hashes, kind, typed, read, overtaken, guesses>>

\* change_password: the new password is set on whatever account there is now.
ApplyChange(r, new) ==
    /\ pc[r] = "authenticated" /\ kind[r] = "change"
    /\ UpsertAccount(new, "active")
    /\ Advance(r, "done")
    /\ UNCHANGED <<identity, kind, typed, read>>

\* logout.
Logout(s) ==
    /\ Resolves(s)
    /\ sessions' = [sessions EXCEPT ![s] = "revoked"]
    /\ UNCHANGED <<identity, attempt, account, hashes, overtaken, guesses>>

-----------------------------------------------------------------------------
(* Administrators, the tenant's resources, and the clock.                  *)

StatusOf(enabled) == IF enabled THEN "enabled" ELSE "disabled"

Login(enabled) == IF enabled THEN "active" ELSE "disabled"

\* create_tenant: an id whose connections or services remain is not reused.
CreateTenant(enabled, password) ==
    /\ tenantState = "absent" /\ ~ retained
    /\ tenantState' = StatusOf(enabled)
    /\ UpsertAccount(password, Login(enabled))
    /\ UNCHANGED <<attempt, admin, retained>>

\* update_tenant with a new password.
ResetPassword(enabled, password) ==
    /\ tenantState # "absent"
    /\ tenantState' = StatusOf(enabled)
    /\ UpsertAccount(password, Login(enabled))
    /\ UNCHANGED <<attempt, admin, retained>>

\* _tenant_exists, the first read of the requests below.
FindTenant ==
    /\ admin = "idle"
    /\ tenantState # "absent"
    /\ admin' = "exists"
    /\ UNCHANGED <<login, attempt, tenantState, retained, hashes, overtaken>>

\* _tenant_enabled, a read of its own: a tenant that is gone is not enabled.
ReadEnabled ==
    /\ admin = "exists"
    /\ admin' = Login(tenantState = "enabled")
    /\ UNCHANGED <<login, attempt, tenantState, retained, hashes, overtaken>>

\* reset_tenant_login_password, with the status as it was read.
ResetLoginPassword(password) ==
    /\ admin \in {"active", "disabled"}
    /\ UpsertAccount(password, admin)
    /\ admin' = "idle"
    /\ UNCHANGED <<attempt, tenantState, retained>>

\* set_tenant_login_status.
SetLoginStatus(status) ==
    /\ admin = "exists"
    /\ SetAccountStatus(status)
    /\ admin' = "idle"
    /\ UNCHANGED <<attempt, tenantState, retained>>

\* update_tenant without one: enabling a tenant does not enable its login.
SwitchTenant(enabled) ==
    /\ tenantState # "absent"
    /\ tenantState' = StatusOf(enabled)
    /\ IF enabled THEN UNCHANGED <<login, hashes, overtaken>>
                  ELSE SetAccountStatus("disabled")
    /\ UNCHANGED <<attempt, admin, retained>>

\* retire_tenant with delete_account, in one transaction.
RetireTenant ==
    /\ tenantState # "absent"
    /\ tenantState' = "absent"
    /\ account' = NoAccount
    /\ sessions' = [s \in Requests |-> "none"]
    /\ guesses' = 0
    /\ UNCHANGED <<attempt, admin, retained, hashes, overtaken>>

\* A first connection or service is created, or the last connection deleted.
KeepResources ==
    /\ \/ tenantState = "enabled" /\ ~ retained
       \/ retained
    /\ retained' = ~ retained
    /\ UNCHANGED <<login, attempt, tenantState, admin, hashes, overtaken>>

LockLapses ==
    /\ account # NoAccount
    /\ account.until = "ahead" /\ account.failed <= MaxFailed
    /\ account' = [account EXCEPT !.until = "past"]
    /\ guesses' = 0
    /\ UNCHANGED <<identity, attempt, hashes, sessions, overtaken>>

SessionExpires(s) ==
    /\ sessions[s] = "live"
    /\ sessions' = [sessions EXCEPT ![s] = "expired"]
    /\ UNCHANGED <<identity, attempt, account, hashes, overtaken, guesses>>

RequestStep(r) ==
    \/ BeginLogin(r)
    \/ \E s \in Requests : BeginChange(r, s)
    \/ ReadAccount(r)
    \/ Refused(r)
    \/ WrongPassword(r)
    \/ RightPassword(r)
    \/ IssueSession(r)
    \/ \E new \in Passwords : ApplyChange(r, new)

AdminStep ==
    \/ \E enabled \in BOOLEAN, password \in Passwords : CreateTenant(enabled, password)
    \/ \E enabled \in BOOLEAN, password \in Passwords : ResetPassword(enabled, password)
    \/ \E enabled \in BOOLEAN : SwitchTenant(enabled)
    \/ FindTenant \/ ReadEnabled
    \/ \E password \in Passwords : ResetLoginPassword(password)
    \/ \E status \in {"active", "disabled"} : SetLoginStatus(status)
    \/ RetireTenant

Next ==
    \/ \E r \in Requests : RequestStep(r) \/ Logout(r) \/ SessionExpires(r)
    \/ AdminStep
    \/ KeepResources
    \/ LockLapses

Spec == Init /\ [][Next]_vars

-----------------------------------------------------------------------------
(* What the login promises.                                                *)

\* Guesses: however the attempts interleave, no more than LockThreshold wrong
\* passwords are answered before the account is locked; the comparison runs
\* without a lock, so the count must be taken and checked afterwards.
GuessesBounded ==
    /\ guesses <= LockThreshold
    /\ (account # NoAccount /\ account.status = "active") => guesses < LockThreshold

\* The comparison takes long: a request is authenticated only by the password
\* in force when its attempt is counted, on an account that may log in.
AuthenticatedIsCurrent ==
    [][\A r \in Requests :
          (pc[r] = "comparing" /\ pc'[r] = "authenticated") =>
             /\ account # NoAccount
             /\ account.hash.password = typed[r]
             /\ account.status = "active" \/ account.until = "past"]_vars

\* A session works on after its password was replaced, the tenant deleted, or
\* its id created anew only if its login had authenticated, and not yet stored
\* the session, when the next password was set.
StaleSessionOnlyFromOverlap ==
    \A s \in Requests :
        (Resolves(s) /\ read[s].hash # account.hash) => s \in overtaken

=============================================================================
