------------------------ MODULE TenantConsoleProofs ------------------------
(***************************************************************************)
(* Theorems about TenantConsole, for any requests, passwords, threshold    *)
(* and bounds.  The count of guesses is inductive together with what the   *)
(* row says of it: an active account has fewer failed attempts than lock   *)
(* it, and at least as many as were guessed since the count began anew.    *)
(***************************************************************************)
EXTENDS TenantConsole, TLAPS

\* What the row of the account says of the attempts that were counted.
CountsAgree ==
    account # NoAccount =>
        /\ guesses <= account.failed
        /\ account.until # "none" => account.status = "locked"
        /\ account.until = "past" => guesses = 0 /\ account.failed <= MaxFailed
        /\ account.status = "active" => account.failed < LockThreshold
        /\ account.status = "locked" => account.until # "none"

CountInv == TypeOK /\ CountsAgree /\ guesses <= LockThreshold

\* A session belongs to a login that is over.
SessionsDone == \A s \in Requests : sessions[s] # "none" => pc[s] = "done"

\* Whoever has authenticated, or holds a session, did so with the password of
\* the row, or another was set while it stood between the two.
KnowsHash(r) == account # NoAccount /\ read[r].hash # account.hash => r \in overtaken

HashesKnown ==
    \A r \in Requests : pc[r] = "authenticated" \/ sessions[r] = "live" => KnowsHash(r)

ConsoleInv == CountInv /\ SessionsDone /\ HashesKnown

-----------------------------------------------------------------------------
(* Rows.                                                                   *)

LEMMA AccountFacts ==
    ASSUME TypeOK, account # NoAccount
    PROVE  /\ account \in Accounts
           /\ account.hash \in Hashes
           /\ account.status \in {"active", "disabled", "locked"}
           /\ account.until \in {"none", "ahead", "past"}
           /\ account.failed \in Nat /\ account.failed <= MaxFailed + 1
           /\ account = [hash |-> account.hash, status |-> account.status,
                         failed |-> account.failed, until |-> account.until]
<1>1. account \in Accounts
  BY DEF TypeOK
<1>2. account.failed \in 0..(MaxFailed + 1)
  BY <1>1 DEF Accounts
<1>3. account.failed \in Nat /\ account.failed <= MaxFailed + 1
  BY <1>2, ConsoleConstants
<1> QED
  BY <1>1, <1>3 DEF Accounts

\* An account put together from its parts.
LEMMA NewAccount ==
    ASSUME NEW h \in Hashes, NEW st \in {"active", "disabled", "locked"},
           NEW n \in Nat, n <= MaxFailed + 1, NEW u \in {"none", "ahead", "past"}
    PROVE  LET a == [hash |-> h, status |-> st, failed |-> n, until |-> u] IN
           a \in Accounts /\ a # NoAccount
<1>1. n \in 0..(MaxFailed + 1)
  BY ConsoleConstants
<1> QED
  BY <1>1, ConsoleConstants DEF Accounts

-----------------------------------------------------------------------------
(* The steps, by what they do to the account.                              *)

\* A password is set.
LEMMA Upserted ==
    ASSUME ConsoleInv, NEW password \in Passwords, NEW st \in {"active", "disabled"},
           UpsertAccount(password, st)
    PROVE  /\ account' \in Accounts /\ hashes' \in 0..MaxHashes
           /\ guesses' = 0 /\ CountsAgree'
           /\ sessions' \in [Requests -> {"none", "live", "revoked", "expired"}]
           /\ \A s \in Requests : /\ sessions'[s] # "live"
                                  /\ sessions'[s] # "none" => sessions[s] # "none"
           /\ overtaken' \subseteq Requests
           /\ \A r \in Requests : pc[r] = "authenticated" => r \in overtaken'
<1> USE DEF ConsoleInv, CountInv
<1>1. hashes \in Nat /\ hashes < MaxHashes /\ MaxHashes \in Nat
  BY ConsoleConstants DEF UpsertAccount, TypeOK
<1>2. hashes + 1 \in 1..MaxHashes /\ hashes + 1 \in 0..MaxHashes
  BY <1>1
<1> DEFINE h == [password |-> password, salt |-> hashes + 1]
<1>3. h \in Hashes
  BY <1>2 DEF Hashes
<1>4. account' = [hash |-> h, status |-> st, failed |-> 0, until |-> "none"]
  BY DEF UpsertAccount
<1> HIDE DEF h
<1>5. account' \in Accounts
  <2>1. 0 \in 0..(MaxFailed + 1)
    BY ConsoleConstants
  <2> QED
    BY <1>3, <1>4, <2>1 DEF Accounts
<1>6. CountsAgree'
  BY <1>4, ConsoleConstants DEF UpsertAccount, CountsAgree
<1>7. /\ sessions' \in [Requests -> {"none", "live", "revoked", "expired"}]
      /\ \A s \in Requests : /\ sessions'[s] # "live"
                             /\ sessions'[s] # "none" => sessions[s] # "none"
  BY DEF UpsertAccount, RevokedSessions, TypeOK
<1> QED
  BY <1>2, <1>5, <1>6, <1>7 DEF UpsertAccount, TypeOK

\* The requests stand where they did when a password is set by an administrator.
LEMMA AdminUpsert ==
    ASSUME ConsoleInv, NEW password \in Passwords, NEW st \in {"active", "disabled"},
           UpsertAccount(password, st), UNCHANGED attempt,
           tenantState' \in {"absent", "enabled", "disabled"},
           admin' \in {"idle", "exists", "active", "disabled"}, retained' \in BOOLEAN
    PROVE  ConsoleInv'
<1>1. UNCHANGED <<pc, kind, typed, read>>
  BY DEF attempt
<1>2. TypeOK'
  BY <1>1, Upserted DEF TypeOK, ConsoleInv, CountInv
<1>3. guesses' <= LockThreshold
  BY Upserted, ConsoleConstants
<1>4. SessionsDone'
  BY <1>1, Upserted DEF SessionsDone, ConsoleInv
<1>5. HashesKnown'
  BY <1>1, Upserted DEF HashesKnown, KnowsHash
<1> QED
  BY <1>2, <1>3, <1>4, <1>5, Upserted DEF ConsoleInv, CountInv

\* The status of the login is set, and its sessions are kept or revoked.
LEMMA StatusSet ==
    ASSUME ConsoleInv, NEW st \in {"active", "disabled"}, SetAccountStatus(st),
           UNCHANGED attempt,
           tenantState' \in {"absent", "enabled", "disabled"},
           admin' \in {"idle", "exists", "active", "disabled"}, retained' \in BOOLEAN
    PROVE  ConsoleInv'
<1>1. UNCHANGED <<pc, kind, typed, read, hashes, overtaken>> /\ guesses' = 0
  BY DEF attempt, SetAccountStatus
<1>2. account = NoAccount => account' = NoAccount
  BY DEF SetAccountStatus
<1>3. ASSUME account # NoAccount
      PROVE  /\ account' \in Accounts /\ account'.hash = account.hash
             /\ account'.failed = 0 /\ account'.until = "none" /\ account'.status = st
  <2>1. account \in Accounts
    BY <1>3, AccountFacts DEF ConsoleInv, CountInv
  <2>2. account' = [account EXCEPT !.status = st, !.failed = 0, !.until = "none"]
    BY <1>3 DEF SetAccountStatus
  <2>3. 0 \in 0..(MaxFailed + 1)
    BY ConsoleConstants
  <2> QED
    BY <2>1, <2>2, <2>3 DEF Accounts
<1>4. CountsAgree' /\ guesses' <= LockThreshold
  BY <1>1, <1>2, <1>3, ConsoleConstants DEF CountsAgree
<1>5. /\ sessions' \in [Requests -> {"none", "live", "revoked", "expired"}]
      /\ \A s \in Requests : sessions'[s] = sessions[s] \/
                             (sessions[s] = "live" /\ sessions'[s] = "revoked")
  BY DEF SetAccountStatus, RevokedSessions, TypeOK, ConsoleInv, CountInv
<1>6. TypeOK'
  BY <1>1, <1>2, <1>3, <1>5 DEF TypeOK, ConsoleInv, CountInv
<1>7. SessionsDone' /\ HashesKnown'
  BY <1>1, <1>2, <1>3, <1>5 DEF SessionsDone, HashesKnown, KnowsHash, ConsoleInv
<1> QED
  BY <1>4, <1>6, <1>7 DEF ConsoleInv, CountInv

\* A step that leaves the account, and what requests know of it, alone.
LEMMA AccountKept ==
    ASSUME ConsoleInv, TypeOK', UNCHANGED <<account, guesses, overtaken>>,
           \A r \in Requests :
              /\ pc'[r] = "authenticated" => pc[r] = "authenticated"
              /\ sessions'[r] = "live" => pc[r] = "authenticated" \/ sessions[r] = "live"
              /\ sessions'[r] # "none" => pc'[r] = "done"
              /\ read'[r] # read[r] => pc'[r] = "comparing"
    PROVE  ConsoleInv'
<1>1. CountsAgree' /\ guesses' <= LockThreshold
  BY DEF ConsoleInv, CountInv, CountsAgree
<1>2. SessionsDone'
  BY DEF SessionsDone
<1>3. ASSUME NEW r \in Requests, pc'[r] = "authenticated" \/ sessions'[r] = "live"
      PROVE  KnowsHash(r)'
  <2>1. read'[r] = read[r]
    BY <1>3
  <2>2. KnowsHash(r)
    BY <1>3 DEF ConsoleInv, HashesKnown
  <2> QED
    BY <2>1, <2>2 DEF KnowsHash
<1> QED
  BY <1>1, <1>2, <1>3 DEF ConsoleInv, CountInv, HashesKnown

\* An attempt is counted, or a lock lapses: the hash stays.
LEMMA HashKept ==
    ASSUME ConsoleInv, CountInv', UNCHANGED <<read, sessions, overtaken>>,
           account # NoAccount, account'.hash = account.hash,
           \A r \in Requests :
              /\ sessions[r] # "none" => pc'[r] = pc[r]
              /\ pc'[r] = "authenticated" =>
                    pc[r] = "authenticated" \/ read[r].hash = account.hash
    PROVE  ConsoleInv'
<1>1. SessionsDone'
  BY DEF ConsoleInv, SessionsDone
<1>2. ASSUME NEW r \in Requests, pc'[r] = "authenticated" \/ sessions'[r] = "live"
      PROVE  KnowsHash(r)'
  BY <1>2 DEF ConsoleInv, HashesKnown, KnowsHash
<1> QED
  BY <1>1, <1>2 DEF ConsoleInv, HashesKnown

-----------------------------------------------------------------------------
(* Attempts.                                                               *)

\* A wrong password is one more failed attempt, and locks the account when it
\* is the last that may be; a lock that has lapsed counts on from what it was.
LEMMA WrongPasswordStep ==
    ASSUME ConsoleInv, NEW r \in Requests, WrongPassword(r)
    PROVE  ConsoleInv'
<1> USE DEF ConsoleInv, CountInv
<1> DEFINE n == account.failed + 1
           st == IF n >= LockThreshold THEN "locked" ELSE "active"
           u == IF n >= LockThreshold THEN "ahead" ELSE "none"
<1>1. /\ account # NoAccount
      /\ \/ account.status = "active"
         \/ account.status = "locked" /\ account.until = "past"
  BY DEF WrongPassword, MayTry, SameHash, Lapsed
<1>2. /\ account = [hash |-> account.hash, status |-> account.status,
                    failed |-> account.failed, until |-> account.until]
      /\ account.hash \in Hashes /\ account.failed \in Nat
  BY <1>1, AccountFacts
<1>3. /\ guesses \in Nat /\ guesses <= account.failed
      /\ account.status = "active" => account.failed < LockThreshold
      /\ account.until = "past" => guesses = 0 /\ account.failed <= MaxFailed
  BY <1>1 DEF CountsAgree, TypeOK
<1>4. account.failed <= MaxFailed
  BY <1>1, <1>2, <1>3, ConsoleConstants
<1>5. n \in Nat /\ n <= MaxFailed + 1 /\ n \in 0..(MaxFailed + 1)
  BY <1>2, <1>4, ConsoleConstants
<1>6. guesses + 1 \in Nat /\ guesses + 1 <= n /\ guesses + 1 <= LockThreshold
  BY <1>1, <1>2, <1>3, ConsoleConstants
<1>7. account' = [hash |-> account.hash, status |-> st, failed |-> n, until |-> u]
  BY <1>2 DEF WrongPassword
<1>8. /\ st \in {"active", "locked"} /\ u \in {"none", "ahead"}
      /\ st = "active" => n < LockThreshold
      /\ u # "none" <=> st = "locked"
  BY <1>5, ConsoleConstants
<1> HIDE DEF n, st, u
<1>9. account' \in Accounts
  BY <1>2, <1>5, <1>7, <1>8 DEF Accounts
<1>10. guesses' = guesses + 1
  BY DEF WrongPassword
<1>11. CountsAgree' /\ guesses' <= LockThreshold
  BY <1>6, <1>7, <1>8, <1>10 DEF CountsAgree
<1>12. /\ pc[r] = "comparing" /\ pc' = [pc EXCEPT ![r] = "failed"]
       /\ UNCHANGED <<tenantState, admin, retained, hashes, sessions, kind, typed, read, overtaken>>
  BY DEF WrongPassword, Advance, identity
<1>13. TypeOK'
  BY <1>6, <1>9, <1>10, <1>12 DEF TypeOK, Steps
<1>14. account'.hash = account.hash
  BY <1>7
<1>15. \A q \in Requests : /\ sessions[q] # "none" => pc'[q] = pc[q]
                           /\ pc'[q] = "authenticated" => pc[q] = "authenticated"
  BY <1>12 DEF SessionsDone, TypeOK
<1> QED
  BY <1>1, <1>11, <1>12, <1>13, <1>14, <1>15, HashKept

LEMMA RightPasswordStep ==
    ASSUME ConsoleInv, NEW r \in Requests, RightPassword(r)
    PROVE  ConsoleInv'
<1> USE DEF ConsoleInv, CountInv
<1>1. account # NoAccount /\ account.hash = read[r].hash
  BY DEF RightPassword, MayTry, SameHash
<1>2. /\ account = [hash |-> account.hash, status |-> account.status,
                    failed |-> account.failed, until |-> account.until]
      /\ account.hash \in Hashes
  BY <1>1, AccountFacts
<1>3. account' = [hash |-> account.hash, status |-> "active", failed |-> 0, until |-> "none"]
  BY <1>2 DEF RightPassword
<1>4. account' \in Accounts
  <2>1. 0 \in 0..(MaxFailed + 1)
    BY ConsoleConstants
  <2> QED
    BY <1>2, <1>3, <2>1 DEF Accounts
<1>5. guesses' = 0
  BY DEF RightPassword
<1>6. CountsAgree' /\ guesses' <= LockThreshold
  BY <1>3, <1>5, ConsoleConstants DEF CountsAgree
<1>7. /\ pc[r] = "comparing" /\ pc' = [pc EXCEPT ![r] = "authenticated"]
      /\ UNCHANGED <<tenantState, admin, retained, hashes, sessions, kind, typed, read, overtaken>>
  BY DEF RightPassword, Advance, identity
<1>8. TypeOK'
  BY <1>4, <1>5, <1>7 DEF TypeOK, Steps
<1>9. \A q \in Requests : /\ sessions[q] # "none" => pc'[q] = pc[q]
                          /\ pc'[q] = "authenticated" => pc[q] = "authenticated" \/ q = r
  BY <1>7 DEF SessionsDone, TypeOK
<1>10. account'.hash = account.hash
  BY <1>3
<1> QED
  BY <1>1, <1>6, <1>7, <1>8, <1>9, <1>10, HashKept

LEMMA LockLapsesStep == ConsoleInv /\ LockLapses => ConsoleInv'
<1> SUFFICES ASSUME ConsoleInv, LockLapses
             PROVE  ConsoleInv'
  OBVIOUS
<1> USE DEF ConsoleInv, CountInv
<1>1. account # NoAccount /\ account.until = "ahead" /\ account.failed <= MaxFailed
  BY DEF LockLapses
<1>2. account \in Accounts /\ account.failed \in Nat
  BY <1>1, AccountFacts
<1>3. account' = [account EXCEPT !.until = "past"] /\ guesses' = 0
  BY DEF LockLapses
<1>4. /\ account' \in Accounts /\ account'.hash = account.hash
      /\ account'.failed = account.failed /\ account'.status = account.status
      /\ account'.until = "past"
  BY <1>2, <1>3 DEF Accounts
<1>5. CountsAgree' /\ guesses' <= LockThreshold
  BY <1>1, <1>2, <1>3, <1>4, ConsoleConstants DEF CountsAgree
<1>6. UNCHANGED <<tenantState, admin, retained, hashes, sessions, pc, kind, typed, read, overtaken>>
  BY DEF LockLapses, identity, attempt
<1>7. TypeOK'
  BY <1>3, <1>4, <1>6 DEF TypeOK
<1> QED
  BY <1>1, <1>4, <1>5, <1>6, <1>7, HashKept

\* Beginning, reading, giving up, storing a session: the row is not written.
LEMMA RequestKeepsAccount ==
    ASSUME ConsoleInv, NEW r \in Requests,
           \/ BeginLogin(r) \/ (\E s \in Requests : BeginChange(r, s))
           \/ ReadAccount(r) \/ Refused(r) \/ IssueSession(r)
    PROVE  ConsoleInv'
<1> USE DEF ConsoleInv, CountInv
<1>1. UNCHANGED <<tenantState, admin, retained, account, guesses, hashes, typed, overtaken>>
  BY DEF BeginLogin, BeginChange, ReadAccount, Refused, IssueSession, identity, login
<1>2. pc[r] # "done" /\ sessions[r] = "none"
  BY DEF BeginLogin, BeginChange, ReadAccount, Refused, IssueSession, SessionsDone, TypeOK
<1>3. PICK step \in Steps : pc' = [pc EXCEPT ![r] = step]
  BY DEF BeginLogin, BeginChange, ReadAccount, Refused, IssueSession, Advance, Steps
<1>4. \A q \in Requests : q # r => /\ pc'[q] = pc[q] /\ read'[q] = read[q]
                                   /\ sessions'[q] = sessions[q]
  BY <1>3 DEF BeginLogin, BeginChange, ReadAccount, Refused, IssueSession, login, TypeOK
<1>5. /\ pc'[r] # "authenticated"
      /\ sessions'[r] # "none" => pc[r] = "authenticated" /\ pc'[r] = "done"
      /\ read'[r] # read[r] => pc'[r] = "comparing"
  BY <1>2 DEF BeginLogin, BeginChange, ReadAccount, Refused, IssueSession, Advance, login, TypeOK
<1>6. TypeOK'
  <2>1. pc' \in [Requests -> Steps]
    BY <1>3 DEF TypeOK
  <2>2. kind' \in [Requests -> {"login", "change"}]
    BY DEF BeginLogin, BeginChange, ReadAccount, Refused, IssueSession, TypeOK
  <2>3. sessions' \in [Requests -> {"none", "live", "revoked", "expired"}]
    BY DEF BeginLogin, BeginChange, ReadAccount, Refused, IssueSession, login, TypeOK
  <2>4. read' \in [Requests -> Reads \cup {NoRead}]
    <3>1. account # NoAccount =>
             [hash |-> account.hash, past |-> account.until = "past"] \in Reads
      BY AccountFacts DEF Reads
    <3> QED
      BY <3>1 DEF BeginLogin, BeginChange, ReadAccount, Refused, IssueSession, TypeOK
  <2> QED
    BY <1>1, <2>1, <2>2, <2>3, <2>4 DEF TypeOK
<1>7. \A q \in Requests :
          /\ pc'[q] = "authenticated" => pc[q] = "authenticated"
          /\ sessions'[q] = "live" => pc[q] = "authenticated" \/ sessions[q] = "live"
          /\ sessions'[q] # "none" => pc'[q] = "done"
          /\ read'[q] # read[q] => pc'[q] = "comparing"
  BY <1>4, <1>5 DEF SessionsDone
<1> QED
  BY <1>1, <1>6, <1>7, AccountKept

\* The password of a change is set, whatever has become of the account.
LEMMA ApplyChangeStep ==
    ASSUME ConsoleInv, NEW r \in Requests, NEW new \in Passwords, ApplyChange(r, new)
    PROVE  ConsoleInv'
<1> USE DEF ConsoleInv, CountInv
<1>1. /\ UpsertAccount(new, "active") /\ pc[r] = "authenticated"
      /\ pc' = [pc EXCEPT ![r] = "done"]
      /\ UNCHANGED <<tenantState, admin, retained, kind, typed, read>>
  BY DEF ApplyChange, Advance, identity
<1>2. TypeOK'
  BY <1>1, Upserted DEF TypeOK, Steps
<1>3. \A q \in Requests : /\ pc'[q] = "authenticated" => pc[q] = "authenticated"
                          /\ pc[q] = "done" => pc'[q] = "done"
  BY <1>1 DEF TypeOK
<1>4. guesses' <= LockThreshold /\ CountsAgree'
  BY <1>1, Upserted, ConsoleConstants
<1>5. SessionsDone'
  BY <1>1, <1>3, Upserted DEF SessionsDone
<1>6. HashesKnown'
  BY <1>1, <1>3, Upserted DEF HashesKnown, KnowsHash
<1> QED
  BY <1>2, <1>4, <1>5, <1>6

-----------------------------------------------------------------------------
(* Sessions, administrators, the clock.                                    *)

LEMMA SessionEnds ==
    ASSUME ConsoleInv, NEW s \in Requests, Logout(s) \/ SessionExpires(s)
    PROVE  ConsoleInv'
<1> USE DEF ConsoleInv, CountInv
<1>1. PICK end \in {"revoked", "expired"} : sessions' = [sessions EXCEPT ![s] = end]
  BY DEF Logout, SessionExpires
<1>2. /\ sessions[s] = "live"
      /\ UNCHANGED <<tenantState, admin, retained, account, guesses, hashes, overtaken,
                     pc, kind, typed, read>>
  BY DEF Logout, SessionExpires, Resolves, identity, attempt
<1>3. TypeOK'
  BY <1>1, <1>2 DEF TypeOK
<1>4. \A q \in Requests : /\ sessions'[q] = "live" => sessions[q] = "live"
                          /\ sessions'[q] # "none" => pc'[q] = "done"
  BY <1>1, <1>2 DEF SessionsDone, TypeOK
<1> QED
  BY <1>2, <1>3, <1>4, AccountKept

LEMMA QuietStep ==
    ASSUME ConsoleInv,
           \/ FindTenant \/ ReadEnabled \/ KeepResources \/ UNCHANGED vars
           \/ \E enabled \in BOOLEAN :
                 tenantState' = StatusOf(enabled) /\ UNCHANGED <<login, attempt, hashes, overtaken, admin, retained>>
    PROVE  ConsoleInv'
<1> USE DEF ConsoleInv, CountInv
<1>1. UNCHANGED <<account, sessions, guesses, pc, kind, typed, read, hashes, overtaken>>
  BY DEF FindTenant, ReadEnabled, KeepResources, vars, login, attempt
<1>2. /\ tenantState' \in {"absent", "enabled", "disabled"}
      /\ admin' \in {"idle", "exists", "active", "disabled"} /\ retained' \in BOOLEAN
  BY DEF FindTenant, ReadEnabled, KeepResources, vars, identity, StatusOf, Login, TypeOK
<1>3. TypeOK'
  BY <1>1, <1>2 DEF TypeOK
<1> QED
  BY <1>1, <1>3, AccountKept DEF SessionsDone

LEMMA RetireStep == ConsoleInv /\ RetireTenant => ConsoleInv'
<1> SUFFICES ASSUME ConsoleInv, RetireTenant
             PROVE  ConsoleInv'
  OBVIOUS
<1> USE DEF ConsoleInv, CountInv
<1>1. /\ account' = NoAccount /\ guesses' = 0 /\ tenantState' = "absent"
      /\ sessions' = [s \in Requests |-> "none"]
      /\ UNCHANGED <<admin, retained, pc, kind, typed, read, hashes, overtaken>>
  BY DEF RetireTenant, attempt
<1>2. TypeOK' /\ CountsAgree' /\ guesses' <= LockThreshold
  BY <1>1, ConsoleConstants DEF TypeOK, CountsAgree
<1>3. SessionsDone' /\ HashesKnown'
  BY <1>1 DEF SessionsDone, HashesKnown, KnowsHash
<1> QED
  BY <1>2, <1>3

LEMMA AdminSteps == ConsoleInv /\ AdminStep => ConsoleInv'
<1> SUFFICES ASSUME ConsoleInv, AdminStep
             PROVE  ConsoleInv'
  OBVIOUS
<1>0. TypeOK
  BY DEF ConsoleInv, CountInv
<1>1. ASSUME NEW enabled \in BOOLEAN, NEW password \in Passwords,
             CreateTenant(enabled, password) \/ ResetPassword(enabled, password)
      PROVE  ConsoleInv'
  <2>1. /\ Login(enabled) \in {"active", "disabled"}
        /\ UpsertAccount(password, Login(enabled)) /\ UNCHANGED attempt
        /\ tenantState' \in {"absent", "enabled", "disabled"} /\ UNCHANGED <<admin, retained>>
    BY <1>1 DEF CreateTenant, ResetPassword, Login, StatusOf
  <2> QED
    BY <1>0, <2>1, AdminUpsert DEF TypeOK
<1>2. ASSUME NEW enabled \in BOOLEAN, SwitchTenant(enabled)
      PROVE  ConsoleInv'
  <2>1. CASE enabled
    BY <1>2, <2>1, QuietStep DEF SwitchTenant
  <2>2. CASE ~ enabled
    <3>1. /\ SetAccountStatus("disabled") /\ UNCHANGED attempt
          /\ tenantState' \in {"absent", "enabled", "disabled"} /\ UNCHANGED <<admin, retained>>
      BY <1>2, <2>2 DEF SwitchTenant, StatusOf
    <3> QED
      BY <1>0, <3>1, StatusSet DEF TypeOK
  <2> QED
    BY <2>1, <2>2
<1>3. ASSUME NEW password \in Passwords, ResetLoginPassword(password)
      PROVE  ConsoleInv'
  <2>1. /\ admin \in {"active", "disabled"} /\ UpsertAccount(password, admin)
        /\ UNCHANGED attempt /\ UNCHANGED <<tenantState, retained>> /\ admin' = "idle"
    BY <1>3 DEF ResetLoginPassword
  <2> QED
    BY <1>0, <2>1, AdminUpsert DEF TypeOK
<1>4. ASSUME NEW status \in {"active", "disabled"}, SetLoginStatus(status)
      PROVE  ConsoleInv'
  <2>1. /\ SetAccountStatus(status) /\ UNCHANGED attempt
        /\ UNCHANGED <<tenantState, retained>> /\ admin' = "idle"
    BY <1>4 DEF SetLoginStatus
  <2> QED
    BY <1>0, <2>1, StatusSet DEF TypeOK
<1> QED
  BY <1>1, <1>2, <1>3, <1>4, QuietStep, RetireStep DEF AdminStep

-----------------------------------------------------------------------------
(* The invariant, and what is promised.                                    *)

LEMMA ConsoleInitInv == Init => ConsoleInv
<1> SUFFICES ASSUME Init
             PROVE  ConsoleInv
  OBVIOUS
<1>1. TypeOK
  <2>1. 0 \in 0..MaxHashes /\ 0 \in Nat
    BY ConsoleConstants
  <2> QED
    BY <2>1 DEF Init, TypeOK, Steps
<1>2. CountsAgree /\ guesses <= LockThreshold
  BY ConsoleConstants DEF Init, CountsAgree
<1>3. SessionsDone /\ HashesKnown
  BY DEF Init, SessionsDone, HashesKnown
<1> QED
  BY <1>1, <1>2, <1>3 DEF ConsoleInv, CountInv

LEMMA ConsoleInvStep == ConsoleInv /\ [Next]_vars => ConsoleInv'
<1> SUFFICES ASSUME ConsoleInv, [Next]_vars
             PROVE  ConsoleInv'
  OBVIOUS
<1>1. ASSUME NEW r \in Requests, RequestStep(r)
      PROVE  ConsoleInv'
  BY <1>1, RequestKeepsAccount, WrongPasswordStep, RightPasswordStep, ApplyChangeStep
     DEF RequestStep
<1> QED
  BY <1>1, SessionEnds, AdminSteps, LockLapsesStep, QuietStep DEF Next

LEMMA ConsoleInvHolds == Spec => []ConsoleInv
BY ConsoleInitInv, ConsoleInvStep, PTL DEF Spec

\* Every reachable state is of the types of the model.
THEOREM ConsoleTypeCorrect == Spec => []TypeOK
BY ConsoleInvHolds, PTL DEF ConsoleInv, CountInv

\* However attempts, resets and lapses interleave, no more than LockThreshold
\* wrong passwords are answered before the account locks.
THEOREM GuessesAreBounded == Spec => []GuessesBounded
<1>1. ConsoleInv => GuessesBounded
  <2> SUFFICES ASSUME ConsoleInv, account # NoAccount, account.status = "active"
               PROVE  guesses < LockThreshold
    BY DEF GuessesBounded, ConsoleInv, CountInv
  <2>1. /\ guesses \in Nat /\ guesses <= account.failed
        /\ account.failed \in Nat /\ account.failed < LockThreshold
    BY AccountFacts DEF ConsoleInv, CountInv, CountsAgree, TypeOK
  <2> QED
    BY <2>1, ConsoleConstants
<1> QED
  BY ConsoleInvHolds, <1>1, PTL

\* A session outlives its password only if its login stood between its
\* authentication and its session when the next password was set.
THEOREM StaleSessionsOverlap == Spec => []StaleSessionOnlyFromOverlap
<1>1. ConsoleInv => StaleSessionOnlyFromOverlap
  BY DEF ConsoleInv, HashesKnown, KnowsHash, StaleSessionOnlyFromOverlap, Resolves
<1> QED
  BY ConsoleInvHolds, <1>1, PTL

\* A request is authenticated only by the password in force when its attempt
\* is counted, on an account that may log in.
THEOREM AuthenticationIsCurrent == Spec => AuthenticatedIsCurrent
<1>1. ASSUME ConsoleInv, [Next]_vars, NEW r \in Requests,
             pc[r] = "comparing", pc'[r] = "authenticated"
      PROVE  RightPassword(r)
  <2>1. pc' # pc /\ pc \in [Requests -> Steps]
    BY <1>1 DEF ConsoleInv, CountInv, TypeOK
  <2>2. PICK q \in Requests : RequestStep(q)
    BY <1>1, <2>1 DEF Next, vars, attempt, Logout, SessionExpires, KeepResources, LockLapses,
                      AdminStep, CreateTenant, ResetPassword, SwitchTenant, FindTenant,
                      ReadEnabled, ResetLoginPassword, SetLoginStatus, RetireTenant
  <2> QED
    BY <1>1, <2>1, <2>2 DEF RequestStep, BeginLogin, BeginChange, ReadAccount, Refused,
                            WrongPassword, RightPassword, IssueSession, ApplyChange, Advance
<1>2. ConsoleInv /\ [Next]_vars =>
         \A r \in Requests :
            (pc[r] = "comparing" /\ pc'[r] = "authenticated") =>
               /\ account # NoAccount
               /\ account.hash.password = typed[r]
               /\ account.status = "active" \/ account.until = "past"
  BY <1>1 DEF RightPassword, MayTry, SameHash, Lapsed, Matches
<1> QED
  BY ConsoleInvHolds, <1>2, PTL DEF Spec, AuthenticatedIsCurrent

=============================================================================
