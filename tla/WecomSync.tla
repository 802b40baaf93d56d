------------------------------ MODULE WecomSync ------------------------------
(***************************************************************************)
(* The stored copy of one WeCom resource of a tenant: windows, details and *)
(* cursors (app/wecom/dispatch.py, sync.py, approval_sync.py,              *)
(* checkin_sync.py, and the rows, cursors and advisory locks of            *)
(* app/db.py).                                                             *)
(*                                                                         *)
(* Two kinds of run fill the same rows, each with a cursor and a lock of   *)
(* its own: the sync of a connection, which the orchestrator triggers, and *)
(* the sync of the tenant, which an administrator triggers and may force   *)
(* or rewind.  The three resources differ in their rows only, but check-in *)
(* lists records, whole and per member, where the others list numbers      *)
(* whose details are fetched one by one.                                   *)
(***************************************************************************)
EXTENDS Integers, FiniteSets

CONSTANTS
    Items,      \* what may be submitted upstream
    Kinds,      \* subset of {"details", "records"}: the resources considered
    Back,       \* how far a window reaches back before the cursor
    Ahead,      \* how far it reaches beyond the present
    Lookbacks,  \* lookback_days, in the unit of the clock
    BackfillDays,   \* lookback of a connection
    Limit,      \* MAX_DETAIL_PER_RUN
    MinWindow,  \* MIN_WINDOW_SECONDS
    Skew,       \* how far the clocks of WeCom and of the server differ
    MaxRun,     \* how long a run takes at most
    MaxTime,    \* bound on the clock
    None

Keys == {"connection", "tenant"}

\* A run must end within the margin that windows reach back.
ASSUME WindowConstants ==
    /\ Back \in Nat /\ Ahead \in Nat /\ Skew \in Nat /\ MaxRun \in Nat
    /\ MaxRun + Skew <= Back
    /\ Lookbacks \subseteq Nat /\ BackfillDays \in Lookbacks
    /\ Limit \in Nat /\ MinWindow \in Nat \ {0}
    /\ MaxTime \in Int
    /\ Kinds \subseteq {"details", "records"}
    /\ None \notin Int

VARIABLES
    resource,   \* which resource it is
    now,        \* the clock of the server
    stamp,      \* when each item was submitted, by the clock of WeCom
    row,        \* the stored copy of each item
    lastValue,  \* sync_cursor: the cursor of each key
    since,      \* history: what the cursor of a key vouches for begins here
    held,       \* the run that holds the lock of a key
    overlooked  \* history: items of members that a run of a key did not know

wecomVars == <<resource, now, stamp, row, lastValue, since, held, overlooked>>

Windows == [from : Int, until : Int]

\* A run: when it began, where its window begins, the windows still to be
\* listed, the items listed and not yet written, and whether anything is
\* missing that the next run has to look for again.
Runs ==
    [began : Int, from : Int, pending : SUBSET Windows, todo : SUBSET Items,
     missing : BOOLEAN]

WecomTypeOK ==
    /\ resource \in Kinds
    /\ now \in Int
    /\ stamp \in [Items -> Int \cup {None}]
    /\ row \in [Items -> {"absent", "partial", "full"}]
    /\ lastValue \in [Keys -> Int \cup {None}]
    /\ since \in [Keys -> Int \cup {None}]
    /\ held \in [Keys -> Runs \cup {None}]
    /\ overlooked \in [Keys -> SUBSET Items]

WecomInit ==
    /\ resource \in Kinds
    /\ now = 0
    /\ stamp = [i \in Items |-> None]
    /\ row = [i \in Items |-> "absent"]
    /\ lastValue = [k \in Keys |-> None]
    /\ since = [k \in Keys |-> None]
    /\ held = [k \in Keys |-> None]
    /\ overlooked = [k \in Keys |-> {}]

-----------------------------------------------------------------------------
(* The world outside.                                                      *)

\* Somebody submits an item; the stamp is WeCom's.
Submit(i) ==
    /\ stamp[i] = None
    /\ \E s \in now - Skew..now + Skew : stamp' = [stamp EXCEPT ![i] = s]
    /\ UNCHANGED <<resource, now, row, lastValue, since, held, overlooked>>

\* Time passes, no longer than a run takes while one is going on.
Tick ==
    /\ now < MaxTime
    /\ \A k \in Keys : held[k] # None => now < held[k].began + MaxRun
    /\ now' = now + 1
    /\ UNCHANGED <<resource, stamp, row, lastValue, since, held, overlooked>>

-----------------------------------------------------------------------------
(* The window of a run.                                                    *)

From(c, lookback) == (IF c = None THEN now - lookback ELSE c) - Back

\* The check-in interface takes nothing beyond the present.
Until == IF resource = "records" THEN now ELSE now + Ahead

\* The run k gets its lock and its window.
Begins(k, from) ==
    held' = [held EXCEPT ![k] =
              [began |-> now, from |-> from, todo |-> {}, missing |-> FALSE,
               pending |-> {[from |-> from, until |-> Until]}]]

\* A run from the cursor; one that finds the lock taken reports busy.
Resume(k, lookback) ==
    /\ held[k] = None
    /\ Begins(k, From(lastValue[k], lookback))
    /\ UNCHANGED <<resource, now, stamp, row, lastValue, since, overlooked>>

\* An administrator makes the tenant look back whatever its cursor says.
ForceRun(lookback) ==
    /\ held["tenant"] = None
    /\ Begins("tenant", now - lookback)
    /\ UNCHANGED <<resource, now, stamp, row, lastValue, since, overlooked>>

\* reset_cursor first rewinds the cursors of all resources, whatever they skip
\* by it; a forced run of this resource follows, once those before it are done
\* and unless the process dies.
Rewind(lookback) ==
    /\ held["tenant"] = None
    /\ lastValue' = [lastValue EXCEPT !["tenant"] = now - lookback]
    /\ since' = [since EXCEPT !["tenant"] =
                   IF @ # None /\ now - lookback <= lastValue["tenant"] THEN @
                   ELSE now - lookback - Back]
    /\ UNCHANGED <<resource, now, stamp, row, held, overlooked>>

-----------------------------------------------------------------------------
(* Listing and writing.                                                    *)

\* What WeCom lists in a window.
Listed(w) ==
    {i \in Items : stamp[i] # None /\ w.from <= stamp[i] /\ stamp[i] <= w.until}

\* Windows are taken from the earliest on, once the items listed are written.
Current(k, w) ==
    /\ held[k] # None
    /\ held[k].todo = {}
    /\ w \in held[k].pending
    /\ \A v \in held[k].pending : w.from <= v.from

\* A window with too many items is halved unless it is too short.
Split(k, w) ==
    LET mid == w.from + (w.until - w.from) \div 2 IN
    /\ resource = "details"
    /\ Current(k, w)
    /\ Cardinality(Listed(w)) > Limit
    /\ w.until - w.from > MinWindow
    /\ held' = [held EXCEPT ![k].pending =
                 (@ \ {w}) \cup {[from |-> w.from, until |-> mid],
                                 [from |-> mid, until |-> w.until]}]
    /\ UNCHANGED <<resource, now, stamp, row, lastValue, since, overlooked>>

\* Check-in asks for the members it knows: the address book, up to ten minutes
\* old, or the configured members when it cannot be read.
Reached(w) == IF resource = "records" THEN SUBSET Listed(w) ELSE {Listed(w)}

\* A member whom a run does not know is not counted as missing.
List(k, w) ==
    /\ Current(k, w)
    /\ \/ resource = "records"
       \/ Cardinality(Listed(w)) <= Limit
       \/ w.until - w.from <= MinWindow
    /\ \E listed \in Reached(w) :
          /\ held' = [held EXCEPT ![k].pending = @ \ {w}, ![k].todo = listed]
          /\ overlooked' = [overlooked EXCEPT ![k] = @ \cup (Listed(w) \ listed)]
    /\ UNCHANGED <<resource, now, stamp, row, lastValue, since>>

\* Check-in skips the members whose records it cannot read and counts them.
ListSome(k, w) ==
    /\ resource = "records"
    /\ Current(k, w)
    /\ \E some \in SUBSET Listed(w) :
          held' = [held EXCEPT ![k].pending = @ \ {w}, ![k].todo = some,
                             ![k].missing = TRUE]
    /\ UNCHANGED <<resource, now, stamp, row, lastValue, since, overlooked>>

\* An item whose details cannot be read leaves a row with its number only,
\* which replaces no complete one.
Write(k, i) ==
    /\ held[k] # None
    /\ i \in held[k].todo
    /\ held' = [held EXCEPT ![k].todo = @ \ {i}]
    /\ \/ row' = [row EXCEPT ![i] = "full"]
       \/ /\ resource = "details"
          /\ row' = [row EXCEPT ![i] = IF @ = "full" THEN @ ELSE "partial"]
    /\ UNCHANGED <<resource, now, stamp, lastValue, since, overlooked>>

\* Variant: a row that cannot be written is only logged.
WriteFailsUnnoticed(k, i) ==
    /\ held[k] # None
    /\ i \in held[k].todo
    /\ held' = [held EXCEPT ![k].todo = @ \ {i}]
    /\ UNCHANGED <<resource, now, stamp, row, lastValue, since, overlooked>>

WriteFails(k, i) ==
    /\ held[k] # None
    /\ i \in held[k].todo
    /\ held' = [held EXCEPT ![k].todo = @ \ {i}, ![k].missing = TRUE]
    /\ UNCHANGED <<resource, now, stamp, row, lastValue, since, overlooked>>

-----------------------------------------------------------------------------
(* The end of a run.                                                       *)

\* The cursor becomes the present, not the time the run began, unless
\* something is missing.  A forced run that left out what the cursor had not
\* reached vouches only for what it has seen itself.
FinishRun(k) ==
    /\ held[k] # None
    /\ held[k].todo = {}
    /\ held[k].pending = {}
    /\ IF held[k].missing THEN UNCHANGED <<lastValue, since>>
       ELSE /\ lastValue' = [lastValue EXCEPT ![k] = now]
            /\ since' = [since EXCEPT ![k] =
                 IF lastValue[k] # None /\ held[k].from <= lastValue[k] - Back THEN @
                 ELSE held[k].from]
    /\ held' = [held EXCEPT ![k] = None]
    /\ UNCHANGED <<resource, now, stamp, row, overlooked>>

\* A list that cannot be read, a cursor that cannot be saved, or the process
\* is gone: the lock of the database session goes with it.
Abandon(k) ==
    /\ held[k] # None
    /\ held' = [held EXCEPT ![k] = None]
    /\ UNCHANGED <<resource, now, stamp, row, lastValue, since, overlooked>>

Crash ==
    /\ held' = [k \in Keys |-> None]
    /\ UNCHANGED <<resource, now, stamp, row, lastValue, since, overlooked>>

\* The windows any key has pending.
Pending == UNION {held[k].pending : k \in {k \in Keys : held[k] # None}}

RunStep(k) ==
    \/ \E w \in Pending : Split(k, w) \/ List(k, w) \/ ListSome(k, w)
    \/ \E i \in Items : Write(k, i) \/ WriteFails(k, i)
    \/ FinishRun(k)
    \/ Abandon(k)

WecomNext ==
    \/ Tick
    \/ \E i \in Items : Submit(i)
    \/ Resume("connection", BackfillDays)
    \/ \E lookback \in Lookbacks :
          Resume("tenant", lookback) \/ ForceRun(lookback) \/ Rewind(lookback)
    \/ \E k \in Keys : RunStep(k)
    \/ Crash

WecomSpec == WecomInit /\ [][WecomNext]_wecomVars

-----------------------------------------------------------------------------
(* Properties.                                                             *)

\* Nothing falls between two runs: what was submitted and has no row is
\* within the window the next run of the key resumes with, for all items
\* since its first run or since an administrator last forced it past a gap,
\* but for check-ins of members no run of the key has known.
\* The cursor jumps to the end of the run although lists were read from its
\* beginning on, and the clocks differ: the window reaches back for both.
NothingBetweenRuns ==
    \A k \in Keys : \A i \in Items :
        (/\ lastValue[k] # None
         /\ stamp[i] # None
         /\ row[i] = "absent"
         /\ stamp[i] >= since[k]
         /\ i \notin overlooked[k])
        => stamp[i] >= lastValue[k] - Back

=============================================================================
