----------------------------- MODULE WecomProofs -----------------------------
(***************************************************************************)
(* Theorems about WecomSync, for any items, windows, skews and durations   *)
(* its assumption allows, and about LegacyMigration, for any tenants.      *)
(*                                                                         *)
(* That nothing falls between two runs is inductive only together with     *)
(* what a run that goes on still owes: every item of its window submitted  *)
(* early enough is stored, listed, or in a window it will list.  What a    *)
(* watermark vouches for needs what it is about to be written for: the     *)
(* tenants copied and not yet marked, and, while all copies of the log     *)
(* have succeeded, the tenants they leave to do.                           *)
(***************************************************************************)
EXTENDS WecomSync, LegacyMigration, TLAPS

-----------------------------------------------------------------------------
(* WecomSync.                                                              *)

\* Cursors are not ahead of the clock, and no run takes longer than it may.
ClockOK ==
    \A k \in Keys :
        /\ lastValue[k] = None <=> since[k] = None
        /\ lastValue[k] # None => lastValue[k] <= now
        /\ held[k] # None => held[k].began <= now /\ now <= held[k].began + MaxRun

InWindow(i, w) == w.from <= stamp[i] /\ stamp[i] <= w.until

\* An item early enough for a run that so far misses nothing.
Owed(k, i) ==
    /\ held[k] # None
    /\ held[k].missing = FALSE
    /\ stamp[i] # None
    /\ row[i] = "absent"
    /\ i \notin overlooked[k]
    /\ held[k].from <= stamp[i]
    /\ stamp[i] < held[k].began - Skew

RunCovers ==
    \A k \in Keys : \A i \in Items :
        Owed(k, i) => i \in held[k].todo \/ \E w \in held[k].pending : InWindow(i, w)

WecomInv == WecomTypeOK /\ ClockOK /\ RunCovers /\ NothingBetweenRuns

USE DEF Keys

LEMMA WecomInitInv == WecomInit => WecomInv
<1> SUFFICES ASSUME WecomInit
             PROVE  WecomInv
  OBVIOUS
<1>1. WecomTypeOK
  BY DEF WecomInit, WecomTypeOK
<1>2. ClockOK /\ RunCovers /\ NothingBetweenRuns
  BY DEF WecomInit, ClockOK, RunCovers, Owed, NothingBetweenRuns
<1> QED
  BY <1>1, <1>2 DEF WecomInv

-----------------------------------------------------------------------------
(* The actions by what they change: the time, what was submitted, the      *)
(* cursors, the locks, or one run and a row.                               *)

\* The run that Begins starts.
NewRun(from) ==
    [began |-> now, from |-> from, todo |-> {}, missing |-> FALSE,
     pending |-> {[from |-> from, until |-> Until]}]

LEMMA NewRunType ==
    ASSUME WecomTypeOK, NEW from \in Int
    PROVE  NewRun(from) \in Runs
<1>1. Until \in Int
  BY WindowConstants DEF WecomTypeOK, Until
<1>2. [from |-> from, until |-> Until] \in Windows
  BY <1>1 DEF Windows
<1> QED
  BY <1>2 DEF NewRun, Runs, WecomTypeOK

\* A run that goes on: what may become of it, and of the row it writes.
Goes(k, run, stored) ==
    /\ held[k] # None
    /\ run \in Runs
    /\ held' = [held EXCEPT ![k] = run]
    /\ run.began = held[k].began /\ run.from = held[k].from
    /\ row' = stored
    /\ overlooked' \in [Keys -> SUBSET Items]
    /\ \A j \in Keys : overlooked[j] \subseteq overlooked'[j]
    /\ UNCHANGED <<resource, now, stamp, lastValue, since>>

\* What a run that goes on may not lose.
Keeps(k, run, stored) ==
    /\ \A i \in Items : row[i] # "absent" => stored[i] # "absent"
    /\ run.missing = FALSE =>
        /\ held[k].missing = FALSE
        /\ \A i \in Items :
            /\ stored[i] = "absent"
            /\ i \notin overlooked'[k]
            /\ stamp[i] # None
            /\ i \in held[k].todo \/ \E w \in held[k].pending : InWindow(i, w)
            => i \in run.todo \/ \E w \in run.pending : InWindow(i, w)

LEMMA SplitGoes ==
    ASSUME WecomTypeOK, NEW k \in Keys, NEW w \in Pending, Split(k, w)
    PROVE  \E run : Goes(k, run, row) /\ Keeps(k, run, row)
<1> DEFINE mid == w.from + (w.until - w.from) \div 2
           low == [from |-> w.from, until |-> mid]
           high == [from |-> mid, until |-> w.until]
           run == [held[k] EXCEPT !.pending = (@ \ {w}) \cup {low, high}]
<1>1. held[k] \in Runs /\ held[k] # None /\ w \in held[k].pending
  BY DEF Split, Current, WecomTypeOK
<1>2. w \in Windows
  BY <1>1 DEF Runs
<1>3. mid \in Int
  BY <1>2 DEF Windows
<1> HIDE DEF mid
<1>4. low \in Windows /\ high \in Windows
  BY <1>2, <1>3 DEF Windows
<1>5. run \in Runs
  BY <1>1, <1>4 DEF Runs
<1>6. held' = [held EXCEPT ![k] = run]
  BY DEF Split, mid, WecomTypeOK
<1>7. run.began = held[k].began /\ run.from = held[k].from /\ run.missing = held[k].missing
      /\ run.todo = held[k].todo /\ run.pending = (held[k].pending \ {w}) \cup {low, high}
  BY <1>1 DEF Runs
<1>8. Goes(k, run, row)
  BY <1>1, <1>5, <1>6, <1>7 DEF Goes, Split, WecomTypeOK
<1>9. ASSUME NEW i \in Items, stamp[i] # None, InWindow(i, w)
      PROVE  InWindow(i, low) \/ InWindow(i, high)
  <2>1. stamp[i] \in Int
    BY <1>9 DEF WecomTypeOK
  <2> QED
    BY <1>2, <1>3, <1>9, <2>1 DEF InWindow, Windows
<1>10. Keeps(k, run, row)
  BY <1>7, <1>9 DEF Keeps
<1> QED
  BY <1>8, <1>10

LEMMA ListGoes ==
    ASSUME WecomTypeOK, NEW k \in Keys, NEW w \in Pending, List(k, w)
    PROVE  \E run : Goes(k, run, row) /\ Keeps(k, run, row)
<1>1. PICK listed \in SUBSET Listed(w) :
        /\ held' = [held EXCEPT ![k].pending = @ \ {w}, ![k].todo = listed]
        /\ overlooked' = [overlooked EXCEPT ![k] = @ \cup (Listed(w) \ listed)]
  BY DEF List, Reached
<1> DEFINE run == [held[k] EXCEPT !.pending = @ \ {w}, !.todo = listed]
<1>2. held[k] \in Runs /\ held[k] # None /\ held[k].todo = {}
  BY DEF List, Current, WecomTypeOK
<1>3. run \in Runs
  BY <1>2 DEF Runs, Listed
<1>4. held' = [held EXCEPT ![k] = run]
  BY <1>1 DEF WecomTypeOK
<1>5. run.began = held[k].began /\ run.from = held[k].from /\ run.missing = held[k].missing
      /\ run.todo = listed /\ run.pending = held[k].pending \ {w}
  BY <1>2 DEF Runs
<1>6. /\ overlooked' \in [Keys -> SUBSET Items]
      /\ overlooked'[k] = overlooked[k] \cup (Listed(w) \ listed)
      /\ \A j \in Keys : overlooked[j] \subseteq overlooked'[j]
  BY <1>1 DEF WecomTypeOK, Listed
<1>7. Goes(k, run, row)
  BY <1>2, <1>3, <1>4, <1>5, <1>6 DEF Goes, List
<1>8. \A i \in Items : stamp[i] # None /\ InWindow(i, w) => i \in Listed(w)
  BY DEF Listed, InWindow
<1>9. Keeps(k, run, row)
  BY <1>2, <1>5, <1>6, <1>8 DEF Keeps
<1> QED
  BY <1>7, <1>9

LEMMA ListSomeGoes ==
    ASSUME WecomTypeOK, NEW k \in Keys, NEW w \in Pending, ListSome(k, w)
    PROVE  \E run : Goes(k, run, row) /\ Keeps(k, run, row)
<1>1. PICK some \in SUBSET Listed(w) :
        held' = [held EXCEPT ![k].pending = @ \ {w}, ![k].todo = some, ![k].missing = TRUE]
  BY DEF ListSome
<1> DEFINE run == [held[k] EXCEPT !.pending = @ \ {w}, !.todo = some, !.missing = TRUE]
<1>2. held[k] \in Runs /\ held[k] # None
  BY DEF ListSome, Current, WecomTypeOK
<1>3. run \in Runs
  BY <1>2 DEF Runs, Listed
<1>4. held' = [held EXCEPT ![k] = run]
  BY <1>1 DEF WecomTypeOK
<1>5. run.began = held[k].began /\ run.from = held[k].from /\ run.missing = TRUE
  BY <1>2 DEF Runs
<1>6. Goes(k, run, row) /\ Keeps(k, run, row)
  BY <1>2, <1>3, <1>4, <1>5 DEF Goes, Keeps, ListSome, WecomTypeOK
<1> QED
  BY <1>6

LEMMA WriteGoes ==
    ASSUME WecomTypeOK, NEW k \in Keys, NEW i \in Items, Write(k, i)
    PROVE  \E run : Goes(k, run, row') /\ Keeps(k, run, row')
           /\ row' \in [Items -> {"absent", "partial", "full"}]
<1> DEFINE run == [held[k] EXCEPT !.todo = @ \ {i}]
<1>1. held[k] \in Runs /\ held[k] # None
  BY DEF Write, WecomTypeOK
<1>2. run \in Runs
  BY <1>1 DEF Runs
<1>3. held' = [held EXCEPT ![k] = run]
  BY DEF Write, WecomTypeOK
<1>4. run.began = held[k].began /\ run.from = held[k].from /\ run.missing = held[k].missing
      /\ run.todo = held[k].todo \ {i} /\ run.pending = held[k].pending
  BY <1>1 DEF Runs
<1>5. Goes(k, run, row')
  BY <1>1, <1>2, <1>3, <1>4 DEF Goes, Write, WecomTypeOK
<1>6. /\ row' \in [Items -> {"absent", "partial", "full"}]
      /\ row'[i] # "absent"
      /\ \A j \in Items : j # i => row'[j] = row[j]
  BY DEF Write, WecomTypeOK
<1>7. Keeps(k, run, row')
  BY <1>4, <1>6 DEF Keeps
<1> QED
  BY <1>5, <1>6, <1>7

LEMMA WriteFailsGoes ==
    ASSUME WecomTypeOK, NEW k \in Keys, NEW i \in Items, WriteFails(k, i)
    PROVE  \E run : Goes(k, run, row) /\ Keeps(k, run, row)
<1> DEFINE run == [held[k] EXCEPT !.todo = @ \ {i}, !.missing = TRUE]
<1>1. held[k] \in Runs /\ held[k] # None
  BY DEF WriteFails, WecomTypeOK
<1>2. run \in Runs
  BY <1>1 DEF Runs
<1>3. held' = [held EXCEPT ![k] = run]
  BY DEF WriteFails, WecomTypeOK
<1>4. run.began = held[k].began /\ run.from = held[k].from /\ run.missing = TRUE
  BY <1>1 DEF Runs
<1>5. Goes(k, run, row) /\ Keeps(k, run, row)
  BY <1>1, <1>2, <1>3, <1>4 DEF Goes, Keeps, WriteFails, WecomTypeOK
<1> QED
  BY <1>5

-----------------------------------------------------------------------------
(* What each kind of step preserves.                                       *)

LEMMA TickStep == WecomInv /\ Tick => WecomInv'
<1> SUFFICES ASSUME WecomInv, Tick
             PROVE  WecomInv'
  OBVIOUS
<1> USE DEF WecomInv, Tick
<1>1. WecomTypeOK'
  BY DEF WecomTypeOK
<1>2. ClockOK'
  <2> SUFFICES ASSUME NEW k \in Keys
               PROVE  /\ lastValue[k] # None => lastValue[k] <= now'
                      /\ held[k] # None => /\ held[k].began <= now'
                                           /\ now' <= held[k].began + MaxRun
    BY DEF ClockOK
  <2>1. now \in Int /\ now' = now + 1 /\ MaxRun \in Int
    BY WindowConstants DEF WecomTypeOK
  <2>2. CASE held[k] # None
    <3>1. held[k].began \in Int
      BY <2>2 DEF WecomTypeOK, Runs
    <3> QED
      BY <2>1, <2>2, <3>1 DEF ClockOK, WecomTypeOK
  <2>3. CASE held[k] = None
    BY <2>1, <2>3 DEF ClockOK, WecomTypeOK
  <2> QED
    BY <2>2, <2>3
<1>3. RunCovers'
  BY DEF RunCovers, Owed, InWindow
<1>4. NothingBetweenRuns'
  BY DEF NothingBetweenRuns
<1> QED
  BY <1>1, <1>2, <1>3, <1>4

LEMMA SubmitStep ==
    ASSUME WecomInv, NEW i \in Items, Submit(i)
    PROVE  WecomInv'
<1> USE DEF WecomInv
<1>1. PICK s \in now - Skew..now + Skew : stamp' = [stamp EXCEPT ![i] = s]
  BY DEF Submit
<1>2. /\ s \in Int /\ now \in Int /\ Skew \in Nat /\ Back \in Nat /\ MaxRun \in Nat
      /\ MaxRun + Skew <= Back
  BY WindowConstants DEF WecomTypeOK
<1>3. now - Skew <= s
  BY <1>2
<1>4. stamp' \in [Items -> Int \cup {None}] /\ stamp'[i] = s
      /\ \A j \in Items : j # i => stamp'[j] = stamp[j]
  BY <1>1, <1>2 DEF WecomTypeOK
<1>5. WecomTypeOK'
  BY <1>4 DEF WecomTypeOK, Submit
<1>6. ClockOK'
  BY DEF ClockOK, Submit
<1>7. RunCovers'
  <2> SUFFICES ASSUME NEW k \in Keys, NEW j \in Items, Owed(k, j)'
               PROVE  j \in held[k].todo \/ \E w \in held[k].pending : InWindow(j, w)'
    BY DEF RunCovers, Submit
  <2>1. /\ held[k] # None /\ stamp'[j] < held[k].began - Skew
    BY DEF Owed, Submit
  <2>2. held[k].began <= now /\ held[k].began \in Int
    BY <2>1 DEF ClockOK, WecomTypeOK, Runs
  <2>3. j # i
    <3> SUFFICES ASSUME j = i
                 PROVE  FALSE
      OBVIOUS
    <3>1. s < held[k].began - Skew
      BY <1>4, <2>1
    <3> QED
      BY <1>2, <1>3, <2>2, <3>1
  <2>4. Owed(k, j)
    BY <1>4, <2>3 DEF Owed, Submit
  <2> QED
    BY <1>4, <2>3, <2>4 DEF RunCovers, InWindow
<1>8. NothingBetweenRuns'
  <2> SUFFICES ASSUME NEW k \in Keys, NEW j \in Items, lastValue[k] # None,
                      stamp'[j] # None, row[j] = "absent", stamp'[j] >= since[k],
                      j \notin overlooked[k]
               PROVE  stamp'[j] >= lastValue[k] - Back
    BY DEF NothingBetweenRuns, Submit
  <2>1. CASE j = i
    <3>1. lastValue[k] \in Int /\ lastValue[k] <= now
      BY DEF ClockOK, WecomTypeOK
    <3> QED
      BY <1>2, <1>3, <1>4, <2>1, <3>1
  <2>2. CASE j # i
    BY <1>4, <2>2 DEF NothingBetweenRuns
  <2> QED
    BY <2>1, <2>2
<1> QED
  BY <1>5, <1>6, <1>7, <1>8

LEMMA BeginStep ==
    ASSUME WecomInv, NEW k \in Keys, NEW from \in Int,
           held' = [held EXCEPT ![k] = NewRun(from)],
           UNCHANGED <<resource, now, stamp, row, lastValue, since, overlooked>>
    PROVE  WecomInv'
<1> USE DEF WecomInv
<1>1. NewRun(from) \in Runs
  BY NewRunType
<1>2. /\ held' \in [Keys -> Runs \cup {None}] /\ held'[k] = NewRun(from)
      /\ \A j \in Keys : j # k => held'[j] = held[j]
  BY <1>1 DEF WecomTypeOK
<1>3. WecomTypeOK'
  BY <1>2 DEF WecomTypeOK
<1>4. now \in Int /\ MaxRun \in Nat /\ Skew \in Nat /\ Ahead \in Nat
  BY WindowConstants DEF WecomTypeOK
<1>5. ClockOK'
  <2> SUFFICES ASSUME NEW j \in Keys, held'[j] # None
               PROVE  held'[j].began <= now /\ now <= held'[j].began + MaxRun
    BY DEF ClockOK
  <2>1. CASE j = k
    BY <1>2, <1>4, <2>1 DEF NewRun
  <2>2. CASE j # k
    BY <1>2, <2>2 DEF ClockOK
  <2> QED
    BY <2>1, <2>2
<1>6. RunCovers'
  <2> SUFFICES ASSUME NEW j \in Keys, NEW i \in Items, Owed(j, i)'
               PROVE  i \in held'[j].todo \/ \E w \in held'[j].pending : InWindow(i, w)'
    BY DEF RunCovers
  <2>1. CASE j = k
    <3>1. stamp[i] # None /\ from <= stamp[i] /\ stamp[i] < now - Skew
      BY <1>2, <2>1 DEF Owed, NewRun
    <3>2. stamp[i] \in Int
      BY <3>1 DEF WecomTypeOK
    <3>3. now <= Until /\ Until \in Int
      BY <1>4 DEF Until
    <3>4. stamp[i] <= Until
      BY <1>4, <3>1, <3>2, <3>3
    <3>5. [from |-> from, until |-> Until] \in held'[j].pending
      BY <1>2, <2>1 DEF NewRun
    <3>6. InWindow(i, [from |-> from, until |-> Until])'
      BY <3>1, <3>4 DEF InWindow, Until
    <3> QED
      BY <3>5, <3>6 DEF Until
  <2>2. CASE j # k
    <3>1. Owed(j, i)
      BY <1>2, <2>2 DEF Owed
    <3> QED
      BY <1>2, <2>2, <3>1 DEF RunCovers, InWindow
  <2> QED
    BY <2>1, <2>2
<1>7. NothingBetweenRuns'
  BY DEF NothingBetweenRuns
<1> QED
  BY <1>3, <1>5, <1>6, <1>7

LEMMA FromType ==
    ASSUME WecomTypeOK, NEW k \in Keys, NEW lookback \in Lookbacks
    PROVE  From(lastValue[k], lookback) \in Int /\ now - lookback \in Int
<1>1. lookback \in Int /\ now \in Int /\ Back \in Int
  BY WindowConstants DEF WecomTypeOK
<1>2. lastValue[k] \in Int \cup {None}
  BY DEF WecomTypeOK
<1> QED
  BY <1>1, <1>2 DEF From

LEMMA RewindStep ==
    ASSUME WecomInv, NEW lookback \in Lookbacks, Rewind(lookback)
    PROVE  WecomInv'
<1> USE DEF WecomInv
<1> DEFINE back == now - lookback
<1>1. /\ now \in Int /\ lookback \in Nat /\ Back \in Nat /\ back \in Int /\ back <= now
      /\ None \notin Int
  BY WindowConstants DEF WecomTypeOK
<1>2. /\ lastValue' \in [Keys -> Int \cup {None}] /\ lastValue'["tenant"] = back
      /\ lastValue'["connection"] = lastValue["connection"]
  BY <1>1 DEF Rewind, WecomTypeOK
<1>3. /\ since'["tenant"] =
             IF since["tenant"] # None /\ back <= lastValue["tenant"] THEN since["tenant"]
             ELSE back - Back
      /\ since'["connection"] = since["connection"]
      /\ since' = [since EXCEPT !["tenant"] = since'["tenant"]]
  BY DEF Rewind, WecomTypeOK
<1> HIDE DEF back
<1>4. since'["tenant"] \in Int
  BY <1>1, <1>3 DEF WecomTypeOK
<1>5. since' \in [Keys -> Int \cup {None}]
  BY <1>3, <1>4 DEF WecomTypeOK
<1>6. WecomTypeOK'
  BY <1>2, <1>5 DEF WecomTypeOK, Rewind
<1>7. UNCHANGED <<resource, now, stamp, row, held, overlooked>>
  BY DEF Rewind
<1>8. ClockOK'
  <2> SUFFICES ASSUME NEW k \in Keys
               PROVE  /\ lastValue'[k] = None <=> since'[k] = None
                      /\ lastValue'[k] # None => lastValue'[k] <= now
    BY <1>7 DEF ClockOK
  <2>1. CASE k = "tenant"
    BY <1>1, <1>2, <1>4, <2>1
  <2>2. CASE k = "connection"
    BY <1>2, <1>3, <2>2 DEF ClockOK
  <2> QED
    BY <2>1, <2>2
<1>9. RunCovers'
  BY <1>7 DEF RunCovers, Owed, InWindow
<1>10. NothingBetweenRuns'
  <2> SUFFICES ASSUME NEW k \in Keys, NEW i \in Items, lastValue'[k] # None,
                      stamp[i] # None, row[i] = "absent", stamp[i] >= since'[k],
                      i \notin overlooked[k]
               PROVE  stamp[i] >= lastValue'[k] - Back
    BY <1>7 DEF NothingBetweenRuns
  <2>1. stamp[i] \in Int
    BY DEF WecomTypeOK
  <2>2. CASE k = "connection"
    BY <1>2, <1>3, <2>2 DEF NothingBetweenRuns
  <2>3. CASE k = "tenant" /\ since'[k] = back - Back
    BY <1>1, <1>2, <2>1, <2>3
  <2>4. CASE k = "tenant" /\ since[k] # None /\ back <= lastValue[k] /\ since'[k] = since[k]
    <3>1. lastValue[k] \in Int
      BY <2>4 DEF ClockOK, WecomTypeOK
    <3>2. stamp[i] >= lastValue[k] - Back
      BY <2>4, <3>1, <1>1 DEF NothingBetweenRuns
    <3> QED
      BY <1>1, <1>2, <2>1, <2>4, <3>1, <3>2
  <2> QED
    BY <1>3, <2>2, <2>3, <2>4
<1> QED
  BY <1>6, <1>8, <1>9, <1>10

LEMMA GoesStep ==
    ASSUME WecomInv, NEW k \in Keys, NEW run, NEW stored,
           stored \in [Items -> {"absent", "partial", "full"}],
           Goes(k, run, stored), Keeps(k, run, stored)
    PROVE  WecomInv'
<1> USE DEF WecomInv
<1>1. /\ held' \in [Keys -> Runs \cup {None}] /\ held'[k] = run
      /\ \A j \in Keys : j # k => held'[j] = held[j]
  BY DEF Goes, WecomTypeOK
<1>2. /\ UNCHANGED <<resource, now, stamp, lastValue, since>> /\ row' = stored
      /\ overlooked' \in [Keys -> SUBSET Items]
      /\ \A j \in Keys : overlooked[j] \subseteq overlooked'[j]
  BY DEF Goes
<1>3. \A i \in Items : row'[i] = "absent" => row[i] = "absent"
  BY <1>2 DEF Keeps
<1>4. WecomTypeOK'
  BY <1>1, <1>2 DEF WecomTypeOK
<1>5. ClockOK'
  BY <1>1, <1>2 DEF ClockOK, Goes
<1>6. RunCovers'
  <2> SUFFICES ASSUME NEW j \in Keys, NEW i \in Items, Owed(j, i)'
               PROVE  i \in held'[j].todo \/ \E w \in held'[j].pending : InWindow(i, w)'
    BY DEF RunCovers
  <2>1. CASE j = k
    <3>1. run.missing = FALSE /\ row'[i] = "absent" /\ stamp[i] # None
          /\ i \notin overlooked'[k]
      BY <1>1, <1>2, <2>1 DEF Owed
    <3>2. Owed(k, i)
      BY <1>1, <1>2, <1>3, <2>1, <3>1 DEF Owed, Goes, Keeps
    <3>3. i \in held[k].todo \/ \E w \in held[k].pending : InWindow(i, w)
      BY <3>2 DEF RunCovers
    <3>4. i \in run.todo \/ \E w \in run.pending : InWindow(i, w)
      BY <1>2, <3>1, <3>3 DEF Keeps
    <3> QED
      BY <1>1, <1>2, <2>1, <3>4 DEF InWindow
  <2>2. CASE j # k
    <3>1. Owed(j, i)
      BY <1>1, <1>2, <1>3, <2>2 DEF Owed
    <3> QED
      BY <1>1, <1>2, <2>2, <3>1 DEF RunCovers, InWindow
  <2> QED
    BY <2>1, <2>2
<1>7. NothingBetweenRuns'
  BY <1>2, <1>3 DEF NothingBetweenRuns
<1> QED
  BY <1>4, <1>5, <1>6, <1>7

\* Losing a lock loses nothing else.
LEMMA ReleaseStep ==
    ASSUME WecomInv, held' \in [Keys -> Runs \cup {None}],
           \A k \in Keys : held'[k] = None \/ held'[k] = held[k],
           UNCHANGED <<resource, now, stamp, row, lastValue, since, overlooked>>
    PROVE  WecomInv'
<1> USE DEF WecomInv
<1>1. WecomTypeOK' /\ ClockOK'
  BY DEF WecomTypeOK, ClockOK
<1>2. RunCovers'
  BY DEF RunCovers, Owed, InWindow
<1>3. NothingBetweenRuns'
  BY DEF NothingBetweenRuns
<1> QED
  BY <1>1, <1>2, <1>3

LEMMA FinishStep ==
    ASSUME WecomInv, NEW k \in Keys, FinishRun(k)
    PROVE  WecomInv'
<1> USE DEF WecomInv
<1>1. /\ held[k] # None /\ held[k].todo = {} /\ held[k].pending = {}
      /\ UNCHANGED <<resource, now, stamp, row, overlooked>>
      /\ held' = [held EXCEPT ![k] = None]
  BY DEF FinishRun
<1>2. held' \in [Keys -> Runs \cup {None}] /\ held'[k] = None
      /\ \A j \in Keys : j # k => held'[j] = held[j]
  BY <1>1 DEF WecomTypeOK
<1>3. CASE held[k].missing
  BY <1>1, <1>2, <1>3, ReleaseStep DEF FinishRun
<1>4. CASE ~held[k].missing
  <2>1. held[k] \in Runs /\ held[k].missing = FALSE
    BY <1>1, <1>4 DEF WecomTypeOK, Runs
  <2>2. /\ now \in Int /\ held[k].from \in Int /\ held[k].began \in Int
        /\ Back \in Nat /\ Skew \in Nat /\ MaxRun \in Nat /\ MaxRun + Skew <= Back
        /\ None \notin Int
    BY <2>1, WindowConstants DEF WecomTypeOK, Runs
  <2>3. /\ lastValue' = [lastValue EXCEPT ![k] = now]
        /\ since' = [since EXCEPT ![k] = since'[k]]
        /\ since'[k] = IF lastValue[k] # None /\ held[k].from <= lastValue[k] - Back
                       THEN since[k] ELSE held[k].from
    BY <1>4 DEF FinishRun, WecomTypeOK
  <2>4. since'[k] \in Int
    BY <2>2, <2>3 DEF ClockOK, WecomTypeOK
  <2>5. /\ lastValue' \in [Keys -> Int \cup {None}] /\ lastValue'[k] = now
        /\ since' \in [Keys -> Int \cup {None}]
        /\ \A j \in Keys : j # k => lastValue'[j] = lastValue[j] /\ since'[j] = since[j]
    BY <2>2, <2>3, <2>4 DEF WecomTypeOK
  <2>6. WecomTypeOK'
    BY <1>1, <1>2, <2>5 DEF WecomTypeOK
  <2>7. ClockOK'
    <3> SUFFICES ASSUME NEW j \in Keys
                 PROVE  /\ lastValue'[j] = None <=> since'[j] = None
                        /\ lastValue'[j] # None => lastValue'[j] <= now
                        /\ held'[j] # None => /\ held'[j].began <= now
                                              /\ now <= held'[j].began + MaxRun
      BY <1>1 DEF ClockOK
    <3>1. CASE j = k
      BY <1>2, <2>2, <2>4, <2>5, <3>1
    <3>2. CASE j # k
      BY <1>2, <2>5, <3>2 DEF ClockOK
    <3> QED
      BY <3>1, <3>2
  <2>8. RunCovers'
    BY <1>1, <1>2 DEF RunCovers, Owed, InWindow
  <2>9. NothingBetweenRuns'
    <3> SUFFICES ASSUME NEW j \in Keys, NEW i \in Items, lastValue'[j] # None,
                        stamp[i] # None, row[i] = "absent", stamp[i] >= since'[j],
                        i \notin overlooked[j]
                 PROVE  stamp[i] >= lastValue'[j] - Back
      BY <1>1 DEF NothingBetweenRuns
    <3>1. CASE j # k
      BY <2>5, <3>1 DEF NothingBetweenRuns
    <3>2. ASSUME j = k
          PROVE  stamp[i] >= now - Back
      <4>1. stamp[i] \in Int
        BY DEF WecomTypeOK
      <4>2. held[k].from <= stamp[i]
        <5>1. CASE lastValue[k] # None /\ held[k].from <= lastValue[k] - Back
          <6>1. lastValue[k] \in Int /\ since'[k] = since[k]
            BY <2>3, <5>1 DEF WecomTypeOK
          <6>2. stamp[i] >= lastValue[k] - Back
            BY <3>2, <5>1, <6>1 DEF NothingBetweenRuns
          <6> QED
            BY <2>2, <4>1, <5>1, <6>1, <6>2
        <5>2. CASE ~(lastValue[k] # None /\ held[k].from <= lastValue[k] - Back)
          <6>1. since'[k] = held[k].from
            BY <2>3, <5>2
          <6> QED
            BY <2>2, <3>2, <4>1, <6>1
        <5> QED
          BY <5>1, <5>2
      <4>3. ~(stamp[i] < held[k].began - Skew)
        BY <1>1, <2>1, <3>2, <4>2 DEF RunCovers, Owed
      <4>4. now <= held[k].began + MaxRun
        BY <1>1 DEF ClockOK
      <4> QED
        BY <2>2, <4>1, <4>3, <4>4
    <3> QED
      BY <2>5, <3>1, <3>2
  <2> QED
    BY <2>6, <2>7, <2>8, <2>9
<1> QED
  BY <1>3, <1>4

LEMMA RunStepInv ==
    ASSUME WecomInv, NEW k \in Keys, RunStep(k)
    PROVE  WecomInv'
<1>1. row \in [Items -> {"absent", "partial", "full"}] /\ WecomTypeOK
  BY DEF WecomInv, WecomTypeOK
<1>2. ASSUME NEW w \in Pending, Split(k, w) \/ List(k, w) \/ ListSome(k, w)
      PROVE  WecomInv'
  <2>1. \E run : Goes(k, run, row) /\ Keeps(k, run, row)
    BY <1>1, <1>2, SplitGoes, ListGoes, ListSomeGoes
  <2> QED
    BY <1>1, <2>1, GoesStep
<1>3. ASSUME NEW i \in Items, Write(k, i)
      PROVE  WecomInv'
  BY <1>1, <1>3, WriteGoes, GoesStep
<1>4. ASSUME NEW i \in Items, WriteFails(k, i)
      PROVE  WecomInv'
  BY <1>1, <1>4, WriteFailsGoes, GoesStep
<1>5. CASE FinishRun(k)
  BY <1>5, FinishStep
<1>6. CASE Abandon(k)
  BY <1>1, <1>6, ReleaseStep DEF Abandon, WecomTypeOK
<1> QED
  BY <1>2, <1>3, <1>4, <1>5, <1>6 DEF RunStep

LEMMA WecomInvStep == WecomInv /\ [WecomNext]_wecomVars => WecomInv'
<1> SUFFICES ASSUME WecomInv, [WecomNext]_wecomVars
             PROVE  WecomInv'
  OBVIOUS
<1>1. WecomTypeOK
  BY DEF WecomInv
<1>2. CASE Tick
  BY <1>2, TickStep
<1>3. ASSUME NEW i \in Items, Submit(i)
      PROVE  WecomInv'
  BY <1>3, SubmitStep
<1>4. ASSUME NEW k \in Keys, NEW lookback \in Lookbacks, Resume(k, lookback)
      PROVE  WecomInv'
  <2>1. held' = [held EXCEPT ![k] = NewRun(From(lastValue[k], lookback))]
        /\ UNCHANGED <<resource, now, stamp, row, lastValue, since, overlooked>>
    BY <1>4 DEF Resume, Begins, NewRun
  <2> QED
    BY <1>1, <2>1, FromType, BeginStep
<1>5. ASSUME NEW lookback \in Lookbacks, ForceRun(lookback)
      PROVE  WecomInv'
  <2>1. held' = [held EXCEPT !["tenant"] = NewRun(now - lookback)]
        /\ UNCHANGED <<resource, now, stamp, row, lastValue, since, overlooked>>
    BY <1>5 DEF ForceRun, Begins, NewRun
  <2>2. now - lookback \in Int
    BY <1>1, FromType
  <2> QED
    BY <2>1, <2>2, BeginStep
<1>6. ASSUME NEW lookback \in Lookbacks, Rewind(lookback)
      PROVE  WecomInv'
  BY <1>6, RewindStep
<1>7. ASSUME NEW k \in Keys, RunStep(k)
      PROVE  WecomInv'
  BY <1>7, RunStepInv
<1>8. CASE Crash
  BY <1>8, ReleaseStep DEF Crash, WecomTypeOK
<1>9. CASE UNCHANGED wecomVars
  BY <1>1, <1>9, ReleaseStep DEF wecomVars, WecomTypeOK
<1>10. BackfillDays \in Lookbacks
  BY WindowConstants
<1> QED
  BY <1>2, <1>3, <1>4, <1>5, <1>6, <1>7, <1>8, <1>9, <1>10 DEF WecomNext

\* The stored copy of a resource keeps its kinds of rows, cursors and locks.
THEOREM WecomTypeCorrect == WecomSpec => []WecomTypeOK
<1>1. WecomInv => WecomTypeOK
  BY DEF WecomInv
<1> QED
  BY WecomInitInv, WecomInvStep, <1>1, PTL DEF WecomSpec

\* Whatever the clocks, windows and failures, as long as a run ends within the
\* margin by which windows reach back: nothing falls between two runs, but for
\* check-ins of members that no run of the key has known.
THEOREM NothingFallsBetween == WecomSpec => []NothingBetweenRuns
<1>1. WecomInv => NothingBetweenRuns
  BY DEF WecomInv
<1> QED
  BY WecomInitInv, WecomInvStep, <1>1, PTL DEF WecomSpec

-----------------------------------------------------------------------------
(* LegacyMigration.                                                        *)

\* What the watermarks of a start rest on before they are written.
StartHolds ==
    /\ half \subseteq copied
    /\ phase # "connections" => half = {}
    /\ phase = "logs" /\ complete => \A t \in Tenants :
          tenant[t].legacy => t \in todo \/ entry[t] # "absent" \/ t \in deleted

\* Only tenants that are there have a schema of the old kind.
LegacyExists == \A t \in Tenants : tenant[t].legacy => tenant[t].status # "absent"

MigrationInv == MigrationTypeOK /\ LegacyExists /\ StartHolds /\ WatermarksHold

LEMMA MigrationInitInv == MigrationInit => MigrationInv
<1> SUFFICES ASSUME MigrationInit
             PROVE  MigrationInv
  OBVIOUS
<1>1. MigrationTypeOK
  BY DEF MigrationInit, MigrationTypeOK
<1>2. LegacyExists
  BY DEF MigrationInit, LegacyExists
<1>3. StartHolds /\ WatermarksHold
  BY DEF MigrationInit, StartHolds, WatermarksHold
<1> QED
  BY <1>1, <1>2, <1>3 DEF MigrationInv

LEMMA SwitchFacts ==
    ASSUME MigrationTypeOK, NEW t \in Tenants, Switch(t)
    PROVE  /\ phase = "up"
           /\ UNCHANGED <<phase, todo, half, complete, default, token, entry, deleted,
                          marked, logsMarked, copied>>
           /\ tenant' \in [Tenants -> TenantRows]
           /\ \A s \in Tenants :
                /\ tenant'[s].legacy = tenant[s].legacy
                /\ tenant'[s].status = "absent" <=> tenant[s].status = "absent"
<1>1. PICK status \in {"enabled", "disabled"} : tenant' = [tenant EXCEPT ![t].status = status]
  BY DEF Switch
<1>2. tenant[t] \in TenantRows /\ tenant[t].status # "absent"
  BY DEF Switch, Existing, MigrationTypeOK
<1>3. /\ tenant' \in [Tenants -> TenantRows]
      /\ tenant'[t].legacy = tenant[t].legacy /\ tenant'[t].status = status
      /\ \A s \in Tenants \ {t} : tenant'[s] = tenant[s]
  BY <1>1, <1>2 DEF MigrationTypeOK, TenantRows
<1>4. phase = "up" /\ UNCHANGED <<phase, todo, half, complete, default, token, entry, deleted,
                                  marked, logsMarked, copied>>
  BY DEF Switch, Administers, bootVars
<1> QED
  BY <1>2, <1>3, <1>4

\* Every row stays a row of its kind.
LEMMA TypeStep == MigrationInv /\ [MigrationNext]_migrationVars => MigrationTypeOK'
<1> SUFFICES ASSUME MigrationTypeOK, phase # "connections" => half = {},
                    [MigrationNext]_migrationVars
             PROVE  MigrationTypeOK'
  BY DEF MigrationInv, StartHolds
<1> USE DEF MigrationTypeOK, TenantRows, DefaultRows
<1>1. CASE Boot
  BY <1>1 DEF Boot, rowVars, Existing
<1>2. CASE ToLogs
  BY <1>2 DEF ToLogs, rowVars, Existing
<1>3. CASE FinishLogs
  BY <1>3 DEF FinishLogs, AllSucceeded, rowVars
<1>4. CASE ProcessDies
  BY <1>4 DEF ProcessDies, rowVars
<1>5. ASSUME NEW t \in Tenants,
             SkipMarked(t) \/ Mark(t) \/ BackfillFails(t) \/ CopyLogFails(t)
      PROVE  MigrationTypeOK'
  <2>1. phase' = phase /\ default' = default /\ tenant' = tenant /\ token' = token
        /\ entry' = entry /\ deleted' = deleted /\ copied' = copied
        /\ logsMarked' = logsMarked
    BY <1>5 DEF SkipMarked, Mark, BackfillFails, CopyLogFails, rowVars
  <2>2. todo' \subseteq Tenants /\ half' \subseteq todo'
    BY <1>5 DEF SkipMarked, Mark, BackfillFails, CopyLogFails, Done
  <2>3. marked' \subseteq Tenants /\ complete' \in BOOLEAN
    BY <1>5 DEF SkipMarked, Mark, BackfillFails, CopyLogFails
  <2> QED
    BY <2>1, <2>2, <2>3
<1>6. ASSUME NEW t \in Tenants, Copy(t)
      PROVE  MigrationTypeOK'
  BY <1>6 DEF Copy, TokenCopied
<1>7. ASSUME NEW t \in Tenants, CopyLog(t)
      PROVE  MigrationTypeOK'
  BY <1>7 DEF CopyLog
<1>8. ASSUME NEW t \in Tenants,
             \/ EditDefault(t) \/ DeleteDefault(t) \/ RevokeLegacyToken(t)
             \/ Create(t) \/ DeleteEntry(t)
      PROVE  MigrationTypeOK'
  <2>1. UNCHANGED <<phase, todo, half, complete, marked, logsMarked, copied>>
    BY <1>8 DEF EditDefault, DeleteDefault, RevokeLegacyToken, Create, DeleteEntry,
                Administers, bootVars
  <2>2. tenant' \in [Tenants -> TenantRows] /\ deleted' \subseteq Tenants
    <3>1. CASE Create(t)
      <4>1. PICK status \in {"enabled", "disabled"} :
              tenant' = [tenant EXCEPT ![t] = [status |-> status, legacy |-> FALSE]]
        BY <3>1 DEF Create
      <4> QED
        BY <3>1, <4>1 DEF Create
    <3>2. CASE ~Create(t)
      BY <1>8, <3>2 DEF EditDefault, DeleteDefault, RevokeLegacyToken, DeleteEntry
    <3> QED
      BY <3>1, <3>2
  <2>3. default' \in [Tenants -> DefaultRows \cup {Nothing}]
    <3>1. CASE EditDefault(t)
      <4>1. PICK status \in {"active", "disabled"} :
              default' = [default EXCEPT ![t] = [status |-> status, edited |-> TRUE]]
        BY <3>1 DEF EditDefault
      <4> QED
        BY <4>1
    <3>2. CASE ~EditDefault(t)
      BY <1>8, <3>2 DEF DeleteDefault, RevokeLegacyToken, Create, DeleteEntry
    <3> QED
      BY <3>1, <3>2
  <2>4. token' \in [Tenants -> {Nothing, "live", "revoked"}]
    BY <1>8 DEF EditDefault, DeleteDefault, RevokeLegacyToken, Create, DeleteEntry
  <2>5. entry' \in [Tenants -> {"absent", "plain", "attributed"}]
    BY <1>8 DEF EditDefault, DeleteDefault, RevokeLegacyToken, Create, DeleteEntry
  <2> QED
    BY <2>1, <2>2, <2>3, <2>4, <2>5
<1>9. ASSUME NEW t \in Tenants, Retire(t)
      PROVE  MigrationTypeOK'
  <2>1. tenant' \in [Tenants -> TenantRows]
    BY <1>9 DEF Retire, Administers, bootVars
  <2>2. default' \in [Tenants -> DefaultRows \cup {Nothing}]
    <3>1. CASE default[t] = Nothing
      BY <1>9, <3>1 DEF Retire
    <3>2. CASE default[t] # Nothing
      <4>1. [default[t] EXCEPT !.status = "disabled"] \in DefaultRows
        BY <3>2
      <4> QED
        BY <1>9, <3>2, <4>1 DEF Retire
    <3> QED
      BY <3>1, <3>2
  <2>3. token' \in [Tenants -> {Nothing, "live", "revoked"}]
    BY <1>9 DEF Retire
  <2> QED
    BY <1>9, <2>1, <2>2, <2>3 DEF Retire, Administers, bootVars
<1>10. CASE UNCHANGED migrationVars
  BY <1>10 DEF migrationVars, bootVars, rowVars
<1>11. ASSUME NEW t \in Tenants, Switch(t)
       PROVE  MigrationTypeOK'
  BY <1>11, SwitchFacts
<1> QED
  BY <1>1, <1>2, <1>3, <1>4, <1>5, <1>6, <1>7, <1>8, <1>9, <1>10, <1>11
     DEF MigrationNext, BootStep

\* Administrators and starts add no schema of the old kind.
LEMMA LegacyStep == MigrationInv /\ [MigrationNext]_migrationVars => LegacyExists'
<1> SUFFICES ASSUME MigrationTypeOK, LegacyExists, [MigrationNext]_migrationVars
             PROVE  LegacyExists'
  BY DEF MigrationInv
<1>1. CASE BootStep \/ ProcessDies \/ UNCHANGED migrationVars
  <2>1. tenant' = tenant
    BY <1>1 DEF BootStep, Boot, ToLogs, FinishLogs, ProcessDies, SkipMarked, Copy, Mark,
                BackfillFails, CopyLog, CopyLogFails, migrationVars, rowVars
  <2> QED
    BY <2>1 DEF LegacyExists
<1>2. ASSUME NEW t \in Tenants,
             EditDefault(t) \/ DeleteDefault(t) \/ RevokeLegacyToken(t) \/ DeleteEntry(t)
      PROVE  LegacyExists'
  BY <1>2 DEF EditDefault, DeleteDefault, RevokeLegacyToken, DeleteEntry, LegacyExists
<1>3. ASSUME NEW t \in Tenants, Retire(t) \/ Create(t)
      PROVE  LegacyExists'
  BY <1>3 DEF Retire, Create, LegacyExists, MigrationTypeOK
<1>4. ASSUME NEW t \in Tenants, Switch(t)
      PROVE  LegacyExists'
  BY <1>4, SwitchFacts DEF LegacyExists
<1> QED
  BY <1>1, <1>2, <1>3, <1>4 DEF MigrationNext

\* A start marks only what was copied.
LEMMA StartStep == MigrationInv /\ [MigrationNext]_migrationVars => StartHolds'
<1> SUFFICES ASSUME MigrationTypeOK, LegacyExists, StartHolds, [MigrationNext]_migrationVars
             PROVE  StartHolds'
  BY DEF MigrationInv
<1> USE DEF StartHolds
<1>1. CASE Boot
  BY <1>1 DEF Boot, MigrationTypeOK
<1>2. CASE ToLogs
  <2>1. half' = {} /\ half' \subseteq copied'
    BY <1>2 DEF ToLogs, MigrationTypeOK
  <2>2. ASSUME phase' = "logs", NEW t \in Tenants, tenant'[t].legacy
        PROVE  t \in todo'
    BY <1>2, <2>2 DEF ToLogs, rowVars, Existing, LegacyExists
  <2> QED
    BY <2>1, <2>2
<1>3. CASE FinishLogs \/ ProcessDies
  BY <1>3 DEF FinishLogs, ProcessDies, MigrationTypeOK
<1>4. ASSUME NEW t \in Tenants,
             SkipMarked(t) \/ Copy(t) \/ Mark(t) \/ BackfillFails(t)
      PROVE  StartHolds'
  <2>1. phase = "connections" /\ phase' = "connections"
    BY <1>4 DEF SkipMarked, Copy, Mark, BackfillFails
  <2>2. half' \subseteq copied'
    BY <1>4 DEF SkipMarked, Copy, Mark, BackfillFails, Done
  <2> QED
    BY <2>1, <2>2
<1>5. ASSUME NEW t \in Tenants, CopyLog(t)
      PROVE  StartHolds'
  <2>1. /\ phase' = "logs" /\ phase = "logs" /\ half' = half /\ copied' = copied
        /\ complete' = complete /\ tenant' = tenant /\ deleted' = deleted
        /\ todo' = todo \ {t}
    BY <1>5 DEF CopyLog
  <2>2. entry'[t] # "absent" /\ \A s \in Tenants \ {t} : entry'[s] = entry[s]
    BY <1>5 DEF CopyLog, MigrationTypeOK
  <2> QED
    BY <2>1, <2>2
<1>6. ASSUME NEW t \in Tenants, CopyLogFails(t)
      PROVE  StartHolds'
  BY <1>6 DEF CopyLogFails
<1>7. ASSUME NEW t \in Tenants,
             \/ EditDefault(t) \/ DeleteDefault(t) \/ RevokeLegacyToken(t)
             \/ Retire(t) \/ Create(t) \/ DeleteEntry(t)
      PROVE  StartHolds'
  <2>1. phase' = "up" /\ phase = "up" /\ half' = half /\ copied' = copied
    BY <1>7 DEF EditDefault, DeleteDefault, RevokeLegacyToken, Retire, Create, DeleteEntry,
                Administers, bootVars
  <2> QED
    BY <2>1
<1>8. CASE UNCHANGED migrationVars
  BY <1>8 DEF migrationVars, bootVars, rowVars
<1>9. ASSUME NEW t \in Tenants, Switch(t)
      PROVE  StartHolds'
  BY <1>9, SwitchFacts
<1> QED
  BY <1>1, <1>2, <1>3, <1>4, <1>5, <1>6, <1>7, <1>8, <1>9 DEF MigrationNext, BootStep

\* A watermark goes on holding.
LEMMA WatermarkStep == MigrationInv /\ [MigrationNext]_migrationVars => WatermarksHold'
<1> SUFFICES ASSUME MigrationTypeOK, StartHolds, WatermarksHold,
                    [MigrationNext]_migrationVars
             PROVE  WatermarksHold'
  BY DEF MigrationInv
<1> USE DEF WatermarksHold
<1>1. CASE Boot \/ ToLogs \/ ProcessDies \/ UNCHANGED migrationVars
  BY <1>1 DEF Boot, ToLogs, ProcessDies, migrationVars, rowVars
<1>2. CASE FinishLogs
  <2>1. marked' = marked /\ copied' = copied /\ tenant' = tenant /\ entry' = entry
        /\ deleted' = deleted
    BY <1>2 DEF FinishLogs, rowVars
  <2>2. CASE logsMarked
    BY <2>1, <2>2
  <2>3. CASE ~logsMarked
    BY <1>2, <2>1, <2>3 DEF FinishLogs, AllSucceeded, StartHolds
  <2> QED
    BY <2>2, <2>3
<1>3. ASSUME NEW t \in Tenants,
             SkipMarked(t) \/ Copy(t) \/ Mark(t) \/ BackfillFails(t) \/ CopyLogFails(t)
      PROVE  WatermarksHold'
  <2>1. marked' \subseteq copied'
    BY <1>3 DEF SkipMarked, Copy, Mark, BackfillFails, CopyLogFails, StartHolds
  <2>2. logsMarked' = logsMarked /\ tenant' = tenant /\ entry' = entry /\ deleted' = deleted
    BY <1>3 DEF SkipMarked, Copy, Mark, BackfillFails, CopyLogFails, rowVars
  <2> QED
    BY <2>1, <2>2
<1>4. ASSUME NEW t \in Tenants, CopyLog(t)
      PROVE  WatermarksHold'
  <2>1. /\ marked' = marked /\ copied' = copied /\ logsMarked' = logsMarked
        /\ tenant' = tenant /\ deleted' = deleted
    BY <1>4 DEF CopyLog
  <2>2. entry'[t] # "absent" /\ \A s \in Tenants \ {t} : entry'[s] = entry[s]
    BY <1>4 DEF CopyLog, MigrationTypeOK
  <2> QED
    BY <2>1, <2>2
<1>5. ASSUME NEW t \in Tenants, EditDefault(t) \/ DeleteDefault(t) \/ RevokeLegacyToken(t)
      PROVE  WatermarksHold'
  BY <1>5 DEF EditDefault, DeleteDefault, RevokeLegacyToken, Administers
<1>6. ASSUME NEW t \in Tenants, Retire(t) \/ Create(t)
      PROVE  WatermarksHold'
  <2>1. /\ marked' = marked /\ copied' = copied /\ logsMarked' = logsMarked
        /\ entry' = entry /\ deleted' = deleted
    BY <1>6 DEF Retire, Create, Administers
  <2>2. \A s \in Tenants : tenant'[s].legacy => tenant[s].legacy
    BY <1>6 DEF Retire, Create, MigrationTypeOK
  <2> QED
    BY <2>1, <2>2
<1>7. ASSUME NEW t \in Tenants, DeleteEntry(t)
      PROVE  WatermarksHold'
  <2>1. /\ marked' = marked /\ copied' = copied /\ logsMarked' = logsMarked
        /\ tenant' = tenant /\ deleted' = deleted \cup {t}
    BY <1>7 DEF DeleteEntry, Administers
  <2>2. \A s \in Tenants \ {t} : entry'[s] = entry[s]
    BY <1>7 DEF DeleteEntry, MigrationTypeOK
  <2> QED
    BY <2>1, <2>2
<1>8. ASSUME NEW t \in Tenants, Switch(t)
      PROVE  WatermarksHold'
  BY <1>8, SwitchFacts
<1> QED
  BY <1>1, <1>2, <1>3, <1>4, <1>5, <1>6, <1>7, <1>8 DEF MigrationNext, BootStep

LEMMA MigrationInvHolds == MigrationSpec => []MigrationInv
<1>1. MigrationInv /\ [MigrationNext]_migrationVars => MigrationInv'
  BY TypeStep, LegacyStep, StartStep, WatermarkStep DEF MigrationInv
<1> QED
  BY MigrationInitInv, <1>1, PTL DEF MigrationSpec

\* Watermarks vouch for what was copied, however often a start failed or the
\* process died between a copy and its watermark.
THEOREM WatermarksSafe == MigrationSpec => []WatermarksHold
<1>1. MigrationInv => WatermarksHold
  BY DEF MigrationInv
<1> QED
  BY MigrationInvHolds, <1>1, PTL

LEMMA RespectStep ==
    MigrationInv /\ [MigrationNext]_migrationVars =>
    \A t \in Tenants :
        /\ phase # "up" /\ t \in marked => default'[t] = default[t] /\ token'[t] = token[t]
        /\ token[t] = "revoked" => token'[t] = "revoked"
<1> SUFFICES ASSUME MigrationTypeOK, [MigrationNext]_migrationVars, NEW t \in Tenants
             PROVE  /\ phase # "up" /\ t \in marked
                          => default'[t] = default[t] /\ token'[t] = token[t]
                    /\ token[t] = "revoked" => token'[t] = "revoked"
  BY DEF MigrationInv
<1>1. CASE \/ Boot \/ ToLogs \/ FinishLogs \/ ProcessDies \/ UNCHANGED migrationVars
           \/ \E s \in Tenants : \/ SkipMarked(s) \/ Mark(s) \/ BackfillFails(s)
                                 \/ CopyLog(s) \/ CopyLogFails(s)
  BY <1>1 DEF Boot, ToLogs, FinishLogs, ProcessDies, SkipMarked, Mark, BackfillFails,
              CopyLog, CopyLogFails, migrationVars, rowVars
<1>2. ASSUME NEW s \in Tenants, Copy(s)
      PROVE  /\ t \in marked => default'[t] = default[t] /\ token'[t] = token[t]
             /\ token[t] = "revoked" => token'[t] = "revoked"
  <2>1. CASE s = t
    <3>1. t \notin marked
      BY <1>2, <2>1 DEF Copy
    <3>2. token'[t] = TokenCopied(t)
      BY <1>2, <2>1 DEF Copy, MigrationTypeOK
    <3>3. token[t] = "revoked" => TokenCopied(t) = "revoked"
      BY LegacyConstants DEF TokenCopied
    <3> QED
      BY <3>1, <3>2, <3>3
  <2>2. CASE s # t
    BY <1>2, <2>2 DEF Copy, MigrationTypeOK
  <2> QED
    BY <2>1, <2>2
<1>3. ASSUME NEW s \in Tenants,
             \/ EditDefault(s) \/ DeleteDefault(s) \/ RevokeLegacyToken(s)
             \/ Retire(s) \/ Create(s) \/ DeleteEntry(s)
      PROVE  phase = "up" /\ (token[t] = "revoked" => token'[t] = "revoked")
  <2>1. phase = "up"
    BY <1>3 DEF EditDefault, DeleteDefault, RevokeLegacyToken, Retire, Create, DeleteEntry,
                Administers
  <2>2. token[t] = "revoked" => token'[t] = "revoked"
    BY <1>3 DEF EditDefault, DeleteDefault, RevokeLegacyToken, Retire, Create, DeleteEntry,
                MigrationTypeOK
  <2> QED
    BY <2>1, <2>2
<1>4. ASSUME NEW s \in Tenants, Switch(s)
      PROVE  phase = "up" /\ token' = token
  BY <1>4, SwitchFacts
<1> QED
  BY <1>1, <1>2, <1>3, <1>4 DEF MigrationNext, BootStep

\* No start undoes what an administrator did to a marked connection, nor
\* brings a revoked token back, whether its connection is marked or not.
THEOREM EditsSafe == MigrationSpec => RestartsRespectEdits
BY MigrationInvHolds, RespectStep, PTL DEF MigrationSpec, RestartsRespectEdits

=============================================================================
