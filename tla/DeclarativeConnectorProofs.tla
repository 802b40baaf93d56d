--------------------- MODULE DeclarativeConnectorProofs ---------------------
(***************************************************************************)
(* Theorems about what a declarative connector does: the calls of          *)
(* DeclarativeTool, for any documents, and the syncs of ConnectionSync,    *)
(* for any upstreams, workers and limits.                                  *)
(*                                                                         *)
(* That the cursor skips nothing needs to know what a run has behind it;   *)
(* that it is never set back needs the lock besides: the run that holds it *)
(* is not behind the cursor, and nobody else moves the cursor meanwhile.   *)
(* What a call does rests on what the importer accepted: references to     *)
(* earlier steps only, and one write step, which is not paged.             *)
(***************************************************************************)
EXTENDS DeclarativeTool, ConnectionSync, FiniteSetTheorems, SequenceTheorems, TLAPS

Stored(e) == Keyed(e) => e \in records \cup cut

Active(w) == run[w].step \in {"fetch", "store", "save"}

\* What a run has left behind it is stored, and its page too once it is.
RunsBehind ==
    \A w \in Workers :
        /\ Active(w) => run[w].page >= 1
        /\ Active(w) => \A e \in PageItems : e[1] < run[w].page => Stored(e)
        /\ run[w].step = "save" /\ run[w].got
              => \A e \in PageItems : e[1] = run[w].page => Stored(e)
        /\ run[w].step \in {"store", "save"} /\ run[w].got => run[w].page <= published

\* A run belongs to the holder of the lock, and is not behind the cursor.
RunsLocked ==
    \A w \in Workers :
        /\ stage[w] \in {"locked", "running"} <=> lock = w
        /\ run[w].step # "off" => stage[w] = "running"
        /\ run[w].step = "save" => upstream.paged
        /\ Active(w) /\ upstream.paged
              => run[w].page >= cursor \/ upstream.forms[cursor] = "long"

\* A connection's upstream, as it was declared.
LEMMA UpstreamFacts ==
    ASSUME upstream \in Upstreams
    PROVE  /\ Len(upstream.pages) \in Nat \ {0}
           /\ DOMAIN upstream.pages = 1..Len(upstream.pages)
           /\ \A p \in Pages : /\ upstream.pages[p] \in Seq({"keyed", "unkeyed"})
                               /\ Len(upstream.pages[p]) \in Nat
                               /\ DOMAIN upstream.pages[p] = 1..Len(upstream.pages[p])
           /\ upstream.paged \in BOOLEAN /\ upstream.endless \in BOOLEAN
<1>1. IsUpstream(upstream)
  BY SyncConstants
<1>2. upstream.pages \in Seq(Seq({"keyed", "unkeyed"})) /\ Len(upstream.pages) > 0
      /\ upstream.paged \in BOOLEAN /\ upstream.endless \in BOOLEAN
  BY <1>1 DEF IsUpstream
<1> QED
  BY <1>2 DEF Pages

LEMMA ItemFacts ==
    ASSUME upstream \in Upstreams, NEW e \in PageItems
    PROVE  /\ e[1] \in Pages
           /\ e[2] \in 1..Len(upstream.pages[e[1]])
           /\ e = <<e[1], e[2]>>
<1>1. PICK p \in Pages : e \in {<<p, i>> : i \in DOMAIN upstream.pages[p]}
  BY DEF PageItems
<1>2. PICK i \in DOMAIN upstream.pages[p] : e = <<p, i>>
  BY <1>1
<1> QED
  BY <1>1, <1>2, UpstreamFacts

\* Where a run may go next: nowhere, or no further than the page after one it
\* has got.
LEMMA NextFacts ==
    ASSUME SyncTypeOK, RunsBehind, NEW w \in Workers, run[w].step = "save"
    PROVE  \/ NextPage(w) = 0
           \/ /\ NextPage(w) \in 1..Len(upstream.pages) + 1
              /\ run[w].page <= NextPage(w) /\ NextPage(w) <= run[w].page + 1
              /\ ~ run[w].got => NextPage(w) = run[w].page
<1> DEFINE next == IF run[w].got THEN run[w].page + 1 ELSE run[w].page
           last == Len(upstream.pages)
<1>1. /\ run[w].page \in 0..last + 1 /\ run[w].page >= 1 /\ run[w].got \in BOOLEAN
      /\ published \in 0..last /\ last \in Nat
      /\ run[w].got => run[w].page <= published
  BY UpstreamFacts DEF SyncTypeOK, RunType, RunsBehind, Active
<1>2. next \in 1..last + 1 /\ run[w].page <= next /\ next <= run[w].page + 1
  BY <1>1
<1>3. NextPage(w) = 0 \/ NextPage(w) = next
  BY DEF NextPage
<1> QED
  BY <1>2, <1>3

LEMMA FirstFacts ==
    ASSUME SyncTypeOK
    PROVE  /\ FirstPage \in 1..Len(upstream.pages) + 1
           /\ FirstPage = 1 \/ FirstPage = cursor
           /\ FirstPage >= cursor \/ upstream.forms[cursor] = "long"
BY UpstreamFacts DEF SyncTypeOK, FirstPage

LEMMA TakenFacts ==
    ASSUME SyncTypeOK, RunsBehind, NEW w \in Workers, run[w].step = "store"
    PROVE  /\ Len(Fetched(w)) \in Nat /\ Taken(w) \in Nat /\ Taken(w) <= Len(Fetched(w))
           /\ upstream.paged => run[w].pulled + Taken(w) \in 0..MaxItems
           /\ run[w].got => run[w].page \in Pages /\ Fetched(w) = upstream.pages[run[w].page]
           /\ ~ run[w].got => Fetched(w) = <<>>
<1>1. /\ run[w].pulled \in 0..MaxItems /\ run[w].page \in Nat /\ run[w].page >= 1
      /\ published \in 0..Len(upstream.pages) /\ MaxItems \in Nat
      /\ run[w].got \in BOOLEAN
      /\ run[w].got => run[w].page <= published
  BY SyncConstants, UpstreamFacts DEF SyncTypeOK, RunType, RunsBehind, Active
<1>2. Len(upstream.pages) \in Nat /\ upstream \in Upstreams
  BY UpstreamFacts DEF SyncTypeOK
<1>3. run[w].got => run[w].page \in Pages
  BY <1>1, <1>2 DEF Pages
<1>4. Len(Fetched(w)) \in Nat
  BY <1>2, <1>3, UpstreamFacts DEF Fetched
<1>5. /\ Taken(w) \in Nat /\ Taken(w) <= Len(Fetched(w))
      /\ upstream.paged => Taken(w) <= MaxItems - run[w].pulled
  <2> DEFINE size == Len(Fetched(w))
             room == MaxItems - run[w].pulled
  <2>1. size \in Nat /\ room \in Nat
    BY <1>1, <1>4
  <2>2. Taken(w) = IF upstream.paged /\ size > room THEN room ELSE size
    BY DEF Taken
  <2> QED
    BY <2>1, <2>2
<1>6. ASSUME upstream.paged
      PROVE  run[w].pulled + Taken(w) \in 0..MaxItems
  <2>1. Taken(w) \in Nat /\ Taken(w) <= MaxItems - run[w].pulled
    BY <1>5, <1>6
  <2>2. run[w].pulled \in Nat
    BY <1>1
  <2> QED
    BY <1>1, <2>1, <2>2
<1>7. /\ run[w].got => Fetched(w) = upstream.pages[run[w].page]
      /\ ~ run[w].got => Fetched(w) = <<>>
  BY DEF Fetched
<1> QED
  BY <1>3, <1>4, <1>5, <1>6, <1>7

-----------------------------------------------------------------------------
(* Types.                                                                  *)

LEMMA RunUpdate ==
    ASSUME SyncTypeOK, NEW w \in Workers, NEW r \in RunType, run' = [run EXCEPT ![w] = r]
    PROVE  /\ run' \in [Workers -> RunType] /\ run'[w] = r
           /\ \A v \in Workers : v # w => run'[v] = run[v]
BY DEF SyncTypeOK

\* What each step of a run makes of it.
LEMMA BeginFacts ==
    ASSUME SyncTypeOK, NEW w \in Workers, NEW r \in Resources, SyncBegin(w, r)
    PROVE  /\ run' \in [Workers -> RunType]
           /\ \A v \in Workers : v # w => run'[v] = run[v]
           /\ \/ run'[w].step = "error"
              \/ /\ run'[w].step = "fetch"
                 /\ run'[w].page = IF upstream.paged THEN FirstPage ELSE 1
           /\ run'[w].got = FALSE
           /\ UNCHANGED <<dataVars, storeVars>>
<1> DEFINE first == IF upstream.paged THEN FirstPage ELSE 1
           start == [Off EXCEPT !.step = "fetch", !.count = 1, !.page = first]
           wrong == [Off EXCEPT !.step = "error"]
<1>1. run' = [run EXCEPT ![w] = start] \/ run' = [run EXCEPT ![w] = wrong]
  BY DEF SyncBegin
<1>2. first \in 1..Len(upstream.pages) + 1 /\ Len(upstream.pages) \in Nat
      /\ MaxPages \in Nat \ {0} /\ MaxItems \in Nat
  BY FirstFacts, SyncConstants, UpstreamFacts DEF SyncTypeOK
<1> HIDE DEF first
<1>3. Off \in RunType /\ Off.got = FALSE
  BY <1>2 DEF RunType, Off
<1>4. start \in RunType /\ start.step = "fetch" /\ start.page = first /\ start.got = FALSE
  <2>1. 1 \in 0..MaxPages /\ first \in 0..Len(upstream.pages) + 1
    BY <1>2
  <2> QED
    BY <1>3, <2>1 DEF RunType
<1>5. wrong \in RunType /\ wrong.step = "error" /\ wrong.got = FALSE
  BY <1>3 DEF RunType
<1> HIDE DEF start, wrong
<1>6. CASE run' = [run EXCEPT ![w] = start]
  BY <1>4, <1>6, RunUpdate DEF SyncBegin, first
<1>7. CASE run' = [run EXCEPT ![w] = wrong]
  BY <1>5, <1>7, RunUpdate DEF SyncBegin
<1> QED
  BY <1>1, <1>6, <1>7

LEMMA FetchFacts ==
    ASSUME SyncTypeOK, NEW w \in Workers, FetchPage(w)
    PROVE  /\ run' \in [Workers -> RunType]
           /\ \A v \in Workers : v # w => run'[v] = run[v]
           /\ run[w].step = "fetch" /\ run'[w].step = "store" /\ run'[w].page = run[w].page
           /\ run'[w].got = (run[w].page <= published)
           /\ UNCHANGED <<dataVars, storeVars, disturbances>>
<1> DEFINE r == [run[w] EXCEPT !.step = "store", !.got = run[w].page <= published]
<1>1. run' = [run EXCEPT ![w] = r]
  BY DEF FetchPage, SyncTypeOK
<1>2. (run[w].page <= published) \in BOOLEAN
  OBVIOUS
<1>3. r \in RunType /\ r.step = "store" /\ r.page = run[w].page
      /\ r.got = (run[w].page <= published)
  BY <1>2 DEF SyncTypeOK, RunType
<1> HIDE DEF r
<1> QED
  BY <1>1, <1>3, RunUpdate DEF FetchPage

\* A step that fails.
LEMMA FailFacts ==
    ASSUME SyncTypeOK, NEW w \in Workers, Fails(w)
    PROVE  /\ run' \in [Workers -> RunType]
           /\ \A v \in Workers : v # w => run'[v] = run[v]
           /\ run'[w].step = "error" /\ run'[w].page = run[w].page /\ run'[w].got = run[w].got
<1> DEFINE r == [run[w] EXCEPT !.step = "error"]
<1>1. run' = [run EXCEPT ![w] = r]
  BY DEF Fails, SyncTypeOK
<1>2. r \in RunType /\ r.step = "error" /\ r.page = run[w].page /\ r.got = run[w].got
  BY DEF SyncTypeOK, RunType
<1> HIDE DEF r
<1> QED
  BY <1>1, <1>2, RunUpdate

LEMMA StoreFacts ==
    ASSUME SyncTypeOK, RunsBehind, NEW w \in Workers, StorePage(w)
    PROVE  /\ run' \in [Workers -> RunType]
           /\ \A v \in Workers : v # w => run'[v] = run[v]
           /\ run[w].step = "store"
           /\ run'[w].step = IF upstream.paged THEN "save" ELSE "ok"
           /\ run'[w].page = run[w].page /\ run'[w].got = run[w].got
           /\ UNCHANGED <<dataVars, cursor, disturbances>>
<1> DEFINE pulled == IF upstream.paged THEN run[w].pulled + Taken(w) ELSE run[w].pulled
           r == [run[w] EXCEPT !.step = IF upstream.paged THEN "save" ELSE "ok",
                               !.pulled = pulled]
<1>1. run' = [run EXCEPT ![w] = r]
  BY DEF StorePage, SyncTypeOK
<1>2. run[w].step = "store"
  BY DEF StorePage
<1>3. pulled \in 0..MaxItems
  BY <1>2, TakenFacts DEF SyncTypeOK, RunType
<1> HIDE DEF pulled
<1>4. r \in RunType /\ r.step = (IF upstream.paged THEN "save" ELSE "ok")
      /\ r.page = run[w].page /\ r.got = run[w].got
  BY <1>3 DEF SyncTypeOK, RunType
<1> HIDE DEF r
<1> QED
  BY <1>1, <1>2, <1>4, RunUpdate DEF StorePage

LEMMA SaveFacts ==
    ASSUME SyncTypeOK, RunsBehind, NEW w \in Workers, SaveCursor(w)
    PROVE  /\ run' \in [Workers -> RunType]
           /\ \A v \in Workers : v # w => run'[v] = run[v]
           /\ run[w].step = "save" /\ run'[w].got = run[w].got
           /\ cursor' = NextPage(w)
           /\ \/ run'[w].step = "ok"
              \/ run'[w].step = "fetch" /\ run'[w].page = NextPage(w) /\ NextPage(w) # 0
           /\ UNCHANGED <<dataVars, records, cut, disturbances>>
<1> DEFINE on == [run[w] EXCEPT !.step = "fetch", !.page = NextPage(w),
                             !.count = @ + 1]
           off == [run[w] EXCEPT !.step = "ok"]
<1>1. \/ run' = [run EXCEPT ![w] = off]
      \/ Continues(w) /\ run' = [run EXCEPT ![w] = on]
  <2>1. run \in [Workers -> RunType]
    BY DEF SyncTypeOK
  <2>2. CASE Continues(w)
    <3>1. run' = [run EXCEPT ![w] = on]
      BY <2>2 DEF SaveCursor, Advanced
    <3> QED
      BY <2>2, <3>1
  <2>3. CASE ~ Continues(w)
    BY <2>1, <2>3 DEF SaveCursor, Advanced
  <2> QED
    BY <2>2, <2>3
<1>2. run[w].step = "save" /\ Active(w)
  BY DEF SaveCursor, Active
<1>3. off \in RunType /\ off.step = "ok" /\ off.got = run[w].got
  BY DEF SyncTypeOK, RunType
<1>4. ASSUME Continues(w)
      PROVE  /\ on \in RunType /\ on.step = "fetch" /\ on.page = NextPage(w)
             /\ on.got = run[w].got /\ NextPage(w) # 0
  <2>1. NextPage(w) # 0 /\ NextPage(w) \in 0..Len(upstream.pages) + 1
    BY <1>2, <1>4, NextFacts DEF Continues
  <2>2. run[w].count + 1 \in 0..MaxPages
    BY <1>4, SyncConstants DEF Continues, SyncTypeOK, RunType
  <2> QED
    BY <2>1, <2>2 DEF SyncTypeOK, RunType
<1> HIDE DEF on, off
<1>5. CASE run' = [run EXCEPT ![w] = off]
  BY <1>2, <1>3, <1>5, RunUpdate DEF SaveCursor
<1>6. CASE Continues(w) /\ run' = [run EXCEPT ![w] = on]
  BY <1>2, <1>4, <1>6, RunUpdate DEF SaveCursor
<1> QED
  BY <1>1, <1>5, <1>6

-----------------------------------------------------------------------------
(* The cursor skips nothing.                                               *)

SkipInv == SyncTypeOK /\ RunsBehind /\ NothingSkipped

\* What neither begins a run nor goes on with one.
Quiet ==
    /\ UNCHANGED <<upstream, storeVars>>
    /\ published' \in published..Len(upstream.pages)
    /\ refusing' \in BOOLEAN
    /\ disturbances' \in 0..MaxDisturbances
    /\ run' \in [Workers -> RunType]
    /\ \A v \in Workers :
          \/ run'[v] = run[v]
          \/ run'[v].step \in {"off", "error"}

LEMMA QuietStep ==
    ASSUME SkipInv, Quiet
    PROVE  SkipInv'
<1> USE DEF SkipInv, Quiet, storeVars
<1>1. upstream' = upstream /\ records' = records /\ cut' = cut /\ cursor' = cursor
  OBVIOUS
<1>2. published \in 0..Len(upstream.pages) /\ Len(upstream.pages) \in Nat
  BY UpstreamFacts DEF SyncTypeOK
<1>3. published' \in 0..Len(upstream.pages) /\ published <= published'
  BY <1>2
<1>4. SyncTypeOK'
  BY <1>1, <1>3 DEF SyncTypeOK, RunType, PageItems, Pages
<1>5. ASSUME NEW w \in Workers, run'[w] # run[w]
      PROVE  ~ Active(w)'
  BY <1>5 DEF Active
<1>6. ASSUME NEW w \in Workers, run'[w].step \in {"store", "save"}, run'[w].got
      PROVE  run'[w].page <= published'
  <2>1. run'[w] = run[w]
    BY <1>6
  <2>2. run[w].page <= published /\ run[w].page \in Nat
    BY <1>2, <1>6, <2>1 DEF RunsBehind, SyncTypeOK, RunType
  <2> QED
    BY <1>2, <1>3, <2>1, <2>2
<1>7. RunsBehind'
  BY <1>1, <1>5, <1>6 DEF RunsBehind, Active, Stored, Keyed, PageItems, Pages
<1>8. NothingSkipped'
  BY <1>1 DEF NothingSkipped, Keyed, PageItems, Pages
<1> QED
  BY <1>4, <1>7, <1>8

\* A run that begins has nothing behind it that the cursor does not vouch for.
LEMMA BeginStep ==
    ASSUME SkipInv, NEW w \in Workers, NEW r \in Resources, SyncBegin(w, r)
    PROVE  SkipInv'
<1> USE DEF SkipInv
<1>1. /\ run' \in [Workers -> RunType]
      /\ \A v \in Workers : v # w => run'[v] = run[v]
      /\ \/ run'[w].step = "error"
         \/ /\ run'[w].step = "fetch"
            /\ run'[w].page = IF upstream.paged THEN FirstPage ELSE 1
      /\ run'[w].got = FALSE
      /\ UNCHANGED <<dataVars, storeVars>>
  BY BeginFacts
<1>2. upstream' = upstream /\ published' = published /\ refusing' = refusing
      /\ records' = records /\ cut' = cut /\ cursor' = cursor /\ disturbances' = disturbances
  BY <1>1 DEF dataVars, storeVars, SyncBegin
<1>3. SyncTypeOK'
  BY <1>1, <1>2 DEF SyncTypeOK, RunType, PageItems, Pages
<1>4. ASSUME run'[w].step = "fetch"
      PROVE  /\ run'[w].page >= 1
             /\ \A e \in PageItems : e[1] < run'[w].page => Stored(e)
  <2>1. run'[w].page = 1 \/ run'[w].page = cursor
    BY <1>1, <1>4, FirstFacts
  <2>2. run'[w].page >= 1
    BY <1>1, <1>4, FirstFacts
  <2>3. ASSUME NEW e \in PageItems, e[1] < run'[w].page
        PROVE  Stored(e)
    <3>1. e[1] \in Nat /\ e[1] >= 1
      BY ItemFacts DEF SyncTypeOK, Pages
    <3>2. e[1] < cursor
      BY <2>1, <2>3, <3>1
    <3> QED
      BY <3>2 DEF NothingSkipped, Stored
  <2> QED
    BY <2>2, <2>3
<1>5. RunsBehind'
  BY <1>1, <1>2, <1>4 DEF RunsBehind, Active, Stored, Keyed, PageItems, Pages
<1>6. NothingSkipped'
  BY <1>2 DEF NothingSkipped, Keyed, PageItems, Pages
<1> QED
  BY <1>3, <1>5, <1>6

LEMMA FetchStep ==
    ASSUME SkipInv, NEW w \in Workers, FetchPage(w)
    PROVE  SkipInv'
<1> USE DEF SkipInv
<1>1. /\ run' \in [Workers -> RunType]
      /\ \A v \in Workers : v # w => run'[v] = run[v]
      /\ run[w].step = "fetch" /\ run'[w].step = "store" /\ run'[w].page = run[w].page
      /\ run'[w].got = (run[w].page <= published)
      /\ UNCHANGED <<dataVars, storeVars, disturbances>>
  BY FetchFacts
<1>2. upstream' = upstream /\ published' = published /\ refusing' = refusing
      /\ records' = records /\ cut' = cut /\ cursor' = cursor /\ disturbances' = disturbances
  BY <1>1 DEF dataVars, storeVars
<1>3. SyncTypeOK'
  BY <1>1, <1>2 DEF SyncTypeOK, RunType, PageItems, Pages
<1>4. RunsBehind'
  <2> SUFFICES ASSUME NEW v \in Workers
               PROVE  /\ Active(v)' => run'[v].page >= 1
                      /\ Active(v)' => \A e \in PageItems :
                            e[1] < run'[v].page => Stored(e)
                      /\ run'[v].step = "save" /\ run'[v].got
                            => \A e \in PageItems : e[1] = run'[v].page => Stored(e)
                      /\ run'[v].step \in {"store", "save"} /\ run'[v].got
                            => run'[v].page <= published
    BY <1>2 DEF RunsBehind, Stored, Keyed, PageItems, Pages
  <2>1. CASE v = w
    <3>1. Active(w)
      BY <1>1 DEF Active
    <3> QED
      BY <1>1, <2>1, <3>1 DEF RunsBehind
  <2>2. CASE v # w
    <3>1. run'[v] = run[v] /\ (Active(v)' <=> Active(v))
      BY <1>1, <2>2 DEF Active
    <3> QED
      BY <3>1 DEF RunsBehind
  <2> QED
    BY <2>1, <2>2
<1>5. NothingSkipped'
  BY <1>2 DEF NothingSkipped, Keyed, PageItems, Pages
<1> QED
  BY <1>3, <1>4, <1>5

\* The items of a page are kept or dropped.
LEMMA StoreStep ==
    ASSUME SkipInv, NEW w \in Workers, StorePage(w)
    PROVE  SkipInv'
<1> USE DEF SkipInv
<1>1. /\ run' \in [Workers -> RunType]
      /\ \A v \in Workers : v # w => run'[v] = run[v]
      /\ run[w].step = "store"
      /\ run'[w].step = IF upstream.paged THEN "save" ELSE "ok"
      /\ run'[w].page = run[w].page /\ run'[w].got = run[w].got
      /\ UNCHANGED <<dataVars, cursor, disturbances>>
  BY StoreFacts
<1>2. upstream' = upstream /\ published' = published /\ refusing' = refusing
      /\ cursor' = cursor /\ disturbances' = disturbances
  BY <1>1 DEF dataVars
<1> DEFINE p == run[w].page
           kept == {<<p, i>> : i \in 1..Taken(w)}
           dropped == {<<p, i>> : i \in Taken(w) + 1..Len(Fetched(w))}
<1>3. records' = records \cup {e \in kept : Keyed(e)} /\ cut' = cut \cup dropped
  BY DEF StorePage
<1>4. /\ Len(Fetched(w)) \in Nat /\ Taken(w) \in Nat /\ Taken(w) <= Len(Fetched(w))
      /\ run[w].got => p \in Pages /\ Fetched(w) = upstream.pages[p]
      /\ ~ run[w].got => Fetched(w) = <<>>
  BY <1>1, TakenFacts
<1>5. kept \cup dropped \subseteq PageItems
  <2>1. CASE run[w].got
    <3>1. p \in Pages /\ DOMAIN upstream.pages[p] = 1..Len(Fetched(w))
      BY <1>4, <2>1, UpstreamFacts DEF SyncTypeOK
    <3>2. ASSUME NEW i \in 1..Len(Fetched(w))
          PROVE  <<p, i>> \in PageItems
      BY <3>1 DEF PageItems
    <3>3. 1..Taken(w) \subseteq 1..Len(Fetched(w))
          /\ Taken(w) + 1..Len(Fetched(w)) \subseteq 1..Len(Fetched(w))
      BY <1>4
    <3> QED
      BY <3>2, <3>3
  <2>2. CASE ~ run[w].got
    <3>1. Len(Fetched(w)) = 0 /\ Taken(w) = 0
      BY <1>4, <2>2
    <3> QED
      BY <3>1
  <2> QED
    BY <2>1, <2>2
<1>6. ASSUME run[w].got, NEW e \in PageItems, e[1] = p
      PROVE  e \in kept \cup dropped
  <2>1. e = <<p, e[2]>> /\ e[2] \in 1..Len(Fetched(w))
    BY <1>4, <1>6, ItemFacts DEF SyncTypeOK
  <2>2. e[2] \in 1..Taken(w) \/ e[2] \in Taken(w) + 1..Len(Fetched(w))
    BY <1>4, <2>1
  <2> QED
    BY <2>1, <2>2
<1> HIDE DEF p, kept, dropped
<1>7. SyncTypeOK'
  <2>1. records' \subseteq PageItems /\ cut' \subseteq PageItems
    BY <1>3, <1>5 DEF SyncTypeOK
  <2> QED
    BY <1>1, <1>2, <2>1 DEF SyncTypeOK, RunType, PageItems, Pages
<1>8. \A e \in PageItems : Stored(e) => Stored(e)'
  BY <1>2, <1>3 DEF Stored, Keyed
<1>9. run[w].got => \A e \in PageItems : e[1] = p => Stored(e)'
  BY <1>2, <1>3, <1>6 DEF Stored, Keyed
<1>10. PageItems' = PageItems
  BY <1>2 DEF PageItems, Pages
<1>11. RunsBehind'
  <2> SUFFICES ASSUME NEW v \in Workers
               PROVE  /\ Active(v)' => run'[v].page >= 1
                      /\ Active(v)' => \A e \in PageItems :
                            e[1] < run'[v].page => Stored(e)'
                      /\ run'[v].step = "save" /\ run'[v].got
                            => \A e \in PageItems : e[1] = run'[v].page => Stored(e)'
                      /\ run'[v].step \in {"store", "save"} /\ run'[v].got
                            => run'[v].page <= published
    BY <1>2, <1>10 DEF RunsBehind
  <2>1. CASE v = w
    <3>1. Active(w) /\ run'[w].page = p
      BY <1>1 DEF Active, p
    <3> QED
      BY <1>1, <1>8, <1>9, <2>1, <3>1 DEF RunsBehind, p
  <2>2. CASE v # w
    <3>1. run'[v] = run[v] /\ (Active(v)' <=> Active(v))
      BY <1>1, <2>2 DEF Active
    <3> QED
      BY <1>8, <3>1 DEF RunsBehind
  <2> QED
    BY <2>1, <2>2
<1>12. NothingSkipped'
  BY <1>2, <1>8, <1>10 DEF NothingSkipped, Stored, Keyed
<1> QED
  BY <1>7, <1>11, <1>12

\* The cursor moves to the page the run goes on with.
LEMMA SaveStep ==
    ASSUME SkipInv, NEW w \in Workers, SaveCursor(w)
    PROVE  SkipInv'
<1> USE DEF SkipInv
<1>1. /\ run' \in [Workers -> RunType]
      /\ \A v \in Workers : v # w => run'[v] = run[v]
      /\ run[w].step = "save" /\ run'[w].got = run[w].got
      /\ cursor' = NextPage(w)
      /\ \/ run'[w].step = "ok"
         \/ run'[w].step = "fetch" /\ run'[w].page = NextPage(w) /\ NextPage(w) # 0
      /\ UNCHANGED <<dataVars, records, cut, disturbances>>
  BY SaveFacts
<1>2. upstream' = upstream /\ published' = published /\ refusing' = refusing
      /\ records' = records /\ cut' = cut /\ disturbances' = disturbances
  BY <1>1 DEF dataVars
<1>3. Active(w) /\ run[w].page \in Nat /\ run[w].page >= 1
  BY <1>1, UpstreamFacts DEF Active, SyncTypeOK, RunType, RunsBehind
<1>4. \/ NextPage(w) = 0
      \/ /\ NextPage(w) \in 1..Len(upstream.pages) + 1
         /\ run[w].page <= NextPage(w) /\ NextPage(w) <= run[w].page + 1
         /\ ~ run[w].got => NextPage(w) = run[w].page
  BY <1>1, NextFacts
<1>5. Len(upstream.pages) \in Nat /\ PageItems' = PageItems
  BY <1>2, UpstreamFacts DEF SyncTypeOK, PageItems, Pages
<1>6. SyncTypeOK'
  <2>1. cursor' \in 0..Len(upstream.pages) + 1
    BY <1>1, <1>4, <1>5
  <2> QED
    BY <1>1, <1>2, <2>1 DEF SyncTypeOK, RunType, PageItems, Pages
<1>7. ASSUME NEW e \in PageItems, e[1] < NextPage(w)
      PROVE  Stored(e)
  <2>1. e[1] \in Nat /\ e[1] >= 1
    BY ItemFacts DEF SyncTypeOK, Pages
  <2>2. NextPage(w) \in Nat
    BY <1>4, <1>5
  <2>3. CASE e[1] < run[w].page
    BY <1>3, <2>3 DEF RunsBehind
  <2>4. CASE ~ (e[1] < run[w].page)
    <3>1. e[1] = run[w].page /\ run[w].got
      BY <1>3, <1>4, <1>7, <2>1, <2>2, <2>4 DEF SyncTypeOK, RunType
    <3> QED
      BY <1>1, <3>1 DEF RunsBehind
  <2> QED
    BY <2>3, <2>4
<1>8. RunsBehind'
  <2> SUFFICES ASSUME NEW v \in Workers
               PROVE  /\ Active(v)' => run'[v].page >= 1
                      /\ Active(v)' => \A e \in PageItems :
                            e[1] < run'[v].page => Stored(e)'
                      /\ run'[v].step = "save" /\ run'[v].got
                            => \A e \in PageItems : e[1] = run'[v].page => Stored(e)'
                      /\ run'[v].step \in {"store", "save"} /\ run'[v].got
                            => run'[v].page <= published
    BY <1>2, <1>5 DEF RunsBehind
  <2>1. \A e \in PageItems : Stored(e) <=> Stored(e)'
    BY <1>2 DEF Stored, Keyed
  <2>2. CASE v = w
    <3>1. CASE run'[w].step = "ok"
      BY <2>2, <3>1 DEF Active
    <3>2. CASE run'[w].step = "fetch" /\ run'[w].page = NextPage(w) /\ NextPage(w) # 0
      <4>1. NextPage(w) >= 1
        BY <1>4, <1>5, <3>2
      <4> QED
        BY <1>7, <2>1, <2>2, <3>2, <4>1
    <3> QED
      BY <1>1, <3>1, <3>2
  <2>3. CASE v # w
    <3>1. run'[v] = run[v] /\ (Active(v)' <=> Active(v))
      BY <1>1, <2>3 DEF Active
    <3> QED
      BY <2>1, <3>1 DEF RunsBehind
  <2> QED
    BY <2>2, <2>3
<1>9. NothingSkipped'
  BY <1>1, <1>2, <1>5, <1>7 DEF NothingSkipped, Stored, Keyed
<1> QED
  BY <1>6, <1>8, <1>9

-----------------------------------------------------------------------------
(* All steps.                                                              *)

\* The steps of the orchestrator and of the world around it that are quiet,
\* and all that the others do to the cursor.
LEMMA StepKinds ==
    ASSUME SkipInv, [ConnectionNext]_connectionVars
    PROVE  \/ Quiet
           \/ \E w \in Workers : /\ stage[w] = "running" /\ UNCHANGED orchestratorVars
                                 /\ \/ SyncBegin(w, resource[w]) \/ FetchPage(w)
                                    \/ StorePage(w) \/ SaveCursor(w)
<1> USE DEF SkipInv
<1>1. /\ run \in [Workers -> RunType] /\ disturbances \in 0..MaxDisturbances
      /\ published \in 0..Len(upstream.pages) /\ Len(upstream.pages) \in Nat
      /\ refusing \in BOOLEAN /\ MaxDisturbances \in Nat
  BY UpstreamFacts, SyncConstants DEF SyncTypeOK
<1>2. published \in published..Len(upstream.pages)
  BY <1>1
<1>3. Disturb => disturbances' \in 0..MaxDisturbances
  BY <1>1 DEF Disturb
<1>4. Off \in RunType /\ Off.step = "off" /\ Off.got = FALSE
  BY <1>1, SyncConstants DEF Off, RunType
<1>5. ASSUME UNCHANGED <<upstream, published, refusing, storeVars, run>>,
             disturbances' = disturbances \/ Disturb
      PROVE  Quiet
  BY <1>1, <1>2, <1>3, <1>5 DEF Quiet
<1>6. ASSUME NEW w \in Workers, Start(w)
      PROVE  Quiet
  BY <1>5, <1>6 DEF Start, dataVars
<1>7. ASSUME NEW w \in Workers, TakeLock(w)
      PROVE  Quiet
  BY <1>5, <1>7 DEF TakeLock, syncVars, dataVars
<1>8. ASSUME NEW w \in Workers, Refresh(w)
      PROVE  Quiet
  BY <1>5, <1>8 DEF Refresh, dataVars
<1>9. ASSUME NEW w \in Workers, FetchFails(w) \/ StoreFails(w) \/ SaveFails(w)
      PROVE  Quiet
  <2>1. Fails(w) /\ UNCHANGED <<upstream, published, refusing, storeVars>>
        /\ (disturbances' = disturbances \/ Disturb)
    BY <1>9 DEF FetchFails, StoreFails, SaveFails, dataVars
  <2>2. /\ run' \in [Workers -> RunType]
        /\ \A v \in Workers : v # w => run'[v] = run[v]
        /\ run'[w].step = "error"
    BY <2>1, FailFacts
  <2> QED
    BY <1>1, <1>2, <1>3, <2>1, <2>2 DEF Quiet
<1>10. ASSUME NEW w \in Workers, Finish(w)
       PROVE  Quiet
  <2>1. /\ run' \in [Workers -> RunType] /\ run'[w] = Off
        /\ \A v \in Workers : v # w => run'[v] = run[v]
    BY <1>4, <1>10, RunUpdate DEF Finish
  <2> QED
    BY <1>1, <1>2, <1>4, <1>10, <2>1 DEF Finish, Quiet, dataVars
<1>11. CASE SetEligible
  BY <1>5, <1>11 DEF SetEligible, dataVars
<1>12. CASE Restart
  <2>1. run' \in [Workers -> RunType] /\ \A v \in Workers : run'[v].step = "off"
    BY <1>4, <1>12 DEF Restart
  <2> QED
    BY <1>1, <1>2, <1>3, <1>12, <2>1 DEF Restart, Quiet, dataVars
<1>13. CASE Publish
  <2>1. published' \in published..Len(upstream.pages)
    BY <1>1, <1>13 DEF Publish
  <2> QED
    BY <1>1, <1>13, <2>1 DEF Publish, Quiet
<1>14. CASE RefuseCursors
  BY <1>1, <1>2, <1>3, <1>14 DEF RefuseCursors, Quiet
<1>15. CASE UNCHANGED connectionVars
  BY <1>5, <1>15 DEF connectionVars, syncVars, dataVars
<1>16. CASE World
  BY <1>11, <1>12, <1>13, <1>14, <1>16 DEF World
<1>17. ASSUME NEW w \in Workers, Sync(w)
       PROVE  \/ Quiet
              \/ /\ stage[w] = "running" /\ UNCHANGED orchestratorVars
                 /\ \/ SyncBegin(w, resource[w]) \/ FetchPage(w)
                    \/ StorePage(w) \/ SaveCursor(w)
  BY <1>9, <1>17 DEF Sync, SyncStep
<1> QED
  BY <1>6, <1>7, <1>8, <1>10, <1>15, <1>16, <1>17 DEF ConnectionNext, SyncWorkerStep

LEMMA SkipInit == ConnectionInit => SkipInv
<1> SUFFICES ASSUME ConnectionInit
             PROVE  SkipInv
  OBVIOUS
<1>1. upstream \in Upstreams /\ Len(upstream.pages) \in Nat
  BY UpstreamFacts DEF ConnectionInit, SyncInit
<1>2. Off \in RunType /\ Off.step = "off" /\ Off.got = FALSE
  BY <1>1, SyncConstants DEF Off, RunType
<1>3. published \in 0..Len(upstream.pages)
  BY <1>1 DEF ConnectionInit, SyncInit
<1>4. SyncTypeOK
  <2>1. 0 \in 0..Len(upstream.pages) + 1 /\ 0 \in 0..MaxDisturbances
    BY <1>1, SyncConstants
  <2> QED
    BY <1>1, <1>2, <1>3, <2>1 DEF ConnectionInit, SyncInit, SyncTypeOK
<1>5. RunsBehind
  BY <1>2 DEF ConnectionInit, SyncInit, RunsBehind, Active
<1>6. NothingSkipped
  <2> SUFFICES ASSUME NEW e \in PageItems, e[1] < cursor
               PROVE  FALSE
    BY DEF NothingSkipped
  <2>1. e[1] \in Nat /\ e[1] >= 1 /\ cursor = 0
    BY <1>1, ItemFacts DEF Pages, ConnectionInit, SyncInit
  <2> QED
    BY <2>1
<1> QED
  BY <1>4, <1>5, <1>6 DEF SkipInv

\* Who holds the lock and what the orchestrator knows.
LockTypeOK ==
    /\ lock \in Workers \cup {Nobody}
    /\ stage \in [Workers -> {"idle", "waiting", "locked", "running"}]
    /\ resource \in [Workers -> Resources]

LEMMA LockTypeStep ==
    ASSUME LockTypeOK, SyncTypeOK, [ConnectionNext]_connectionVars
    PROVE  LockTypeOK'
<1> USE DEF LockTypeOK
<1>1. ASSUME NEW w \in Workers, Start(w)
      PROVE  LockTypeOK'
  <2>1. upstream.configured \in Resources /\ "default" \in Resources
    BY SyncConstants DEF SyncTypeOK, IsUpstream, Resources
  <2>2. resource' \in [Workers -> Resources]
    BY <1>1, <2>1 DEF Start
  <2> QED
    BY <1>1, <2>2 DEF Start
<1>2. ASSUME NEW w \in Workers, TakeLock(w) \/ Refresh(w) \/ Sync(w) \/ Finish(w)
      PROVE  LockTypeOK'
  BY <1>2 DEF TakeLock, Refresh, Sync, Finish, FreeLock, orchestratorVars
<1>3. CASE World \/ UNCHANGED connectionVars
  BY <1>3 DEF World, SetEligible, Restart, orchestratorVars, connectionVars
<1> QED
  BY <1>1, <1>2, <1>3 DEF ConnectionNext, SyncWorkerStep

ConnectionInv == SkipInv /\ LockTypeOK

LEMMA SkipStep == ConnectionInv /\ [ConnectionNext]_connectionVars => ConnectionInv'
<1> SUFFICES ASSUME SkipInv, LockTypeOK, [ConnectionNext]_connectionVars
             PROVE  SkipInv' /\ LockTypeOK'
  BY DEF ConnectionInv
<1>1. LockTypeOK'
  BY LockTypeStep DEF SkipInv
<1>2. ASSUME NEW w \in Workers, SyncBegin(w, resource[w])
      PROVE  SkipInv'
  BY <1>2, BeginStep DEF LockTypeOK
<1>3. ASSUME NEW w \in Workers, FetchPage(w) \/ StorePage(w) \/ SaveCursor(w)
      PROVE  SkipInv'
  BY <1>3, FetchStep, StoreStep, SaveStep
<1> QED
  BY <1>1, <1>2, <1>3, StepKinds, QuietStep

LEMMA InvHolds == ConnectionSpec => []ConnectionInv
<1>1. ConnectionInit => LockTypeOK
  BY DEF ConnectionInit, LockTypeOK, Resources
<1> QED
  BY SkipInit, SkipStep, <1>1, PTL DEF ConnectionSpec, ConnectionInv

\* The types of everything a sync reads and writes.
THEOREM SyncTypeCorrect == ConnectionSpec => []OrchestratorTypeOK
<1>1. ConnectionInit => eligible \in BOOLEAN
  BY DEF ConnectionInit
<1>2. eligible \in BOOLEAN /\ [ConnectionNext]_connectionVars => (eligible \in BOOLEAN)'
  <2> SUFFICES ASSUME eligible \in BOOLEAN, [ConnectionNext]_connectionVars
               PROVE  eligible' \in BOOLEAN
    OBVIOUS
  <2>1. eligible' = eligible \/ SetEligible
    BY DEF ConnectionNext, World, Start, SyncWorkerStep, TakeLock, Refresh, Sync, Finish,
           Restart, orchestratorVars, connectionVars
  <2> QED
    BY <2>1 DEF SetEligible
<1>3. ConnectionInv /\ eligible \in BOOLEAN => OrchestratorTypeOK
  BY DEF ConnectionInv, SkipInv, LockTypeOK, OrchestratorTypeOK
<1> QED
  BY <1>1, <1>2, <1>3, InvHolds, PTL DEF ConnectionSpec

\* Through failures, restarts and however the upstream grows, what lies before
\* the saved cursor is stored or was cut off by the limit of items.
THEOREM NothingIsSkipped == ConnectionSpec => []NothingSkipped
<1>1. ConnectionInv => NothingSkipped
  BY DEF ConnectionInv, SkipInv
<1> QED
  BY InvHolds, <1>1, PTL

-----------------------------------------------------------------------------
(* The cursor is never set back.                                           *)

LEMMA LockInit == ConnectionInit => RunsLocked
<1> SUFFICES ASSUME ConnectionInit
             PROVE  RunsLocked
  OBVIOUS
<1>1. \A w \in Workers : run[w].step = "off"
  BY DEF ConnectionInit, SyncInit, Off
<1>2. \A w \in Workers : stage[w] = "idle" /\ lock # w
  BY OrchestratorConstants DEF ConnectionInit
<1> QED
  BY <1>1, <1>2 DEF RunsLocked, Active

\* A run and its place, seen against the cursor.
NotBehind(w) == run[w].page >= cursor \/ upstream.forms[cursor] = "long"

LEMMA LockStep == ConnectionInv /\ RunsLocked /\ [ConnectionNext]_connectionVars => RunsLocked'
<1> SUFFICES ASSUME ConnectionInv, RunsLocked, [ConnectionNext]_connectionVars
             PROVE  RunsLocked'
  OBVIOUS
<1> USE DEF RunsLocked
<1>1. SyncTypeOK /\ RunsBehind /\ LockTypeOK
  BY DEF ConnectionInv, SkipInv
<1>2. Nobody \notin Workers
  BY OrchestratorConstants
<1>3. ASSUME UNCHANGED <<upstream, cursor, run>>,
             \A w \in Workers : stage'[w] \in {"locked", "running"} <=> lock' = w,
             \A w \in Workers : stage[w] = "running" => stage'[w] = "running"
      PROVE  RunsLocked'
  BY <1>3 DEF Active
<1>4. ASSUME NEW w \in Workers, Start(w)
      PROVE  RunsLocked'
  BY <1>1, <1>3, <1>4 DEF Start, LockTypeOK, dataVars, storeVars
<1>5. ASSUME NEW w \in Workers, TakeLock(w)
      PROVE  RunsLocked'
  BY <1>1, <1>2, <1>3, <1>5 DEF TakeLock, LockTypeOK, syncVars, dataVars, storeVars
<1>6. ASSUME NEW w \in Workers, Refresh(w)
      PROVE  RunsLocked'
  BY <1>1, <1>2, <1>3, <1>6 DEF Refresh, FreeLock, LockTypeOK, dataVars, storeVars
<1>7. ASSUME NEW w \in Workers, Sync(w)
      PROVE  RunsLocked'
  <2>1. stage[w] = "running" /\ lock = w /\ UNCHANGED <<lock, stage>>
    BY <1>7 DEF Sync, orchestratorVars
  <2>2. \A v \in Workers : v # w => run[v].step = "off"
    BY <1>1, <2>1 DEF SyncTypeOK, RunType
  <2>3. SUFFICES /\ \A v \in Workers : v # w => run'[v] = run[v]
                 /\ upstream' = upstream
                 /\ run'[w].step = "save" => upstream.paged
                 /\ Active(w)' /\ upstream.paged => NotBehind(w)'
    BY <2>1, <2>2 DEF Active, NotBehind
  <2>4. CASE SyncBegin(w, resource[w])
    BY <1>1, <2>4, BeginFacts, FirstFacts
       DEF LockTypeOK, Active, NotBehind, dataVars, storeVars
  <2>5. CASE FetchPage(w)
    BY <1>1, <2>5, FetchFacts DEF Active, NotBehind, dataVars, storeVars
  <2>6. CASE FetchFails(w) \/ StoreFails(w) \/ SaveFails(w)
    BY <1>1, <2>6, FailFacts
       DEF FetchFails, StoreFails, SaveFails, Active, dataVars, storeVars
  <2>7. CASE StorePage(w)
    BY <1>1, <2>7, StoreFacts DEF Active, NotBehind, dataVars
  <2>8. CASE SaveCursor(w)
    <3>1. /\ \A v \in Workers : v # w => run'[v] = run[v]
          /\ cursor' = NextPage(w)
          /\ \/ run'[w].step = "ok"
             \/ run'[w].step = "fetch" /\ run'[w].page = NextPage(w) /\ NextPage(w) # 0
          /\ UNCHANGED <<dataVars, records, cut, disturbances>>
      BY <1>1, <2>8, SaveFacts
    <3>2. run'[w].step = "fetch" => run'[w].page >= cursor'
      <4>1. run[w].step = "save"
        BY <2>8 DEF SaveCursor
      <4>2. NextPage(w) \in Nat
        BY <1>1, <4>1, NextFacts, UpstreamFacts DEF SyncTypeOK
      <4> QED
        BY <3>1, <4>2
    <3> QED
      BY <3>1, <3>2 DEF Active, NotBehind, dataVars
  <2> QED
    BY <1>7, <2>4, <2>5, <2>6, <2>7, <2>8 DEF Sync, SyncStep
<1>8. ASSUME NEW w \in Workers, Finish(w)
      PROVE  RunsLocked'
  <2>1. /\ stage[w] = "running" /\ lock = w /\ lock' = Nobody
        /\ stage' = [stage EXCEPT ![w] = "idle"] /\ run' = [run EXCEPT ![w] = Off]
        /\ UNCHANGED <<upstream, cursor>>
    BY <1>8 DEF Finish, FreeLock, dataVars, storeVars
  <2>2. \A v \in Workers : v # w => stage[v] \notin {"locked", "running"}
    BY <2>1
  <2>3. run'[w].step = "off"
    BY <1>1, <2>1 DEF SyncTypeOK, Off
  <2>4. \A v \in Workers : v # w => run'[v] = run[v] /\ stage'[v] = stage[v]
    BY <1>1, <2>1 DEF SyncTypeOK, LockTypeOK
  <2>5. stage'[w] = "idle"
    BY <1>1, <2>1 DEF LockTypeOK
  <2> QED
    BY <1>2, <2>1, <2>2, <2>3, <2>4, <2>5 DEF Active
<1>9. CASE SetEligible
  BY <1>3, <1>9 DEF SetEligible, dataVars, storeVars
<1>10. CASE Restart
  <2>1. \A w \in Workers : run'[w].step = "off" /\ stage'[w] = "idle"
    BY <1>10 DEF Restart, Off
  <2> QED
    BY <1>2, <1>10, <2>1 DEF Restart, Active
<1>11. CASE (Publish \/ RefuseCursors) /\ UNCHANGED orchestratorVars
  BY <1>3, <1>11 DEF Publish, RefuseCursors, orchestratorVars, storeVars
<1>12. CASE UNCHANGED connectionVars
  BY <1>3, <1>12 DEF connectionVars, syncVars, dataVars, storeVars, orchestratorVars
<1> QED
  BY <1>4, <1>5, <1>6, <1>7, <1>8, <1>9, <1>10, <1>11, <1>12
     DEF ConnectionNext, SyncWorkerStep, World

LEMMA LocksHold == ConnectionSpec => []RunsLocked
BY InvHolds, LockInit, LockStep, PTL DEF ConnectionSpec

LEMMA MonotoneStep ==
    ConnectionInv /\ RunsLocked /\ [ConnectionNext]_connectionVars =>
    [\/ cursor' >= cursor
     \/ cursor' = 0
     \/ upstream.forms[cursor] = "long"]_syncVars
<1> SUFFICES ASSUME ConnectionInv, RunsLocked, [ConnectionNext]_connectionVars
             PROVE  \/ cursor' >= cursor
                    \/ cursor' = 0
                    \/ upstream.forms[cursor] = "long"
  OBVIOUS
<1>1. SkipInv /\ SyncTypeOK /\ RunsBehind /\ LockTypeOK
  BY DEF ConnectionInv, SkipInv
<1>2. cursor \in Nat
  BY <1>1, UpstreamFacts DEF SyncTypeOK
<1>3. CASE cursor' = cursor
  BY <1>2, <1>3
<1>4. ASSUME NEW w \in Workers, SaveCursor(w)
      PROVE  \/ cursor' >= cursor \/ cursor' = 0 \/ upstream.forms[cursor] = "long"
  <2>1. run[w].step = "save" /\ cursor' = NextPage(w)
    BY <1>4 DEF SaveCursor
  <2>2. run[w].page >= cursor \/ upstream.forms[cursor] = "long"
    BY <2>1 DEF RunsLocked, Active
  <2>3. \/ NextPage(w) = 0
        \/ NextPage(w) \in 1..Len(upstream.pages) + 1 /\ run[w].page <= NextPage(w)
    BY <1>1, <2>1, NextFacts
  <2>4. run[w].page \in Nat /\ Len(upstream.pages) \in Nat
    BY <1>1, UpstreamFacts DEF SyncTypeOK, RunType
  <2> QED
    BY <1>2, <2>1, <2>2, <2>3, <2>4
<1>5. ASSUME NEW w \in Workers, SyncBegin(w, resource[w]) \/ FetchPage(w) \/ StorePage(w)
      PROVE  cursor' = cursor
  BY <1>5 DEF SyncBegin, FetchPage, StorePage, storeVars
<1>6. CASE Quiet
  BY <1>3, <1>6 DEF Quiet, storeVars
<1> QED
  BY <1>1, <1>3, <1>4, <1>5, <1>6, StepKinds

\* Runs of several threads, the later of which may overtake: the checkpoint
\* moves on, or is cleared, or replaces one that cannot be read back.
THEOREM CursorNeverSetBack == ConnectionSpec => CursorMonotone
BY LocksHold, InvHolds, MonotoneStep, PTL DEF ConnectionSpec, CursorMonotone

-----------------------------------------------------------------------------
(* Runs together, and the end of a traversal.                              *)

\* Whoever runs a sync holds the lock of the connection.
RunsExclude ==
    \A v, w \in Workers :
        run[v].step # "off" /\ run[w].step # "off" => v = w /\ lock = w

\* Two runs of one connection are never under way together, although each has
\* an event loop of its own, the lock is freed on five paths and a restart
\* frees it for the others: no page is stored by one run and passed by another.
THEOREM OneRunAtATime == ConnectionSpec => []RunsExclude
<1>1. RunsLocked => RunsExclude
  BY DEF RunsLocked, RunsExclude
<1> QED
  BY LocksHold, <1>1, PTL

\* A run that ends by clearing the checkpoint, so that the next one starts over,
\* has everything behind it that the upstream has, unless that gives a cursor
\* which is too long to be followed.
ClearedMeansStored ==
    [][\A w \in Workers :
          run[w].step = "save" /\ run'[w].step = "ok" /\ cursor' = 0 =>
             \/ \A e \in PageItems : Stored(e)
             \/ \E p \in DOMAIN upstream.forms : upstream.forms[p] = "overlong"]_connectionVars

\* Only the saving of the cursor ends a run well from there.
LEMMA EndsBySaving ==
    ASSUME SkipInv, [ConnectionNext]_connectionVars, NEW w \in Workers,
           run[w].step = "save", run'[w].step = "ok"
    PROVE  SaveCursor(w)
<1>1. SyncTypeOK /\ RunsBehind
  BY DEF SkipInv
<1>2. ~ Quiet
  BY DEF Quiet
<1>3. PICK v \in Workers : \/ SyncBegin(v, resource[v]) \/ FetchPage(v)
                           \/ StorePage(v) \/ SaveCursor(v)
  BY <1>2, StepKinds
<1>4. v = w
  BY <1>1, <1>3 DEF SyncBegin, FetchPage, StorePage, SaveCursor, Advanced, SyncTypeOK
<1> QED
  BY <1>3, <1>4 DEF SyncBegin, FetchPage, StorePage

LEMMA ClearedStep ==
    ASSUME SkipInv, NEW w \in Workers, SaveCursor(w), cursor' = 0,
           \A p \in DOMAIN upstream.forms : upstream.forms[p] # "overlong"
    PROVE  \A e \in PageItems : Stored(e)
<1> DEFINE last == Len(upstream.pages)
           next == IF run[w].got THEN run[w].page + 1 ELSE run[w].page
<1>1. SyncTypeOK /\ RunsBehind /\ run[w].step = "save" /\ NextPage(w) = 0
  BY DEF SkipInv, SaveCursor
<1>2. /\ last \in Nat /\ run[w].page \in 1..last + 1 /\ run[w].got \in BOOLEAN
      /\ run[w].got => run[w].page <= last
  BY <1>1, UpstreamFacts DEF SyncTypeOK, RunType, RunsBehind, Active
<1>3. next \in 1..last + 1
  BY <1>2
<1>4. DOMAIN upstream.forms = 1..last + 1
  BY <1>1, SyncConstants DEF SyncTypeOK, IsUpstream
<1>5. next \notin Pages
  <2>1. next # 0 /\ upstream.forms[next] # "overlong"
    BY <1>2, <1>3, <1>4
  <2>2. NextPage(w) = IF next \in Pages \/ upstream.endless
                      THEN IF upstream.forms[next] = "overlong" THEN 0 ELSE next
                      ELSE 0
    BY DEF NextPage
  <2> HIDE DEF next
  <2> QED
    BY <1>1, <2>1, <2>2
<1>6. next = last + 1
  BY <1>2, <1>3, <1>5 DEF Pages
<1>7. ASSUME NEW e \in PageItems
      PROVE  Stored(e)
  <2>1. e[1] \in Nat /\ e[1] <= last
    BY <1>1, <1>2, <1>7, ItemFacts DEF Pages, SyncTypeOK
  <2>2. e[1] < run[w].page \/ (run[w].got /\ e[1] = run[w].page)
    BY <1>2, <1>6, <2>1
  <2> QED
    BY <1>1, <2>2 DEF RunsBehind, Active
<1> QED
  BY <1>7

\* Clearing the checkpoint forgets where the runs stand: it is safe because it
\* happens only when nothing lies ahead, over however many runs, failures and
\* restarts the traversal took.
THEOREM ClearedWhenStored == ConnectionSpec => ClearedMeansStored
<1>1. ConnectionInv /\ [ConnectionNext]_connectionVars =>
        [\A w \in Workers :
            run[w].step = "save" /\ run'[w].step = "ok" /\ cursor' = 0 =>
               \/ \A e \in PageItems : Stored(e)
               \/ \E p \in DOMAIN upstream.forms : upstream.forms[p] = "overlong"]_connectionVars
  <2> SUFFICES ASSUME SkipInv, [ConnectionNext]_connectionVars, NEW w \in Workers,
                      run[w].step = "save", run'[w].step = "ok", cursor' = 0
               PROVE  \/ \A e \in PageItems : Stored(e)
                      \/ \E p \in DOMAIN upstream.forms : upstream.forms[p] = "overlong"
    BY DEF ConnectionInv
  <2>1. SaveCursor(w)
    BY EndsBySaving
  <2> QED
    BY <2>1, ClearedStep
<1> QED
  BY InvHolds, <1>1, PTL DEF ConnectionSpec, ClearedMeansStored

-----------------------------------------------------------------------------
(* One call of a composed tool.                                            *)

\* A write step lies behind the call.
WrittenBefore == \E i \in WriteSteps(doc) : i < at

\* What a call keeps besides the types: it executes only what the importer
\* accepted, and it has gone wrong only once it has ended.
CallSound ==
    /\ phase \notin {"uploaded", "rejected"} => DocumentAccepted(doc)
    /\ phase = "sending" => at <= Len(doc.steps)
    /\ phase # "answered" => reason = "none"

\* The upstream has acted on a write as often as it redirected one, and once
\* more only for a write step that lies behind or an answer that was lost.
WritesCounted ==
    /\ WritesOnce
    /\ phase # "answered" /\ ~ WrittenBefore => accepted <= bounced

ToolInv == ToolTypeOK /\ CallSound /\ MappingsResolve /\ WritesCounted /\ StepsAudited

\* The step being executed and its operation, as the document declares them.
LEMMA StepFacts ==
    ASSUME ToolTypeOK, DocumentAccepted(doc), at <= Len(doc.steps)
    PROVE  /\ at \in 1..Len(doc.steps)
           /\ Step.op \in DOMAIN doc.ops
           /\ Operation \in OperationType
           /\ Operation.paged => ~ Operation.write
           /\ Operation.write <=> at \in WriteSteps(doc)
           /\ Operation.required \subseteq DOMAIN Step.args
           /\ \A f \in DOMAIN Step.args : RefAccepted(doc, Step.args[f], at - 1)
<1>1. IsDocument(doc) /\ at \in 1..Len(doc.steps) /\ Len(doc.steps) \in Nat
  BY DEF ToolTypeOK, IsDocument
<1>2. StepAccepted(doc, at)
  BY <1>1 DEF DocumentAccepted
<1>3. Step.op \in DOMAIN doc.ops /\ Operation \in OperationType
  BY <1>1, <1>2 DEF StepAccepted, IsDocument, Step, Operation
<1>4. Operation.paged => ~ Operation.write
  BY <1>3 DEF DocumentAccepted, OperationAccepted, Operation
<1>5. Operation.write <=> at \in WriteSteps(doc)
  BY <1>1 DEF WriteSteps, Operation, Step
<1> QED
  BY <1>1, <1>2, <1>3, <1>4, <1>5 DEF StepAccepted, Step, Operation

\* An accepted document has one write step at most.
LEMMA OneWriteStep ==
    ASSUME NEW d, Len(d.steps) \in Nat, DocumentAccepted(d),
           NEW i \in WriteSteps(d), NEW j \in WriteSteps(d)
    PROVE  i = j
<1> SUFFICES ASSUME i # j
             PROVE  FALSE
  OBVIOUS
<1>0. 1 \in Int /\ Len(d.steps) \in Int
  OBVIOUS
<1>1. WriteSteps(d) \in SUBSET (1..Len(d.steps)) /\ IsFiniteSet(1..Len(d.steps))
  BY <1>0, FS_Interval, Zenon DEF WriteSteps
<1>2. IsFiniteSet(WriteSteps(d)) /\ Cardinality(WriteSteps(d)) \in Nat
  BY <1>1, FS_Subset, FS_CardinalityType
<1>3. IsFiniteSet({i}) /\ Cardinality({i}) = 1
  BY FS_Singleton
<1>4. Cardinality({i} \cup {j}) = 2
  <2>1. j \notin {i}
    OBVIOUS
  <2>2. Cardinality({i} \cup {j}) = Cardinality({i}) + 1
    BY <1>3, <2>1, FS_AddElement, Zenon
  <2>3. Cardinality({i} \cup {j}) = 1 + 1
    BY <1>3, <2>2, Zenon
  <2>4. 1 + 1 = 2
    OBVIOUS
  <2> QED
    BY <2>3, <2>4, Zenon
<1>5. Cardinality({i} \cup {j}) <= Cardinality(WriteSteps(d))
  BY <1>2, FS_Subset
<1>6. Cardinality(WriteSteps(d)) <= 1
  BY DEF DocumentAccepted
<1>7. 2 <= Cardinality(WriteSteps(d))
  BY <1>4, <1>5, Zenon
<1>8. \A c \in Nat : 2 <= c => ~ (c <= 1)
  OBVIOUS
<1> QED
  BY <1>2, <1>6, <1>7, <1>8, Zenon

\* What the upstream does to the count of writes.
LEMMA ActsOnFacts ==
    ASSUME accepted \in Nat, ActsOn
    PROVE  /\ accepted' \in Nat /\ accepted' - accepted \in Nat
           /\ Operation.write => accepted' = accepted + 1
           /\ ~ Operation.write => accepted' = accepted
BY DEF ActsOn

\* An audit event more is a sequence of audit events again.
LEMMA AuditTyped ==
    ASSUME ToolTypeOK, at \in 1..Len(doc.steps), doc' = doc,
           NEW status \in {"ok", "error"}, Audited(status)
    PROVE  /\ audits' \in [1..Len(doc.steps) -> Seq({"ok", "error"})]
           /\ audits'[at] = Append(audits[at], status)
           /\ \A i \in 1..Len(doc.steps) : i # at => audits'[i] = audits[i]
<1>1. Append(audits[at], status) \in Seq({"ok", "error"})
  BY AppendProperties DEF ToolTypeOK
<1> QED
  BY <1>1 DEF ToolTypeOK, Audited

\* The steps of a call that send or have sent a request.
Sends ==
    \/ Unauthorized \/ Redirected \/ UpstreamFails \/ Interrupted
    \/ FollowPage \/ StepSucceeds

\* Every step keeps the types.
LEMMA ToolTyped ==
    ASSUME ToolTypeOK, CallSound, ToolNext
    PROVE  ToolTypeOK'
<1>0. /\ Len(doc.steps) \in Nat /\ at \in Nat
      /\ MaxPageCount \in Nat \ {0} /\ MaxRedirects \in Nat
  BY ToolConstants DEF ToolTypeOK, IsDocument
<1>1. CASE Import
  BY <1>1 DEF Import, ToolTypeOK, Phases
<1>2. CASE \E S \in SUBSET doc.inputs : CallTool(S)
  BY <1>2 DEF CallTool, Ends, ToolTypeOK, Phases, Reasons
<1>3. CASE MapArguments \/ ValueRefused
  <2>1. doc' = doc /\ at' = at /\ at \in 1..Len(doc.steps)
    BY <1>0, <1>3 DEF MapArguments, ValueRefused, ToolTypeOK
  <2>2. audits' \in [1..Len(doc.steps) -> Seq({"ok", "error"})]
    <3>1. audits' = audits \/ Audited("error")
      BY <1>3 DEF MapArguments, ValueRefused, StepFails
    <3> QED
      BY <2>1, <3>1, AuditTyped DEF ToolTypeOK
  <2>3. page' \in 1..MaxPageCount /\ renewed' \in BOOLEAN /\ hops' \in 0..MaxRedirects
    <3>1. \/ UNCHANGED <<page, renewed, hops>>
          \/ page' = 1 /\ renewed' = FALSE /\ hops' = 0
      BY <1>3 DEF MapArguments, ValueRefused
    <3>2. page \in 1..MaxPageCount /\ hops \in 0..MaxRedirects /\ renewed \in BOOLEAN
      BY DEF ToolTypeOK
    <3>3. renewed' \in BOOLEAN
      BY <3>1, <3>2, Zenon
    <3>4. 1 \in 1..MaxPageCount /\ 0 \in 0..MaxRedirects
      BY <1>0
    <3> QED
      BY <3>1, <3>2, <3>3, <3>4
  <2>4. /\ phase' \in Phases /\ returned' \in {"none", "ok", "error", "cancelled"}
        /\ reason' \in Reasons
    BY <1>3 DEF MapArguments, ValueRefused, StepFails, Ends, ToolTypeOK, Phases, Reasons
  <2>5. UNCHANGED <<supplied, accepted, bounced>>
    BY <1>3 DEF MapArguments, ValueRefused
  <2> QED
    BY <2>1, <2>2, <2>3, <2>4, <2>5 DEF ToolTypeOK
<1>4. CASE Sends
  <2>1. doc' = doc /\ at \in 1..Len(doc.steps) /\ supplied' = supplied
    BY <1>0, <1>4 DEF Sends, Unauthorized, Redirected, UpstreamFails, Interrupted,
                      FollowPage, StepSucceeds, CallSound, ToolTypeOK
  <2>2. audits' \in [1..Len(doc.steps) -> Seq({"ok", "error"})]
    <3>1. audits' = audits \/ Audited("error") \/ Audited("ok")
      BY <1>4 DEF Sends, Unauthorized, Redirected, UpstreamFails, Interrupted,
                  FollowPage, StepSucceeds, StepFails
    <3> QED
      BY <2>1, <3>1, AuditTyped DEF ToolTypeOK
  <2>3. accepted' \in Nat /\ bounced' \in Nat
    <3>1. accepted \in Nat /\ bounced \in Nat
      BY DEF ToolTypeOK
    <3>2. \/ UNCHANGED <<accepted, bounced>>
          \/ ActsOn /\ bounced' \in {bounced, bounced + (accepted' - accepted)}
      BY <1>4 DEF Sends, Unauthorized, Redirected, MayBounce, UpstreamFails, Interrupted,
                  FollowPage, StepSucceeds
    <3> QED
      BY <3>1, <3>2, ActsOnFacts
  <2>4. at' \in 1..Len(doc.steps) + 1
    BY <1>0, <1>4, <2>1 DEF Sends, Unauthorized, Redirected, UpstreamFails, Interrupted,
                            FollowPage, StepSucceeds
  <2>5. page' \in 1..MaxPageCount /\ renewed' \in BOOLEAN /\ hops' \in 0..MaxRedirects
    <3>1. /\ page' = page \/ (page < MaxPageCount /\ page' = page + 1)
          /\ hops' = hops \/ hops' = 0 \/ (hops < MaxRedirects /\ hops' = hops + 1)
          /\ renewed' = renewed \/ renewed' = TRUE \/ renewed' = FALSE
      <4>1. CASE Unauthorized
        BY <4>1 DEF Unauthorized
      <4>2. CASE Redirected
        BY <4>2 DEF Redirected
      <4>3. CASE UpstreamFails \/ Interrupted \/ StepSucceeds
        BY <4>3 DEF UpstreamFails, Interrupted, StepSucceeds
      <4>4. CASE FollowPage
        BY <4>4 DEF FollowPage
      <4> QED
        BY <1>4, <4>1, <4>2, <4>3, <4>4 DEF Sends
    <3>2. renewed' \in BOOLEAN
      BY <3>1 DEF ToolTypeOK
    <3>3. page' \in 1..MaxPageCount /\ hops' \in 0..MaxRedirects
      BY <1>0, <3>1 DEF ToolTypeOK
    <3> QED
      BY <3>2, <3>3
  <2>6. /\ phase' \in Phases /\ returned' \in {"none", "ok", "error", "cancelled"}
        /\ reason' \in Reasons
    BY <1>4 DEF Sends, Unauthorized, Redirected, UpstreamFails, Interrupted,
                FollowPage, StepSucceeds, StepFails, Ends, ToolTypeOK, Phases, Reasons
  <2> QED
    BY <2>1, <2>2, <2>3, <2>4, <2>5, <2>6 DEF ToolTypeOK
<1>5. CASE Answer
  BY <1>5 DEF Answer, Ends, ToolTypeOK, Phases, Reasons
<1> QED
  BY <1>1, <1>2, <1>3, <1>4, <1>5 DEF ToolNext, Sends

\* A call runs only what was accepted, and ends when it goes wrong.
LEMMA SoundStep ==
    ASSUME ToolTypeOK, CallSound, ToolNext
    PROVE  CallSound'
BY DEF CallSound, ToolNext, Import, CallTool, MapArguments, ValueRefused, Unauthorized,
       Redirected, UpstreamFails, Interrupted, FollowPage, StepSucceeds, Answer,
       StepFails, Ends, DocumentAccepted

\* A reference the importer accepted after n steps resolves once they are
\* executed, unless it names an input the caller left out.
LEMMA RefResolves ==
    ASSUME NEW ref, RefAccepted(doc, ref, at - 1),
           ref.source = Input => ref.field \in supplied
    PROVE  Resolves(ref)
BY DEF RefAccepted, Resolves

\* A mapping fails only for an input that was left out.
LEMMA MappingStep ==
    ASSUME ToolTypeOK, CallSound, MappingsResolve, ToolNext
    PROVE  MappingsResolve'
<1>1. CASE MapArguments
  <2> SUFFICES ASSUME ~ Mappable
               PROVE  LeftOut
    BY <1>1 DEF MapArguments, CallSound, MappingsResolve, LeftOut
  <2>1. DocumentAccepted(doc) /\ at <= Len(doc.steps)
    BY <1>1 DEF MapArguments, CallSound
  <2>2. /\ at \in 1..Len(doc.steps)
        /\ Operation.required \subseteq DOMAIN Step.args
        /\ \A f \in DOMAIN Step.args : RefAccepted(doc, Step.args[f], at - 1)
    BY <2>1, StepFacts
  <2>3. \A f \in Mapped : Resolves(Step.args[f])
    BY <2>2, RefResolves DEF Mapped
  <2>4. PICK f \in Operation.required : f \notin Mapped
    BY <2>3 DEF Mappable
  <2>5. /\ f \in DOMAIN Step.args /\ Step.args[f].source = Input
        /\ Step.args[f].field \notin supplied
    BY <2>2, <2>4 DEF Mapped
  <2> QED
    BY <2>2, <2>5 DEF LeftOut, Step
<1>2. CASE Answer
  <2> SUFFICES ASSUME NEW ref \in doc.result, ~ Resolves(ref)
               PROVE  LeftOut
    BY <1>2 DEF Answer, Ends, MappingsResolve, LeftOut
  <2>1. DocumentAccepted(doc) /\ at - 1 = Len(doc.steps)
    BY <1>2 DEF Answer, CallSound, ToolTypeOK, IsDocument
  <2>2. RefAccepted(doc, ref, at - 1)
    BY <2>1 DEF DocumentAccepted
  <2>3. ref.source = Input /\ ref.field \notin supplied
    BY <2>2, RefResolves
  <2> QED
    BY <2>3 DEF LeftOut
<1>3. CASE \/ Import \/ \E S \in SUBSET doc.inputs : CallTool(S)
           \/ ValueRefused \/ Sends
  <2>1. reason' # "mapping"
    BY <1>3 DEF Import, CallTool, ValueRefused, Sends, Unauthorized, Redirected,
                UpstreamFails, Interrupted, FollowPage, StepSucceeds, StepFails, Ends,
                CallSound
  <2> QED
    BY <2>1 DEF MappingsResolve
<1> QED
  BY <1>1, <1>2, <1>3 DEF ToolNext, Sends

\* A write is counted once, or was bounced.
LEMMA WritesStep ==
    ASSUME ToolTypeOK, CallSound, WritesCounted, ToolNext
    PROVE  WritesCounted'
<1>0. accepted \in Nat /\ bounced \in Nat /\ accepted <= bounced + 1
  BY DEF ToolTypeOK, WritesCounted, WritesOnce
<1>1. CASE \/ Import \/ (\E S \in SUBSET doc.inputs : CallTool(S))
           \/ MapArguments \/ ValueRefused \/ Answer
  <2>1. /\ UNCHANGED <<doc, at, accepted, bounced>>
        /\ phase # "answered"
    BY <1>1 DEF Import, CallTool, MapArguments, ValueRefused, Answer
  <2> QED
    BY <2>1 DEF WritesCounted, WritesOnce, WrittenBefore
<1>2. CASE \/ Unauthorized \/ Redirected \/ UpstreamFails \/ Interrupted
           \/ FollowPage \/ StepSucceeds
  <2>1. /\ phase = "sending" /\ doc' = doc
        /\ DocumentAccepted(doc) /\ at <= Len(doc.steps) /\ Len(doc.steps) \in Nat
    BY <1>2 DEF Unauthorized, Redirected, UpstreamFails, Interrupted, FollowPage,
                StepSucceeds, CallSound, ToolTypeOK, IsDocument
  <2>2. /\ at \in 1..Len(doc.steps)
        /\ Operation.paged => ~ Operation.write
        /\ Operation.write <=> at \in WriteSteps(doc)
    BY <2>1, StepFacts
  <2>3. Operation.write => accepted <= bounced
    <3>1. Operation.write => ~ WrittenBefore
      BY <2>1, <2>2, OneWriteStep DEF WrittenBefore
    <3> QED
      BY <2>1, <3>1 DEF WritesCounted
  <2>4. CASE Unauthorized \/ Redirected
    <3>1. /\ at' = at
          /\ \/ UNCHANGED <<accepted, bounced>>
             \/ ActsOn /\ bounced' = bounced + (accepted' - accepted)
      BY <2>4 DEF Unauthorized, Redirected, MayBounce
    <3>2. /\ accepted' <= bounced' + 1
          /\ accepted <= bounced => accepted' <= bounced'
      BY <1>0, <3>1, ActsOnFacts
    <3> QED
      BY <2>1, <3>1, <3>2 DEF WritesCounted, WritesOnce, WrittenBefore
  <2>5. CASE UpstreamFails \/ Interrupted
    <3>1. /\ phase' = "answered" /\ bounced' = bounced
          /\ ActsOn \/ UNCHANGED accepted
      BY <2>5 DEF UpstreamFails, Interrupted, StepFails, Ends
    <3>2. accepted' <= bounced + 1
      BY <1>0, <2>3, <3>1, ActsOnFacts
    <3> QED
      BY <3>1, <3>2 DEF WritesCounted, WritesOnce
  <2>6. CASE FollowPage
    <3>1. at' = at /\ bounced' = bounced /\ accepted' = accepted
      BY <1>0, <2>2, <2>6, ActsOnFacts DEF FollowPage
    <3> QED
      BY <2>1, <3>1 DEF WritesCounted, WritesOnce, WrittenBefore
  <2>7. CASE StepSucceeds
    <3>1. at' = at + 1 /\ bounced' = bounced /\ ActsOn
      BY <2>7 DEF StepSucceeds
    <3>2. at < at' /\ \A i \in 1..Len(doc.steps) : i < at => i < at'
      BY <2>2, <3>1
    <3>3. WriteSteps(doc)' = WriteSteps(doc) /\ WriteSteps(doc) \subseteq 1..Len(doc.steps)
      BY <2>1 DEF WriteSteps
    <3>4. CASE Operation.write
      <4>1. WrittenBefore'
        BY <2>2, <3>2, <3>3, <3>4 DEF WrittenBefore
      <4>2. accepted' <= bounced + 1
        BY <1>0, <2>3, <3>1, <3>4, ActsOnFacts
      <4> QED
        BY <3>1, <4>1, <4>2 DEF WritesCounted, WritesOnce
    <3>5. CASE ~ Operation.write
      <4>1. accepted' = accepted
        BY <1>0, <3>1, <3>5, ActsOnFacts
      <4>2. WrittenBefore => WrittenBefore'
        BY <3>2, <3>3 DEF WrittenBefore
      <4> QED
        BY <2>1, <3>1, <4>1, <4>2 DEF WritesCounted, WritesOnce
    <3> QED
      BY <3>4, <3>5
  <2> QED
    BY <1>2, <2>4, <2>5, <2>6, <2>7
<1> QED
  BY <1>1, <1>2 DEF ToolNext

\* What the audit events of a step are, case by case.
AuditOf(i) ==
    /\ i < at => audits[i] = <<"ok">>
    /\ i = at /\ reason \notin {"none", "arguments"} => audits[i] = <<"error">>
    /\ i = at /\ reason \in {"none", "arguments"} => audits[i] = <<>>
    /\ i > at => audits[i] = <<>>

LEMMA AuditCases ==
    ToolTypeOK => (StepsAudited <=> \A i \in 1..Len(doc.steps) : AuditOf(i))
<1> SUFFICES ASSUME ToolTypeOK
             PROVE  StepsAudited <=> \A i \in 1..Len(doc.steps) : AuditOf(i)
  OBVIOUS
<1>1. DOMAIN audits = 1..Len(doc.steps) /\ reason \in Reasons /\ at \in Nat
  BY DEF ToolTypeOK, IsDocument
<1> QED
  BY <1>1 DEF StepsAudited, AuditOf

\* The first audit event of a step.
LEMMA FirstEvent == \A status : Append(<<>>, status) = <<status>>
OBVIOUS

\* Every entered step leaves one audit event.
LEMMA AuditStep ==
    ASSUME ToolTypeOK, ToolTypeOK', CallSound, StepsAudited, ToolNext
    PROVE  StepsAudited'
<1>0. doc' = doc /\ Len(doc.steps) \in Nat /\ at \in Nat /\ at' \in Nat
  <2>1. doc' = doc
    BY DEF ToolNext, Import, CallTool, MapArguments, ValueRefused, Unauthorized,
           Redirected, UpstreamFails, Interrupted, FollowPage, StepSucceeds, Answer
  <2> QED
    BY <2>1 DEF ToolTypeOK, IsDocument
<1>1. \A i \in 1..Len(doc.steps) : AuditOf(i)
  BY AuditCases
<1> SUFFICES ASSUME NEW i \in 1..Len(doc.steps)
             PROVE  AuditOf(i)'
  <2>1. (ToolTypeOK => (StepsAudited <=> \A i \in 1..Len(doc.steps) : AuditOf(i)))'
    BY AuditCases, PTL
  <2> QED
    BY <1>0, <2>1
<1> USE DEF AuditOf
<1>2. CASE UNCHANGED <<at, audits>> /\ reason' \in {reason, "arguments"} /\ reason = "none"
  BY <1>1, <1>2
<1>3. CASE Audited("error") /\ at' = at /\ at \in 1..Len(doc.steps)
           /\ reason = "none" /\ reason' \notin {"none", "arguments"}
  <2>1. /\ audits'[at] = Append(audits[at], "error")
        /\ \A j \in 1..Len(doc.steps) : j # at => audits'[j] = audits[j]
    BY <1>0, <1>3, AuditTyped
  <2>2. audits'[at] = <<"error">>
    BY <1>0, <1>1, <1>3, <2>1, FirstEvent
  <2> QED
    BY <1>0, <1>1, <1>3, <2>1, <2>2
<1>4. CASE Audited("ok") /\ at' = at + 1 /\ at \in 1..Len(doc.steps)
           /\ reason = "none" /\ reason' = "none"
  <2>1. /\ audits'[at] = Append(audits[at], "ok")
        /\ \A j \in 1..Len(doc.steps) : j # at => audits'[j] = audits[j]
    BY <1>0, <1>4, AuditTyped
  <2>2. audits'[at] = <<"ok">>
    BY <1>0, <1>1, <1>4, <2>1, FirstEvent
  <2> QED
    BY <1>0, <1>1, <1>4, <2>1, <2>2
<1>5. CASE UNCHANGED <<at, audits>> /\ at = Len(doc.steps) + 1
  BY <1>0, <1>1, <1>5
<1>6. reason = "none"
  BY DEF CallSound, ToolNext, Import, CallTool, MapArguments, ValueRefused, Unauthorized,
         Redirected, UpstreamFails, Interrupted, FollowPage, StepSucceeds, Answer
<1>7. phase \in {"mapping", "sending"} /\ at <= Len(doc.steps) => at \in 1..Len(doc.steps)
  BY <1>0 DEF ToolTypeOK
<1>8. CASE Import \/ \E S \in SUBSET doc.inputs : CallTool(S)
  BY <1>2, <1>6, <1>8 DEF Import, CallTool, Ends
<1>9. CASE MapArguments \/ ValueRefused
  BY <1>2, <1>3, <1>6, <1>7, <1>9 DEF MapArguments, ValueRefused, StepFails, Ends
<1>10. CASE Unauthorized \/ Redirected \/ UpstreamFails \/ Interrupted \/ FollowPage
  <2>1. at \in 1..Len(doc.steps)
    BY <1>7, <1>10 DEF CallSound, Unauthorized, Redirected, UpstreamFails, Interrupted, FollowPage
  <2> QED
    BY <1>2, <1>3, <1>6, <1>10, <2>1
       DEF Unauthorized, Redirected, UpstreamFails, Interrupted, FollowPage, StepFails, Ends
<1>11. CASE StepSucceeds
  BY <1>4, <1>6, <1>7, <1>11 DEF StepSucceeds, CallSound
<1>12. CASE Answer
  BY <1>5, <1>12 DEF Answer
<1> QED
  BY <1>8, <1>9, <1>10, <1>11, <1>12 DEF ToolNext

LEMMA ToolInvInit == ToolInit => ToolInv
<1> SUFFICES ASSUME ToolInit
             PROVE  ToolInv
  OBVIOUS
<1>1. IsDocument(doc) /\ Len(doc.steps) \in Nat
  BY ToolConstants DEF ToolInit, IsDocument
<1>2. ToolTypeOK
  <2>1. <<>> \in Seq({"ok", "error"})
    BY EmptySeq
  <2>2. audits \in [1..Len(doc.steps) -> Seq({"ok", "error"})]
    BY <2>1 DEF ToolInit
  <2>3. /\ at \in 1..Len(doc.steps) + 1 /\ page \in 1..MaxPageCount
        /\ hops \in 0..MaxRedirects
    BY <1>1, ToolConstants DEF ToolInit
  <2> QED
    BY <1>1, <2>2, <2>3 DEF ToolInit, ToolTypeOK, Phases, Reasons
<1>3. CallSound /\ MappingsResolve /\ WritesCounted
  BY DEF ToolInit, CallSound, MappingsResolve, WritesCounted, WritesOnce
<1>4. StepsAudited
  <2>1. \A i \in 1..Len(doc.steps) : AuditOf(i)
    BY <1>1 DEF ToolInit, AuditOf
  <2> QED
    BY <1>2, <2>1, AuditCases
<1> QED
  BY <1>2, <1>3, <1>4 DEF ToolInv

LEMMA ToolInvStep == ToolInv /\ [ToolNext]_toolVars => ToolInv'
<1> SUFFICES ASSUME ToolInv, [ToolNext]_toolVars
             PROVE  ToolInv'
  OBVIOUS
<1>1. CASE ToolNext
  BY <1>1, ToolTyped, SoundStep, MappingStep, WritesStep, AuditStep DEF ToolInv
<1>2. CASE UNCHANGED toolVars
  BY <1>2 DEF toolVars, ToolInv, ToolTypeOK, CallSound, MappingsResolve, LeftOut,
              WritesCounted, WritesOnce, WrittenBefore, StepsAudited
<1> QED
  BY <1>1, <1>2

LEMMA ToolInvHolds == ToolSpec => []ToolInv
BY ToolInvInit, ToolInvStep, PTL DEF ToolSpec

\* Every variable of a call keeps its type.
THEOREM ToolTypeCorrect == ToolSpec => []ToolTypeOK
<1>1. ToolInv => ToolTypeOK
  BY DEF ToolInv
<1> QED
  BY <1>1, ToolInvHolds, PTL

\* Whatever the document, if the importer accepts it, a call of its tool fails
\* to map a value only for an optional input its caller left out.
THEOREM MappingsAlwaysResolve == ToolSpec => []MappingsResolve
<1>1. ToolInv => MappingsResolve
  BY DEF ToolInv
<1> QED
  BY <1>1, ToolInvHolds, PTL

\* However the upstream answers, a call makes it act on a write once, and once
\* more for each write it answers with a redirect or with a 401.
THEOREM WritesAtMostOnce == ToolSpec => []WritesOnce
<1>1. ToolInv => WritesOnce
  BY DEF ToolInv, WritesCounted
<1> QED
  BY <1>1, ToolInvHolds, PTL

\* Every step a call has entered leaves one audit event of its outcome.
THEOREM StepsAlwaysAudited == ToolSpec => []StepsAudited
<1>1. ToolInv => StepsAudited
  BY DEF ToolInv
<1> QED
  BY <1>1, ToolInvHolds, PTL

\* A caller that passes every input the tool declares never meets a value that
\* cannot be mapped.
THEOREM FullCallsMap == ToolSpec => [](supplied = doc.inputs => reason # "mapping")
<1>1. ASSUME ToolInv, supplied = doc.inputs, reason = "mapping"
      PROVE  FALSE
  <2>1. DocumentAccepted(doc) /\ LeftOut
    BY <1>1 DEF ToolInv, CallSound, MappingsResolve
  <2>2. \A ref \in doc.result : ref.source = Input => ref.field \in supplied
    BY <1>1, <2>1 DEF DocumentAccepted, RefAccepted
  <2>3. \A i \in 1..Len(doc.steps) : \A f \in DOMAIN doc.steps[i].args :
            doc.steps[i].args[f].source = Input => doc.steps[i].args[f].field \in supplied
    BY <1>1, <2>1 DEF DocumentAccepted, StepAccepted, RefAccepted
  <2> QED
    BY <2>1, <2>2, <2>3 DEF LeftOut
<1>2. ToolInv => (supplied = doc.inputs => reason # "mapping")
  BY <1>1
<1> QED
  BY <1>2, ToolInvHolds, PTL

\* A document that composes no tool: its tool is the one of an operation.
ComposesNone(d) == \E ops, o, id, oauth : d = SingleOperationTool(ops, o, id, oauth)

\* Such a tool needs of its caller what its operation needs, and never fails
\* to map a value.
DerivedInv ==
    /\ phase \in {"mapping", "sending"} => doc.required \subseteq supplied
    /\ ComposesNone(doc) => reason # "mapping"

\* The parts of the tool of an operation.
LEMMA SingleFacts ==
    ASSUME IsDocument(doc), DocumentAccepted(doc), ComposesNone(doc)
    PROVE  /\ Len(doc.steps) = 1
           /\ doc.steps[1].id # Input
           /\ doc.ops[doc.steps[1].op].required = doc.required
           /\ DOMAIN doc.steps[1].args = doc.inputs
           /\ \A f \in doc.inputs : doc.steps[1].args[f] = [source |-> Input, field |-> f]
           /\ \A ref \in doc.result : /\ ref.source = doc.steps[1].id
                                      /\ ref.field \in doc.steps[1].outputs
<1>1. PICK ops, o, id, oauth : doc = SingleOperationTool(ops, o, id, oauth)
  BY DEF ComposesNone
<1>2. /\ doc.ops = ops /\ Len(doc.steps) = 1
      /\ doc.steps[1] = [id |-> id, op |-> o, outputs |-> ops[o].outputs,
                         args |-> [f \in ops[o].inputs |-> [source |-> Input, field |-> f]]]
      /\ doc.inputs = ops[o].inputs /\ doc.required = ops[o].required
      /\ doc.result = [source : {id}, field : ops[o].outputs]
  BY <1>1 DEF SingleOperationTool
<1>3. doc.steps[1].id \in StepIds
  BY <1>2 DEF IsDocument, IsStep
<1> QED
  BY <1>2, <1>3, ToolConstants

LEMMA DerivedStep ==
    ASSUME ToolInv, DerivedInv, ToolNext
    PROVE  DerivedInv'
<1>1. ToolTypeOK /\ CallSound /\ IsDocument(doc)
  BY DEF ToolInv, ToolTypeOK
<1>2. doc' = doc
  BY DEF ToolNext, Import, CallTool, MapArguments, ValueRefused, Unauthorized,
         Redirected, UpstreamFails, Interrupted, FollowPage, StepSucceeds, Answer
<1>3. phase' \in {"mapping", "sending"} => doc.required \subseteq supplied'
  BY DEF DerivedInv, ToolNext, Import, CallTool, MapArguments, ValueRefused, Unauthorized,
         Redirected, UpstreamFails, Interrupted, FollowPage, StepSucceeds, Answer, StepFails, Ends
<1>4. ASSUME ComposesNone(doc)
      PROVE  reason' # "mapping"
  <2>1. CASE MapArguments
    <3>1. /\ at = 1 /\ DocumentAccepted(doc) /\ doc.required \subseteq supplied
          /\ doc.required \subseteq doc.inputs
      BY <1>1, <1>4, <2>1, SingleFacts
         DEF MapArguments, CallSound, DerivedInv, ToolTypeOK, DocumentAccepted
    <3>2. /\ Step = doc.steps[1] /\ Operation.required = doc.required
          /\ DOMAIN Step.args = doc.inputs
          /\ \A f \in doc.inputs : Step.args[f].source = Input /\ Step.args[f].field = f
      <4>1. Step = doc.steps[1]
        BY <3>1 DEF Step
      <4>2. Operation = doc.ops[doc.steps[1].op]
        BY <4>1 DEF Operation
      <4>3. /\ doc.ops[doc.steps[1].op].required = doc.required
            /\ DOMAIN doc.steps[1].args = doc.inputs
            /\ \A f \in doc.inputs : doc.steps[1].args[f] = [source |-> Input, field |-> f]
        BY <1>1, <1>4, <3>1, SingleFacts, Zenon
      <4>4. \A f \in doc.inputs : /\ doc.steps[1].args[f].source = Input
                                 /\ doc.steps[1].args[f].field = f
        <5> TAKE f \in doc.inputs
        <5>1. doc.steps[1].args[f] = [source |-> Input, field |-> f]
          BY <4>3, Zenon
        <5> QED
          BY <5>1
      <4> QED
        BY <4>1, <4>2, <4>3, <4>4, Zenon
    <3>3. Mapped = {f \in doc.inputs : f \in supplied}
      BY <3>2 DEF Mapped
    <3>4. Mappable
      BY <3>1, <3>2, <3>3 DEF Mappable, Resolves
    <3> QED
      BY <1>4, <2>1, <3>4 DEF MapArguments, DerivedInv
  <2>2. CASE Answer
    <3>1. at = Len(doc.steps) + 1 /\ DocumentAccepted(doc)
      BY <1>1, <2>2 DEF Answer, CallSound
    <3>2. Len(doc.steps) = 1
      BY <1>1, <1>4, <3>1, SingleFacts, Zenon
    <3>3. \A ref \in doc.result : /\ ref.source # Input
                                  /\ ref.source = doc.steps[1].id
                                  /\ ref.field \in doc.steps[1].outputs
      BY <1>1, <1>4, <3>1, SingleFacts, Zenon
    <3>4. \A ref \in doc.result : Resolves(ref)
      BY <3>1, <3>2, <3>3 DEF Resolves
    <3> QED
      BY <2>2, <3>4 DEF Answer, Ends
  <2> QED
    BY <1>4, <2>1, <2>2
       DEF DerivedInv, ToolNext, Import, CallTool, ValueRefused, Unauthorized,
           Redirected, UpstreamFails, Interrupted, FollowPage, StepSucceeds, StepFails, Ends
<1> QED
  BY <1>2, <1>3, <1>4 DEF DerivedInv

\* The tool the importer derives from an operation of a document that composes
\* none always maps: a caller may leave out whatever the operation does not
\* require.
THEOREM DerivedToolsMap == ToolSpec => [](ComposesNone(doc) => reason # "mapping")
<1>1. ToolInit => DerivedInv
  BY DEF ToolInit, DerivedInv
<1>2. ToolInv /\ DerivedInv /\ [ToolNext]_toolVars => DerivedInv'
  <2>1. ToolInv /\ DerivedInv /\ UNCHANGED toolVars => DerivedInv'
    BY DEF toolVars, DerivedInv
  <2> QED
    BY <2>1, DerivedStep
<1>3. DerivedInv => (ComposesNone(doc) => reason # "mapping")
  BY DEF DerivedInv
<1> QED
  BY <1>1, <1>2, <1>3, ToolInvHolds, PTL DEF ToolSpec
=============================================================================
