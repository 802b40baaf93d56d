--------------------------- MODULE DeclarativeSync ---------------------------
(***************************************************************************)
(* The sync body of a declarative connector                                *)
(* (app/connectors/declarative/connector.py) and the records and page      *)
(* checkpoint it keeps (app/connections/store.py).                         *)
(*                                                                         *)
(* One connection and the one resource its document declares.  A cursor is *)
(* the number of the page it names, 0 for none; an item is its page and    *)
(* its place there.  The orchestrator that serialises runs is              *)
(* ConnectionSync.                                                         *)
(***************************************************************************)
EXTENDS Naturals, Sequences, FiniteSets

CONSTANTS
    Upstreams,  \* the upstreams and declarations considered
    Workers,    \* the tasks that may run a sync
    MaxPages,   \* x-pagination: pages of one run
    MaxItems,   \* x-pagination: items of one run
    MaxDisturbances     \* bound on failures, restarts and the like

Forms == {"short", "long", "overlong"}
Resources == {"default", "own"}

\* What the upstream has: its pages, each a sequence of items with or without
\* a usable key; the length of the cursor of each page (up to 255 characters,
\* up to 512, more); whether its last page names a cursor for what comes next;
\* whether the document pages the operation; the resource it declares and the
\* one the connection is configured to sync.
IsUpstream(u) ==
    /\ u.pages \in Seq(Seq({"keyed", "unkeyed"}))
    /\ Len(u.pages) > 0
    /\ u.forms \in [1..Len(u.pages) + 1 -> Forms]
    /\ u.endless \in BOOLEAN
    /\ u.paged \in BOOLEAN
    /\ u.declared \in Resources
    /\ u.configured \in Resources

ASSUME SyncConstants ==
    /\ \A u \in Upstreams : IsUpstream(u)
    /\ MaxPages \in Nat \ {0}
    /\ MaxItems \in Nat \ {0}
    /\ MaxDisturbances \in Nat

VARIABLES
    upstream,       \* what the connection points to
    published,      \* how many of its pages it has so far
    refusing,       \* it no longer accepts a cursor it has given
    records,        \* declarative_record
    cursor,         \* the page checkpoint of connection_sync_state
    run,            \* the sync of each worker
    cut,            \* items dropped from a page because the run had its fill
    disturbances    \* failures, restarts, edits and requests so far

dataVars == <<upstream, published, refusing>>
storeVars == <<records, cursor, cut>>
syncVars == <<dataVars, storeVars, run, disturbances>>

Pages == 1..Len(upstream.pages)
PageItems == UNION {{<<p, i>> : i \in DOMAIN upstream.pages[p]} : p \in Pages}
Keyed(item) == upstream.pages[item[1]][item[2]] = "keyed"

\* A run: its step, the page it is at, the pages and items it has taken, and
\* whether its page was there when it was fetched.
RunType ==
    [step : {"off", "fetch", "store", "save", "ok", "error"},
     page : 0..Len(upstream.pages) + 1, count : 0..MaxPages,
     pulled : 0..MaxItems, got : BOOLEAN]

Off == [step |-> "off", page |-> 0, count |-> 0, pulled |-> 0, got |-> FALSE]

SyncTypeOK ==
    /\ upstream \in Upstreams
    /\ published \in 0..Len(upstream.pages)
    /\ refusing \in BOOLEAN
    /\ records \subseteq PageItems
    /\ cut \subseteq PageItems
    /\ cursor \in 0..Len(upstream.pages) + 1
    /\ run \in [Workers -> RunType]
    /\ disturbances \in 0..MaxDisturbances

SyncInit ==
    /\ upstream \in Upstreams
    /\ published \in (IF upstream.endless THEN {0} ELSE {Len(upstream.pages)})
    /\ refusing = FALSE
    /\ records = {}
    /\ cursor = 0
    /\ run = [w \in Workers |-> Off]
    /\ cut = {}
    /\ disturbances = 0

Disturb ==
    /\ disturbances < MaxDisturbances
    /\ disturbances' = disturbances + 1

-----------------------------------------------------------------------------
(* One run.                                                                *)

\* The page the saved cursor leads to.  A cursor is saved up to the length the
\* upstream may give it but read back as if it were a record key.
FirstPage ==
    IF cursor = 0 \/ upstream.forms[cursor] = "long" THEN 1 ELSE cursor

\* The page the answer of w's page names: none after the last one, or if the
\* cursor is too long to be followed.  An endless feed repeats the cursor of
\* a page it does not have yet.
NextPage(w) ==
    LET p == IF run[w].got THEN run[w].page + 1 ELSE run[w].page IN
    IF p \in Pages \/ upstream.endless
    THEN IF upstream.forms[p] = "overlong" THEN 0 ELSE p
    ELSE 0

SyncBegin(w, resource) ==
    /\ run[w].step = "off"
    /\ run' = [run EXCEPT ![w] =
                 IF resource # upstream.declared THEN [Off EXCEPT !.step = "error"]
                 ELSE [Off EXCEPT !.step = "fetch", !.count = 1,
                                  !.page = IF upstream.paged THEN FirstPage ELSE 1]]
    /\ UNCHANGED <<dataVars, storeVars, disturbances>>

FetchPage(w) ==
    /\ run[w].step = "fetch"
    /\ ~ (refusing /\ run[w].page > 1)
    /\ run' = [run EXCEPT ![w].step = "store",
                          ![w].got = run[w].page <= published]
    /\ UNCHANGED <<dataVars, storeVars, disturbances>>

Fails(w) == run' = [run EXCEPT ![w].step = "error"]

\* The upstream refuses the cursor, cannot be reached or answers with
\* something else; the time of the run is over.
FetchFails(w) ==
    /\ run[w].step = "fetch"
    /\ \/ refusing /\ run[w].page > 1 /\ UNCHANGED disturbances
       \/ Disturb
    /\ Fails(w)
    /\ UNCHANGED <<dataVars, storeVars>>

Fetched(w) == IF run[w].got THEN upstream.pages[run[w].page] ELSE <<>>

\* How many of the fetched items the run still takes.
Taken(w) ==
    LET size == Len(Fetched(w))
        room == MaxItems - run[w].pulled
    IN  IF upstream.paged /\ size > room THEN room ELSE size

\* One transaction: the items within the limit that have a key.
StorePage(w) ==
    /\ run[w].step = "store"
    /\ LET p == run[w].page
           kept == {<<p, i>> : i \in 1..Taken(w)}
           dropped == {<<p, i>> : i \in Taken(w) + 1..Len(Fetched(w))}
       IN  /\ records' = records \cup {e \in kept : Keyed(e)}
           /\ cut' = cut \cup dropped
    /\ run' = [run EXCEPT ![w].step = IF upstream.paged THEN "save" ELSE "ok",
                          ![w].pulled = IF upstream.paged THEN @ + Taken(w) ELSE @]
    /\ UNCHANGED <<dataVars, cursor, disturbances>>

\* Variant: a write that fails is taken for one that stored nothing.
StoreFailsUnnoticed(w) ==
    /\ run[w].step = "store"
    /\ Disturb
    /\ run' = [run EXCEPT ![w].step = "save"]
    /\ UNCHANGED <<dataVars, storeVars>>

StoreFails(w) ==
    /\ run[w].step = "store"
    /\ Disturb
    /\ Fails(w)
    /\ UNCHANGED <<dataVars, storeVars>>

\* The run goes on to the next page unless it has its fill of items or pages.
Continues(w) ==
    /\ NextPage(w) # 0
    /\ run[w].pulled < MaxItems
    /\ Fetched(w) # <<>>
    /\ run[w].count < MaxPages

Advanced(w) ==
    run' = [run EXCEPT ![w] =
              IF Continues(w)
              THEN [run[w] EXCEPT !.step = "fetch", !.page = NextPage(w), !.count = @ + 1]
              ELSE [run[w] EXCEPT !.step = "ok"]]

\* Variant: the checkpoint is written only at the end of a traversal.
SaveCursorAtEnd(w) ==
    /\ run[w].step = "save"
    /\ cursor' = IF NextPage(w) = 0 THEN 0 ELSE cursor
    /\ Advanced(w)
    /\ UNCHANGED <<dataVars, records, cut, disturbances>>

SaveCursor(w) ==
    /\ run[w].step = "save"
    /\ cursor' = NextPage(w)
    /\ Advanced(w)
    /\ UNCHANGED <<dataVars, records, cut, disturbances>>

SaveFails(w) ==
    /\ run[w].step = "save"
    /\ Disturb
    /\ Fails(w)
    /\ UNCHANGED <<dataVars, storeVars>>

SyncStep(w) ==
    FetchPage(w) \/ FetchFails(w) \/ StorePage(w) \/ StoreFails(w)
    \/ SaveCursor(w) \/ SaveFails(w)

\* The feed gets a page more, or starts to refuse the cursors it has given.
Publish ==
    /\ published < Len(upstream.pages)
    /\ published' = published + 1
    /\ UNCHANGED <<upstream, refusing, storeVars, run, disturbances>>

RefuseCursors ==
    /\ upstream.paged
    /\ ~ refusing
    /\ Disturb
    /\ refusing' = TRUE
    /\ UNCHANGED <<upstream, published, storeVars, run>>

-----------------------------------------------------------------------------
(* What the checkpoint means.                                              *)

\* Everything before the saved cursor is stored or was cut off by the limit
\* of items, through failures, restarts and concurrent runs.
NothingSkipped ==
    \A e \in PageItems : e[1] < cursor /\ Keyed(e) => e \in records \cup cut

\* The same without the exception, as _sync_paginated has it: a run resumes
\* at the first page that is not known to be stored.
SavedPageIsStored == \A e \in PageItems : e[1] < cursor /\ Keyed(e) => e \in records

\* A checkpoint is never set back by a run that was overtaken: it moves on, or
\* is cleared by a run that has seen the last page, or replaces one that
\* cannot be read back.
CursorMonotone ==
    [][\/ cursor' >= cursor
       \/ cursor' = 0
       \/ upstream.forms[cursor] = "long"]_syncVars

=============================================================================
