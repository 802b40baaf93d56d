----------------------------- MODULE SharedLoad -----------------------------
(***************************************************************************)
(* What a cache that collapses concurrent misses promises its callers, and *)
(* ConnectionCache implements: a key is loaded by one call at a time, the  *)
(* calls that come meanwhile are told how that very load ended, and a      *)
(* result that may not be shared reaches nobody but the call that loaded   *)
(* it.  Entries, time and invalidation do not appear: they decide which    *)
(* of the results that may be shared is still at hand.                     *)
(***************************************************************************)
CONSTANTS
    Calls,      \* each asks once
    Keys,       \* what can be loaded for several calls
    NoCall,     \* no call
    NoKey       \* the key of a call that must load for itself

VARIABLES
    stage,      \* where a call stands
    key,        \* what it asked for
    of,         \* the load a waiting call waits for
    outcome,    \* how the load of a call ended
    value       \* the load whose result a call returned

loadVars == <<stage, key, of, outcome, value>>

LoadInit ==
    /\ stage = [c \in Calls |-> "out"]
    /\ key = [c \in Calls |-> NoKey]
    /\ of = [c \in Calls |-> NoCall]
    /\ outcome = [c \in Calls |-> "none"]
    /\ value = [c \in Calls |-> NoCall]

Moves(c, from, to) == stage[c] = from /\ stage' = [stage EXCEPT ![c] = to]

Asks(c, k) == key' = [key EXCEPT ![c] = k]

Loads(o, k) == stage[o] = "loading" /\ key[o] = k

\* Nothing is shared.
LoadAlone(c) ==
    /\ Moves(c, "out", "alone")
    /\ UNCHANGED <<key, of, outcome, value>>

\* An earlier result is still at hand.
Recall(c, k) ==
    /\ Moves(c, "out", "done") /\ Asks(c, k)
    /\ \E o \in Calls :
          /\ outcome[o] = "shared" /\ key[o] = k
          /\ value' = [value EXCEPT ![c] = o]
    /\ UNCHANGED <<of, outcome>>

Load(c, k) ==
    /\ \A o \in Calls : ~ Loads(o, k)
    /\ Moves(c, "out", "loading") /\ Asks(c, k)
    /\ UNCHANGED <<of, outcome, value>>

Wait(c, k) ==
    /\ Moves(c, "out", "waiting") /\ Asks(c, k)
    /\ \E o \in Calls : Loads(o, k) /\ of' = [of EXCEPT ![c] = o]
    /\ UNCHANGED <<outcome, value>>

\* The call that loads is the only one that ends the load.
EndLoad(c) ==
    /\ Moves(c, "loading", "done")
    /\ \E end \in {"shared", "private", "failed", "cancelled"} :
          /\ outcome' = [outcome EXCEPT ![c] = end]
          /\ value' = IF end \in {"shared", "private"} THEN [value EXCEPT ![c] = c] ELSE value
    /\ UNCHANGED <<key, of>>

\* A waiting call is told how the load it waits for ended.
Learn(c) ==
    /\ \/ /\ Moves(c, "waiting", "done") /\ outcome[of[c]] = "shared"
          /\ value' = [value EXCEPT ![c] = of[c]]
       \/ /\ Moves(c, "waiting", "alone") /\ outcome[of[c]] = "private"
          /\ UNCHANGED value
       \/ /\ Moves(c, "waiting", "done") /\ outcome[of[c]] \in {"failed", "cancelled"}
          /\ UNCHANGED value
    /\ UNCHANGED <<key, of, outcome>>

\* A waiting call may give up; nobody else notices.
GiveUp(c) ==
    /\ Moves(c, "waiting", "done")
    /\ UNCHANGED <<key, of, outcome, value>>

EndAlone(c) ==
    /\ Moves(c, "alone", "done")
    /\ value' \in {value, [value EXCEPT ![c] = c]}
    /\ UNCHANGED <<key, of, outcome>>

LoadNext ==
    \E c \in Calls :
        \/ \E k \in Keys : Recall(c, k) \/ Load(c, k) \/ Wait(c, k)
        \/ LoadAlone(c) \/ EndLoad(c) \/ Learn(c) \/ GiveUp(c) \/ EndAlone(c)

SharedLoadSpec == LoadInit /\ [][LoadNext]_loadVars

=============================================================================
