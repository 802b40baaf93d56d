--------------------------- MODULE MCMcpServices ---------------------------
(* A small instance of McpServices.  Calls, a second page and the copies of *)
(* a start need not come together to go wrong: a behaviour has one of them. *)
EXTENDS McpServices, TLC

Reading == {e \in Editors : edits[e] # Nothing}
Issued == {k \in Tokens : tokens[k] # Nothing}

Idle == \A c \in Calls : stage[c] = "idle"
NothingCopied == \A t \in Tenants : legacy[t] = Nothing

Few ==
    \/ NothingCopied /\ Cardinality(Reading) <= 1
    \/ NothingCopied /\ Idle /\ Cardinality(Issued) <= 1
    \/ Idle /\ Cardinality(Reading) <= 1

FewNext == Next /\ Few'

FewSpec == Init /\ [][FewNext]_vars

Symmetry == Permutations(Tenants) \cup Permutations(Connections)
            \cup Permutations(Tokens) \cup Permutations(Editors)

=============================================================================
