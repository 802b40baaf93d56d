--------------------------- MODULE MCConnectionSync ---------------------------
(* Small upstreams for ConnectionSync. *)
EXTENDS ConnectionSync

Two == <<"keyed", "keyed">>
One == <<"keyed">>
Odd == <<"unkeyed", "keyed">>

MCUpstream(pages, forms, endless, paged, declared, configured) ==
    [pages |-> pages, endless |-> endless, paged |-> paged,
     forms |-> [p \in 1..Len(pages) + 1 |-> IF p \in DOMAIN forms THEN forms[p] ELSE "short"],
     declared |-> declared, configured |-> configured]

Short == <<"short", "short", "short">>

MCUpstreams ==
    {MCUpstream(p, f, e, TRUE, "default", "default") :
        p \in {<<Two, Odd, One>>, <<One, One, One>>, <<One, <<>>, Two>>}, e \in BOOLEAN,
        f \in {Short, <<"short", "long">>, <<"short", "overlong">>, <<"short", "short", "long">>}}
    \cup {MCUpstream(<<Two, One>>, Short, FALSE, b, "own", c) :
            b \in BOOLEAN, c \in Resources}
=============================================================================
