-------------------------- MODULE MCDeclarativeTool --------------------------
(* Small documents for DeclarativeTool: two steps over three operations.   *)
EXTENDS DeclarativeTool, TLC

CONSTANTS s1, s2, get, list, put, itemId, memo, content

\* A read of one item, a paged read, and a write with an optional input.
MCOps ==
    [o \in {get, list, put} |->
        [inputs   |-> CASE o = get  -> {itemId}
                        [] o = list -> {}
                        [] o = put  -> {itemId, memo},
         required |-> IF o = list THEN {} ELSE {itemId},
         outputs  |-> {content},
         write    |-> o = put,
         enabled  |-> TRUE,
         paged    |-> o = list]]

Ref(source, field) == [source |-> source, field |-> field]

\* References to a declared input, to an output of an earlier or a later step
\* and to something no step declares.
MCRefs ==
    {Ref(Input, itemId), Ref(Input, memo), Ref(s1, content), Ref(s2, content), Ref(s1, memo)}

MCArgs(o) ==
    CASE o = get  -> {<<>>} \cup [{itemId} -> MCRefs]
      [] o = list -> {<<>>}
      [] o = put  -> {<<>>} \cup
                     [{itemId, memo} -> {Ref(Input, itemId), Ref(Input, memo), Ref(s1, content)}]

MCStep(i, o, a) == [id |-> i, op |-> o, args |-> a, outputs |-> {content}]

MCStepsOf(i) == UNION {{MCStep(i, o, a) : a \in MCArgs(o)} : o \in {get, list, put}}

MCResults == {{Ref(s1, content)}, {Ref(s2, content)}, {Ref(s1, content), Ref(Input, memo)}}

MCDocument(ops, steps, required, result, oauth) ==
    [ops |-> ops, steps |-> steps, inputs |-> {itemId, memo}, required |-> required,
     result |-> result, oauth |-> oauth]

MCPlain ==
    {MCDocument(MCOps, <<a>>, q, r, TRUE) :
        a \in MCStepsOf(s1), q \in {{}, {itemId}}, r \in MCResults}

\* Two steps: the first reads or writes, the second is any.
MCFirst ==
    {MCStep(s1, get, itemId :> Ref(Input, itemId)), MCStep(s1, get, itemId :> Ref(s2, content)),
     MCStep(s1, list, <<>>),
     MCStep(s1, put, (itemId :> Ref(Input, itemId)) @@ (memo :> Ref(Input, memo)))}

MCComposed ==
    {MCDocument(MCOps, <<a, b>>, {itemId}, r, FALSE) :
        a \in MCFirst, b \in MCStepsOf(s1) \cup MCStepsOf(s2),
        r \in {{Ref(s2, content)}, {Ref(s1, content), Ref(Input, memo)}}}

\* Documents that compose no tool, with writes the importer must refuse.
MCSingle ==
    {SingleOperationTool([MCOps EXCEPT ![put].enabled = e, ![put].paged = p],
                         o, s1, a) :
        o \in {get, list, put}, e \in BOOLEAN, p \in BOOLEAN, a \in BOOLEAN}

MCDocuments == MCPlain \cup MCComposed \cup MCSingle

=============================================================================
