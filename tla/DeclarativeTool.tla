--------------------------- MODULE DeclarativeTool ---------------------------
(***************************************************************************)
(* A composed tool of an imported OpenAPI document: what the importer      *)
(* accepts (app/connectors/declarative/models.py and validator.py) and how *)
(* the connector executes one call of it (connector.py).                   *)
(*                                                                         *)
(* A value is reduced to where it comes from.  A reference names a tool    *)
(* input or an output of a step; a request is complete if every input its  *)
(* operation requires has arrived.  Types, sizes, paths and hosts of a     *)
(* document are left out of the importer's checks, so a value may still be *)
(* refused when a request is built from it (ValueRefused).                 *)
(***************************************************************************)
EXTENDS Naturals, Sequences, FiniteSets

CONSTANTS
    Documents,  \* what may be handed to the importer
    StepIds,
    Operations,
    Fields,     \* names of inputs and outputs
    MaxSteps,   \* MAX_TOOL_STEPS
    MaxPageCount,   \* MAX_PAGE_COUNT
    MaxRedirects,   \* redirects the HTTP client follows for one request
    Input       \* the source of a reference to a tool input

\* A reference: $input.<field> or $steps.<source>.<field>.
Refs == [source : {Input} \cup StepIds, field : Fields]

\* An operation of a document: what it needs, what it selects from an answer,
\* and whether the document declares it a write, enables it and pages it.
OperationType ==
    [inputs : SUBSET Fields, required : SUBSET Fields, outputs : SUBSET Fields,
     write : BOOLEAN, enabled : BOOLEAN, paged : BOOLEAN]

\* The tool of an operation in a document that composes none: one step that
\* passes every input on and returns every output.
SingleOperationTool(ops, o, id, oauth) ==
    [ops |-> ops,
     steps |-> << [id |-> id, op |-> o, outputs |-> ops[o].outputs,
                   args |-> [f \in ops[o].inputs |->
                               [source |-> Input, field |-> f]]] >>,
     inputs |-> ops[o].inputs,
     required |-> ops[o].required,
     result |-> [source : {id}, field : ops[o].outputs],
     oauth |-> oauth]

\* A step calls an operation with the values of its references and names the
\* outputs later steps may use.
IsStep(s) ==
    /\ s.id \in StepIds
    /\ s.op \in Operations
    /\ DOMAIN s.args \subseteq Fields
    /\ \A f \in DOMAIN s.args : s.args[f] \in Refs
    /\ s.outputs \subseteq Fields

\* A document: its operations, the steps of its tool, the inputs the tool
\* declares and requires, the references of its result, and whether its
\* requests carry an OAuth token.
IsDocument(d) ==
    /\ DOMAIN d.ops \subseteq Operations
    /\ \A o \in DOMAIN d.ops : d.ops[o] \in OperationType
    /\ Len(d.steps) \in Nat
    /\ \A i \in 1..Len(d.steps) : IsStep(d.steps[i])
    /\ d.inputs \subseteq Fields
    /\ d.required \subseteq Fields
    /\ d.result \subseteq Refs
    /\ d.oauth \in BOOLEAN

ASSUME ToolConstants ==
    /\ MaxSteps \in Nat \ {0}
    /\ MaxPageCount \in Nat \ {0}
    /\ MaxRedirects \in Nat
    /\ Input \notin StepIds
    /\ \A d \in Documents : IsDocument(d)

VARIABLES
    doc,        \* the document
    phase,      \* where the import or the call stands
    supplied,   \* the inputs the caller passed
    at,         \* the step being executed
    page,       \* the page of its operation being fetched
    renewed,    \* the request was already repeated with a new token
    hops,       \* redirects followed for the request
    audits,     \* the audit events of each step
    accepted,   \* requests of write operations the upstream has acted on
    bounced,    \* of these, those it answered with a redirect or a 401
    returned,   \* what the call returned
    reason      \* what an error goes back to

toolVars == <<doc, phase, supplied, at, page, renewed, hops, audits, accepted,
              bounced, returned, reason>>

-----------------------------------------------------------------------------
(* What the importer accepts.                                              *)

\* A read is a GET; a write must be enabled; only a read may be paged,
\* because traversing a write would repeat its effect once per page.
OperationAccepted(o) ==
    /\ o.write => o.enabled
    /\ o.paged => ~ o.write
    /\ o.outputs # {}

\* Variant: a reference may target a step that comes later.
RefAcceptedAnywhere(d, ref, n) ==
    IF ref.source = Input THEN ref.field \in d.inputs
    ELSE \E i \in 1..Len(d.steps) : /\ d.steps[i].id = ref.source
                                    /\ ref.field \in d.steps[i].outputs

\* A reference of what follows the first n steps.
RefAccepted(d, ref, n) ==
    IF ref.source = Input THEN ref.field \in d.inputs
    ELSE \E i \in 1..n : /\ d.steps[i].id = ref.source
                         /\ ref.field \in d.steps[i].outputs

\* The checks of a step against its operation and the steps before it.
StepAccepted(d, i) ==
    LET s == d.steps[i] IN
    /\ s.outputs # {}
    /\ s.op \in DOMAIN d.ops
    /\ DOMAIN s.args \subseteq d.ops[s.op].inputs
    /\ d.ops[s.op].required \subseteq DOMAIN s.args
    /\ s.outputs \subseteq d.ops[s.op].outputs
    /\ \A f \in DOMAIN s.args : RefAccepted(d, s.args[f], i - 1)

WriteSteps(d) == {i \in 1..Len(d.steps) : d.ops[d.steps[i].op].write}

\* Variant: a tool may write in several steps.
DocumentAcceptedManyWrites(d) ==
    /\ d.required \subseteq d.inputs
    /\ \A o \in DOMAIN d.ops : OperationAccepted(d.ops[o])
    /\ Len(d.steps) \in 1..MaxSteps
    /\ \A i, j \in 1..Len(d.steps) : d.steps[i].id = d.steps[j].id => i = j
    /\ \A i \in 1..Len(d.steps) : StepAccepted(d, i)
    /\ d.result # {}
    /\ \A ref \in d.result : RefAccepted(d, ref, Len(d.steps))

DocumentAccepted(d) ==
    /\ d.required \subseteq d.inputs
    /\ \A o \in DOMAIN d.ops : OperationAccepted(d.ops[o])
    /\ Len(d.steps) \in 1..MaxSteps
    /\ \A i, j \in 1..Len(d.steps) : d.steps[i].id = d.steps[j].id => i = j
    /\ \A i \in 1..Len(d.steps) : StepAccepted(d, i)
    /\ d.result # {}
    /\ \A ref \in d.result : RefAccepted(d, ref, Len(d.steps))
    /\ Cardinality(WriteSteps(d)) <= 1

-----------------------------------------------------------------------------
(* The import, and the start of a call.                                    *)

Phases == {"uploaded", "rejected", "ready", "mapping", "sending", "answered"}

Reasons == {"none", "arguments", "mapping", "value", "upstream", "timeout",
            "cancelled"}

ToolTypeOK ==
    /\ IsDocument(doc)
    /\ phase \in Phases
    /\ supplied \subseteq doc.inputs
    /\ at \in 1..Len(doc.steps) + 1
    /\ page \in 1..MaxPageCount
    /\ renewed \in BOOLEAN
    /\ hops \in 0..MaxRedirects
    /\ audits \in [1..Len(doc.steps) -> Seq({"ok", "error"})]
    /\ accepted \in Nat
    /\ bounced \in Nat
    /\ returned \in {"none", "ok", "error", "cancelled"}
    /\ reason \in Reasons

ToolInit ==
    /\ doc \in Documents
    /\ phase = "uploaded"
    /\ supplied = {}
    /\ at = 1
    /\ page = 1
    /\ renewed = FALSE
    /\ hops = 0
    /\ audits = [i \in 1..Len(doc.steps) |-> <<>>]
    /\ accepted = 0
    /\ bounced = 0
    /\ returned = "none"
    /\ reason = "none"

Import ==
    /\ phase = "uploaded"
    /\ phase' = IF DocumentAccepted(doc) THEN "ready" ELSE "rejected"
    /\ UNCHANGED <<doc, supplied, at, page, renewed, hops, audits, accepted,
                   bounced, returned, reason>>

\* The call ends with an error for the reason r; nothing else is reported.
Ends(outcome, r) ==
    /\ phase' = "answered"
    /\ returned' = outcome
    /\ reason' = r

\* The arguments are checked against the input schema of the tool: the lack
\* of a required input, an undeclared one or a value of another type is
\* refused before any step.
CallTool(S) ==
    /\ phase = "ready"
    /\ supplied' = S
    /\ \/ /\ doc.required \subseteq S
          /\ phase' = "mapping"
          /\ UNCHANGED <<returned, reason>>
       \/ Ends("error", "arguments")
    /\ UNCHANGED <<doc, at, page, renewed, hops, audits, accepted, bounced>>

-----------------------------------------------------------------------------
(* One step: its arguments, its requests, its audit event.                 *)

Step == doc.steps[at]
Operation == doc.ops[Step.op]

\* The value of a reference is there: the caller passed the input, or the
\* step it names has been executed and has that output.
Resolves(ref) ==
    IF ref.source = Input THEN ref.field \in supplied
    ELSE \E i \in 1..at - 1 : /\ doc.steps[i].id = ref.source
                              /\ ref.field \in doc.steps[i].outputs

\* An input the caller left out is left out of the request too.
Mapped ==
    {f \in DOMAIN Step.args :
        ~ (Step.args[f].source = Input /\ Step.args[f].field \notin supplied)}

\* Variant: a failed step is reported by the handler of the step and again
\* by the handler of the call.
AuditedTwice(status) ==
    audits' = [audits EXCEPT ![at] =
                  IF status = "ok" THEN Append(@, status)
                  ELSE @ \o <<status, status>>]

Audited(status) == audits' = [audits EXCEPT ![at] = Append(@, status)]

StepFails(r) ==
    /\ Audited("error")
    /\ Ends("error", r)

\* The arguments of the step resolve and the request they make is complete.
Mappable ==
    /\ \A f \in Mapped : Resolves(Step.args[f])
    /\ Operation.required \subseteq Mapped

MapArguments ==
    /\ phase = "mapping"
    /\ at <= Len(doc.steps)
    /\ IF Mappable
       THEN /\ phase' = "sending"
            /\ page' = 1
            /\ renewed' = FALSE
            /\ hops' = 0
            /\ UNCHANGED <<audits, returned, reason>>
       ELSE /\ StepFails("mapping")
            /\ UNCHANGED <<page, renewed, hops>>
    /\ UNCHANGED <<doc, supplied, at, accepted, bounced>>

\* A value does not fit the schema of the input it is mapped to: the
\* importer compares no types across a reference.
ValueRefused ==
    /\ phase = "mapping"
    /\ at <= Len(doc.steps)
    /\ Mappable
    /\ Mapped # {}
    /\ StepFails("value")
    /\ UNCHANGED <<doc, supplied, at, page, renewed, hops, accepted, bounced>>

\* The upstream acts on the request.
ActsOn == accepted' = accepted + (IF Operation.write THEN 1 ELSE 0)

\* A request with an OAuth token is repeated once.
MayRenew == doc.oauth /\ ~ renewed

\* It may act on a request and yet answer so that the request is repeated.
MayBounce ==
    \/ UNCHANGED <<accepted, bounced>>
    \/ ActsOn /\ bounced' = bounced + (accepted' - accepted)

\* 401: the token is discarded and the request repeated with a new one,
\* whether the upstream has acted on it or not.
Unauthorized ==
    /\ phase = "sending"
    /\ MayBounce
    /\ IF MayRenew
       THEN /\ renewed' = TRUE
            /\ hops' = 0
            /\ UNCHANGED <<phase, audits, returned, reason>>
       ELSE /\ StepFails("upstream")
            /\ UNCHANGED <<renewed, hops>>
    /\ UNCHANGED <<doc, supplied, at, page>>

\* A redirect to the same host: the client sends the same method and body to
\* the new location, even when the upstream has acted on the request (303).
Redirected ==
    /\ phase = "sending"
    /\ MayBounce
    /\ IF hops < MaxRedirects
       THEN /\ hops' = hops + 1
            /\ UNCHANGED <<phase, audits, returned, reason>>
       ELSE /\ StepFails("upstream")
            /\ UNCHANGED hops
    /\ UNCHANGED <<doc, supplied, at, page, renewed>>

\* Another status, a body that is not JSON or too large, a selected output
\* that is absent: the upstream may have acted on the request.
UpstreamFails ==
    /\ phase = "sending"
    /\ ActsOn \/ UNCHANGED accepted
    /\ StepFails("upstream")
    /\ UNCHANGED <<doc, supplied, at, page, renewed, hops, bounced>>

\* The time of the step runs out, or the call is cancelled, while a request
\* is under way.
Interrupted ==
    /\ phase = "sending"
    /\ ActsOn \/ UNCHANGED accepted
    /\ Audited("error")
    /\ \/ Ends("error", "timeout")
       \/ Ends("cancelled", "cancelled")
    /\ UNCHANGED <<doc, supplied, at, page, renewed, hops, bounced>>

\* The page names a cursor and the traversal has room for more.
FollowPage ==
    /\ phase = "sending"
    /\ Operation.paged
    /\ page < MaxPageCount
    /\ ActsOn
    /\ page' = page + 1
    /\ renewed' = FALSE
    /\ hops' = 0
    /\ UNCHANGED <<doc, phase, supplied, at, audits, bounced, returned, reason>>

\* The last page, or the only one: the outputs of the step are selected.
StepSucceeds ==
    /\ phase = "sending"
    /\ ActsOn
    /\ Audited("ok")
    /\ at' = at + 1
    /\ phase' = "mapping"
    /\ UNCHANGED <<doc, supplied, page, renewed, hops, bounced, returned, reason>>

\* The result of the call: every reference of the result map must resolve,
\* an input the caller left out as well.
Answer ==
    /\ phase = "mapping"
    /\ at = Len(doc.steps) + 1
    /\ IF \A ref \in doc.result : Resolves(ref) THEN Ends("ok", "none")
       ELSE Ends("error", "mapping")
    /\ UNCHANGED <<doc, supplied, at, page, renewed, hops, audits, accepted,
                   bounced>>

ToolNext ==
    \/ Import
    \/ \E S \in SUBSET doc.inputs : CallTool(S)
    \/ MapArguments
    \/ ValueRefused
    \/ Unauthorized
    \/ Redirected
    \/ UpstreamFails
    \/ Interrupted
    \/ FollowPage
    \/ StepSucceeds
    \/ Answer

ToolSpec == ToolInit /\ [][ToolNext]_toolVars

-----------------------------------------------------------------------------
(* Properties.                                                             *)

\* An input the caller left out although the document uses it.
LeftOut ==
    \/ \E ref \in doc.result : ref.source = Input /\ ref.field \notin supplied
    \/ \E i \in 1..Len(doc.steps) : \E f \in DOMAIN doc.steps[i].args :
          LET ref == doc.steps[i].args[f] IN
          ref.source = Input /\ ref.field \notin supplied

\* A document the importer accepts has no broken references: a call fails to
\* map a value only because its caller left out an optional input that the
\* document passes on.  The two sides are written apart, the importer over
\* declarations and the connector over values.
MappingsResolve == reason = "mapping" => LeftOut

\* The connector never repeats a write on its own: not for a page, not in a
\* second step, not after a failed answer or a time-out.  Only the upstream can
\* make it do so, by acting on a request it answers with a redirect or a 401.
WritesOnce == accepted <= bounced + 1

\* Every step a call has entered leaves one audit event, the last one an
\* error exactly if the step failed, and no other step leaves any.
StepsAudited ==
    \A i \in DOMAIN audits :
        audits[i] = CASE i < at -> <<"ok">>
                      [] i = at /\ reason \in Reasons \ {"none", "arguments"}
                             -> <<"error">>
                      [] OTHER -> <<>>

=============================================================================
