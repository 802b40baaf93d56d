# TLA+ models of the connection platform

The repository is a multi-tenant gateway: tenants own *connections* to
providers (WeCom, or any HTTP API described by an OpenAPI document), and each
connection is served as an MCP endpoint to language-model clients.  It is one
asyncio process (the image runs uvicorn with one worker) over MySQL, with a
scheduler that runs syncs in a worker thread with an event loop of its own.

These modules model the parts of that program where interleaving, stale reads,
cancellation and versioned transactions decide correctness.  TLC checks them on
small instances, TLAPS proves most of the safety properties for any number of
calls, requests, revisions, tenants and items.

## The system

| component | state | operations | what is hard |
|---|---|---|---|
| response cache (`app/connections/cache.py`) | entries with a TTL, a table of loads in flight | `get_or_load`, `invalidate_connection` | one load shared by concurrent calls; failure and cancellation of the load or of a waiter; invalidation during a load |
| connection gateway (`app/mcp_gateway.py`) | cached server definitions per `(connection, config_version)` | resolve a token, route, call a tool, invalidate | commits and invalidations fall between the steps of a request |
| runtime (`app/connectors/runtime.py`) | rate-limit windows | check the policy, execute through the cache, audit | timeouts, shared loads |
| OAuth token cache (`app/connectors/declarative/token_cache.py`) | tokens, exchanges in flight, a generation per connection | `get_or_exchange`, `discard`, `invalidate_connection` | an invalidation overtakes an exchange; two event loops; the retry after a 401 |
| connection store (`app/connections/store.py`) | rows of connections, revisions, policies, credentials, tokens | versioned transactions | the checks of a use case run before the row is locked |
| administration (`app/admin_connections.py`, `app/tenant_connections.py`) | none | use cases over the store, quick onboarding | several transactions and an await in one use case |
| tenant lifecycle (`app/admin.py`, `app/tenant_lifecycle.py`) | tenant rows and accounts | create, switch, retire | retirement against concurrent activation and token issue |
| tenant console and login (`app/tenant_auth/`, `app/tenant_console.py`) | an account with its lock, sessions | log in, change the password, log out; reset and switch by an administrator | a slow comparison outside the transaction; resets and deletions between the transactions of a login |
| MCP services (`app/mcp_services/`, `app/mcp_service_gateway.py`) | services, bindings, tokens, cached routes | aggregate the tools of several connections | a bound connection changes or disappears under a service |
| declarative tools (`app/connectors/declarative/`) | none | import a document, call a tool of several operations | what is validated at import must hold when arguments, pages, redirects and a 401 come; a write must not be repeated |
| declarative sync (`connector.py`, records and cursors of `store.py`) | stored records, a page checkpoint | fetch, store, save the cursor | two transactions a page; limits of pages and items; cursors that fail or do not fit |
| sync orchestrator (`app/connections/sync.py`) | a lock per connection | scheduled, startup and manual syncs | event loops and threads of their own; edits and restarts between the steps |
| WeCom syncs (`app/wecom/`) | rows, cursors and advisory locks (`app/db.py`) | report, approval and check-in windows; force, rewind | the cursor jumps to the end of a run; details fail; two clocks |
| audit (`app/mcp_audit.py`, `app/mcp_log_store.py`) | a bounded queue and its worker thread, a reference count of lifespans, log rows | submit without blocking, store, shut down | a full queue, a start while the last shutdown is under way, events left at shutdown |
| legacy migrations (`app/connections/store.py`, `app/mcp_log_store.py`) | a watermark per tenant and one for the logs | copy connections, then logs, at every start | a failure or crash between a copy and its watermark, administrators before the next start |

The gateway resolves a bearer token to a connection through the store, executes
tools through the runtime, the runtime through the response cache, and a
declarative connector authorizes its requests through the OAuth token cache.
Every committed change of a connection bumps `config_version` and calls the
registered invalidators with the retired version: the gateway drops its cached
data, tokens and server definition, the service layer its cached routes.

## Modules

### ConnectionCache

`cache.py` with its one caller, `ConnectorRuntime._execute_with_data_mode`.  A
tool call is a process: `pc` says whether it is loading (it owns the future of a
key), waiting on another call's future, loading on its own (`direct`) or done.
`entries`, `expired` and `inflight` are the tables of the object; a stored value
is represented by the call whose loader produced it, which is what isolation and
retention are about.  No coroutine suspends while it holds the cache's lock, so
the code between two awaits of a loader or of a future is one action:
`GetOrLoad` up to the first await, `LoadRetained`, `LoadNotRetained`,
`LoadFails`, `OwnerCancelled` after the owner's, `WaiterResumes` and
`WaiterCancelled` for the waiters.  The cache key and the retention filter are
reduced to what they decide: whether a call has a key and whether its result may
be kept.

`SharedLoad` is what such a cache promises its callers, without entries, time or
invalidation: one load per key, ended by the call that loads and by nobody else,
its outcome told to exactly the calls that waited for it, and a result that may not
be shared returned by nobody but its loader.  `ConnectionCache` implements it
(`Shared`, an INSTANCE with a mapping of `pc`, `waiting` and the futures to its
stages and outcomes); `SharesLoads` is the property, checked and proved.

### ConnectionGateway

Extends the cache with `mcp_gateway.py`: `Resolve`, `Route` and `Execute` are
separate steps of a call because awaits separate them; `Commit` is any store
transaction that bumps `config_version`, and schedules `RunInvalidation` on the
gateway's loop.  (Issuing or revoking a token commits without a new version;
that retires a session without changing what any answer is made of, and is left
out.)  `retired` and `overlapped` are history: revisions whose invalidation has
run, and the calls that were under way then.

### OAuthTokenCache

`token_cache.py` with `DeclarativeConnector._send_authorized`.  The cache is one
object for the process but its callers live on several event loops and threads,
so here the actions are the critical sections of its two locks.  A token, and
the future it is published in, is named by the call and attempt that obtain it.
`AwaitFails` is asyncio's rule that a pending future cannot be awaited from
another loop.  `overtaken` is history: tokens whose exchange was under way when
their connection was invalidated.

### DeclarativeLifecycle

One `http_declarative` connection: the transactions of `store.py` and the use
cases of `admin_connections.py` that call them.  A use case reads the row
without a lock and checks the request against it (`Read`, `Accepted`), then runs
one transaction that locks the row and compares `config_version`
(`Transaction`).  Activation reads the credentials and then the policies in steps of
their own (`InspectCredentials`, `InspectPolicies`); quick onboarding is a chain of
four transactions and a live test (`OnboardCredentials` ... `OnboardApprove`, then
`Activate`), whose test reads the row and after it the credentials (`OnboardTest`,
`OnboardLoad`), and which reads the row and then the policies again after the test
(`OnboardConfirm`, `OnboardCompare`).  A document is what
matters of it: the tools it declares (`ToolsOf`) and the credentials its schema
accepts (`Accepts`).  `Disable`, `Rename`, `DeleteRevision` and
`DeleteConnection` compare no version, and `SwitchTenant` and `RetireTenant` act
on the tenant row that activation and update lock first.  Left out: display name
and data mode (they bump the version like a rename), the refusal to delete a
connection a service refers to (it only disables an action), and
`set_tool_policy`, which nothing calls.  Connection ids are fresh, so a deleted
row does not come back.

`SerialLifecycle` is what all of this promises: each edit is made in one step and
judged by the connection as it is in that step.  It has no requests, no versions and
nothing anybody has read, and quick onboarding is three edits of it.  The lifecycle
implements it (`Serial`, an INSTANCE that maps the row to its status and its two
revisions and hides requests, versions and what was seen); `EditsSerialized` is the
property, checked and proved.

### DeclarativeTool

One document, its import and one call of its tool.  `DocumentAccepted` is what
`models.py` and `validator.py` demand of operations, steps and references; it is
written over declarations.  The connector works on values: `Resolves`, `Mapped` and
`Mappable` are `_resolve_ref` and the request builder, `Answer` the result map.  A
request may be answered, refused (`Unauthorized`, with one renewal of an OAuth
token), redirected, fail or be interrupted; each of them whether or not the
upstream has acted on it (`accepted`: what it did; `bounced`: what it did and then
answered with a redirect or a 401, so that the connector repeats it; both history).  Values
are reduced to where they come from; what a schema refuses is `ValueRefused`.

### DeclarativeSync and ConnectionSync

`DeclarativeSync` is `DeclarativeConnector.sync` with the tables it writes: a run
fetches a page, stores its items (`StorePage`), saves the cursor of the next page
(`SaveCursor`), and goes on within its limits of pages and items; each of the
three may fail.  A cursor is the number of the page it names; `forms` says whether
it fits what reads it back.  `records` and `cursor` survive, `cut` is history: the
items the limit dropped from a page.  `ConnectionSync` extends it with the
orchestrator: a worker is the interval job or an occasional run beside it, waits
for the lock of the process, reads the record again under it (`Refresh`), runs and
writes its event.  Connections are edited, the process restarts, the upstream
publishes or stops accepting its cursors in between.

### WecomSync

One WeCom resource of a tenant and the two runs that fill it, each with a cursor and
a database lock of its own: the connection's and the tenant's, which an
administrator may force or rewind.  A run opens a window (`From`, `Until`), halves
it while it lists too many (`Split`), lists, writes item by item, and puts its
cursor on the present unless something is missing.  `kind` tells check-in, whose
lists are whole records and may lack members, from reports and approvals, whose
details are fetched one by one.  Check-ins are listed for the members a run knows,
and a run that cannot read the address book falls back to those that were configured
(`Reached`); `overlooked` is history: the records of members a run did not know.
`stamp` is WeCom's clock, within `Skew` of the
server's.  `since` is history: from when on a cursor vouches for the items before
it; a forced run that jumps ahead sets it anew.

### LegacyMigration

What every start does before the routes open: the default WeCom connection of each
tenant of the old schema is copied and marked (`Copy` and `Mark`, two
transactions), then the call logs (`CopyLog`, one watermark for all of them).  Each
may fail, the process may die anywhere, and while it is up administrators edit,
delete, revoke, retire and create.  One log entry stands for the log of a tenant.

### McpServices

The rows that decide who may reach what: tenants, connections, services,
bindings and the bearer tokens of both, with the checks each transaction of
`admin.py`, `tenant_lifecycle.py` and the two stores makes on the rows it has
locked.  There are no foreign keys, so these checks are all that keeps a binding
from leading nowhere or into another tenant.  An editor's page reads the row, with
its version, and the bindings in two requests that may come in either order
(`ReadService`, `ReadBindings`), and saves with the version it read
(`UpdateServiceStatus`, `ReplaceBindings`); `stale` holds the editors whose version is
old, and `torn` is history: those whose bindings were replaced before they read the
row.  A call of the
service gateway four (`Peek`, `Confirm`, `SelectBinding`, `Execute`), because
`resolve_token` reads once without locks and once with them and the binding and
the connection are read later.  A tenant id may be created again after its
deletion; `era` counts its lives.  Ids of connections are fresh but for the default
connection, whose id is made from its tenant's: a start that finds it unmarked inserts
or overwrites it (`CopyDefault`, for what `LegacyMigration` models step by step), also
when it was deleted meanwhile.  Reduced: the bindings of a service are the set
of connections they lead to (no aliases, policies or disabled bindings), and a
connection is its owner and status, without the `error` status and its revisions,
which are `DeclarativeLifecycle`'s.  Left out: the default services
(`migrate_default_services`, which the application never calls) and the cached
server definitions of the service gateway, which work like those of
`ConnectionGateway`.

### TenantConsole

The login of one tenant: its identity row, its account and its sessions.  The
handlers run on a thread pool and each call of the store is a transaction of its
own, so a login is `ReadAccount`, a slow comparison without a lock, then
`Refused`, `WrongPassword` or `RightPassword` under the row lock, then
`IssueSession`; a change of password ends in `ApplyChange` instead.
Administrators create, reset, switch and delete the tenant in between;
`reset_tenant_login_password` and `set_tenant_login_status` read the tenant first
(`FindTenant`, `ReadEnabled`).  A stored password carries a fresh salt, so `Hashes`
names the act of setting it.  `overtaken` and `guesses` are history: requests that
had authenticated when the next password was set, and the wrong passwords since
the count began anew.  Left out: the limiter of login attempts per address.

### AuditEventWriter

`mcp_audit.py`.  Events are submitted by request threads: `FindWriter` reads the
global writer, `Submit` and `Put` are the two parts of `submit` (a submission
holds the writer's state lock from one to the other), `Refuse` its early returns.
The worker's loop is `TakeEvent`, `Store`, `Settle`, `Check`, or `TimesOut` and
`LooksAtFlag` when the queue stayed empty.  Lifespans share the writer by a
reference count: `Acquire`, `Release` (whose last one closes the writer under the
lifecycle lock), then `BeginShutdown`, `Flush` and `Join` outside of it, while the
next lifespan may acquire a new writer.  Once the lifespans have ended the process may
end too (`Exit`), whatever its daemon threads have left to do.  Left out: `shutdown_audit_writer`, which
the application never calls, and the throttled warnings about drops.

## Runs

| run | instance | what it shows |
|---|---|---|
| `gateway` | 3 calls, 2 connections, 3 revisions each | one server definition per connection; an entry or session of a retired revision exists only if a call of that revision was running when its invalidation ran |
| `gateway_retired_data` | 2 calls, 1 connection, 2 revisions | *violated*: data loaded under a retired revision is served to the next one |
| `oauth_cache` | 2 calls with a retry each, 2 connections, 2 secrets, 1 invalidation per connection | one exchange with a live owner and no orphaned waiter (`FlightIntact`), overtaken tokens are not stored, a request is signed with a token of its own secret, waiters share the outcome of the exchange, every request ends |
| `oauth_two_loops` | 2 calls on any of 2 loops | *violated*: a waiter on another loop fails at once |
| `lifecycle` | 2 administrators, 2 revisions, 1 document, 2 credential sets, versions up to 6 | an active connection is consistent, what is selected is published, activation is complete, onboarding activates what its test ran with, a retired tenant's connection stays inactive, a version names one configuration; the use cases implement `SerialLifecycle` |
| `published_is_staged` | 1 administrator, 2 revisions | *violated*: a publication may leave an older revision staged |
| `mcp_services` | 2 tenants whose ids may be used twice, 2 connections, 1 service, 2 tokens, 2 editors, 1 call | a binding leads to a connection of its own tenant, a deleted tenant has nothing active and no usable token, a reused id inherits nothing, no edit overwrites what its page does not show, but for bindings replaced between the two reads of the page, a call under way does not reach a connection of a deleted tenant |
| `services_torn_page` | the instance of `mcp_services` | *violated*: a page can show old bindings with a new version, and saving it undoes another edit without a conflict |
| `tenant_console` | 3 requests, 2 passwords, a lock after 2 wrong ones, 3 acts of setting a password | guesses are bounded, a request is authenticated by the password in force when it is counted, a session outlives its password only if its login was between its two transactions at the reset |
| `execution` | 3 calls, 2 connections sharing one tool, a plain and a sensitive argument; a tool of up to 2 steps over some 400 documents; a sync of 2 workers over upstreams of 3 pages with 3 disturbances; 2 audit events, a queue for one, 2 lifespans, the end of the process | the cache implements `SharedLoad`: single flight, no stuck slot, no waiter without a load (`WaitersAreServed`); isolation between connections; only retainable results shared; every call ends.  Accepted documents resolve, a write is sent once unless its answer made the connector repeat it, each step is audited once.  The cursor skips nothing and is never set back, everything is synced in the end.  A leased writer accepts, a successful shutdown has lost nothing, what is accepted is settled but for the gap and for a process that ends after an incomplete shutdown |
| `wecom` | 2 items, 2 runs, both kinds; 1 tenant of the old schema and 1 new id | nothing of members the runs knew falls between two WeCom runs; a watermark vouches for a copy; no restart undoes an edit of a marked tenant or revives a token |
| `sync_truncated_page` | 2 workers, the upstreams of `execution` | *violated*: the cursor passes items that the limit cut off |

`execution` and `wecom` put independent modules side by side: a behaviour is one of
them (`part`), the variables of the others stand still, so their states add up and
do not multiply.

**Bounds.**  Three calls are an owner, a waiter and a third party that arrives
before, between or after them; a fourth only repeats a role.  Three revisions let
a call of the first overlap the invalidation of the second.  In `oauth_cache` two
calls with two attempts give an owner, a waiter, a second owner after an
invalidation and both orders of a late rejection.  Bounds are in the guards
(`WithinBound`, `MaxVersion`, `MaxGeneration`, `MaxEra`, `MaxHashes`, `MaxFailed`,
`MaxWriters`, `MaxDisturbances`, `MaxTime`): six versions are a whole onboarding
with one interference.
In `mcp_services` two lives of two tenant ids let a row of a former life meet one
of the next and another tenant's at once, and two editors are a lost update; calls, a
second editor and the copies of a start, which need not meet to go wrong, are each in
behaviours of their own (`Few`; the proofs have no such limit).  In
`tenant_console` three requests are two racing guesses and a third that meets the
lock they set, or a login overtaken by a change made from another session.
In `execution` a tool of two steps refers forwards, backwards, to itself and to
nothing; three pages with limits of two pages and three items end a run at either
limit, inside a page and between two; three disturbances are a failure, a restart
and an overlapping run.  The second audit event finds the queue full or the writer
closed, and two lifespans overlap or follow one another.  In `wecom` a behaviour has
one check-in (`OneCheckin`), because their lists are whole records and one has no
bearing on another; the clock moves by two, which is two runs in a row on either cursor with one submission
during and one between them, and `Skew` is 0; the proof covers every skew with
`MaxRun + Skew <= Back`, which is the condition under which the code's overlap of
windows is enough.
Deadlock checking is off in every run: all calls end, and counts are bounded.

**Fairness.**  `CacheFairness`: asyncio resumes a task whose future is done, and
the runtime runs each call under `asyncio.wait_for` with the policy's timeout, so
an owner or a direct load always ends.  `FairSpec` of `OAuthTokenCache`: a
running task is scheduled, and `asyncio.timeout` bounds each upstream request and
each exchange.  Nothing is assumed of invalidation or expiry.
`AuditFairness`: as long as the process runs, the worker is a thread that is scheduled
whenever it can go on, a submission that holds the state lock does not block
(`put_nowait`), and an insert succeeds or fails.  Nothing is assumed of lifespans or
of the end of the process: the worker is a daemon thread and the flush is bounded, so
`Exit` may come at once after an incomplete shutdown.
`ConnectionFairness`: the scheduler's job keeps firing, and a run that can go on
does, because the requests and database calls it waits for are bounded and the lock
is polled.  Nothing is assumed of administrators, failures, restarts (of which a
run sees finitely many) or the upstream; `EverythingSynced` is claimed only of a
connection that stays enabled and whose cursors can be read back.

## Disagreements between the code and what it says

* `gateway_retired_data`: `invalidate_connection` clears what is stored so far; a
  load in flight stores its result afterwards under a key without a version, so a
  configuration change keeps serving data of the previous one until the TTL ends.
  `StaleOnlyFromOverlap` shows that such loads are the only way.  The same
  overlap lets a request resolved before the change put the old server
  definition back, against the comment in `_manager_for`.
* `oauth_two_loops`: the process-wide token cache is used from the server's loop
  and from the scheduler's; a scheduled sync that misses while a tool call is
  exchanging (or the reverse) fails instead of sharing the exchange.
* `published_is_staged`: after disable, publish, back to draft, publish, the
  staged revision of the disabled time still wins over the revision just
  published, and the analysis of the draft is refused with a conflict.
* `sync_truncated_page`: a run that may take fewer items than its page has stores
  the first of them and saves the cursor of the next page, although the next run is
  to resume "at the first page not known to be stored".  What was cut off is seen
  again only if a traversal reaches the end and starts anew.  `NothingSkipped`
  shows that nothing else is ever left behind the cursor.
* `services_torn_page`: the service page says that saving is checked by version and
  that a conflict asks for a refresh.  It loads the row and the bindings in two
  parallel requests, and the answer with the bindings carries no version; an edit
  between the two leaves old bindings under the new version, which saving writes back
  without a conflict.  `EditsReplaceWhatWasRead` shows that this is the only way.

## What the models show besides

Not disagreements, because nothing in the repository says otherwise, but a reader
should know them:

* An event that is accepted between a time-out of the audit worker and its look
  at the stop flag stays in the queue if the shutdown begins in that moment.  The
  shutdown then reports that it is incomplete; no drop is counted.
  `AcceptedIsSettled` names it as one of two exceptions; the other is a process that
  ends after a shutdown whose bounded flush did not complete, which loses what its
  worker had left.
* A login that has authenticated when its password is reset still gets a session,
  and that session works.  `StaleSessionOnlyFromOverlap` shows it is the only way.
* A change of password under way at a reset overwrites the new password, enables a
  login that was disabled, and inserts an account for a deleted tenant.
* A wrong password right after a lock has lapsed locks again at once: the count
  is taken from the row as it was read before it was set to zero.
* The disabled service of a deleted tenant can be set back to draft and its
  bindings replaced; it cannot be activated.
* A sync whose upstream refuses the saved cursor fails, and so does every later
  one: no path clears the checkpoint.  A cursor of 256 to 512 characters is saved
  but not read back, so each run begins at the first page.
* A manual sync asks for the resource `default`, whatever the document declares,
  and then fails on a connection that declares another.
* A tool whose result map names an optional input fails when its caller leaves the
  input out, after its write has been sent (`LeftOut` is the only excuse in
  `MappingsResolve`).  A redirect or a 401 answered after the write was acted upon
  sends the write again (`bounced` in `WritesOnce`).
* A start that is interrupted between the copy of a legacy tenant and its mark copies
  again at the next one: over what administrators have changed since, and also if
  they have deleted the connection.  The copied token keeps a revocation, but gets its
  ciphertext back.
* The id of the default connection is the same in every life of a tenant id.  If the
  mark of its copy failed and the connection was deleted, the deletion of the tenant
  finds no row to revoke tokens by; a tenant created again under the id is copied at
  the next start, and the tokens of the former one lead to its connection.
  `NothingInherited` names the default connection as the only exception.
* A check-in run that cannot read the address book uses the configured members and
  counts nobody as missing: the cursor passes the records of the others
  (`overlooked`).
* While the watermark of the logs is missing, entries that were deleted come back
  at the next start; `create_tenant` creates no schema of the old kind, so the copy
  for such a tenant fails and the watermark is not written.  Logs copied before the
  connection of their tenant stay without one once it is.
* Deleting a connection leaves its token rows behind; nothing can admit them, unless
  it was a default connection and a start inserts it again.
* A call of a service that has passed `resolve_token` runs to its end although its
  token is revoked or its service disabled meanwhile; deleting its tenant stops it
  (`RetirementStopsCalls`).
* A load that is cancelled cancels its waiters too, and none of them leaves an audit
  event: `execute` audits results and errors, not cancellations.

## Proofs

Each module of proofs extends the module it is about and assumes nothing but that
module's named assumption on its constants, which says what the constants are and
never how many there are.  One theorem has a hypothesis besides, `OneLoopShares`.

`DeclarativeLifecycleProofs` (`LifecycleConstants`).  The compare-and-set on
`config_version` is the whole argument, and it is subtle because imports and
deletions of revisions do not bump the version.  `LifecycleInv` therefore adds
`Snapshots` to the invariants: a request whose version is still the row's has seen
the row as it is, and what it checked then still holds (`StillHolds`): a published
revision that the row names cannot be deleted or replaced.  `TypeCorrect`,
`SelectionSafe`, `ActiveSafe` and `RetirementSafe` follow, and `ActivationComplete`
is an action property from the same invariant.  So are `VersionsName` (what a gateway
caches by version) and `NoLostUpdate` (a transaction that commits writes back what it
would have read under the lock).  Quick onboarding is more than one transaction, and
others may run between them.  `OnboardingActivatesTested` follows its test along the
versions: as long as the row has the version the onboarding's last transaction gave
it, the test ran with the revision and credentials that are there (`TestsFollow`); a
step of anyone else either leaves both alone or moves past that version
(`BystanderFollows`).  `OnboardingUndivided` says the same of its edits (`EditsStand`):
where it approves, its credentials stand, and the status and revisions it began with.
`LifecycleImplements` is the refinement of `SerialLifecycle`.  Its invariant `SerialInv`
adds `AcceptedStill`: what a use case accepted when it read, it would accept still as
long as the version it has seen is the row's, so the transaction that then commits is
the edit of somebody who only begins now.  The policies that an onboarding writes are
judged by the revision it published itself, which is why `EditsStand` is needed.

`ConnectionCacheProofs`.  A waiter looks at nothing but its owner's future, so the
invariant relates the tables to each other: the owner of a slot is loading its key,
a pending future has a loading owner, a settled one says what became of the result,
and an entry comes from a load whose result may be shared.  `AnswersIsolated` and
`OnlyProjections` follow, and so does `NobodyWaitsInVain`, of
`WaitersAreServed`: the future a call waits for has ended, or its owner is loading that
very key.
`CacheImplements` maps every step to one of `SharedLoad` or a stutter (a step of the
gateway, an expiry, an invalidation).

For the gateway (`GatewayConstants`) `GatewayInv` adds where a call stands: a revision
whose invalidation is scheduled or has run is no longer current (`RevisionsPast`), a
call executes on the connection it was resolved to (`CallsRouted`), and one of a
retired revision was under way when that was retired (`LiveOverlapped`).  Hence
`SessionsSafe` and `StaleOverlaps`, for any number of calls and commits.  Every step
of the gateway is a step of the cache or leaves the cache alone (`GatewayUsesCache`),
so what is proved of the cache holds in it, and `GatewayIsolates` carries isolation
from the resolved request to the answer.

`OAuthTokenCacheProofs` (`TokenConstants`).  `OvertakenNeverStored` rests on
`GenerationInv`: the generation an exchanging owner has seen is behind the
connection's exactly if an invalidation overtook it, so the comparison in `_store`
refuses every overtaken token.  `FlightSafe` rests on `FlightInv`: an owner is in
the table for the key it works on, and nobody else is.  `TokensAreOwn` adds that the
token a call holds, or the future it waits for, was begun by a call with the same
connection and secret (`TokensMatch`), across rotations.  What becomes of waiters is
proved for any number of loops: one fails only with its exchange, or because the
exchange runs on another loop (`WaitersFailTogether`, from `OutcomeInv`).
`OneLoopShares` is `WaiterSharesOutcome` under the hypothesis that there is one loop;
the run `oauth_two_loops` shows that it needs it.

`AuditEventWriterProofs` (`AuditConstants`).  A shutdown looks at one number,
`_pending`, to decide that nothing is left.  `AuditInv` says what that number counts
(`Counted`: the queue, the event in the worker's hand and the submission that holds
the state lock) and where every accepted event is (`Placed`), so zero means that all
are settled; and it stays so (`Drained`) because a closed writer gives its lock to no
submission.  `OnlyTheGapStrands` is the safety part of `AcceptedIsSettled`: an accepted
event is before a worker that has not ended, unless it came in the gap described above
or the process has ended after a shutdown that told its lifespan it was incomplete:
while the process runs a writer is either leased or being shut down, so at its end
whatever is left belongs to a writer whose shutdown has reported.
It needs that who is in the middle of a submission has a writer that goes on
(`Submitting`) and that a worker which has timed out has before it only what came since
(`Leaving`).  `LeasedWriterAccepts` needs that a writer is told to stop only when it
is closed (`Flags`) and that a shutdown closes only the writer its own release closed
(`Shutting`), however late it runs.

`DeclarativeConnectorProofs`, of a tool call (`ToolConstants`).  The importer judges a
document once and the connector relies on that verdict at every step, so `ToolInv`
keeps it: what is executed was accepted (`CallSound`).  A reference that was accepted
over the inputs and the earlier steps then resolves over the values there are, but for
inputs the caller left out (`MappingsAlwaysResolve`); a caller that passes all meets
no unmappable value (`FullCallsMap`), nor does any caller of a tool derived from one
operation (`DerivedToolsMap`).  `WritesAtMostOnce` needs that an accepted document has
one write step, that this step is not paged, and that before it the upstream has
acted on a write only as often as it redirected or refused one (`WritesCounted`).
`StepsAlwaysAudited` counts events against the steps entered.

The same module, of the syncs (`SyncConstants`, `OrchestratorConstants`).  Types are
`SyncTypeCorrect`.  The cursor skips
nothing because a run begins at the cursor and everything before the page it is at
is stored or cut, which no later step takes back (`NothingIsSkipped`, for any number
of overlapping runs).  `CursorNeverSetBack` needs the lock: the run that holds it is
not behind the cursor, and no other run is past its beginning (`RunsLocked`), which is
`OneRunAtATime` too.  `ClearedWhenStored` says when a traversal may start over: the run
that clears the cursor is past the last page (`RunsBehind`), so everything is stored or
was cut, unless the upstream gave a cursor too long to be followed.

`WecomProofs` (`WindowConstants`, `LegacyConstants`).  `NothingFallsBetween` needs what
a run that goes on still owes: each item of its window that was submitted before it
began is stored, listed, overlooked, or in a window it will list.  Since a run lasts at most
`MaxRun` and the clocks differ by at most `Skew`, what it could not see is within
`Back` of its end.  `WatermarksSafe` needs what the marks about to be written stand on: the
tenants copied and not yet marked, and, while every copy of the log has succeeded,
the tenants left to do.  `EditsSafe` is an action property from the types alone.

`McpServicesProofs` (`ServiceConstants`).  `ServicesInv` says of every row that it
belongs to the latest life of its tenant's id (`ErasAgree`), which is what lets an id
be created again only when no row is left; of every row of a deleted tenant that it
is not active and of its tokens that they are void (`ConnectionsClosed`,
`ServicesClosed`, `TokensClosed`); of every editor with a current version that what
its page shows is what is there, but for bindings of a torn page (`ViewsCurrent`), so
the transaction it starts works on what it read; that a default connection is its
tenant's own (`DefaultsOwned`); and that any other token is of the life of the row it
leads to (`TokensAgree`).  The five properties of `mcp_services` follow.  `CallsOfOneLife` looks at
the call instead of the rows: it executes only on a connection of its service's tenant
and of the present life of that id, although it reads the binding and the connection
after the token; a service that has a token or is being called is never taken back
(`OwnersRemain`).

`TenantConsoleProofs` (`ConsoleConstants`).  `GuessesAreBounded` rests on `CountsAgree`:
the count of the row is never below the guesses since it began anew, an active
account is below the threshold, and a lapsed lock has had none.
`StaleSessionsOverlap` and `AuthenticationIsCurrent` need `HashesKnown`: who has
authenticated, or holds a live session, did so with the password of the row, or
another was set in between.

What stays with TLC is liveness, whose fairness is beyond the prover: `CallsEnd` of
both caches, `AcceptedIsSettled` and `EverythingSynced`.  What each of them rests on is
proved: nobody waits without an owner at work (`NobodyWaitsInVain`, `FlightSafe`), an
accepted event is before a worker (`OnlyTheGapStrands`), and the cursor skips nothing
and is cleared only when all is stored (`NothingIsSkipped`, `ClearedWhenStored`).
`execution` checks no type invariant of its own: those of its four modules are
theorems (`CacheTypeCorrect`, `ToolTypeCorrect`, `SyncTypeCorrect` and the audit queue's `TypeCorrect`).

## Not modelled

* Parsing of OpenAPI documents, bounds of schemas, projections and redaction: large
  pure functions over text.
* The limiters (`SlidingWindowRateLimiter`, the reveal, login and
  authentication-failure limiters): a queue of timestamps trimmed under one lock, in
  one step that no other actor can enter; their arithmetic is a unit test's.
* That a routed call takes its public configuration from the routed revision but its
  credentials and policies from the store when it executes: this needs the store and
  the gateway in one model, and nothing in the repository promises that the two are of
  one revision.
* Lock waits of the database: a transaction is one step because it holds its row
  locks until it commits.  `replace_bindings` and the deletion of a connection take
  some of theirs in opposite orders; InnoDB rolls one of them back.
* A process that is killed loses the audit queue and everything else it has in
  memory; only the orderly end is an action of `AuditEventWriter`.
* WeCom tools, the address book and access token of the WeCom client; the MCP
  protocol library; sockets, DNS and address checks of the HTTP client.
* The cached server definitions of the service gateway, which work like those of
  `ConnectionGateway`, and the default services, which the application never creates.
* Domain verification (one row per tenant), the registry of connectors (immutable),
  read-only queries, encryption, configuration, the web pages, deployment.
