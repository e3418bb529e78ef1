# Formal model of the Daemon system

TLA+ models of the Daemon ontology runtime, TLC configurations that check them
on small instances, and TLAPS proofs of the core. All paths below are relative
to the repository.

## 1. Inventory

| Part | State it keeps | Operations | Talks to |
|---|---|---|---|
| **Action lifecycle** (`packages/ontology-sdk/src/actions`, `packages/ontology-engine/src/action`, `events`, `apps/api/src/routes/actions`) | Redis keys `proposal:<tenant>:<id>` with a 24 h TTL; rows of `action_audit_log`; Redis publications | propose, approve, reject, internal execute, TTL expiry | registry, Redis, PostgreSQL |
| **Agent proposals** (`packages/plugin-sdk/src/plugins/ontology`) | none of its own | `propose_action` (allowlist, schema check, SET) | proposer, the agent process's registry |
| **Schema activation** (`engine.ts`, `registry/`, `schema/upload.route.ts`) | YAML directory, in-memory registry per process, row of `tenant_schemas`, key `schema:<tenant>` | boot, upload, `reloadSchema` | PostgreSQL, Redis |
| **Monitoring scheduler** (`apps/agent-service/src/monitoring`) | timer, `running`, `lastRunAt`, `lastResult`, `lastError`, key `monitor:last-run:<tenant>` | start, stop, tick, run over HTTP | config store, agent, Redis, control plane |
| **Tenant agent config** (`config/tenant-config.store.ts`) | key per tenant, without expiry | get, set, patch (read-modify-write), delete | Redis; read by invoke and by the scheduler |
| **Agents of the agent service** (`server.ts`, `agents/`, `model/`, plugin and skill registries, dynamic builder) | none across invocations; keys `alert:<tenant>:<ms>` | build a model and an agent of one configuration; `propose_action`, `send_alert` | config store, Redis, the engine |
| **Object store** (`object/`, `routes/objects`) | table `objects`, soft-deleted | create, update, delete, bulk, query | registry, PostgreSQL |
| **Metrics**, audit queries | none | five counts, one after the other; a filtered query | audit table |
| Ontology language | none | parse, validate a schema | upload, boot, CLI |
| **Control plane: tenants, health poller** (`apps/control-plane/src/tenants`, `health`) | tables `tenants`, `health_checks`, `metrics_snapshots`, `server_info_snapshots`; a timer | register, update, suspend, activate, offboard; poll | every tenant's API and agent |
| **Control plane: logs, WebSocket** (`logs`, `ws`) | table `server_logs`, a set of subscribers | receive, insert and broadcast; subscribe, close | tenants' log pushers, browsers |
| **Control plane: internal agent** (`internal-agent`) | per request: policy, two counters, audit, evidence, results | authenticate, compose the policy, run the model's tool calls through the governance | the tables above, a model |
| CLI | none | init, migrate, schema upload, token | database, API |

Interaction: the API process and the agent-service process each own an
`OntologyEngine` (one registry each) and share PostgreSQL and Redis. The agent
writes only proposals; an operator's approval in the API is what executes them.
The control plane polls both and receives their logs.

What is hard here: **nothing is transactional across stores**. Handlers are
sequences of awaited calls to Redis and PostgreSQL, any two requests interleave
between them, and any await may be the last thing a request does. Keys expire
by themselves. A schema upload replaces the registry under handlers that are
running. The scheduler's runs overlap and share their status. Polls overlap, and
nothing says which of two answers is the newer. A configuration is read and
written by two commands. The internal agent does what a model says, of which
nothing is known.

What makes each part correct:
- *Action lifecycle*: a proposal is executed once, on a decision, and the audit
  trail, the events and the proposal's existence agree with what happened.
- *Schema activation*: what is stored, served and cached is the same schema.
- *Scheduler*: the status, the stored result and the runs agree; it never takes
  the process down and never stays `running`.
- *Objects*: no update of a deleted object, no partial bulk without a report.
- *Tenant config and agents*: a patch merges into what is there; an agent acts on
  one configuration its tenant really had; an alert that was sent can be read for
  a day (not always: section 3).
- *Metrics*: the counts miss no row.
- *Tenants and health*: one tenant per slug; the latest health is the latest
  check; what is offboarded stays so and is left alone.
- *Logs*: a socket sees the entries of its tenant, and nothing else.
- *Internal agent*: a run stays within its budgets and the operator's scope, its
  audit is complete, and it ends.

`PROJECT.json` lists every component with its status, and under `hazards` each
place where the code is exposed, with the properties that cover it.

## 2. Modules

| Module | Role |
|---|---|
| `ActionLifecycle` | the governed write path: proposals, decisions, executions, audit rows, events |
| `ApprovalGate` | abstract specification of it: open / granted / executed / closed |
| `ActionLifecycleProofs` | TLAPS proofs: inductive invariant, safety, refinement |
| `MCActionLifecycle` | symmetry for the TLC instances |
| `ActionMetrics`, `MCActionMetrics` | `GET /metrics`, a reader composed with `ActionLifecycle` |
| `ActionMetricsProofs` | TLAPS proofs: the counts miss no row that was there |
| `SchemaReload`, `MCSchemaReload` | activation of schemas across database, Redis and process memory |
| `SchemaReloadProofs` | TLAPS proofs: types, storing before serving, the order of the cache, serial uploads, no waiting in vain |
| `Objects`, `MCObjects` | the object store under concurrent requests, uploads and crashes |
| `ObjectsProofs` | TLAPS proofs: types, final deletes, valid rows, one successful delete, true reports, regular reads |
| `MonitoringScheduler`, `MCMonitoringScheduler` | overlapping monitoring runs |
| `MonitoringSchedulerProofs` | TLAPS proofs: types, `running`, `lastError`, the stored result, no waiting in vain |
| `TenantConfig` | the configuration keys under concurrent PUTs and DELETEs |
| `AgentService`, `MCAgentService` | the agents that read them: model, plugins, proposals, alerts; extends `TenantConfig` |
| `AgentServiceProofs` | TLAPS proofs: types, merges, agents act on one configuration |
| `TenantRegistry` | the control plane's tenants table |
| `SlugRegistry` | abstract specification of registrations: each is one atomic claim of a slug |
| `HealthPoller`, `MCHealthPoller` | polls over that table; extends `TenantRegistry` |
| `HealthPollerProofs` | TLAPS proofs: types, registrations and their refinement, offboarding, health rows |
| `LogBroadcast` | receiving logs and sending them to WebSockets |
| `LogFeed` | abstract specification of it: publish to all followers at once |
| `InternalAgent`, `MCInternalAgent` | a run of the internal agent that reads those logs; extends `LogBroadcast` |
| `InternalAgentProofs` | TLAPS proofs: types, budgets, audit, scope, the length of a run, subscribers and their refinement |

Definitions that a comment calls a *mutant* are deliberate bugs. None is part of
a specification; each stands beside the action it alters and shows, when put in
its place, that a named property notices.

### ActionLifecycle

One step is one awaited call: its effect on the store, together with the
synchronous code that leads to it. The requests of the API are `Request`; `pc`
is the last step a request completed.

| Route | Steps |
|---|---|
| `POST /actions/propose` | `ApiPropose` (validate, SET) · `RecordProposal` (INSERT, 202) — or `AbortPropose` between |
| agent tool `propose_action` | `AgentPropose` (allowlist, the agent's registry, SET); no audit row |
| `.../approve` | `Lookup` · `Validate` · `Record` · `Publish` · `RecordDecision` · `RecordExecution` · `DeleteProposal` |
| `.../reject` | `Lookup` · `DeleteProposal` · `RecordDecision` |
| `/actions/internal/execute` | `ExecuteDirectly` (validate) · `Record` · `Publish` |
| environment | `Expire` (TTL), `Abort` (the request dies between two steps), `Reload` (a schema upload) |

Two facts of the code matter and are kept: `recordDecision` and
`recordExecution` are UPDATEs by id, which silently match nothing when the row
is missing; and the approve route deletes last, the reject route first.
`auditRow[p]` is the row whose id is the proposal's; the rows of `audit.record`
have ids of their own and are the set `executions`. `Content` stands for an
action type with its payload; `registry` is the set of contents the current
schema accepts. The `executedAt`/`performedBy` columns, roles and the wording of
answers are left out.

An abort covers a store that fails before the call took effect (the step is not
taken) and after it (the step is taken, then `Abort`).

`contended` is a history variable: a proposal is in it when a request looked it
up while another on it was under way, or had died after executing it. Properties
that overlapping requests do break are stated for proposals outside it.

| Property | What it says |
|---|---|
| `SettledNotPending` | an answered approval or rejection leaves no key |
| `ExecutedOnceUnlessContended` | at most one execution of a proposal whose requests never overlapped, and none after its rejection was answered |
| `AuditedExecution` | a row saying approved/executed has a real execution behind it |
| `PublishedAfterRecorded` | record before event before answer |
| `SoleDecisionRecorded` | the single answered decision is in the row, with its author |
| `LeavesByDecision` | a key goes by TTL, by a rejection, or by an approval that executed and published |
| `RequestsEnd` | liveness of handlers |
| `ImplementsGate` | refinement of `ApprovalGate` |

`ActionMetrics` adds a reader: `Collect` is the request, `Count` one SELECT per
status in the order of `metrics.service.ts`, `FailCount` the 500. `uncounted` is a
history of the rows no count has found yet. `CountsMissNothing`: statuses only move
in the direction the counts go, so an answer misses no row; only the row of a
`contended` proposal, which may go from executed back to rejected, can slip
through. A row may be counted under two statuses: the numbers are no snapshot.
The number of proposals created is the number of rows that still say `proposed`.

The refinement mapping: a proposal is *open* while its key exists, *fresh* before
it was proposed and *closed* afterwards; an approval *holds* the proposal its
lookup found; it has *executed* when its `record` row exists.

### SchemaReload

A process is up when `memory[n]` is a schema. `Boot` takes the directory's schema
and overwrites the cache. An upload is `Begin` · `Save` (the upsert, which the
database may run in any order among uploads) · `Activate` (reload, DEL issued) ·
`RunDel` · `IssueSet` · `RunSet`. A process's Redis commands are a FIFO queue,
because ioredis sends them over one connection; replies come back in order.
`FailSave` and `FailCommand` fail a call before or after it took effect.
`keeper`, `given`, `latest` and `calm` are history variables.

`CacheFollowsMemory` is the property a reader would doubt: overlapping uploads
interleave DELs, SETs and reloads, and it holds only because the order of the
reloads is the order in which the queue receives their commands. It excludes
processes with an upload whose Redis command failed, where the key does keep the
old schema until its TTL. `PersistedBeforeActive` and `SerialUploadTakesEffect`
say that nothing is served before it was stored, and that an upload nobody
overlaps with is what the row, the registry and the key say.

### Objects

A request `Arrive`s with an `Operation` (create, bulk, update, delete, get,
query). `Send` is the synchronous part of the service: validation against the
registry, which refuses the item or sends its statement. `RunInsert`,
`RunUpdate`, `RunDelete` and `RunSelect` are the statements, `Fail` one that
throws without effect; a statement that took effect may be answered with an error
too. `Settle` is the handler's continuation: a bulk import goes on with its next
item whatever became of the last, every other request is answered. `Reload` is a
schema upload; `Crash` loses what waits and leaves sent statements behind as
`orphaned`, which may still run. `Accepts` is `validateProperties` as it is
written: required properties are there, enum values are among those listed,
unknown properties pass.

`origin`, `route`, `regimes` and `view` are history variables. `Asked` picks, for
TLC, the operations worth combining; the theorems hold for any.

| Property | What it says |
|---|---|
| `DeletedIsFinal` | no update, delete or orphaned statement changes a deleted row; type and entity column never change |
| `OneDeleteSucceeds` | overlapping deletes: at most one 204, and a 404 is right for good |
| `ReportMatchesRows` | what a create or an import reports of each item is what the table holds |
| `RowsAreValid` | properties were accepted for the row's type by a schema that was active |
| `ReadsAreRegular` | a read misses nothing that stayed and returns nothing deleted before it came |

Two things the code does that a reader may not expect, and the properties do not
hide: an update under another type's path is validated against that type and
applied to the object all the same (`RowsAreValid` excludes such objects, by
`route`), and an update does not touch the entity column, which keeps the value
of the creation (stated in `DeletedIsFinal`). Left out: the query's limit,
`createdAt`/`updatedAt`, the wording of errors.

### MonitoringScheduler

`Begin` is `runOnce` up to its first await, from a tick or from HTTP; `Advance`,
`Succeed` and `Throw` follow the awaits of the try block, `RunSet`, `FailSet` and
`FailErrorSet` are Redis answering the SETs in the order they were issued, and
`End` is the finally block. `FailErrorSet` is the one exit nothing catches: for a
tick the rejection ends the process. `lastRunAt` and `lastError` name the run
they come from. `Crash` and `Ready` restart the service.

`KeyFollowsLastResult` relates memory and Redis: whatever the overlap, once the
queue is empty both hold the same result, except after a run whose failure could
not be stored or after a restart.

### TenantConfig and AgentService

A PUT is `Put` · `GetConfig` · `SetConfig` (the merge of what was found and the
body), a DELETE is `Delete` · `DelConfig`; `FailConfig` is a command that fails
before or after it took effect, or a process that stops with a command sent.
`serial` is what the keys would be if each PUT were one atomic merge, `lost` the
tenants where a PUT wrote over a change it had not seen.

`Agent` are the invocations and monitoring runs. `Invoke` sends the GET of the
configuration, `Build` runs it, makes the model or throws (PUT accepts any model
string; a provider the factory does not know is a 500), and builds the agent.
`Propose` and `SendAlert` are its tools, as `Permits` (an empty allowlist permits
everything) and `ActivePlugins` (core, skills, plugins named; unknown ids are
skipped) let it. `Reconfigure` is any step of `TenantConfig` meanwhile.

| Property | What it says |
|---|---|
| `ConfigsMerge` | outside `lost` the keys are those of atomic merges, and no field appears that nobody put |
| `AgentsFollowAConfig` | all an agent does is allowed by one configuration its tenant had while it was waiting for it |

The key of an alert is its tenant and the millisecond, so two alerts at once leave
one, while the agent is told that both were sent; nothing in the repository reads
the alerts. `ExpireAlert` is the TTL (24 h, later than the millisecond of the key).
No property is about the keys: of an alert that may be replaced or run out there is
nothing left to promise. No plugin has an
`initialize`, and nothing calls `deactivate`; neither is modelled.

### TenantRegistry and HealthPoller

A tenant goes by the registration that creates it: `FindBySlug` (SELECT, 409),
`Create` (INSERT against the unique constraint; a collision is a 500), `FailCreate`.
`Update`, `Suspend`, `Activate`, `Offboard` are one UPDATE by id. A poll is `Start`
or `Tick` · `FindAll` · `CheckTenants`, and then every service of every tenant for
itself: `Hear` (an answer of whatever HTTP status, or none) and `RecordHealth` or
`RecordMetrics`, with `FailRecordHealth` and `FailRecordMetrics` for INSERTs that
throw before or after they took effect. `FailFindAll` is the rejection nothing
catches: it ends the process (`Die`), and INSERTs that were sent may still run.

| Property | What it says |
|---|---|
| `RegistrationsAreRight` | one success per slug; a 409 is right; a constraint error only meets an overlapping registration |
| `HealthFollowsChecks` | a check without a failing INSERT leaves exactly one row, and the latest row is the newest poll's unless polls crossed |
| `OffboardedIsLeftAlone` | offboarded is for good, whatever `activate` does to the status; once the polls that had read the tenant are over, nothing asks or records it |

What the model also reaches, and these properties say in their conditions: a
check whose INSERT of `up` fails after it took effect records `down` as well;
polls that cross (`crossed`) can leave the older answer as the latest; activating
an offboarded tenant makes it `active` and keeps it out of every listing.

`ImplementsSlugs` maps registrations to `SlugRegistry`: a slug is *held* by the
tenants whose row has it, a 201 is a *claim*, a 409 a *refusal*, a 500 a *failure*
that may have claimed the slug nevertheless. Each step of a registration is one
step there or a stutter; what operators and polls do is a stutter. In particular
nothing frees a slug: the row of an offboarded tenant keeps it.

### LogBroadcast and InternalAgent

`Receive` · `InsertLog` · `Broadcast` is `POST /logs/receive`; `FailInsertLog` is
its 500. A socket is open, broken (open, but a send throws), closing or closed;
`Subscribe`, `Decline` and `Close` happen between any steps.
`SubscribersSeeTheLogs`: an open socket was sent exactly what was stored for its
filter since it came; a closed one is forgotten. `ImplementsFeed` maps this to
`LogFeed`: an entry is *published* by its 202, and in the same step shown to every
socket that *follows* its tenant, or all tenants, and to nobody else; a socket
that breaks or closes is *gone*.

A run is `Authenticate` (token, role, policy, scope) and then turns: `Invoke` is
the model's answer, `MakeCall` one of its calls up to the governance's decision
(`Denial`, in the order the code asks), `Read` the tool, `EndTurn` the end of the
turn, `Conclude` the invocation after the last. `MakeBrokenCall` is an answer whose
arguments are `null`: the code dereferences them outside any `try`. `tooling` says
whose tools the runner has: with a factory that passes repositories they read;
as the route passes them by default they are given none, so every read throws and
the tool answers with an error; those of `InternalAgentRunner.create` let the
error end the run. The design (`docs/superpowers/specs/2026-05-19-plan-17-daemon-internal-agent-design.md:331`)
says the agent can inspect tenants, health, metrics and logs; with the default
wiring it cannot.

| Property | What it says |
|---|---|
| `BudgetsAgree` | calls and turns keep their limits, and the runner stops before the governance would deny for the number |
| `AuditIsComplete` | every call made is audited once, allowed or denied, except those of names that are no tool's, which the governance never sees |
| `ScopeHolds` | only tools that the request lets a run have read, and all but `list_tenants` only tenants of the operator's token, or those an admin named; the evidence names only what was read; logs shown are stored and of that tenant |
| `RunEnds` | a run ends whatever the model asks for |

`read` is a history of which tool was let read of which tenant. `list_tenants` is
not scoped by tenant (`governance.ts:79`): it reads of all (`Rows`), and the evidence
names them. Results are kept by the tool's name, so a
second call of a tool replaces the result of the first.

## 3. Runs

| Run | Instance | Checks | Size |
|---|---|---|---|
| `ActionLifecycle` | 2 proposals, 3 requests, 1 content | 6 invariants, `LeavesByDecision` | about 1.1 M states |
| `ActionLifecycleLive` | 1 proposal, 2 requests, 1 content, 1 collection of metrics | `CountsMissNothing`, `RequestsEnd`, `ImplementsGate` | about 140 k |
| `SchemaReload` | 2 processes, 3 uploads, 3 schemas | 4 invariants | about 133 k |
| `Objects` | 3 requests, 2 objects, 2 schemas | 5 invariants, `DeletedIsFinal` | about 2.1 M |
| `MonitoringScheduler` | 3 runs | 4 invariants, `RunningClears` | about 170 k |
| `HealthPoller` | 2 tenants, 1 slug, 2 polls, 1 failing statement | 3 invariants, `OffboardedIsLeftAlone`, `ImplementsSlugs` | about 690 k |
| `AgentService` | 2 tenants, 2 agents (one a monitoring run), 2 requests, 2 bodies, 2 alerts | 3 invariants | about 1.8 M |
| `InternalAgent` | 1 run, 8 kinds of calls, 2 tenants, 1 log entry, 1 socket | 5 invariants, `RunEnds`, `ImplementsFeed` | about 730 k |
| `ExecutedOnce`, `AgentDecisions`, `StoredSchema`, `TicksNeverThrow` | smallest instances | one documented claim each, violated | — |

Bounds. The counters of the real system are identities here: proposals, requests,
uploads and runs are finite sets of ids, each used once. Two proposals make
cross-talk between proposals possible, three requests let a third come upon what
two overlapping ones left (approve/approve/reject and so on). With one content
`Reload` still makes it valid or invalid at every point. Three uploads
let one overlap with two others in the queue; three runs let two overlap while a
third begins. Three requests let an update, a delete and a read of one object
overlap, or a two-item import with both; two schemas let an item be refused
before an upload and accepted after it. Two registrations of one slug and two
polls are the smallest overlaps of each; a check's services share nothing but the
failing statement, so one tenant is followed by its two services and the other by
its metrics (`MCProbes`); `MaxFailures = 1` lets the second INSERT of a check, or
one of another, succeed after the failure. Two requests are what a lost update
needs, and the bodies set overlapping fields; two alerts in two milliseconds can
collide or not, and the TTL of the first may run out. The internal agent's limits are 12 calls and 5 turns in the code,
2 and 2 here: a turn can exhaust the calls, and a turn can follow that finds none
left. The calls cover each tool, an unknown name, and each reason to deny; the
requests cover both roles, a scoped operator with `list_tenants` among the tools, a
list of tools with an unknown one, and a suspended operator. Symmetry is used in safety runs only.

Deadlock is checked except in `AgentService` and `InternalAgent`, where the
requests are finite and everything may be answered: elsewhere TTLs, reloads,
boots, restarts and updates always leave something to do.

Fairness. `RequestsEnd` needs that an awaited call settles (weak fairness of the
request's continuation): the drivers answer or fail. That a proposal
nobody decides leaves is Redis's TTL and nothing else: no property is spent on it.
`RunningClears` needs that Redis, the
model and the log push settle (`WF` of `Redis` and of each run's continuation);
the code sets no timeout of its own on `agent.invoke`, so this rests on the
clients' default timeouts. `RunEnds` needs that the model and the database answer
or fail (`WF` of the run's steps); the loop's own bounds do the rest. No client, operator or tick is assumed to act.

### Where the code and its documents disagree

- `ExecutedOnce`: two approvals that overlap both pass the lookup
  (`approve.route.ts:11`) and both execute; `action-types.md:22` promises once.
- `AgentDecisions`: `core.plugin.ts:138` never calls `recordProposal`, so an agent
  proposal has no row and its decision is recorded nowhere, against
  `action.audit.ts:17` and `:44`.
- `StoredSchema`: nothing reads `tenant_schemas` or the cached key back, so a
  restart, or another process, serves another schema than the stored one, against
  `db/schema.ts:35` and `engine.ts:106`.
- `TicksNeverThrow`: the second `redis.set` of `runOnce` is not caught
  (`monitoring.scheduler.ts:147`), against the monitoring design, lines 40 and 112.

Two more disagreements show in the models without a run of their own:
- `list_tenants` is not among the tools whose scope the governance checks
  (`governance.ts:79`), so a run for an operator of one tenant lists all, and its
  evidence names them (`tools.ts:71`), against the plan-18 design, lines 4, 8 and 49
  ("Strict Tenant Scoping"), and the plan-17 design, line 138. `Rows` has that tool
  read of every tenant, a scoped operator of `MCAsked` has it among the tools, and
  `ScopeHolds` names the exception.
- Two alerts of a tenant in one millisecond have one key (`monitoring.plugin.ts:221`),
  so the earlier is gone although its agent was told that it was sent, against the
  comment two lines above, "so operators can poll".

## 4. Proofs

`ActionLifecycleProofs` proves, for every value of the constants (any sets of
proposals, requests and contents, finite or not), under the two assumptions that
the allowlist and the agent's registry are contents and that `None` is no id:

- `TypeCorrect`, `SettledIsGone`, `UncontendedDecision`, `AuditIsHonest`,
  `EventsAreRecorded`, `DecisionIsOnRecord`: the safety invariants of the run;
- `LeavesOnlyByDecision`: the action property;
- `Refinement`: `Spec => ImplementsGate`.

Argument. None of the properties is inductive. `SoleDecisionRecorded`, for
instance, says nothing about a request that has updated its row but is not yet
answered, and nothing that keeps a second request away. `IInv` adds:
`StepsOfKind` (which route takes which steps), `ExecutionsOfStep` (rows and
events exist from their step on), `UnusedIsFresh` (an id is nowhere before it is
proposed), `DeletedIsGone` (a request past its DEL leaves no key, and keys never
return), `RowIfAnswered` (a row exists exactly when the proposer was answered),
`Exclusive` (outside `contended` at most one request is engaged with a proposal,
and only after its proposer finished) and `RowOfDecision` (what that request wrote
is what the row says). The critical step is `Lookup`: the request that becomes
engaged found the key, so by `DeletedIsGone` no earlier request on the proposal
was answered, and if none is under way either, it is alone.

There is one lemma per action for `IInv`, then three facts (`IInvInit`,
`IInvStep`, `IInv => Inv`) combined by PTL. The refinement has one case per
action in `GateStep`; most are stutters by `GateFrame`.

`SchemaReloadProofs` proves, for any sets of processes, uploads and schemas
(assuming that uploaders are processes, that every directory holds a schema and
that `None` is none of these), five theorems.
- `TypeCorrect`.
- `PersistedFirst`. It needs `GivenOfStep`: an upload that is about to be activated
  has had its upsert, and one whose upsert has run never begins again, so its
  process and schema stay.
- `CacheFollows`. What is in a process's queues is, by `Queues`, one command or
  reply for each upload that waits, none of a process that is down, and the upload
  it serves is live. `Follows` says, of processes where no
  command failed (`Whole`), where the schema in memory is to be found: with the newest
  DEL in the queue (`NewestDel`), without one with the newest reply to a DEL
  (`NewestReply`), without either with the newest SET (`NewestSet`), and in the key
  when nothing is on its way (`Settled`). A failure breaks it: the SET of the upload
  activated last is then never issued, and an older one stands.
- `SerialTakesEffect`, from `Serial`: while no other upload is under way, what the
  latest has done so far is in the row, then in the registry, then in the key.
- `WaitersAreServed`: `NobodyWaitsInVain`, the converse of `Queues`. An upload that
  waits for Redis has its command or its reply in the queue.

`MonitoringSchedulerProofs` proves, for any set of runs, assuming only that `None`
is neither a run nor a result, `TypeCorrect`, `IdleIsReported` and `ErrorBelongs`,
which are inductive with the types; `KeyFollows` from `LastSet` (the last result
is the last SET in the queue, or in the key when the queue is empty), for a
result and its SET are issued by one step; and `WaitersAreServed` from `Waiting`:
queue and runs `Match`, each run that waits is in the queue once and with the SET it
waits for. `Leaves` and `Joins` are the two ways in which a queue that matches
changes.

`ObjectsProofs` proves, for any sets of requests, objects, contents and schemas
(assuming that imports are not empty and `None` is no row, operation or pair of
request and number): `TypeCorrect`, with `ItemsLeft` (a request under way has an
item to deal with), which makes `Item(r)` a content; `Deleted` from `KeptStep`,
what one step keeps of an object; `ValidRows`, through `SentIsValid` (what was sent
was accepted by a schema that was active, which a reload does not undo);
`DeletedOnce`, through `ToldIsGone` and `ToldRightly` (a delete is told ok only of
a live object, so no other was told ok before); `ReportIsTrue`, through
`Provenance`: every row comes from one item of one request and no item makes two
rows (`OriginKnown`, `OriginOnce`), and what was reported of the items dealt with
is right already (`Reported`), for nothing is made for an item before it is its
turn (`NotMadeYet`); and `RegularReads`, through `Views`: what a read found gone
when it came stays gone, and what it found live stays a row.

`ActionMetricsProofs` builds on `ActionLifecycleProofs` and proves `NothingMissed`
under the same assumptions. `DecidedBySomeone` says that a row which speaks of a
decision has a request that took it and is still engaged; with `Exclusive` it
follows that outside `contended` a decision finds its row undecided
(`DecisionIsFirst`), so that a status only moves forward along the order in which
the counts ask (`RowsMoveOn`), and a row not yet counted is still ahead of them
(`UncountedWaits`).

`HealthPollerProofs` proves, for any sets of registrations, slugs and polls
(assuming that `None` is neither a slug nor a row):
`Registrations`, from `RowOfPost`, `SlugsAreUnique` (the constraint) and
`MetInTime` (of two registrations of one slug past their SELECT each is in the
other's history), `SlugsRefinement` from the same invariant (`Answers` and `Takes`
are the steps that answer and that insert, `SlugsFrame` the stutters), `LeftAlone`,
and `HealthFollows`, whose invariant orders the polls: `InOrder`, `RowsOfStep` (which rows a check has written at which step),
`Uncrossed` and `LatestIsNewest` (outside `crossed` a poll that still writes is
later than every poll that has written).

`AgentServiceProofs` proves, for any sets of tenants, requests, agents and
settings and any number of alerts (assuming that `None` is no tenant, alert or
configuration and that a merge of configurations is one):
`ConfigsAreMerged` from `AllBrought` and `SerialUnlessLost`; and `AgentsFollow` from
`ActsOnSettings`, which follows the configuration an agent was given from the GET
to each of its acts.

`InternalAgentProofs` proves, for any tenants, entries, sockets, operators, calls
and limits (assuming that the limits are naturals and that `None` is no tenant, no
tool and no reason to deny): `SubscribersSee` from `StoredOnReceipt`,
`SentIsAnswered` and `OpenListens`, whose critical step is `Broadcast`;
`BudgetsAlwaysAgree` from `UsedIsBelow` (the governance has counted at most what
the runner has, and the call that is reading) and `TurnsAreLeft`; `AuditComplete`
from `CountedAppend`, what an entry adds to a count; `ScopeAlwaysHolds` from
`PolicyIsMade` and `CallIsAllowed` (a call that reads passed `Denial` under the
policy and the scope made of this request; what it reads is `Rows`).

It proves two more results. `RunIsBounded`: `Left` counts what a run may still do
(four steps for each turn left, three for each call left, and those of the turn
it is in); it is never more than `4 * MaxRounds + 3 * MaxToolCalls + 4`, each step of
the run leaves less, and no other step changes it. `FeedRefinement`: the critical
step is `Broadcast`, where `OpenListens` makes every open socket a subscriber;
`NamesATenant` says that an entry that arrived has a tenant, so that an entry counts
as unpublished only before its 202.

The three refinements, `ImplementsGate`, `ImplementsSlugs` and `ImplementsFeed`, are
both proved and properties of a run.

Only model-checked: the liveness properties `RequestsEnd`, `RunningClears` and
`RunEnds`, since fairness and ENABLED are outside the prover's
reach. What makes the last two true apart from fairness is proved: `RunIsBounded`,
and in `WaitersAreServed` of `MonitoringScheduler` that a run which waits has the SET
it waits for in the queue. Every safety and action property of the passing runs
is a theorem.

## 5. Not modelled

- *Ontology language*: parser and validator are pure functions over YAML; the
  models take the schemas that pass as inputs.
- *SDK client and query builder*: an immutable description of one query.
- *API server wiring*: per-request checks without state. One fact worth knowing:
  the control plane's `onRequest` hook and `operatorAuth` both read the
  `Authorization` header, one for the internal secret and one for the operator's
  token; the model takes requests that got past both.
- *CLI*: sequential commands.
- *Analytics tools*: arithmetic over one query's rows, told to a model and kept
  nowhere. (`check_sla` measures from `createdAt`; `compare_periods` splits by
  index, not by time.)
- Clean-ups of old logs and health rows (`log.repository.ts:57`,
  `health.repository.ts:85`): nothing calls them.

Also outside the models: roles of the API's routes (inputs are requests that passed them), YAML and zod
parsing, prompts and model output (an agent is a source of arbitrary allowed
proposals), SQL and Redis themselves (their commands are atomic), and a second
API process. Redis is taken not to lose keys before their TTL. A command that a
process had sent when it crashed has run or never does: one that ran late, but
before the process is up again, is the same behaviour with the crash after it, for a
process that is down does nothing else. (Statements of `Objects` may even run after
a restart.)

## 6. Plan

1. Abstract specifications with refinements that can be proved with the
   invariants at hand: a configuration store of atomic merges outside `lost`
   (`TenantConfig`), a table of objects that end once (`Objects`), an outbox of
   alerts (`AgentService`); and a bound on the steps of a request of
   `ActionLifecycle`, the safety half of `RequestsEnd`.
2. The validator of schemas as operators inside `SchemaReload`, in place of the
   input "schemas that pass".
3. CLI `migrate` (every file in order, skipping what exists).
