# Tao Agent: a TLA+ verification project

Tao Agent runs long office tasks for several tenants in one Node process. A
task is a conversation turn or a scenario form that a model works on with
tools; it can stop to ask its user for a confirmation, is followed through a
stream of events, survives restarts as a record, counts against quotas and may
be started by a clock or by a message from outside.

There is one process and one event loop, and no database: state is in memory
and in JSON files. What makes the program hard is therefore not parallelism
but *interleaving at awaits* (whatever a handler read before an `await` may be
stale after it), *partial failure of writes* (memory has moved, the file has
not) and *restarts* (the files are all that is left, at whatever point the
process died). The models are built around these three.

Paths below are relative to `src/`; `packages/x` is short for
`packages/x/src`.

Contents: [the system](#the-system) · [modules](#modules) ·
[runs](#runs-and-what-they-show) · [findings](#disagreements-found) ·
[fairness](#fairness) · [bounds](#bounds) · [proofs](#what-is-proved) ·
[limits](#what-is-not-shown) ·
[not modelled](#not-modelled) · [plan](#plan)

## The system

### Components that keep the program's core state

| component | state | operations | what it talks to |
|---|---|---|---|
| **Task orchestrator** `packages/orchestrator/task-orchestrator.ts`, `packages/core/task-status.ts`, `packages/knowledge/file-task-store.ts` | `tasks`, `runners`, `seqCursor`, `eventLog`; on disk a change stream and an event stream per task | `recover`, `submit`, `run`, `confirm`, `cancel`, the listener on the runner's events, `attach` | calls the runner, is called by the server, publishes events |
| **In-process runner** `packages/agent-host/in-process-runner.ts` | delivery chain, lane, current action, abort flag | `prompt`, `confirm`, `abort`, `close`, the `before_tool` hook | the kernel's lane; confirmations; the tenant gate; events go to the orchestrator's listener, one at a time |
| **Confirmations** `packages/agent-host/confirmations.ts` | a record, a waiter and a timer per action, in memory; the action file | `request`, `approve`, `reject`, `cancel`, expiry, restart sweep | the hook awaits its promise; local control keeps the session grants |
| **Tenant gate and metering** `packages/agent-host/tenant-gate.ts`, `packages/core/metering.ts`, `packages/knowledge/file-metering-store.ts` | a promise chain and seats per runner factory and tenant; usage shards per tenant on disk | `run` (the critical section), preflight, usage records, the quota gate before every tool | the runner enters it with each prompt |
| **Admission** `packages/server/execution-registry.ts`, `packages/server/main.ts` | receipts on disk, calls in flight, conversation reservations, the task queue, running tasks | `submit` (idempotent), `guardedSubmit`, `nativeSubmit`, the driver, `cancelTask`, `closeFinishedTask`, apply and suspend of a configuration | everything that starts a task goes through it |
| **Automations** `packages/server/automation.ts`, `connector-inbound.ts`, `connector-outbound.ts` | plans, occurrences and outbox on disk; submissions in flight | `tick`, `submitOccurrence`, `dispatch`, `cancelOccurrence`, `deliver`, `deliveryAction`, pause and remove | submits through admission; reads finished tasks; sends results |
| **Event streaming** `packages/server/sse.ts` | connections, their buffer and anchor | attach with backlog, publish, close | subscribes to the orchestrator |
| **Tickets** `packages/server/tickets.ts` | one-time tickets with expiry, a count per principal | issue, consume, sweep, revoke | open event streams and downloads; revoked when an account changes |
| **The answer's way to the page** `packages/agent-host/response-stream.ts`, `web/assets/core.js`, `run-display.js` | the open buffer and its timer; on the page the text, the last seq, whether the task runs | delta, snapshot, end; connect, poll, reload | stream and polls of the same stored events |
| **Knowledge indexing jobs** `packages/server/knowledge-jobs.ts` | job files, a queue of 100, one worker loop | create, retry, recover, the loop | a configuration replaces the queue if it is not busy |
| **Sandbox manager** `packages/server/sandbox/*` | leases, seats taken before a container exists, operations per lease | acquire, run, release, expire, sweep, the configuration check | used by the runner's tools, released with the task |
| **Egress proxy** `packages/server/sandbox/egress.ts` | connections of a sandbox, the bytes carried | request, tunnel, look-up of the name, refusal at the limit, close | the clients inside the sandbox, the targets outside |
| **Local computer control** `packages/server/local-control/*` | the reserved directories, the process, its timers | run a command, copy in, copy out; classify | session grants come from confirmations |
| **Admin settings** `packages/server/admin-settings.ts` | draft, active version, history, credentials; file and backup | edit, publish, roll back, replace a credential | a published version is installed in the process and replaces the task queue |
| **Accounts** `packages/server/admin-identity.ts`, `main.ts` | accounts, their revisions, sessions, seats of a tenant | bootstrap, claim, log in, create, reset, disable, change of role or password | a disabled account loses sessions, tickets and tasks |
| **OIDC login** `packages/server/enterprise-oidc.ts` | the provider's record, bindings, login states | configure, remove, bind, begin, callback | the provider, over the network |
| **Model gate** `packages/agent-host/model-controls.ts` | window of a minute, calls under way, budget of an evaluation | admit, retry, settle, restart | in front of every model request |
| **Evaluations** `packages/server/admin-evaluations.ts` | runs, their results, one controller | start, work, cancel, recover | calls the models under a budget |
| **Delegation** `packages/agent-host/extensions.ts` | positions, results, open runners of one tool call | the pool of `delegate_tasks`, deadlines, abort | a runner of its own for each sub-task |
| **Extension commands** `packages/server/custom-extensions.ts` | enabled extensions, their generation, open confirmations, owners with a command under way | ask, confirm, switch, close | handlers of deployed extensions |

### Components that compute or serve

Access, retrieval and fusion (`core/access.ts`, `core/retrieval.ts`,
`knowledge/vector-retrieval.ts`), chunking and revisions (`core/chunking.ts`,
`core/revision-extract.ts`), reconciliation of tables (`core/reconcile.ts`),
the permission gate with path policy and governance
(`core/permission-gate.ts`, `core/path-policy.ts`, `server/tool-governance.ts`), the
classification of local commands, the address a request comes from and the
departments of an organization (`server/enterprise.ts`), the callbacks of connectors
(`server/connector-inbound.ts`), scenario cards and the platform's own
(`core/scenario.ts`, `core/preset-cards.ts`), agents and skills of a workspace
(`server/addons.ts`), prices, quotas and the dashboard (`core/metering.ts`,
`core/dashboard.ts`), what is made of the configuration (`server/config.ts`), templates, lessons and
provenance (`core/assets.ts`, `core/lessons.ts`, `core/provenance.ts`), the
translation of kernel events and the fan-out (`agent-host/event-translator.ts`, `core/fan-out.ts`)
are algorithms: what state they have is the argument of the next call, and they
are modelled as operators. So is the routing of a request
(`server/main.ts`, `app.ts` and eighteen handlers in between), which decides who
answers, who asks, and in which order it is checked.

Three stores are written by requests that overlap, or in several writes: the
documents of a knowledge base with their older versions
(`server/workspace-services.ts`), long jobs with the memory of their
conversations (`core/job.ts`, `server/chat-job.ts`, `workspace-management.ts`),
and the files of a workspace with catalog, recycle bin and versions of results
(`server/workbench.ts`, `resources.ts`). Office documents, the pages apart from
the answer they show, the agent kernel under `vendor/`, the sandbox image, build
and deployment are not modelled; `PROJECT.json` lists each with its files and
[Not modelled](#not-modelled) says why.

### How a task travels

    user / plan / connector / evaluation
       |  submit with an idempotency key
       v
    ExecutionRegistry --receipt on disk-->  guardedSubmit (conversation free?)
                                               |
                                               v
                       orchestrator.submit:  QUEUED, two streams on disk
                                               |   answer to the caller
                                               v
                       TaskQueue: wait for a seat --> orchestrator.run
                                               |
                        tenant gate: preflight, seat --> lane.prompt
                                               |
          events one by one --> listener --> moves of the task --> clients (SSE)
             |                                 |
       before_tool: quota gate,         AWAIT_CONFIRM <--> Confirmations
       permission, confirmation                |
                                               v
                       SUCCEEDED | FAILED | CANCELLED,  runner closed, seat passed on
                                               |
                        automation tick: occurrence closed, outbox, delivery

At any arrow the process may die; at start, `recover()` folds the change
streams, interrupts what had not ended, sweeps the actions, and the tick takes
up what the occurrences and the outbox hold.

### What is hard, and what makes it correct

- *Orchestrator.* A move is: memory, event, change row, publication. The
  listener publishes an event **before** it derives the move from it, so a
  cancel, a confirm or the end of the prompt can get in between; an artifact's
  row is stored last, under the seq of an earlier event. Correct means: the
  change stream folds to what memory says, every task follows the life cycle
  across restarts, a reconnecting client misses nothing and is told only what
  is stored, live tasks have an executor, everything accepted comes to rest.
- *Confirmations.* Five parties finish the same action: two requests, the
  timer, cancel, and the hook. Each changes memory, saves, awaits and looks
  whether it is still the last. Correct means: one verdict, "yes" only with a
  consent that was in time and not overtaken by a cancel, no waiter forgotten,
  no session grant without an approval, memory and file in agreement.
- *Quotas.* Check and use are separated by awaits, so each runner factory has a
  gate with a chain of promises per tenant, which serialises preflights, and
  seats, which count tasks that have no usage yet. Evaluation cases have factories
  of their own. Correct means: no interleaving takes a gate past the task limit,
  and a refused preflight blocks nobody. That the *tenant* keeps to its limit, as
  the comments say, takes one gate for all its tasks, which it does not have
  (`TenantWithinLimit`, among the [disagreements](#disagreements-found)).
- *Admission.* A client repeats a request with its key while the first is in
  flight, after an error or after a restart. Correct means: a key makes one
  task, an answer goes only to who asked for it, one task of a conversation at
  a time, seats never drift, what is pending has a driver, what is released is
  idle, a configuration is not replaced under a submission.
- *Automations.* The tick walks snapshots and waits in the middle of them.
  Correct means: an occurrence makes one task, cancelling it stops that task,
  its result is filed if it is closed, of the times missed one is made up for,
  a native message that may have arrived is not repeated by itself, and what is
  due happens.

- *Sandboxes, indexing jobs, local commands, evaluations, delegation.* Work that
  goes on behind a request, with a bound on how much, an end that several parties
  may bring about, and books kept in memory, on disk or in the operating system.
  Correct means: the bound holds, one end each, nothing is left reserved, and
  what the record calls over is over.
- *Settings, accounts, tickets, confirmations of commands, login states.* A right
  given at one time and used at another, while administrators change what it was
  given for. Correct means: it is used once, and not across the change.
- *The answer on the page.* Four transports of the same text, of which one loses,
  one delays and one repeats. Correct means: a beginning of the answer, never
  shortened, whole when the page stops listening.
- *Knowledge base, long jobs, files.* A document is read, embedded over the network
  and written; a job is read and written whole by tasks, edits and a deletion that
  waits; a file is moved, then entered. Correct means: a citation opens the text it
  cites, a conclusion is not lost under another, no file is lost, and its name gives
  nobody a right to it.
- *Routes.* Twenty handlers asked in a row, each with checks in an order of its own.
  Correct means: none hides another, and no status tells what its reader may not see.
- *The way out of a sandbox.* A budget and a limit kept across look-ups that take
  time, while clients leave and the sandbox is closed. Correct means: what is over
  the budget ends, and nothing is connected afterwards but what the code cannot see.
- *Algorithms.* Boundaries, ties and repetitions; equal inputs that are spelled
  differently; an answer that depends on what its reader may not see.

`PROJECT.json` lists the hazards line by line.

## Modules

| module | models | abstract specification |
|---|---|---|
| `TaskStatus` | the statuses and `TRANSITIONS` of `core/task-status.ts` | |
| `TaskLifecycle` | what a task does, seen from outside: created once, moves along the table, keeps its last status, interrupted by a restart | it is one |
| `TaskOrchestrator` | orchestrator, its two streams, driver, hook, listener, cancel, confirm, one client | implements `TaskLifecycle` under `Current == Fold(changes)` |
| `ActionDecision` | one verdict per action | it is one |
| `Confirmations` | `confirmations.ts` with hook, timer, save, grant, restart | implements `ActionDecision` |
| `QuotaGate` | chain, preflight, seats, usage, tool gate, billing periods | |
| `Admission` | registry, reservation, queue, driver, cancel, apply, suspend | |
| `Automations` | plans, occurrences, outbox, tick, users | |
| `SandboxManager` | leases, seats, runtimes, operations, the configuration check | |
| `KnowledgeJobs` | indexing jobs, the queues of two configurations, their workers | |
| `AdminSettings` | settings, file and backup, what the process runs | |
| `AdminIdentity` | accounts, derivations of passwords, sessions, seats | |
| `EnterpriseOidc` | provider, bindings, login states, logins | |
| `Streams` | tickets and the streams opened with them | |
| `LocalControl` | calls of the local tools, process groups, timers, copies | |
| `LiveText` | answer, deltas and snapshots, stream, polls, page | |
| `ModelControls` | the gate in front of the models | |
| `Evaluations` | evaluation runs and their workers | |
| `SubTasks` | the pool of `delegate_tasks` | |
| `CustomExtensions` | commands of extensions and their confirmations | |
| `Documents` | access, search by words and vectors, fusion; fragments, slices, revisions, reconciliation of tables | the property is a second definition |
| `ToolGate` | tool calls, local commands, addresses, departments, callbacks of connectors | likewise |
| `Forms` | cards and prompts, the preset cards, agents and skills | likewise |
| `Startup` | configuration, account file, doctor; costs, quota, dashboard | likewise |
| `Assets` | templates, lessons, provenance | likewise |
| `Progress` | events of the kernel as a task reports them, fan-out | likewise |
| `HttpRoutes` | the twenty handlers of a request, their rows and checks | the property is a second definition |
| `KnowledgeBase` | documents, their history, the instances of the services | |
| `LongJobs` | long jobs, the tasks of their conversations, edits and deletions | |
| `Workspace` | files, catalog, bin, versions of results and their copies | |
| `Egress` | the proxy of a sandbox: connections, tunnels, budget, close | |
| `Services`, `MCServices` | eleven of the components side by side; an instance of them, with fairness | |
| `Stores` | the three stores and `Egress` side by side | |
| `MCData` | an instance of `Stores`, and beside it the algorithms over sets of inputs | |
| other `MC*` | instances for TLC | |
| `*Proofs` | theorems | |

The modules share no variables. Each takes what it needs of its neighbours as
the nondeterminism they show it: for `Admission` a running task is "queued",
"running" or "over" whenever it likes; for `Automations` a submission yields a
task, an error, or the answer its key already has, which is what `Admission`
establishes (`CreatedOnce`, `AnswerMatches`); for `TaskOrchestrator` an action
is pending, approved or refused, and `Confirmations` shows that the wait ends.

Common conventions:

- **One action is one block the event loop runs to completion**: from a
  resumption to the next `await` that really waits. An action of the model never
  contains an await that lets another handler in.
- **A write** takes effect in the action that makes it. A flag among the
  constants lets it fail (`DiskFaults`, `EventFaults`, `SaveFaults`,
  `WriteFaults`, `ReceiptFaults`, `JobFaults`, `Faults`); the model then goes
  down the code's `catch`. `ReadFaults` does the same for usage records that
  cannot be read.
- **A crash** keeps the disk variables and resets the others as the next start
  does. Where a block makes two writes, a crash may fall between them
  (`MoveCut`, `FirstWrite`).
- **A definition named "Mutant of X"** is X with a mistake someone could make
  in that code. The specifications never use it; replacing X by it makes the
  property of the corresponding run fail, which shows that the run looks at
  that code.

### TaskOrchestrator

`status`, `cursor`, `log`, `runner` are the maps of the class; `changes` and
`events` the two files of each task, as sets of rows (`seq` orders them);
`driver`, `tool`, `listener`, `canceller`, `confirmer` say at which `await`
each activity of a task stands; `linked` and `seen` are a client that
reconnects with its last seq as anchor. `Move` is `applyTransition`:
`MoveStored` when all writes succeed, `MoveFailed` when the change row fails
(memory goes on to FAILED, which is written too, or not), `MoveCut` when the
process dies between event and change row. A write that reports an error may
still leave a readable line behind (`WriteChange`, "kept").
`Deliver` is the fan-out of a runner's event, `ListenX` the move derived from
it. A task has at most one cancel and one confirm request in flight.

### Confirmations

`finish()` changes the record object, saves, awaits, then continues only if the
record in memory is still its own: the model keeps the *identity* of that
object in `writer`, and each call of `finish()` in flight as a record of
`flights`. `clock` is the approval's time: "late" once `expiresAt` has passed
(a request that comes now is refused), "fired" when the timer ran. After a
grant that is refused the action is "failed" in memory, but the file keeps
"approved" with its grant until the next start sweeps it: `GET
/tasks/:id/actions` answers from the file, so it shows "approved" for an action
whose call was refused. No document promises otherwise, so `DiskFollows` says
what does hold: the file follows memory except for actions that failed.

### QuotaGate

A member of `Gates` is a tenant's place in the `TenantTaskGate` of one runner
factory, `GateOf` the one a task's prompts go through: `createRunner`
(`server/main.ts:448`) takes the factory of the task's evaluation case if it has
one (`main.ts:1381`), else the active one, and each factory makes a gate of its own
(`in-process-runner.ts:545`). A configuration that is applied brings a further
factory (`main.ts:1369`). A task's gate is a constant: which factory its submission
will find is not for the gate to say, and the theorems are about every choice.
`chain` is a gate's promise chain with the task in the critical section at its
head; `inflight` its seats; `snapshot` the union of its seats and the task itself
that a preflight was handed. Usage records are the tenant's, whatever gate a task
went through. A preflight reads the records twice (`Total`, `Judge`), as
`evaluateQuota` does for the totals and the task count. `opened` and `window`
are the billing periods the tool gate and the preflight captured. Tokens and
cost are one limit on rounds, a round being the unit in which usage is
recorded.

### Admission

A call makes at most one task, so a task has the name of its call. `call` is
where the submission stands, `receipts` the files, `queues` one `TaskQueue` per
configuration: a task entered the queue of its day (`seat`) and gives its seat
back there, even after a newer configuration came. `released` is what
`closeFinishedTask` does: the runner closed and the sandbox freed.

### Automations

`plan`, `occ`, `out` are the three directories; `at`, `todo` and `cur` are the
tick: its phase, what is left of the snapshot it took, what it waits for.
Because handlers run one at a time, another one gets in only where the tick
really waits (`Yielded`): for a submission, or for the network. The name of an
occurrence of a plan is the plan and the scheduled time, as in the digest the
code computes. `reached` and `fired` are history variables for the properties.

### SandboxManager

`leases` is the map of the manager (task to lease), `owner`, `expired`, `timer`,
`runtime` are of the lease objects, which live on when the map has forgotten
them: that is where the orphan of `Sandbox_orphan` comes from. `awaiting` counts
the releases of one lease that wait for its runtime to exist, `closer` says
that one waits for it to be closed. An operation (`op`, `on`, `ahead`) queues on the lease it found, waits
for those ahead, and may be cancelled or time out at each place. A runtime
takes time to be created and to be closed, may fail to start and may die.

### KnowledgeJobs

One worker loop per queue, and one queue per published configuration: a request
keeps the queue it found when it arrived. `doing` is the job of the loop,
`disk` what the record says. The loop, `create`, `retry` and `recover` write at
the places where the code writes, and each write may fail; the handler of
errors writes too. `lost` collects the jobs no step will settle, so that
`JobsSettle` says all others are.

### AdminSettings

A change is one synchronous step: read the file if memory is older, check the
expected revision, write temporary file, backup and file, install. A failure
may come at each of the three writes. `retired` holds the credentials that were
replaced, `seen` what each administrator has on the page, `torn` whether the
process was told of a failure after the file had been replaced.

### AdminIdentity and EnterpriseOidc

Both have handlers in two halves. Of a password that is being derived
`deriving` keeps what the first half read; of an OIDC login `at` keeps what the
first half read of provider and login state. The second half reads again, and
the properties say that this is enough. In `AdminIdentity` a revision stands for
everything a credential may depend on, as in the code. In `EnterpriseOidc`,
`edits` numbers the changes of the provider, independently of the revision the
code compares, so that `NoLoginAcrossAnEdit` is a statement about the code's way
to detect a change. The token's signature and the provider are the environment's.

### Streams and LiveText

`Streams` has a ticket from issue to consumption, expiry or revocation, the
counts by which the limits are kept, and the streams opened with it.
`accountChanged` revokes and closes after the save, which may fail.
`LiveText` follows one message: `response-stream.ts` makes deltas, which go to
the streams only, and snapshots, which are stored; the runner's chain delivers
them in order; the page merges what stream and polls bring (`Grown`), in whatever order they come, across reconnections and a reload.
A text is the sequence of its pieces, so a gap or a repetition shows.

### LocalControl

A call reserves the directories, works and gives them back in `finally`. Of a
command the module keeps the leader (`child`), the rest of its group (`group`),
the timer of the command and the one that gives up on the pipes, because exit,
close, error, timer and cancellation come in any order. A copy may fail in the
middle or be cancelled.

### ModelControls, Evaluations, SubTasks, CustomExtensions

`ModelControls` keeps beside the code's `window` what really went out in the
last minute (`sent`) and beside its budget what calls took (`spent`); properties
compare the two. The minute slides by removal of its oldest request.
`Evaluations` has the workers of a run as the code has them: take a case, ask the
models, record, save; the save writes all runs. `SubTasks` is the same shape with
a deadline and an abort for each position; an abort while a runner is being created
finds it before its prompt, so no runner is at work in an aborted call untold. In `CustomExtensions` a confirmation
carries the generation of its extension; disabling raises it.

### Algorithms

The operators follow the functions, over data as small as the functions tell
apart: a fragment is its owner, base, document and two scores; a paragraph its
level and length, or its text; a row its normalised key and the numbers in its
columns; a path its names; a command what the lexer finds in it; a value of a form
what validation says of it. Each property is another definition of what is
computed (the headings above a paragraph from the text alone; the answer of a
search with invisible fragments taken away beforehand; the report with sides
exchanged), or a law (rules added only tighten).

Where the functions keep something between calls, the input is the sequence of the
calls: `Upto(n, S)` are the sequences of up to n of them. So the lessons of a tenant
are what batches of changes taught (`Taught`), the agents and skills of a workspace
what requests made of them (`After`), a department tree what edits left. A property
about such an input is about what several calls may bring about together: an agent
whose skill is gone, a department that is its own ancestor, a lesson counted more
often than it was taught.

- `Documents`: `AccessSound` and `RetrievalSound` say who may do what, what a search
  finds, and that what its member may not see changes nothing of it; `ChunksSound`, `SlicesSound`, `RevisionsSound` lose no text and invent
  none; `TablesReconciled` ties the report to the rows, whichever side comes first.
- `ToolGate`: `PathsSound` and `GateSound` over every spelling of a path and every
  rule; `CommandSound` over what the lexer tells of a command; `AddressSound` says
  that a header is believed only as far as trusted proxies passed it on;
  `DepartmentsSound`, that every department leads to the top; `CallbackSound`, that a
  connector shown as configured takes what its user sends and nothing else makes a task.
- `Forms`: what a prompt says was filled in and accepted; a tenant gets
  its own card before the platform's; `PresetSound` checks every card the platform
  ships: its template drops nothing a user fills in, its tools exist; `AddonsSound`.
- `Startup`: costs add up over every break-down, with less than a
  micro-yuan per group lost to rounding, and over the quota's period the dashboard
  shows a full limit just when the gate refuses; a configuration that is accepted has
  a price for each tier a limit of cost counts and starts again; an account that is let
  in has its own token; the doctor passes no machine whose tasks would fail.
- `Assets`: a lesson stands for equal changes that were made, a correction that is not
  kept is reported, none injected weighs less than one left out; a template that
  passes has what it requires; a figure is traced to its sources and back.
- `Progress`: numbers without gaps, each event of a call told of the step of its last
  start; a pool never over its limit, each result in its place, one report of each
  start and each end.

### HttpRoutes

A handler is what it claims, a sequence of rows, and what it does when none of
them matches; a row has methods, a path, the kind of object it is about, its checks
in the order of the code, and whether it changes anything. `Handlers` is the order
in which `createServer` asks them, `Handler` and `Row` the first that fits. `Answer`
goes through the gates of origin and session and then the checks of the row. A
path is its segments; what a request carries is a token, a session with or without
its secret, a ticket, an origin, and values that are good or not. `RoutesSound` says
for every row: what the asker may not see is answered like what does not exist,
in every state it may be in; a session changes something only with its secret and
from a page of this server; a ticket opens what it was issued for and nothing else;
members do not pass the doors of administrators. And every row is reached by some request:
two are not, the control session of `createServer` (`main.ts:1430`), which the
handler of administration claims before, and the change of a job in
`backend-api.ts:97`, which the management handler does.

### KnowledgeBase

`store` and `history` are the files of a document and of its older versions,
`epochs` the count of writes each instance of `createWorkspaceServices` keeps in
memory, `current` the instance that serves. `Begin` and `BeginReindex` are ingestion
and rebuilding up to the call of the embedding service, with what they read in
`request`; `Embedded` is the rest, which may find the document changed, or fail
after the history is written; without embeddings all is one step (`IngestNow`).
`Apply` replaces the instance under requests, `Restart` forgets requests and counts.
`texts` remembers what each version said when it was cited.

### LongJobs

`job` is the file of each job (its title only as "new" or "named"), `task` what the
closure of `nativeSubmit` knows of a task (`filed`, the job it was stored with; `job`,
the one it will conclude to, which `Register` changes), `given` the job that
`TaskPresentation` shows it under. `SubmitToJob` and `Submit` are the two ways into
`nativeSubmit`, `Enroll` the part after the orchestrator's `submit`, `Start`,
`Register`, `Finish` and `Conclude` the run and its `.then`. `Delete`, `DeleteNext`
and `Archive` are one request that awaits each cancellation.

### Workspace

`file`, `catalog`, `bin` and `binned` are what is on disk: files, their entries,
the files in the bin and the records that name them. No request waits between its
writes, so the only thing that comes between them is the death of the process: each
action of several writes has a disjunct for each point where it may stop (`Dies`).
`holders` remembers who brought or used a text, `torn` the texts whose entry was
never written, `inherited` those whose name had the entry of another.

### Egress

`conn` holds for each connection whether its client is there, what it is (plain
requests or a tunnel), how far its target is, and whether the end of the client was heard by
anyone; `transferred` is the budget's counter, `closed` that of the proxy. The
look-up of a name separates the check of the request from the dial. `excess` counts what a
connection carried when the budget was gone: one chunk, and for a tunnel what came
with its request; `late` marks targets dialled when it was gone, which carry none.

### Services, MCServices, Stores and MCData

These components share no state, and their products would be large and show
nothing. In `Services` the variable `part` names the component a behaviour is of;
the variables of the others hold "off" and never change, so the state space is the
sum of the components' and a run asks one question of all. `Stores` does the same for
the three stores and the egress proxy. `MCData` adds to `Stores` the states that are
one input of one algorithm, which no step changes: all inputs are initial states,
and the invariants compare the algorithm with its property there. `MCServices` adds to `Services` what only a run needs: fairness, and what must end.

## Runs and what they show

`tlc -config X.cfg M` in this directory. The runs that pass:

| run | question | instance |
|---|---|---|
| `Orch_core` | With a disk that stores what it is given: does memory agree with the disk (`DiskAgrees`), does a client miss or mishear anything (`ClientSound`), has every live task an executor (`NoZombie`), does the program implement the life cycle (`ImplementsLifecycle`), does every task come to rest with its runner released (`EveryTaskSettles`)? | one task, seq up to 4, a crash; confirmations come after the wait is known; fair |
| `Orch_disk` | With change writes that fail, or fail and leave their line: does a task show progress a restart takes back, does a seq name two events? | the same, confirmations also come early |
| `Conf_core` | One verdict per action, consent in time (`ImplementsDecision`), disk follows memory and grants have authority (`Safe`), every wait gets its verdict (`WaitSettles`)? | two actions, two requests, failing saves and grants, a crash; fair |
| `Quota_core` | Does a gate ever pass the task limit (`WithinTaskLimit`), do its seats stay right, is every prompt judged? | three prompts through one gate, two seats, two billing periods, records that are not written, a crash; fair |
| `Adm_retry` | One task per key and answers to whom they belong (`KeysHonoured`), one task per conversation; is every call answered, every task closed, nothing left after a suspension (`EverythingEnds`)? | three calls with a key, one without, receipts and jobs that fail, a crash; fair |
| `Adm_queue` | Do seats, configurations and releases stay right when the queue changes (`QueueSound`), has everything pending a driver? | three tasks, one or two seats, one new configuration, a crash |
| `Auto_core` | One task per occurrence, no closed occurrence without its delivery (`Safe`), one missed time made up for? | a plan that misses times, an event that comes again and whose result is delivered, failing writes, a crash |
| `Auto_live` | Does cancelling end the task, is a native message repeated, do occurrences, deliveries and due plans come to an end (`EverythingSettles`)? | a plan, two attempts, one intervention, a crash; fair |
| `Sandbox_core` | Are the seats bounded and the operations of a lease exclusive (`Safe`); does every lease leave the map and every operation end (`SeatsReturn`)? | two tasks, three leases, one seat, two operations of one task, one a `provision()`, one of the other, a configuration check, an administrator; fair |
| `Services` | Eleven components, each with its `Safe`: jobs, evaluations and sub-tasks (`JobsSafe`), settings, accounts with tickets and streams (`IdentitySafe`), local calls, models; the page shows a beginning of the answer and takes nothing back (`PageTrue`); confirmations and login states work once (`GrantsSafe`); what was started ends (`WorkEnds`) | the constants in `Services.cfg`: two jobs over two queues of one place, two administrators and five writes, two accounts and one seat, two users and three tickets, three local calls, an answer of two pieces, three model calls, two evaluations of three cases, three sub-tasks of two workers, two owners with two extensions, two login states and two requests; a fault and a restart each where the code meets them; fair |
| `Data` | Do members find what they may, with nothing lost in cutting and comparing (`KnowledgeSound`)? Does the stricter rule decide, on tools, commands, addresses and configurations (`GuardsSound`)? Are forms, cards and add-ons accepted and compiled as they say (`FormsSound`), do reports agree with what they are of (`ReportsSound`), are requests answered in the right order of checks (`RoutesSound`)? Do the stores keep what was cited, concluded or brought, and does the proxy end with its budget and its sandbox (`StoresSafe`)? | about 290 000 inputs and every row of every handler; one document, two users, two requests, two instances, a fault; two conversations with two tasks, an edit, a restart; two names, two users, a place in the bin, a crash; two connections for one place, a budget of one chunk, two requests of each |

Deadlock is checked in the runs of the orchestrator and of the quota gate,
whose environment can always go on. In the others the system rests when all
actions are done, all calls answered and all bounds used up, so it is not; that
what was started does end is a liveness property there.

`ComesToRest` and `CancelledIsOver` hold under conditions their runs state:
confirmations that do not overtake the announcement of the wait, and files that
can be written. The next section has what happens otherwise.

## Disagreements found

Each was read back against the code. One run is kept for a disagreement:

| run | property | what the sentence says | what the code does |
|---|---|---|---|
| `Sandbox_orphan` | `NoOrphan` | a task keeps one sandbox and gives it back at its end, `packages/server/test/sandbox.test.ts:90` | of two releases of one lease the second frees the seat while the process is being killed; the first, when its kill is over, removes the *next* lease of the task, whose runtime then lives on outside the map |

The table below lists other properties the modules state and TLC refutes, with
the sentence they are taken from. They are kept out of the runs above, which ask
what the code does promise. To see one, take the configuration named, change it
as said, use the specification `Spec` and put the property in place of the
others (as a PROPERTY where marked, else as an INVARIANT).

| property | instance | what the sentence says | what the code does |
|---|---|---|---|
| `NoStartAfterCancel` (property) | `Orch_disk`, `MaxEvents` 5 | "CANCELLED 后又被恢复执行" is the accident the table exists to prevent, `core/task-status.ts:50` | a cancel while the prompt is prepared finds no operation to abort, and the model starts afterwards |
| `SeqNamesOneEvent` | `Orch_disk`, `EventFaults` | "只要新事件 seq 严格大于任何已发过的号即可", `orchestrator/task-orchestrator.ts:233` | after a failed event write and a restart the cursor is rebuilt too low and a published seq is given away again; a client anchored there drops the new event |
| `FailureIsStored` | `Orch_disk` | a task does not rest on a status the disk does not hold, `task-orchestrator.ts:531` | the write of the FAILED that replaces the move may fail as well |
| `ToldAfterStored` | `Orch_disk` | the change goes "先于事件对外发送", `task-orchestrator.ts:328` | the event is in the log before the change row; a client that connects after the failure is sent it |
| `NoZombie` | `Orch_disk` | a submission that fails leaves no zombie, `task-orchestrator.ts:571` | if the first write fails, the record stays in memory as QUEUED without an executor |
| `CancelAborts` | `Orch_disk` | cancel is the only way to stop a running tool, `task-orchestrator.ts:465` | if the refused confirmation cannot be saved, `abort` throws before it reaches the lane |
| `NoStaleWait` | `Orch_disk` | AWAIT_CONFIRM means waiting for the user, `core/task-status.ts:15` | a confirmation that overtakes the `await_confirm` event leaves AWAIT_CONFIRM behind with nothing to confirm, and `run()` leaves it there |
| `QueuedRestored` (property) | `Orch_disk` | "QUEUED 任务重启后原样恢复", `docs/M5.md:91` | `recover()` interrupts it |
| `TenantWithinLimit` | `Quota_core`, `Gates` `{g1, g2}`, `GateOf <- OneEvaluation` | "所有 Runner 共享同一个门", what the gate counts decides whether concurrency breaks `maxTasks`, `agent-host/src/in-process-runner.ts:542`; seats are strictly reserved, "不会被并发突破", `agent-host/src/tenant-gate.ts:21` | the gate is one factory's (`in-process-runner.ts:545`) and every evaluation case has a factory of its own for the same tenant (`server/main.ts:1381`, picked at `448`): two prompts of users and one of a case are judged without each other and run together over a limit of two; up to five workers of an evaluation do this to each other too |
| `NthTaskWorks` | `Quota_core`, `MaxTasks` 1 | the N-th task of N works, `server/main.ts:342` | preflight compares with `>`, the tool gate with `>=`: the N-th task's tools are blocked after its first record |
| `PeriodResets` (property) | `Quota_core` | "跨周期自动归零", `core/metering.ts:112` | the tool gate keeps the period it captured at submission |
| `OvershootBounded` | `Quota_core`, `MaxTasks` 3, `MaxTokens` 1, `MaxRounds` 4 | the check lags one round, `core/metering.ts:361` | a blocked tool does not end the model's loop |
| `WithinTaskLimit` | `Quota_core`, `ReadFaults` | an unavailable store refuses, `core/metering.ts:302` | a shard that cannot be read counts as no usage |
| `PendingIsDriven` | `Adm_queue`, `JobFaults` | a failed submission leaves no QUEUED record, `orchestrator/task-orchestrator.ts:355` | when the job cannot be filed after `submit`, the task stays QUEUED and nobody drives it |
| `PausedDoesNotFire` (property) | `Auto_live`, `Plans` `{p1, p2}`, `Kind <- KindOnce`, `Period <- PeriodOne`, `Target <- NoTargets` | "暂停后不得触发", `server/test/automation-realtime.test.ts:16` | paused while the tick waits for another plan, it fires from the snapshot |
| `CancelledNotSent` (property) | `Auto_live`, `Plans` `{}`, `Events` `{e1, e2}`, `Target <- Targets`, `MaxTime` 0 | "取消阻止自动投递", `server/test/connector-outbound.test.ts:45` | cancelled while the tick waits for another delivery, it is sent from the snapshot |
| `NativeNotRepeated` (property) | `Auto_live`, `Plans` `{}`, `Events` `{e1}`, `Target <- Targets`, `MaxTime` 0, `Faults` | "已成功投递的记录不会自动重发", `deploy/自动化与连接器配置.md:43` | when the record of a success cannot be written, it is recorded as a failed attempt and sent again |
| `CancelledIsOver` | `Auto_live`, `Faults` | cancelling an occurrence cancels its task (the code's own order, `server/automation.ts:109`) | when the last write of a submission fails, the record stays "submitting"; cancelling it marks it cancelled while its task runs |

The modules of `Sandbox_core`, `MCServices` and `MCData` state some more that one
would expect of the code; nothing written down promises them. Each is refuted in the
instance of its run (for a component `X` of `MCServices`, by the invariant
`part = "..." => X!P`).

| property | what the code does |
|---|---|
| `SandboxManager.RuntimesBounded` | `sandbox/manager.ts:73` counts leases: a seat freed by a second release is taken again while the old process is being killed, so for a while more runtimes live than are configured |
| `KnowledgeJobs.NoneLost` | `knowledge-jobs.ts:91`: a job whose error cannot be written stays "processing"; one whose workspace had no enabled account at a restart stays open |
| `KnowledgeJobs.OnlyCurrentWorks` | `main.ts:1372`: a request that arrived before a configuration was published starts the worker of the queue that was replaced |
| `AdminSettings.AlwaysRunsTheActive`, `NeverBlind` | `admin-settings.ts:445`: a failed save may have replaced the file; the next change reads it, builds on it and does not install it. A backup brings back an old revision, against which a stale page matches |
| `AdminIdentity.DisabledIsIdle` | `main.ts:1376`: disabling cancels the tasks there are; a request that was authenticated before submits one afterwards |
| `EnterpriseOidc.RoomHeld` | `enterprise-oidc.ts:62`: the places for login states are counted before the network is waited for and filled after |
| `LiveText.WholeAfterCancel` | `core.js:311`: a page told of a cancelled task stops listening, and what the model had still written comes later |
| `ModelControls.CountsWhatIsSpent` | `model-controls.ts:38`: the reservation of an attempt that is tried again is replaced, not settled, so the budget counts more than what was spent |
| `Evaluations.BusyIsAtWork` | `admin-evaluations.ts:48`: a run whose first save fails keeps its controller, and no other starts before a restart |
| `SubTasks.OnlyGoodFiles` | `extensions.ts:239`: the files of sub-tasks that failed are handed over with the others |
| `CustomExtensions.OffIsIdle` | `custom-extensions.ts:231`: a handler under way is not stopped when its extension is switched off; and as handlers have no time limit, one that never ends locks its owner out |
| `ToolGate.ChildrenGoverned` | `main.ts:932`, `tool-governance.ts:50`: the rules of the administrator are not asked about the calls of sub-tasks |
| `Forms.NoBlanks` | `scenario.ts:238`: a line is kept for one filled field and then says blanks for the others |
| `KnowledgeBase.CitationsAlwaysTrue` | `workspace-services.ts:284`: a document that is deleted and ingested again finds the history of the deleted one and does not replace it, so a citation opens the old text; `:228`: a request of a replaced instance counts its writes where the new one does not look |
| `LongJobs.ArchivedIsQuiet`, `NothingErased` | `workspace-management.ts:58`: a task that is submitted while a deletion cancels others goes on under the archived job; `:59`: the record read at the beginning is written back, over conclusions of that time |
| `LongJobs.OneJobOfAConversation` | `main.ts:1045`: a conversation whose cancelled task of another job has not concluded belongs to no job yet, and a message to it makes one |
| `Workspace.ParentsAlwaysTrue` | `resources.ts:58`: a file that gets the name of one that is gone inherits the version that one was copied from |
| `Workspace.BroughtBy` | `main.ts:915`, `1458`: putting a file into a message makes the sender its uploader, who may then rename or bin it |
| `ToolGate.AnswersAreAsked` | `connector-inbound.ts:17`: the keys to send with and those to receive with are apart, so a binding may have an address for answers and refuse every callback |
| `Forms.AgentsAreSavable` | `workspace-management.ts:46`: an agent may be created with any skill of the platform, and saved again with two of them only |
| `Forms.FilesAreReadable` | `preset-cards.ts:130`, `186`: two cards take kinds of file none of their tools reads |
| `Startup.BoardAgrees` | `main.ts:1317`, `dashboard.ts:162`: limits are those of a month, the dashboard compares them with the window it shows; over a week nothing looks full while the gate refuses |
| `Startup.ReportedAtOnce` | `config.ts:5` promises all errors at once; a limit that cannot be read, or a lite model without name, hides that prices are missing |
| `Startup.ExtrasBilled` | the other models (`model-profiles.ts`) are not in the price table: without a price they count for nothing, and under the name of a tier at its price |
| `Startup.LiteIsEvaluated` | the lite model stands in for the flagship beside itself, and is refused for its name |
| `Startup.UsersDiffer` | two accounts of the file may be one user of one tenant |
| `Assets.EachCounts` | `lessons.ts:85`: a change repeated in one batch counts once |
| `Assets.ScenariosApart` | `lessons.ts:75`: a change made in two scenarios takes the lesson from the first to the second |
| `Assets.RemovalsReported` | `lessons.ts:317`: the empty text that replaces what was removed is found in every output, so the repetition is not reported |
| `Assets.ColumnsInOrder` | `assets.ts:179`: the model is told to keep the order of the columns, the check does not look at it |
| `Assets.PrecedenceIsOrder` | `lessons.ts:284` says that the task goes before the lessons, `assets.ts:321` that the lessons go before the task |
| `Assets.TracedToAll`, `ImpactExact` | `provenance.ts:153`, `162`: of two entries for a target the first one answers; a source is found by its id without its kind |
| `Progress.StepsOfOneCall` | `event-translator.ts:87`: a call whose start was lost is taken for the current step |
| `Egress.NothingOutlives` | `egress.ts:122`: the end of a client that leaves while a name is looked up is heard by nobody, and the target dialled for it is not among the sockets `close()` destroys |
| `HttpRoutes.DeletedIsMissing` | `main.ts:1357`, `866`: the artifacts of a deleted task are still listed, and previewed |

Two more of the same kind are visible in the algorithms without a property of
their own: a paragraph that only moved is reported as deleted and added
(`revision-extract.ts:15`), and an overlapping fragment at the end of a section
may repeat text that is already in the one before (`chunking.ts:95`).

## Fairness

Fairness is assumed only for what the event loop itself runs, and for what a
timer or a limit bounds:

- *Orchestrator*: the continuations of driver, hook, listener and requests, the
  start after a crash, and the expiry of a confirmation. Not: new submissions,
  users, crashes, clients.
- *Confirmations*: continuations of `finish()`, the hook, time and the timer.
  Not: any request.
- *Quota*: the steps inside the section of a gate. Not: model rounds, tools,
  submissions, the calendar.
- *Admission*: submissions, drivers (a run returns: steps, confirmations and
  model requests are bounded by limits and timers) and a suspension that has
  begun. Not: users, crashes.
- *Automations*: the tick (a timer fires it every second) and the continuations
  of submissions. The fairness of `Continue` and `Send` is strong: a crash or
  another handler disables them for a while, but a ready continuation is run
  before the loop idles, and a delivery is due again after a day at the latest,
  so no tick can pass it over for ever.
- *Sandboxes*: continuations, the creation and the closing of a runtime (both
  have a time limit of their own), the timers of leases and operations, the end of
  the configuration check. Not: that an operation in a runtime ever answers; its
  time-out ends it.
- *In `MCServices`*: the worker loop of a queue of indexing jobs; the steps of a local call, with the
  two timers that give up on its command and on its pipes; a worker of a
  delegation, whose deadline ends what does not answer; the polls of a page, which
  return or fail and begin again. Not: the event stream, users,
  administrators, the models, handlers of extensions. A behaviour is of one
  component, so one weak fairness condition per worker index speaks of a worker of
  each.

Crashes are finitely many in a behaviour (`MaxRestarts`); with a crash for ever
nothing would hold.

## Bounds

- `MaxEvents` ends the environment's part, not the program's: at this seq no
  new event of the model, submission or reconnect begins, and what is under way
  goes on, so the program's own moves take it up to the end. Four suffice for
  submit, start, wait and continue, with an event under way when each of the
  others happens. The safety properties of `Orch_core` also hold with five, early
  confirmations included.
- One task in the orchestrator's runs: its tasks share no state (every map is
  keyed by task, every file is one task's), and the theorems are about any set.
- Two actions in `Confirmations`: calls of one runner ask one at a time; the
  second exercises what the first leaves behind, the session grant included.
- Three prompts and two seats are the least where one waits, one judges and one
  runs. `MaxTokens` counts rounds: two leave room for one task to reach the limit
  while another is admitted. One tenant, since nothing is shared between two. In
  `Quota_core` the three share one gate, which is where chain and seats are
  contended; with `Gates` `{g1, g2}` and `GateOf <- OneEvaluation` its properties
  hold too, and the theorems are about any gates.
- Four calls for the registry: two of one request, one of another with the same
  key, one without; three tasks for the queue: one over its limit of one and of
  two seats, with `QueueCap` one.
- `MaxTime` 1 or 2 for the plans, which fire from every second on: with 2 a plan
  misses a time. `MaxTries` 1 or 2 stands for 5 attempts, the limit appearing
  only in a comparison. `MaxActs` interventions. An attempt whose end cannot be
  recorded is repeated by every tick and counted each time; the model stops
  counting one above the limit.
- `Sandbox_core`: one seat for two tasks and the check is where seats matter; three
  leases are one more than a task can have while an old one is being released; two
  operations of one task, one of them a `provision()`, are the least that queue.
- `Services`: one place in the job queue (of 100), so that it is full; two
  queues, an old and a new configuration; five writes of settings, the least in
  which a credential is set, replaced, and a version of before rolled back to; one seat
  for two accounts; two tickets in all and one of a user; one minute of two requests
  and four tokens with a need of two; three cases or sub-tasks for two workers, so
  that a worker takes a second one; two generations; two requests over one login
  state and one change of the provider; an answer of two pieces, which may come
  as two deltas, two snapshots or either. The theorems of `ServicesProofs` have no
  bound.
- `Data`: documents of four paragraphs and three heading levels, three or four
  fragments of a search, tables of two or three rows, paths of three names, forms of two
  fields, up to three usage records, three batches of two changes, four events of the
  kernel, three sub-tasks, four changes of departments, forwarded
  addresses of three proxies: enough for a tie, a repetition, a detour, and something beside each. In
  `Egress` two connections for one place and a budget of one chunk are the least
  where one is refused and one carries the budget over its end. In
  `KnowledgeBase` two versions are the least with a history, two requests the least
  that overlap, two instances an old and a new configuration. In `LongJobs` a memory
  of one (of 20) is full at once, one edit and one restart fall anywhere; a larger
  instance, with a memory of two and two edits, has 13.5 million states and the same result.
  In `Workspace` two texts are an upload and what a task makes of it; with three there
  are 3.8 million states and the same result. The theorem of `StoresProofs` has no bound.
- One crash. A second one would find a state that the first start, which has
  no memory, could also have left; the theorems have no bound.

## What is proved

`tlapm M.tla` for each module; nothing is assumed beyond the `ASSUME` on the
constants, which every run evaluates, and the premises a theorem shows.

**TaskOrchestratorProofs** (any tasks, events, restarts). `TypeInv` adds to the
types that each stream has a last row, without which `Fold` and `LastSeq` are
meaningless, and that an activity exists only for a task the map holds
(`TypeCorrect`). All that follows is about what a step does to the streams, and
there are few ways (`Kind`, `StepKind`): an event is logged; a move is stored, cut
off by a crash between its two writes, or fails; a submission is refused; an
artifact's row comes late; a client connects; the process dies; it recovers.
- *Memory and disk.* `DiskAgrees` alone is not inductive: a stored artifact row
  comes late, with an old seq, and the next seq must be above every stored one.
  `DiskInv` says so (`Tracked`), together with one row per seq, and says in what
  memory may be ahead when writes fail (`Backed`). Without change-stream faults
  hence `DiskAlwaysAgrees` and, as each step is a step of the abstract life cycle or
  one it does not see, `LifecycleImplemented` (refinement by step simulation);
  under every fault `ProgressAlwaysStored`.
- *Executors.* `ExecutorInv` says which driver phases hold the runner, from which
  `OnlyRefusedLackExecutor` follows under every fault and `NeverZombie` without
  change-stream faults.
- *Seqs.* `NamesInv`: no event has a seq above the cursor, and none but the first of
  a refused submission is later than the last stored row, so that a restart, which
  continues from there, gives no seq away again (`SeqAlwaysNamesOne`). It needs an
  event stream that takes what is written; `Orch_disk` with `EventFaults` shows why.
- *Clients.* `TellInv`: an outcome in log, stream or client is what the change stream
  folds to, and a progress has its row; for the event of `abort`, which bypasses the
  table, one needs that a cancel request under way has a cancelled task (`Answered`).
  Hence, without change-stream faults and whatever events are lost, `ToldStaysTrue`.
  `ReadInv`: the log is the stored stream and a client has all of it up to its
  anchor. Hence, on streams that take what is written, `ClientAlwaysSound`.

**ConfirmationsProofs** (any actions, approvals, failing writes, grants that are
refused, a crash). `finish()` recognises its record by identity; the invariant says
that this is enough: no two finishes in flight can be taken for each other
(`Begun`), one that still owns its record finds it as it wrote it, a pending action
has its waiter and nobody has cancelled (`PendingWaits`). Hence `ConfirmationsSafe`
(the file follows memory but for actions that failed, no grant without authority) and,
step by step, `DecisionImplemented`: hook and users see what `ActionDecision`
promises, one verdict, a yes only with a consent in time and not after a cancel.

**QuotaGateProofs** (any tenants, gates, tasks, limits, and any way the tasks are
spread over the gates). `Chained` says that the chain of a gate lists its waiting
tasks, each once, and only its head is in the section. Then seats are the running
tasks (`SeatsAlwaysHeld`), and they only shrink while a preflight judges, so its
snapshot covers them (`SnapshotAlwaysCovers`), whatever fails. For the limit of a
gate (`NeverPastTaskLimit`, for records that can be read, whether or not all were
written) one needs that usage of its tasks which appears meanwhile belongs to the
snapshot (`Foreseen`), that no period to come has usage, and that what a positive
verdict counted of them is within the limit until the seat is taken (`Granted`);
the verdict counted the tenant's other tasks as well, which only makes it stricter.
Usage through other gates may grow while a preflight judges, so nothing of the
kind holds of the tenant, except where one gate has all its tasks
(`OneGateKeepsTenant`): what the comments claim, under the condition they assume.

**AdmissionProofs** (any calls, keys, conversations, queues, every fault).
A receipt is stored before anything is created and names its call for ever, and
only that call goes on (`KeyOwned`); those who joined, and those answered from a
receipt, asked for the same (`JoinedSame`, `StoredSame`). Hence `OneTaskPerKey`
and `AnswersMatch`. A reservation covers a submission until its task is known
(`Reserved`, `Exclusive`), hence `ConversationsExclusive`. For the queue: a
configuration is applied only when nobody is inside, so whoever is inside has one
place in the current queue, a counted seat or one position of the line (`Places`,
`OnePlaceEach`, `Counted`), and runs under the configuration it was prepared with
(`Versions`); hence `QueueAlwaysSound`, under every fault. `PendingAlwaysDriven`
assumes that jobs can be filed (`JobFaults = FALSE`); without that it is false (see
the disagreements).

**SandboxManagerProofs** (any tasks, leases, operations). `SeatsAndOrder`: seats
are bounded and the operations of a lease exclude each other. A release may remove a
lease it does not mean, so that the map says little about leases; but it only
removes, and a seat is added behind the check. Exclusion needs that of two
operations in one queue one waits for the other, also after those between were
cancelled (`Ordered`), and that who has the lock waits for nobody (`LockFree`).

**ServicesProofs** (any jobs, queues, accounts, tickets, calls, runs, workers, tokens,
login states, an answer of any length; none of the bounds of the run). One section for
each component, and a theorem for each safety property of the run: a step of `Services`
is a step of the component that runs, or none (`StepsOfParts`). What had to be added to
each `Safe`:
- *Indexing jobs*: an open job is in one queue or with one worker, or was lost
  (`Traced`, `Apart`), each once, and its record says which (`QueueSound`). A step moves
  one job on one queue (`JobMoves`), and every handler is a few such moves.
- *Evaluations*: the cases before the next one were taken once each; of a running run
  each is answered or with a worker, and a worker that is gone found no further one;
  a file that is behind says so (`RunSound`). That the first round takes as many cases as
  there are workers is a counting argument over an injection.
- *Sub-tasks*: two workers hold different positions, and a position without a result is
  still ahead or held (`WorkerSound`, `PositionSound`). Together `JobsAlwaysSafe`.
- *Settings*: without damage to the files, what anyone has seen is an older revision
  or this very store (`NoneAhead`), and the credentials in the file are in use or newer
  than every retired one (`NoneRetired`); a history is in the order of its revisions.
  `SettingsAlwaysSafe`.
- *Accounts*: a session holds the revision its credentials were of; `protectLastAdmin`
  and the seats are inductive once what is being created is counted with its tenant.
  *Tickets*: the slots a principal has are those of its tickets that are out, over every
  way a ticket is taken (`TakeKeeps`). Together `IdentityAlwaysSafe`.
- *Local calls*: a timer is set only for a command that is waited for, and a file is there
  only of a call that makes one (`CallSound`). `CallsAlwaysSafe`.
- *Models*: seats are the calls that have one, one call moving at a time (`SeatsMove`).
  `RateHeld` compares what went out in a minute with the limits; inductive is that the
  window in memory and the one on disk each hold every request of that minute, with all
  the tokens of a call that is not over, and are within the limits themselves (`Fit`,
  `RateInv`): a request is entered and written before it goes out, what its answer tells of its tokens
  only lowers its entry, and a restart begins with the file. What was sent is then counted by an
  injection into the window. `ModelsAlwaysSafe`.
- *The page*: of the answer, that every event under way or stored tells a beginning of it,
  one that says it is complete the whole of it, and no event of the model follows the end
  of the task (`AnswerInv`). Of the page, that it was given the stored events up to
  `lastSeq` and has seen those up to a later one or the same (`PageOk`), that behind every
  stored event on the stream its predecessor was given or goes before it (`WireOk`), and
  that the answer to a poll begins no later than behind what the page was given (`PollOk`):
  so what comes next is a delta, the next event, or one it leaves out (`Due`), and each of
  these keeps the text a beginning and makes it no shorter (`GivenKeeps`). A reload gives the page the
  whole history and starts the subscription again from nothing, hence `seen` ahead of
  `given`. `PageAlwaysTrue`, with the action property `KeepsText`.
- *Commands of extensions*: tokens are made in order, one for each confirmation, and one
  not made yet has run nothing (`TokensAreNew`); otherwise a handler could run for a
  token that is used again. *Logins*: `NoLoginAcrossAnEdit` counts changes by `edits`,
  the code by `revision`: `RevisionsCount` ties the two, in the provider, in every stored
  state and in every request under way, and says that a known revision means the known
  record. `OneHand` says that a state is not made yet, stored and not used, with one
  callback, or done with; the code marks it used before it waits for the network.
  Together `GrantsAlwaysSafe`, with the action property that who is let in is bound and
  enabled in that step.

Two of these are about sums and folds over a sequence: the tokens of a window
(`Tokens`) and the events of a poll or a history given one after another (`AllGiven`).
The library's induction theorems cannot be used here, but the set of places up to
which a claim fails is a set of numbers, and one that is not empty has a least member
(`LeastOf`, from the well-foundedness of `<`); `Upward` says so as a rule. Both
operators are recursive functions for that reason, unfolded place by place.

`ServicesAssumption` is what is assumed of the constants: sets that are counted are
finite, limits and the length of the answer are numbers, the marks for "no job" and "no call" are none, and a tool call
that delegates starts a worker (the smaller of its tasks and `concurrency`, `extensions.ts:238`). That a
deployment has a platform administrator is not assumed: one without an `accounts.json` has
none until it is claimed, and `AdminRemains` speaks of those that had one.

**StoresProofs** (any users, documents, conversations, tasks, names, connections; none of
the bounds of the run). One section for each component, laid out like `ServicesProofs`, and
`StoresAlwaysSafe` of the four together. Each `Safe` speaks of what a history variable
remembers; what had to be added to it says what the records let a later handler do:
- *Documents*: of each version that was cited and is not the current one the history has
  the text, and of nothing later (`DocSound`); a request that waits for its vectors goes on
  from a version that is still the one stored, or is going to be refused (`ReadSound`).
  The versions of an instance are counted in its own memory, so this is said of each
  instance, and a document that was deleted or written by two of them is exempt, as in
  `Safe` (see the disagreements). With it the action property `NoWriteLost`.
- *Long jobs*: the memory of a job lists conversations of it that have concluded, each
  once, as many as there are or as it holds, but for a job from which a deletion erased some
  (`MemoryOf`; the length is a counting argument over the injection that a memory is). A
  conclusion goes to a job that is there (`TaskSound`), and the job a conversation made
  holds it, also in the copy that a deletion read and will write back (`HoldsItsOwn`,
  `DeletionSound`). With it the action property `OnlyTheUserReopens`.
- *Files*: texts are numbered as they are made and each number is somewhere (`AllKnown`);
  names, places of the bin, inputs of tasks and versions each say whose text they hold
  (`NameSound`, `SlotSound`, `InputSound`, `VersionSound`), but for those that lost
  their entry in a crash or inherited that of another; and the name a file of the bin had
  keeps an entry to come back to.
- *The way out*: `WayOut` goes through what a connection may be. A target is dialled within
  the budget only, and what exceeds it later is one chunk, with the head of a tunnel before
  it; after `close()` a target is left of a plain request only, whose client went unheard.

`StoresAssumption` says that `None` is none of the records it stands beside,
that the instances of the services begin with the first, that a job remembers at least one
conversation and "created by hand" is none of them, and that the connections of a sandbox are
finitely many.

The last section of `StoresProofs` is about algorithms, which have no state: what the run
of `MCData` checks on small inputs is a theorem there for every input of the form the
code reads.
- `AccessAlwaysSound`, `CommandsAlwaysSound`, `CallbacksAlwaysSound`: decisions over records;
  names, users and tenants are arbitrary.
- `PathsAlwaysSound`: where a path leads is computed name by name. That a detour through a
  directory changes nothing is shown for the places before it and after it with `Upward`
  (`DetourLeads`). Any set of names that includes the four the workspace and the detour need.
- `GateAlwaysSound`: from it, for any tools, policies and rules of the administrator.
- `SearchTellsNoMore`: the place of a fragment in a list is how many are ahead of it
  (`SortedIs`), all of them visible ones, so what is not visible changes neither rank nor
  failure. `Searches` says what a search is: any member, sequence of fragments, bases and
  limit, whole numbers for scores. `KnowledgeSound` says in addition that nothing better is left
  out, of the scores of the run.
- `SlicesAlwaysSound`: arithmetic; the limit is above the overlap, or `boundRagChunks` refuses.
- `TablesAlwaysReconciled`: `reconcile` is the union of what is reported of each key
  (`ReconcileIs`), and each of these turns round with the sides (`DiffersTurned`). The columns
  to compare are at least one: with none, a key of one table alone is in `onlyLeft` or
  `onlyRight` and in no difference.

**AutomationsProofs** (any plans, events, schedules, interventions, crashes).
Without a receipt there is no task, and the one submission that may make it has not
(`FirstOnly`), hence `OneTaskEach`, under every fault. So is `AutomationsSafe`:
attempts are counted to their limit, and an occurrence that is closed has its
delivery. The record of an occurrence, its submission and its task are tied together
(`Tasks`), hence `CancelledAlwaysOver`; a message that may have arrived is recorded
so before anything else can happen to it (`Arrived`), hence `NativeNeverRepeated`.
These two assume that files can be written (`Faults = FALSE`); the disagreements show
what happens otherwise.
`CatchUpAtMostOnce` assumes that users leave the plans alone, or that no tick is cut
off before it has written a plan back. The proof found the rest: when a user gives a
plan another time (switches it off and on) between the snapshot of a tick and the
firing from it, and the
write of the plan then fails or the process dies, the plan on disk has the user's
time and no memory of the firing, and a time before it fires again
(`automation.ts:119`, `87`, `123`). No document promises more.

## What is not shown

- Only model-checked: liveness (the prover has no rule for it here), the routing, and of
  the algorithms of `MCData` those that fold over a document, a form or a report (an
  induction over data): the fragments of a document, its revisions, forms, lessons, the
  other reports; also the configuration, the addresses and the departments, and that a search leaves
  nothing better out (`Dominates`). The others have theorems in `StoresProofs`.
- A file that is written and renamed is old or new, never half: the operating
  system's promise. Streams of lines are not renamed, and their half-written
  lines are modelled; so is a settings file that is damaged afterwards.
- `AutomationStore.all()` throws at the first record it cannot read
  (`automation-store.ts:53`), so one such record stops all ticks; nothing
  documented contradicts it and the model leaves it out.
- A cancelled occurrence that is still in the tick's snapshot is submitted from
  there and its cancellation overwritten (`automation.ts:119`). `CancelledIsOver`
  allows it: the record no longer says "cancelled". No document says a cancelled
  trigger stays so, but a user would expect it.
- A session grant that is refused leaves "approved" with its grant in the action
  file until the next start (`confirmations.ts:88`); see Confirmations above.

## Not modelled

Inside modelled components: read-only queries, titles and annotations of tasks,
the forms `nativeSubmit` compiles (a refusal or a
success in `Admission`; `Forms` has the cards by themselves), the checks on a plan
when it is created, encryption of records, the delay between attempts beyond "not
yet due", validation of settings other than models, prices and limits, connection
tests, signatures of tokens, browser sessions of sandboxes, the text of isolation
profiles, the enterprise policies other than addresses and departments, pairing of
connectors, unpacking and checking of add-on packages.

Components left out, and why:

- *What the program has and does not call*: no route reaches the lessons
  (`core/lessons.ts`) or the fan-out (`core/fan-out.ts`). They are modelled as the
  algorithms they are, not as handlers that overlap: with two at once
  `lessons.ts:222` reads a record before an await and uses it at 234, which would lose
  counts. The pool that is used is `delegate_tasks`, in `SubTasks`.
- *Parsing of requests and configuration files, rendering of answers, static
  files, limits of rate, shares and previews*: one request, one synchronous step;
  whatever of them changes state another actor sees is in the modules above.
- *Stores in memory*: they serve tests.
- *Office documents, images, moderation*: conversion of data and third-party
  libraries; no control to check.
- *Pages, forms and styles of the web client, the prototype*: rendering. What the
  page does with the answer it is shown is in `LiveText`.
- *Kernel, sandbox image, build, deployment, experiments*: third-party or not part
  of the running program; the kernel appears as what `packages/` sees of it.

By lines this is most of the repository: parsing and rendering, tables of
settings, pages and writers of documents make up more than half of it, and have no
behaviour beyond what one call computes. The models cover the lines in which
state is kept, waits happen and decisions are made.

## Plan

Built, in this order: orchestrator with life cycle and proofs; quota gate and
proofs; confirmations with their abstract specification and proofs; admission and
proofs; automations and proofs; sandboxes and proof; the components of
`Services` and their proofs; the algorithms and the routing of `MCData`; the
three stores and the egress proxy of `Stores` and their proof.

Left, what adds most first:

1. Theorems about the folds of `MCData` that can be written as recursive functions and
   proved place by place, as the path policy is: the fragments of a document first.
2. Abstract specifications of a lease (held by one task, from grant to release)
   and of a ticket (redeemed at most once, not after it was revoked), with
   `SandboxManager` and `Streams` shown to implement them.
3. Composition: `AdminIdentity` with `Streams` and `Admission`, for what
   disabling an account stops; `AdminSettings` with the queues of `Admission` and
   `KnowledgeJobs`, for what publishing replaces.
4. Browser sessions of the sandbox, the other enterprise policies, pairing of
   connectors.
