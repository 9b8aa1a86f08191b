# A TLA+ verification of Pangi

Pangi is an agent runtime in one Python process: a web API and a CLI over application
services, a planning model (the Root), a queue that executes Runs as small graphs of
delegated steps, guarded model and tool calls, and one SQLite file that holds everything
that survives the process. This directory models the parts where the order of events, a
failure half way or a rule applied at its boundary decides whether it works: from the
request on the wire to the answer, with the rows, the connection, the policies, the secrets
and the storage under it.

Paths below are relative to `src/src/pangi/` (services: `application/services/`, stores:
`adapters/outbound/persistence/sqlite/`).

## 1. Inventory

| Component | State | Operations | Hard behaviour | What makes it correct |
|---|---|---|---|---|
| Run and Step state machines (`domain/runs.py`) | state and revision of a Run, state of a Step | `transition_run`, `transition_step` | stores that write without asking the tables | only listed edges, a revision per edge |
| Run queue store (`runs.py`) | `runs` rows: state, revision, worker, lease, queue position | enqueue, claim, heartbeat, cancel, recover, abandon | late writes of a worker that lost its lease | an owner exactly while the Run is executed; ended Runs stay as they are |
| Execution and lifecycle stores (`orchestration_execution.py`, `orchestration_lifecycle.py`) | plans, attempts of steps, outputs | materialise, start/finish/cancel/retry a step, settle, complete, fail | a step interrupted by a crash | a completed step is not repeated, an unrepeatable one never |
| Queue runtime (`run_queue.py`) | worker id, wake event, semaphore, registry of tasks | start, dispatch, execute, heartbeat, cancel, close | cancellation at any await, close, crash, restart | one task per Run, no lost permit, no lost wake-up, every queued Run ends |
| Execution engine (`execution_engine.py`) | a snapshot of the steps | recover, run ready steps, block, settle | acting on a snapshot that is old | dependencies first, an answer only when all is done |
| Unit of work (`unit_of_work.py`, `database.py`, `write_coordinator.py`) | the lock, the connection, the open transaction | enter, commit, roll back, close | cancellation while the connection's thread works | all or nothing, told truthfully, clean between units |
| Model retry (`model_providers/retry.py`) | attempt, clock, count | invoke | late timers, deadline during back-off | total deadline, honest counts, only transient failures repeated |
| Tool governance (`tool_guardrails.py`, `tool_governance.py`, `tool_approvals.py`, `tool_invocations.py`, `connections.py`) | policies, grants, budgets, invocation rows, registry | guard, execute, activate, issue, consume, reserve | six transactions per call with the world changing in between | grants and numbers used once, nothing authorised by a stale reading, executions recorded |
| Run submission (`run_submissions.py`, `orchestration_lifecycle.py`, `runs.py`) | idempotency records, Runs being planned | submit, replay, plan, decide, reject | repeated deliveries that overtake each other, the TTL boundary, a delivery lost while it plans | one Run per key and lifetime, one question to the Root |
| Run events (`run_events.py`, `event_writer.py`) | event rows with an index per Run | append, page, stream | readers against writers | no gap, no repetition, no missed end |
| Model routing and policies (`model_routing.py`, `model_policy_management.py`) | policy versions, activations, invocation rows | review, activate, replay; guard, execute | stale baselines, repeated activations, a policy replaced under a call | what is active is what was reviewed; nothing leaves that a policy did not allow |
| Root orchestrator and plan validation (`root_orchestrator.py`, `plan_validator.py`) | none | decide, validate, prepare | whatever a model answers | what the validator admits the engine can execute |
| Guardrails, reduction, context (`input_guardrails.py`, `output_guardrails.py`, `result_reducer.py`) | rate-limit windows | admit, reduce, sanitise | window and key limits, failed and partial steps, truncation | limits hold at the boundary; what the engine calls composable is composed |
| Sessions, bootstrap, installation, login attempts | session and grant rows, counters, the configuration file | sign in, rotate, revoke, init, bootstrap | concurrent rotation, commands that stop half way | a token is good once, one administrator, no file written over |
| Connections and vaults | a connection row and its tools, secret files | add, update, discover; create, replace, delete | callers that read before they write; a crash between two file operations | no saved change lost; a returned reference can be read |
| Migrations, snapshots, process lock | schema, journal, snapshot pairs, the lock | plan, apply, start, snapshot, close | deaths and power cuts at any step | a migration can be undone, the storage can be started again |
| Lists (`list_runs`, audit, policies) | a cursor | page | rows that arrive late, change or are purged between pages | no row missed, none twice |
| Redaction, other CLI commands, web, plugins, UI | wiring and text | - | - | - |

How they meet: the web layer calls the submission service, which writes the Run, plans it,
materialises the steps and calls `wake()` on the queue runtime. The runtime claims the Run,
starts an asyncio task that calls the orchestration handler and the engine, and beside it a
heartbeat that renews the lease. Cancellation is a transaction followed by a call on the
runtime. All transactions go through one unit of work, one lock and one connection whose
thread executes statements in order. Model and tool calls go through their own guards and
leave a row behind.

## 2. Modules

| Module | Models | EXTENDS / INSTANCE |
|---|---|---|
| `RunDomain` | the two transition tables of `domain/runs.py` | |
| `RunLifecycle` | abstract: what a reader of a Run may rely on | `RunDomain` |
| `RunStore` | the three Run stores: each public call is one action, one transaction | `RunDomain`; refines `RunLifecycle` |
| `RunQueue` | the process: dispatcher, tasks, engine, heartbeats, cancellation, close, crash, restart | `RunStore`, of whose calls it is made |
| `RunEvents`, `RateWindow`, `InputGuardrail` | pure: event pages, the sliding window, the rules for a request | |
| `RunSubmission` | deliveries of requests, planning, and the event stream of a Run | the three above and `RunDomain`; refines `RunLifecycle` |
| `Markdown`, `PlanValidation`, `ResultReduction`, `OutputGuardrail` | pure: text, decision to plan, outcome to answer, answer to safe text | all EXTEND the first, the third the second |
| `RunAnswer` | a decision on its way to the answer | the three above |
| `UnitOfWork` | the tasks of the process sharing the connection | |
| `RunPersistence` | the rows and the units of work that write them, one level at a time | `RunStore`, `UnitOfWork` |
| `ModelRetry` | one model call under its deadlines | |
| `ModelEgress`, `PolicyImpact` | pure: what may leave to which candidate, what a new version changes | |
| `ModelPolicies` | drafts, reviews, activations, and calls under them | the two above |
| `ToolGovernance` | concurrent guarded tool calls against administration | |
| `ConnectionRegistry` | callers that read, change and write back a connection and its tools | |
| `AdminBootstrap` | abstract: grants and the first administrator | |
| `Installation` | the commands `init` and `bootstrap rotate`, the browser, the operator | `AdminBootstrap`, whose specification it implements |
| `LoginSessions` | login with its limiter, checks, rotation, logout | |
| `FileVault` | the file operations of the secret store | |
| `SqliteStorage` | lock, migrations, snapshots, the open database | |
| `Listings` | readers of three lists that change between pages | |
| `HostComponents` | the components without shared state, side by side | the nine it names |
| `RunStoreProofs`, `RunQueueProofs`, `RunSubmissionProofs`, `UnitOfWorkProofs`, `ToolGovernanceProofs` | theorems about the module named | that module, `TLAPS` |
| `AccessProofs` | theorems | `Installation`, `LoginSessions`, `ModelPolicies`, `ModelRetry`, `TLAPS` |
| `DurableStateProofs` | theorems | `ConnectionRegistry`, `FileVault`, `SqliteStorage`, `Listings`, `TLAPS` |
| `RunAnswerProofs` | theorems | `RunAnswer`, `TLAPS` |
| `MC...` | plans, policies, orders and symmetry of an instance | the module named |

### RunStore

A Run is a row: `state`, `revision`, `owner` (worker_id), `lease` (ticks until
lease_expires_at), `ahead` (the Runs queued before it, in place of queued_at), `planned`,
`steps[r][n]` (the states of the attempts of node n, in the order of their rows) and
`output`. Every action carries the guards of its method: the owner check of
`_require_owner`, the lease check, the revision check (implied, since the row is read in the
transaction that writes it) and the early returns. Several Runs recover in one step, because
`recover_expired` is one transaction. `RunLifecycle` says the little that the rest of the
program relies on, and the store is shown to implement it.

`Plan[r]` is the set of nodes of a Run's plan and `Deps` their dependencies; that a
dependency of a planned node is planned is the validator's rule (`plan_validator.py`,
unknown dependency), stated in `PlanAssumption`.

Abstractions: timestamps are taken before the lock is awaited in the code and belong to the
transaction here; a node's content is not modelled; failure codes are not told apart.
`MaxRevision` bounds the transitions of a Run.

### RunQueue

A step is a store transaction together with the code around it up to the next await on the
store. `pc[t]` names the call that task t awaits, and its names are the methods':
`load_for_claim`, `retry_interrupted_step`, the blocked steps, `start_step`, the child's
execution with `finish_step`, `_cancel_remaining`, `_finish_delegate`, composition, and the
three ways out through `abandon_claim`. The engine's `snapshot` is `todo`: what it decided on
when it last read. `cancelled[t]` is a cancellation requested and not delivered: it is
delivered at an await, with the transaction behind that await rolled back or committed.
`phase`, `wake`, `permits`, `active` and `dispatcher` are the runtime's fields of the same
meaning. A crash forgets all of it and keeps the rows; `Start` is a new process with a new
worker id that recovers once and starts to dispatch.

The three stores raise when a claim is lost, an attempt is not where the caller's snapshot has
it, a Run has no plan or has an output already; the engine raises when it finds no way on
(`Persisted dependency execution is stuck`). `Refused(t)` says so of the call that t awaits,
and `CallRefused` is what comes of it: the handler raises and its task gives the Run up. A
call that is made of a stale snapshot is therefore a step of the model like any other, and
`OwnerNeverRefused` says that this happens to nobody who still owns its Run. It holds for
plans without a cycle (`AcyclicAssumption`, the validator's rule). `close()` gathers the tasks
it found in the registry: `CloseEnds` waits for tasks, not for the registry.

Grain: the commit of a claim and the registration of its task, the commit of an abandonment
and the removal of the entry, and the commit of a cancellation and `cancel_active` are one
step each. In the program they are a few turns of the loop apart, against a round trip
through the connection's thread for anything else to happen. Steps are executed one at a
time (`bootstrap.py` deploys `max_parallel_steps=1`), in an order the model leaves open. A
heartbeat that dies of an error is covered by one that is refused after a lapsed lease.

### UnitOfWork

`requests` is the queue of the connection's thread, `reply` what its futures carry,
`waiters` the lock's queue. `Enter`, `Acquire`, `BodyWrites`, `Commit`, `BodyGivesUp` and
`Finish` are the pieces of a unit between awaits; `CancelWaiting`, `CancelBegin`,
`CancelStatement` and `CancelRollback` are a cancellation delivered at each of them. A
cancelled await does not take its request back from the thread. `Serve` is SQLite under
`isolation_level=None`: BEGIN fails in a transaction, COMMIT and ROLLBACK outside one.

A unit does not look at what it writes, and the rows see a unit as one step that happened or
did not. `RunPersistence` puts the two levels side by side, so that one run checks both: a
behaviour of it is that of one level.

### ModelRetry

The loop of `RetryingModelProvider.invoke` with a clock in ticks. A wait with a limit may
return up to `Slack` ticks late. The provider answers, fails or hangs.

### ToolGovernance

A call's `pc` names the transaction it awaits: resolve, policy, validate, approve, reserve,
deny, start, finish; `execute` is the external tool. `seen` is what the call remembers from
earlier transactions: the tool's snapshot, the policy version, and whether its grant was
expired when the clock was read (before consume_approval waits for its transaction).
Administration changes policies, snapshot, connection, users and grants between any two of
them. A policy version is written for one snapshot of the tool (permission and schema); all
versions exist as drafts. The expected fingerprint of an activation always names the active
version here: a stale one is refused and changes nothing. User and admin approvals differ in
who must be trusted at consumption, which is one flag. Cancellation is modelled as in
`RunQueue`; a cancelled execution writes its row behind a shield and absorbs further
cancellations.

### RunSubmission

A delivery `d` of a request is one handler of POST /runs; `pc[d]` names the await it is in:
the transaction of `create_or_replay`, `start_planning`, the question to the Root,
`record_decision`, `materialize_and_enqueue` or `fail_planning`, and the last read. `at[d]` is
the clock as the delivery read it before it waited for the lock: two deliveries may be served
in the other order. `records` are
the idempotency rows with their expiry, `state`/`revision` the Runs, `log` their events,
`windows` the limiter. `Work`, `Recover` and `LateEvent` are what the queue does to a Run
that was handed over, with the events it writes. A stream (`Open`, `NextPage`, `Poll`,
`Drop`, `Reconnect`) holds its cursor and what it showed. At each poll the code reads session
and role anew and ends the stream when the session is gone or the Run cannot be seen any more
(`web.py:1232`); the model leaves these ends out, and a reader's role stays. The guardrail is a sequence of
rules with their codes, of which the first broken one decides; `GuardrailSound` (an ASSUME
that TLC evaluates) compares that with the policy as a single condition over all requests of
two attachments.

A Run that a second delivery finds in `planning` is taken for interrupted and failed, as
`submit` does; the first delivery then finds a Run that it no longer plans.

### RunAnswer, PlanValidation, ResultReduction, OutputGuardrail

`Decide`, `Plan`, `Execute` and `Compose` carry one decision from the Root's answer to the
stored text; every decision of a small catalogue is an initial choice. Each rule of the
validator, the reducer and the guardrail is a pair of a condition and a code in the order of
the code, `FirstBroken` picks the verdict; `SchemaForbidsRepeats` (an ASSUME that TLC
evaluates) compares the schema the model answers under with the validator. The topological order is the repeated passes of
`_topological_order`, the critical path is computed along it; both are compared with
definitions by paths. `from_validated` makes every step REQUIRED and not idempotent;
the engine's treatment of optional steps is in `RunQueue`.

Text is a sequence of tokens of one unit each, and what a token is depends on its neighbours,
as it does in the string: a `label` (which ends with its bracket) directly before a `target`
is an inline link, before a `definition` the line that defines a reference, whose target an
`onward` makes longer; a `broadcast` before a `tail` is an ordinary mention whose name only
begins like `@here`. Removing or cutting a token therefore changes what stands beside it. The
guardrail works in the code's order and looks at nothing twice: secrets, internal details and
markup token by token; definitions, of which a forbidden one leaves a blank line
(`ReferencesKept`); one scan of the inline links that emits the label, drops the target and
goes on behind it (`InlineLinksKept`); broadcasts and the mentions over the limit
(`MentionsNeutralized`); and the cut at `maxOutput - marker` units, wherever that is, without
the blanks before it and with the marker behind it (`Truncated`).

What this lets through is what the code lets through: `label target target` with a forbidden
first target leaves `label target`, a `broadcast tail` cut between the two leaves a broadcast,
and a definition cut before its `onward` leaves another target (finding 6). `OutputSafe` is
the guarantee that remains. Lengths, counts, secrets, internal details, markup and evidence
links are without exception. A broadcast, or a definition of a forbidden target, stands directly
before the marker (`CutAt`) or is not there; and inline links are allowed if the candidate
had no target directly behind another one (`Spaced`).

### ModelPolicies, ModelEgress, PolicyImpact

`policy[v]` is the state of a version's row, `order[o]` what an administrator reviewed: a
version and the impact shown; an order carries an idempotency key and is delivered any number
of times. `LookUp`, `ReadCandidate`,
`ReadBaseline`, `Review` and `Activate` are the transactions of `activate_policy`, a call
goes through `ReadPolicy`, `ReadCandidates`, `StartCall`, `Invoke`, `FinishCall`: policy and
candidates are two transactions in the code and here. `ModelEgress` decides which candidate
may take which sources; `IsEgressDecision` and `IsImpact` are the contracts' own
`__post_init__`, and `DecisionsAdmitted` and `ImpactsAdmitted` (ASSUMEs that TLC evaluates)
say that what the services build satisfies them. `require_redaction` of a policy is stored
and never read by the code, so it is not in the model. A cancelled delivery or call takes no
further step, which leaves its invocation row `running`, as in the code. The evaluation
gateway deployed answers Unavailable; what it would answer is open here.

### Installation and AdminBootstrap

`AdminBootstrap` has the two transactions `issue_grant` and `create_admin` for any number of
callers; `Installation` has the commands in steps between which they may stop (`Stop`), with
the exclusive creation of the configuration apart from its filling. That it implements
`AdminBootstrap` is a theorem. What the model shows and the code's tests do not mention: an
init that stops between creating and filling the file leaves an empty one, which loads as
all defaults and is preserved by the next init; two overlapping inits may both append the
block to .gitignore (`README.md:330` says once); a DEL character in the instance name is
written raw by `to_toml` and makes the installed file one that does not load.

### LoginSessions

Tabs share a cookie: `Ask` reads the token, `RotateSession` and `RevokeSession` are the
transactions. The limiter reserves before it looks the user up. `users.status` is written by
no code under `src/`, so `Disable` is external. The CSRF value belongs to its token and is
not told apart from it. That a restart empties the limiter is left out.

### ConnectionRegistry

`doing[e]` is what a caller is at: `GetConnection` takes a copy, `UpdateConnection` writes it
back under its revision, `SaveToolSnapshot` stores a discovery made under the copy. What is
not part of a row's life or scope is the set of the changes that callers made to it.

### FileVault and SqliteStorage

The file system is what matters here: a directory entry is visible when made and durable
when the directory was synced; a power cut keeps any state of the unsynced entries that
POSIX allows. `FileVault` has `link`, `unlink`, `rename` and `fsync` of the three mutations
as steps that may fail, and threads under the store's lock. A crash between link and unlink
leaves a second name, which is refused as a breach of integrity, of a secret whose reference
nobody was given; a failed sync after the link leaves an orphan. One store instance is
modelled.

`SqliteStorage` has the processes that start (`Launch`, `PlanMigration`, snapshot, `Migrate`,
`CommitMigration`, `OpenRuntime`), write, make snapshots and close, against `Die` and
`LosePower`. `start` releases the process lock between `apply` and taking it again, so that
another process may migrate in between; `Probe` is doctor's look at the lock, during which a
start may be told StorageBusyError. Contents are synced before they are linked and are taken
as readable. A failure of `_safe_unlink` on top of a failed snapshot is left out.

### Listings

Three lists with their own order and tie-break, a cursor naming the last row and a
fingerprint of its query. Rows arrive with times read before their transaction, leave a
filter (a Run that ends) or are purged (audit). ISO timestamps compare as text in the order
of time, also where microseconds are omitted. The policies' pair (id, version) is one id.

### HostComponents

The nine components of this module share no rows, locks or calls, so no step of one enables,
disables or reads a step of another: any invariant of one, or action property over its
variables, holds of their product exactly if it holds of each alone. `subject` picks the one
that moves, which makes the state space the sum of the nine and not their product. Not all
pairs of components are like this: the queue and the store, the submission and the Run's
life, installation and bootstrap, and calls and policies are composed in the modules above.

## 3. Runs

| Run | Instance | Shows |
|---|---|---|
| `persistence` | rows: 2 Runs (one plan of two dependent steps, one empty), 2 workers, lease of 1 tick, 6 revisions; units: 3 tasks, 2 statements each, 2 cancellations anywhere, close | ownership, edges of attempts, refinement of `RunLifecycle`; atomicity, truthfulness, no leak but the empty one, termination |
| `queue_safety` | 2 Runs, 2 tasks, 3 process lives, 2 faults of any kind, symmetric tasks and workers | registry, permits, wake-ups, cancellation |
| `engine` | 1 Run, 3 nodes, 3 process lives, 2 crashes, closes or handler errors | order, completeness, repetition, ownership, no refused call of an owner, termination |
| `restart_before_expiry` | as `engine`, a restart that does not wait for the lease | finding 3 |
| `abandon_interrupted` | as `queue_safety`, one lapsed lease | finding 4 |
| `submission` | 4 requests of 2 users over 2 symmetric deliveries, 2 Runs, TTL 2, limit 1 in a window of 1 with 1 key kept, pages of 2, 1 crash, dropped connection or late event | one Run per key, one question to the Root, complete streams, the rate, refinement of `RunLifecycle` |
| `begin_cancelled` | 2 tasks, 1 cancellation | finding 1 |
| `tool_governance` | 2 calls, 1 Run, 2 argument values, 1 grant, 3 policies, 2 snapshots, 1 change and 1 fault | budget, grants, staleness, records |
| `host` | the nine components of `HostComponents`, bounds below | plans and answers, egress and activations, retries and deadlines, bootstrap, sessions, connections, lists, secrets, snapshots |
| `retry_count` | 4 attempts of 4 ticks in 10, slack 2 | finding 2 |
| `answer_links` | the decisions and answers of `host`, with texts whose targets stand side by side and whose mentions and definitions meet the cut | finding 6 |
| `storage_restart` | two packages, of which the newer brings one migration more, 2 deaths, 1 error | finding 5 |

Why the bounds are enough to be interesting. Two Runs and two tasks are what it takes for a
Run to be claimed again while its first task is still leaving, and for two tasks to contend
for a permit. Three lives of the process and two faults allow a crash during the recovery of
a crash. In `engine` the second step depends on an optional one and the third may not be
repeated, so that blocking, cancellation of the rest, retry and refusal to retry all occur.
Two deliveries of one key, with a TTL shorter than `MaxTime` plus the wait, meet in every
order at the record's end; `MaxRevision` 4 lets a Run be recovered. Three tasks in
`persistence` leave one to find the connection as two others left it. Two calls are what a
double use needs; one grant and a limit of one or two make them compete.

In `host`: the decisions range over plans of up to three tasks with every dependency,
cycles included, and their results over every mixture of ends; two of three orders share an
idempotency key, there are two versions, and one call runs meanwhile; four callers issue, rotate and create
over one tick of the grant's life, two commands overlap and one may stop; two tabs draw
three tokens; four editors write one row over three times of discovery; three rows, of which
two may be equally old, pass pages of one and two; two secrets see two faults and a power
cut; two processes make two snapshots over two deaths and an error; the model call is made
four times. Bounds are named `Max...` and stand in the guards.

Deadlock is checked in the runs of the queue and the engine. Elsewhere the system
legitimately stops when its tasks, calls or commands have ended, and the check is off.
Symmetry is used in `queue_safety`, `submission` and `tool_governance`, over names that are
only compared and that no temporal property tells apart.

Fairness. `RunQueue`: asyncio runs every ready task (weak fairness of the dispatcher and of
each task), SQLite answers, a submitter that committed goes on to call `wake()`, `close()`
goes on, a process that is down is started again and time passes while it is down. Nothing
is assumed of users, planners, faults or the heartbeat. `UnitOfWork`: the thread serves its
queue and resumed tasks go on. The provider, the tool and cancellations owe nothing anywhere.

`EveryRunFinishes` therefore says that a queued Run ends although processes die, as long as
they do not die for ever (`MaxFaults`) and as long as restarts happen after the leases of
the dead have run out (`RestartAfterExpiry`); without the latter it is false, finding 3.

## 4. Findings

1. **A cancelled BEGIN wedges the database** (`begin_cancelled`, `unit_of_work.py:55`).
   `__aenter__` catches the cancellation (`except BaseException`), releases the lock and rolls
   nothing back; the unit was not entered, so `__aexit__` is not called, the thread executes
   the BEGIN, and every later unit fails with "cannot start a transaction within a transaction".
   `docs/chunks/03-sqlite-persistence-and-migrations.md:52` promises a rollback on
   cancellation. `OnlyBeginLeaks` shows that this is the only await with the defect and that
   what leaks is empty. `RunQueue` does not carry the wedge on: it would end everything.
2. **A deadline reached in the back-off reports one request** (`retry_count`, `retry.py:104`).
   The failure made after the sleep has a fresh count of 1 and the wrapper takes the minimum.
   `retry.py:42` says exact counts. The theorem `CountsNeverExceed` shows the error is only ever downwards.
3. **Recovery happens once, and only of leases already expired** (`restart_before_expiry`,
   `run_queue.py:156`). A process restarted within the lease of its predecessor leaves the
   Run claimed by a worker that no longer exists. `docs/chunks/05-run-state-queue-and-events.md:131`
   says that interrupted Runs are recovered at startup.
4. **An interrupted abandonment leaves a Run with an owner and no task**
   (`abandon_interrupted`, `run_queue.py:276`). The abandonment after a handler error is not
   shielded and the heartbeat is still alive: if that ends first, its end cancels the task in
   the middle of `abandon_claim`. `docs/chunks/05-...:131` and `docs/chunks/08-...:157`.
5. **A hot journal stops every later start** (`storage_restart`, `engine.py:151`). A process
   that dies within a commit leaves a rollback journal. Every start first calls `plan()`,
   which opens the database read-only; SQLite lets such a connection not roll back and
   refuses to read, and `plan()` raises MigrationIntegrityError before anything that could
   write is opened. `docs/chunks/05-...:163` and `README.md:71` say that a restart recovers.
6. **A text may leave the guardrail with a forbidden link or a broadcast** (`answer_links`,
   `output_guardrails.py:223`). The scan drops a forbidden target, keeps its label and goes on
   behind the target: in `[a](x:1)(x:2)` the second target becomes the label's own. The cut
   (`:148`, `:306`) comes after links and mentions were judged: `@hereafter` may become `@here`,
   an allowed `[a]: https://...` a relative target that the policy forbids. `README.md:220`
   says that what is behind the guardrail has been dealt with,
   `docs/chunks/06-guardrails-security-and-audit.md:75` and `:76` how.

## 5. Proofs

TLAPS proves, for all values of the constants under the named assumptions (a worker is not
`NoWorker`, tasks and Runs differ from their null values, a planned node's dependencies are
planned, the retry policy is within the limits its contract enforces, and the like; TLC
evaluates each of them on the instances):

- **`RunStoreProofs`**. The inductive invariant `IInv` joins the types, ownership, "a Run
  without a plan has no steps" and the shape of attempts. Ownership alone is inductive with
  the types; the attempts are not: that a new attempt only follows an interrupted one needs
  that a Run without a plan has none when it is materialised. Each action is first reduced
  to what it does to one attempt sequence (an UPDATE by state, an INSERT at the end) and the
  lemmas on sequences are cited from there. It yields `StoreTypeCorrect`,
  `OwnershipCorrect`, `AttemptsCorrect`, `StepsAlongEdges`, `TerminalRunsFrozen` and
  `StoreImplementsLifecycle`.
- **`RunQueueProofs`**. Every step of the process is written as a store call or leaves the rows
  alone, so the theorems about the store carry over (`QueueFreezesTerminal`). `RegistryCorrect` needs `QInv`: a Run in the hands
  of a task is leased or ended, so it is not in the queue, and only Runs in the queue are
  claimed. On it rest five more arguments.
  `PermitsAccountedFor`: busy tasks, the claiming dispatcher and the counter make up the
  permits, and each exit moves one of the three against another.
  `WakeupsNotLost` (`Wakeful`): a dispatcher that sleeps is owed a wake-up for *every* queued
  Run, by the event or by the submission that queued it, and whoever else puts a Run back
  (the end of a task, a start) sets the event in the same step.
  `DependenciesFirst`, `AnswersOfWholePlans` and `RepeatsAllowed` come from `EInv`: an attempt
  that ended stays the last of its node, so what a task took from its snapshot (completed
  dependencies, a plan at its end, interrupted steps that may be repeated) is still true
  when it acts on it; only `start_step` starts a step and only `finish_delegate` sends a Run
  to composition.
  `OwnersServed` adds `WInv`: in the hands of an owner, what a task has yet to do is where its
  snapshot had it, queued, running or interrupted and latest of its node, since nobody else
  moves an attempt of an owned Run but a cancellation or a recovery, which take the Run away
  with it. That the loop is not stuck is the absence of cycles: among the nodes that are not
  at their end one depends on none of the others, and it is ready or blocked.
  `OwnedRunsExecuted` holds as long as no lease lapses under a live process
  (`"lapse" \notin FaultKinds`): an owner is this process or one that is gone, and a task is
  told to stop only after its Run was given up. Without that condition it is false, finding 4.
- **`RunSubmissionProofs`**. `SInv` says that a record names a Run of its key, that it runs
  out a TTL after the latest of them at the earliest (`RecordsLatest`), that the Root is asked
  as a Run leaves `received` (`AskedOnLeaving`), and where each delivery stands (`Placed`).
  `OneRunPerKey` alone is not inductive: that the next Run is a TTL after the last is only
  known from the record. It yields `KeysHaveOneRun`, `RootIsAskedOnce` and
  `SubmissionImplementsLifecycle`.
  `StreamIsComplete` needs what the events due to a reader are, for a log of any length:
  `DueRecurrence` unfolds the query over the log, `DueLists` says that it lists what is
  visible after the cursor in order, and `FurtherOn` that a page after the cursor continues
  what the reader has. The invariant (`StreamFields`, `Follows`) says that the reader has
  exactly what is due up to its cursor, and that a stream that saw an ended Run was given all
  it will see: only internal events come later.
  `LimitIsKept` counts requests. Its invariant (`RateInv`) finds every admitted request that
  is younger than the cutoff, of a user that was not forgotten, at a place of its own in the
  user's window (`Remembered`): what leaves at the front has expired (`FindsActive`) and what
  joins has a place at the end (`FindsAnother`). So those in the window of the clock are no
  more than the places `reserve` found below the limit, and those of every earlier window
  are as they were (`Limited`).
- **`UnitOfWorkProofs`**. `UInv` accounts for what lies on the thread's queue: a write or a
  COMMIT is its first request only because its task's earlier ones were served, BEGIN is its
  task's only request, and an open transaction is in use, ending or leaked. It yields
  `UnitsAreAtomic`, `OutcomesAreTruthful` and `LeaksAreEmpty`.
- **`AccessProofs`**. `OneAdministrator` for any number of callers, from "at most one
  grant is open and an administrator closes them all"; `CommandsImplementBootstrap`, the
  refinement of `AdminBootstrap` by `Installation`; `InstallationIsKept`. `TokenGood` for any
  tabs, tokens and time, from `LoginInv`: two logins under way never have one token
  (`FreshApart`), what a tab was told of its session is true of it (`TabsKeep`), an inserted
  session has a token that was answered (`SessionsKeep`), no two active sessions share one
  (`SessionsApart`), and a spent token belongs to no active session (`SpentKeeps`), which is
  why a second rotation or logout finds none (`SpentOnce`).
  For calls to a model, `LoopInv` bounds the clock at every point of the retry loop (below the
  total timeout at its top, plus one slack after a wait) and ties the attempt to the number
  of requests. It yields `DeadlineHolds`, `CountsNeverExceed`, `PermanentNotRetried`.
  `ActivationsReviewed` rests on `AdminInv`: one version of a profile is active
  (`OneActive`), every activation replaced what its order was reviewed against
  (`HistoryRight`), no version was activated twice (`HistoryOnce`), a delivery that is about
  to activate carries an approved order (`Delivered`), and records and answers are about
  activations that took place (`RecordsTrue`, `AnswersTrue`). `EgressKept` rests on
  `CallInv`: a call's policy was in force while it was decided (`CallFits`), between its two
  reads it has seen every policy of its profile that was active (`Covers`), and what a decision
  lets out both policy and candidate permit, for every source (`DecisionAllows`).
- **`DurableStateProofs`**. `SavedStays`: a copy of the row's own revision holds all its
  changes, so that writing it back loses none. `VaultKeeps` rests on `VaultInv`: what is
  under a name is among what a power cut may leave there (`NowDurable`), what it may leave
  under a returned reference is what the callers may expect (`GivenKept`), and the operation
  under way works on a reference that was returned, or not yet, by the step it is at
  (`OperationFits`): a creation syncs only after its second name is
  gone. `StorageKeeps` rests on `StorageInv`: the manifest is linked after the snapshot
  and removed before it (`ManifestLast`), a returned pair is synced (`ReturnedKept`), a batch
  that was applied has the pair of the schema it found (`BatchesUndone`), and what each
  process remembers is true as long as it holds the lock (`ProcessesFit`). `PagesAreComplete`
  first shows that ORDER BY has a result (a finite set that is ordered can be put in order,
  by induction over its size), from which a page is the first of what was asked for
  (`PageFacts`); `ListInv` then says that what was given is not beyond the cursor
  (`GivenBehind`) and that what the cursor has passed, of its own query, was given
  (`PassedGiven`). That a cursor is refused for another query is what the second needs.
- **`RunAnswerProofs`**. `PlansAreExecutable` rests on `AnswerInv` (a plan is made of an
  accepted decision, a refusal has its code) and on what the validator computes for any tasks. A pass takes a task only
  after its dependencies (`TakenSound`, `PassFacts`). It makes the order longer or, when it
  does not, the tasks that remain wait for each other (`StuckInCircle`); one pass per task is
  therefore enough (`OrderFacts`, `OrderCounts`). Along an order no chain takes longer than the
  critical path (`ChainWithinPath`), and some chain takes as long (`PathHasChain`). A verdict is
  the code of the first broken rule (`FirstBrokenFacts`), and the rules of a decision come in
  three parts, its own, its tasks' and the order's (`PartsFacts`, `FlattenFacts`), so that
  accepted means that none is broken and a code names a rule that is (`DelegateVerdict`).
  `AnswersAreSafe` follows a text through the guardrail, one lemma for each pass: cleaning
  leaves nothing that is to be removed and moves nothing (`CleanedText`); behind the first pass
  every definition is allowed, and no target stands behind another that did not before
  (`ReferencesHandled`); behind the scan every inline link is, if no two targets stood side by
  side, since then two neighbours of the result were neighbours before (`InlineLinksHandled`,
  `ChosenNeighbours`); neutralising leaves no broadcast, keeps the links and numbers the
  mentions (`MentionsHandled`); and the cut keeps a beginning, is followed by the marker, and
  changes the meaning of no token but the one directly before it (`TruncatedFits`,
  `CutHandled`). That a text whose links have URIs is what it gets, whatever the executors
  answer, is `TextInv`: a plan is a list of tasks or an answer of the Root, an outcome is made
  of results, and the reducer writes links only where a summary has them
  (`RenderedIsMarkdown`, `CandidateIsText`).
  `AnswersComposed` rests on `ReduceInv`: a plan that is executed has a synthesis its decision
  was allowed (`SynthesisSound`; the order of the tasks does not matter, `SynthesisReordered`)
  and only tasks that can answer, and an outcome that is composed is what the engine makes of
  such answers. What it makes is written down place by place (`Handed`, `OutcomeIsHanded`):
  each step ran, or was cancelled behind one that did not complete. From it each check
  of the reducer is answered (`DelegationReduced`): a task is missing exactly when its step did
  not complete (`HandedResults`), so the failures the reducer counts are those the engine
  reported. For the text, `CollectKeeps` is the invariant of the pass over the evidence: no
  URI has two numbers, and a task's numbers stand for its own pieces, whatever is added later
  (`Apart`, `Standing`, `PlaceKeeps`). The warnings are counted by placing them: every warning
  of a task has a line of its own (`WarningsCounted`), and those the engine repeats are, up to
  any place in its list, no more than the tasks account for, so none is left to the Run
  (`WarningsKnown`, `NoneLeft`). `CandidateAttributed` puts both together.
- **`ToolGovernanceProofs`**. `TInv` says of each await what a call that reached it may rely
  on (`Stages`), that one version at most is active, and that a grant in a call's hands was
  consumed for it alone. The budget and the recorded rows are not inductive by themselves: a
  call that reserves must have had number 0, and a call that finishes must have a running
  row, which only `Stages` knows. A call's step is proved against its own fields
  (`CallStage`), and against all others at once (`CallFrame`, `StillStage`). It yields
  `GrantsAreSingleUse`, `BudgetIsHonoured`, `ExecutionsAreRecorded` and, as an action
  property, `AuthorizationIsFresh`.

The library's induction over the naturals has an operator parameter and cannot be cited. Where
a proof needs induction it is in set form: a set of naturals has a least element (`NatLeast`,
from the well-foundedness of `<` on `Nat`), so a set that holds 0 and every successor of its
members holds them all (`NatAll`). With it the value of a recursive function of a model
(`DueUpTo`) and the existence of a sorted sequence are derived. A definition that is to be
proved about this way is a recursive function: the provers know no definition of `SelectSeq`
and `SortSeq`.

Model-checked only: liveness (`EveryRunFinishes`, `CloseReturns`, `EveryUnitEnds`), which is
beyond the prover with ENABLED. The type invariants
(`TypeOK` and the components' `...TypeOK`) are stated for the reader: those of the store, the
queue, the retries, tool governance and the unit of work are proved, as theorems or as parts
of the inductive invariants; for the submission, sessions, vault, storage, policies and lists
the inductive invariants hold the types that their proofs use, and the rest was checked by TLC
on the instances above.

## 6. Not modelled

Redaction and telemetry rewriting, plugins, the UI and most of the web and the CLI: text,
wiring and serialisation, whose stateful services are modelled behind them. In what is modelled:

- `max_parallel_steps > 1` (`bootstrap.py` deploys 1), queue readiness before a submission,
  a Run timeout beyond planning (the code checks it there only);
- a clock of the Run stores read before the lock is awaited, the unlimited attempts of a Run
  that kills every process, a `close()` of the database that is itself cancelled;
- the deployed skill authorizer, which always answers "unavailable": all its answers are open;
- the operating system's key ring, and the services that would use the secret store and the
  connection registry, which have no callers yet;
- provider adapters, password hashing, cookies, the wording of audit entries, checksums and
  the contents of migrations;
- directories made by `init`, permissions, and files that the program did not write.

In `RunAnswer` no task is called `run`, the label of the Run's own warnings: the code does not
reserve it, and the text could not tell the two apart. A summary's lines are never of the
kinds the reducer itself writes (sources, warnings).

In `ToolGovernance` the reservation does not compare the schema, as in the code, so a call
may start after discovery saved another schema of an active tool: no property claims
otherwise; its second look at the consumed grant never refuses. A Run that ended may keep
attempts that are `queued` (recovery of an unrepeatable step) or `interrupted`
(cancellation): the properties speak of running ones. A repeated activation that has passed
its replay look-up when the first commits may be told 409.

## 7. Plan

1. A clock reading apart from the transaction in `RunStore`, as in `RunSubmission`, to see
   what a stale clock may do to a lease.
2. The commands that control a running server, and the key ring behind the router of stores.
