# AirBench in TLA+

AirBench runs "virtual teams" of model workers on one node. A desktop application submits tasks to the
node; an orchestrator takes every task through its life cycle; a scheduler admits the task's team to the
measured hardware; a runtime executes the team's workers in waves between join barriers; models and tools
are called under recorded decisions; verification and delivery end the task. Every decision is an event in
an append-only ledger, and what each part remembers is meant to be a projection of that ledger. This
directory specifies that control logic in TLA+, checks it with TLC on small instances, and proves the
central properties with TLAPS for all of them.

Paths in the text are relative to the repository's root, without the leading `src/` of the Python packages
(`contracts/...`, `airbench/...`); where a file name alone is unambiguous, only that is given.

## 1. Inventory

The Python core is `src/contracts` (contracts and their deterministic engines) and `src/airbench` (the
runtime, the node, tools, intake, knowledge, verification, delivery). The desktop application is
`apps/desktop`.

| component | state it keeps | operations | module |
|---|---|---|---|
| Resource scheduler (`contracts/execution/scheduler.py`) | plans, leases, counters per resource and GPU, the queue | `admit`, `grant_worker_lease`, `activate_lease`, `release_lease`, `expire_leases`, `cancel_team`, `drain_queue`, `reconcile` | `ResourceScheduler` |
| Ledger (`contracts/provenance/ledger.py`) | the event chain, idempotency keys, checkpoints; the task's state by replay | `append`, `append_batch`, `replay`, `checkpoint` | `TaskLifecycle`, `LedgerStore` |
| Orchestrator (`contracts/execution/orchestrator.py`) | nothing of its own but the circuit breaker: a task's state is a fold over the ledger | `create_task`, `transition`, `execute_step`, `execute_model_call`, `audit_event`, `finalize_with_completion_gate`, `cancel` | `TaskLifecycle`, `ModelCalls` |
| Handoff coordinator (`contracts/execution/handoffs.py`) | barriers by version, handoffs, accepted packets | `open_barrier`, `submit_handoff`, `resolve_barrier`, `reconcile` | `HandoffBarrier` |
| Recovery manager (`contracts/execution/recovery.py`) | rows of side effects, retries and failures | `run_once` and its parts, `recover` | `LedgerStore` |
| Team runtime (`airbench/orchestration/team_runtime.py`) | outcomes, barriers, futures, the cancellation token | `execute`, `request_cancel`, the waves and their threads | `TeamRuntime` |
| Node API (`airbench/node/api.py`) | nothing but the ledger: it answers from it | commands with `expected_sequence`, event pages, snapshots, plan, uploads, downloads | `NodeCommands`, `TaskSync`, `Documents` |
| Desktop commands (`App.tsx`, `nodeCommands.ts`) | the start, the review, the settled command | start, approve, stop | `NodeCommands` |
| Desktop synchronisation (`taskEventLoop.ts`, `eventStore.ts`, `synchronizer.ts`) | a store per task, the loop, the synchronization in progress, the view | tick, refresh, start, reconnect, snapshot | `TaskSync` |
| Model registry, router, adapters (`contracts/model`, `contracts/adapters`) | the loaded roster, routes held by stage, calls in flight | `load`, `route`, `complete` | `ModelCalls` |
| Tool gateway, sandbox, code execution, file tools (`airbench/tools`) | permits, containers and processes, the workspace | `authorize`, `execute`, `run`, `read`, `write` | `ToolRuns` |
| Intake, verification, delivery and the Node's gateways | staged and committed files, sealed verdicts, staged artifacts | `intake`, `run`, `render`, `download`, `query_upload` | `Documents` |

Not modelled: the desktop's connection poll and byte transport, the model store, admission and
authorization tables, knowledge, the vertical slice and the dataclasses (section 16).

What makes each correct:

- **Scheduler**: capacity is never overcommitted; counters equal what the active leases hold; memory
  equals the replay of the ledger after any failure; a serial team never runs two workers at once; a lease
  only moves forward; no waiting team is lost by a call that succeeds, and what was told to wait is not
  refused later without a reason; an overdue lease ends (the code does not achieve this, section 14).
- **Ledger and orchestrator**: the two state machines (`_TARGETS`/`_ALLOWED` and `_apply_event`) agree on
  what is over; a finished task stays finished and is completed only on a judgement that stands.
- **Store and recovery**: the chain never forks over processes; what was answered is in the file; an
  effect whose outcome is unknown is not repeated.
- **Handoffs**: a barrier completes only with every required packet of its own version; a late packet
  changes nothing; the destination is given what was accepted, except under an id that was used again.
- **Team runtime**: dependent work follows its inputs, also over a crash; whatever ends a team has tried to
  release every lease; `execute` returns although a worker's callback may not.
- **Node and desktop**: a command takes effect once however often it arrives, never after its refusal, and
  on the task its sender saw but for what the Node's other parts write meanwhile; a view is a beginning of its task's stream, and catches up.
- **Model calls**: no backend is asked without a recorded decision, nor more often than the records
  and the endpoint's profile allow; the ledger tells one outcome of what was started; the route an
  escalation chose is kept until a turn of its stage finds it out.
- **Tools**: code starts only as decided; a manifest rests on recorded results; what is left running or
  lying about is reported; file records tell contents the file had.
- **Documents**: rendered on a passed verdict; the checked file stays; served as recorded.

What is hard: calls made of several ledger appends, each of which can fail or be the last before a crash;
memory updated before or after the append it mirrors; two folds of the same events that must agree; worker
threads that outlive their time-out; versions and idempotency keys that decide whether a retry is a
duplicate or a conflict; handlers that interleave at every `await`; SQLite transactions that Python opens
by itself and leaves open. `PROJECT.json` lists these hazards at their lines with the properties that
would show them going wrong.

## 2. Modules

| module | what it is |
|---|---|
| `ResourceScheduler` | the scheduler over the ledger; uses `FiniteSums` |
| `TaskLifecycle`, `TaskOutcome` | one task's events as orchestrator and ledger read them, and the abstract life it implements |
| `HandoffBarrier` | the coordinator's dictionaries against the ledger they are rebuilt from |
| `LedgerStore` | the ledger's SQLite file and `run_once`, statement by statement, for several processes |
| `TeamPromises`, `TeamRuntime` | what a team's execution leaves for others to see and promises of it; the execution itself: waves, threads, leases, packets, cancellation, crash and resumption |
| `NodeCommands` | the commands of the Node's clients over a network that loses and repeats them |
| `ViewPromises`, `TaskSync` | what the desktop shows of its tasks and promises of it; how it comes to be shown, over event pages and snapshots |
| `ModelCalls` | registry, routing and calls through a local and a remote adapter |
| `ToolRuns` | decisions, sandboxed runs, manifests and the file tool |
| `Documents` | uploads, the verdict, the deliverable and what clients are served |
| `MC...` | the constants of the instances; each run of section 13 has the `.cfg` of its name (`team_runtime`: `Team_Runtime.cfg`) |
| `...Proofs` | the theorems about a module, in a module of their own; `HandoffBarrierProofs` and `DesktopProofs` extend `HandoffBarrier` and `NodeCommands` and instantiate `TeamRuntime` (as `Runtime`) and `TaskSync` (as `Sync`) besides |

The modules share conventions. One step is one ledger append, file operation, SQLite statement or handler
up to its next `await`, with the assignments the code makes at once after it, so that a failure, a crash
or another actor may come between any two. A call made of several steps is kept in a variable (`call`,
`run`, `op`, `step`) that says where it is. What survives the process and what does not are different
variables, and a restart rebuilds the one from the other by the code's own reading of it. The components
that a module does not own appear as the answers they may give: the scheduler and the coordinator in
`TeamRuntime`, the transition table in `NodeCommands` and `Documents`, the ledger as an append that is
taken or refused. Where two modules need the same fact, it is the one the owner's module establishes:
`TeamRuntime` for example relies on a barrier that completes only with its packets, which is
`CompletedIsEarned` of `HandoffBarrier`. `TeamRuntime` thus composes lease, barrier and task into the
life of a team, and `Documents` the verdict, the deliverable and the Node's gateways.

## 3. The scheduler model

**State.** The ledger is kept as its fold, the variables `ledgerPlan`, `ledgerLatest`, `ledgerCancelled`,
`ledgerLease`: exactly what `reconcile()` would read back, no more. The scheduler's own dictionaries are
separate variables (`plan`, `latest`, `lease`, `used`, `queue`), so "memory equals replay" is a statement
that can fail. `capacity` is the measurement this scheduler object was built with; `closed` is the set of
tasks in a terminal ledger state; `overdue` is the set of leases whose `expires_at` has passed.

**Steps.** One step is one ledger append and the memory updates that follow it. `admit`, `activate_lease`
and `release_lease` make one append and are one action. `grant_worker_lease` (which expires leases first),
`expire_leases`, `cancel_team` and `drain_queue` make several: they are a `CallBegins`, one action per
append, and a last action; `call` holds the call in progress. The scheduler is single-threaded, so no
other call starts meanwhile, but `CallFails` (an append refused or failed) and `Restart` can happen
anywhere inside. `DrainStep` removes the entry before the append of its retry, as line 490 does, so a
failing append leaves the team in no queue until the next restart; the history variable `dropped` has these
entries. A restart rebuilds the requests of the queue out of the plans, which do not hold the stages of a
pipeline (`_request_from_plan`): `rebuilt` has the plans whose request lost them, `KeepsItsStages` is read by
`SelectMode`, and the retry of a rebuilt request is rebuilt as well.

| action | code |
|---|---|
| `Admit`, `SelectMode`, `Fits`, `Commit` | `admit`, `_select_mode`, `_fits_records`, `_decision_event_specs` |
| `ActivateLease`, `ReleaseLease` | `activate_lease`, `release_lease` |
| `CallBegins`, `ExpireStep`, `ExpireReturns` | `expire_leases` |
| `GrantWorkerLease`, `GrantRefused` | `grant_worker_lease` |
| `CancelStep`, `CancelCommits` | `cancel_team` |
| `DrainStep` | `drain_queue` |
| `CallFails` | `SchedulerError` out of `_append_events` |
| `Restart` | the process dies; `__init__` calls `reconcile` on a new measurement, with `_request_from_plan` |
| `DeadlinePasses` | the clock reaches a lease's `expires_at` |
| `CloseTask`, `ReviewTask` | the task's terminal event, and the review request that reopens it |

**Abstractions.** A team has one request, submitted again with the next version number: the code accepts
any version, its callers (`drain_queue`, `dataclasses.replace` in the tests) count upwards from 1, and so
does the model. Hashes, identifiers and timestamps are gone; the order of plan ids, by which `reconcile`
numbers the queue, is an arbitrary order, since the ids are hashes. Answers to repeated requests change
nothing and are no steps. The queue is the places 1..n of its entries instead of ever growing sequence
numbers: only their order is read. VRAM on a GPU is a worker's share rounded up, as `_add_gpu_usage` has
it. Reading the clock once per call is kept: no deadline passes during a call.

`QueueHoldsTheWaiting` says that the queue holds queued plans only, each at a place of its own, and that it
holds the last plan of each team that is queued and was not cancelled, but for those that a call took off and
then failed (`dropped`); it assumes nothing of storage. `RefusedOnlyAfterARestart` says when a team that was
told to wait is refused by a drain: after a restart, and then only if it was to be pipelined, or if the node
measured since cannot hold it at all.
`DrainHonoursPriority` says that a drain never passes over a better class; the order within a class is not
kept (section 14).

## 4. The task life cycle model

**State.** `orch` is `Orchestrator.state()`, the orchestrator's fold of the task's events by `_TARGETS`;
`replayed` is `EventLedger.replay().state`, the ledger's fold by `_apply_event`. Each has its own state
names (`deliverable_verified` and `verified`, `complete` and `completed`) and its own table, transcribed
as `OrchTarget`, `LedgerTarget` and `Allowed`. `verdict` is a history variable: the last judgement any
event pronounced. `checked` is the transition that each caller has checked and not yet appended. `step` is
the `execute_step` call in progress, `recorded` the idempotency keys of steps that are in the ledger.

**Steps.** One step is one append, `Append(e)`, guarded by the ledger's `_check_transition` (`Accepts`), or
one reading before it. What goes through the orchestrator's table is two steps: `CheckTransition` looks at
the state (`orchestrator.py:319`), `CommitTransition` appends (:336) whatever else was appended in between,
unless the ledger refuses the event or fails (`TransitionFails`). `AuditEvent` is `audit_event`, which takes
any catalogued event that is not a transition; `DirectAppend` is what eight other components append without
asking the orchestrator (`Appends`). `execute_step` is a `StepBegins` (the check of its request),
`StepRequested` (the append, with the checkpoint that may fail), one action per attempt outcome, the check
and the append of `task.failed`, and `StepRaises` for an exception or a crash anywhere inside.

| action | code |
|---|---|
| `CreateTask`, `CheckTransition`, `CommitTransition`, `TransitionFails` | `create_task`; `transition` and `authorize`, `commit_plan`, `approve_plan`, `assign_worker`, `cancel`, `request_review`, `finalize_with_completion_gate` on top of it |
| `AuditEvent` | `audit_event` |
| `DirectAppend` | coordinator, verification runner, autonomy governor, tool gateway, file tools, delivery engine, deliverable gateway, retrieval |
| `StepBegins`, `StepRequested`, `AttemptReturns`, `AttemptFails`, `StepGivesUp`, `StepFailsTask`, `StepRaises` | `execute_step` |

**Refinement.** `Promise` instantiates `TaskOutcome` with the ending as the orchestrator reads it and the
judgement as the ledger reads it: a task is completed on a judgement that stands, and what has ended never
moves again, with one exception. A request for review that was checked while the task was open is taken by
the ledger after its end as well and opens it again (`ReviewReopens`); `asking` says whether such a request
is under way, and none begins once the task has ended. That the variables come from different readers is the
point.

**Abstractions.** Payloads are gone but for the `status` that two events are read by; all events that move
neither reading are one, `observation`. A call repeated with equal content is answered from the record.
The circuit breaker (a counter that closes a door for a dependency), the choice of a model inside
`execute_model_call`, checkpoint contents and the scripted vertical slice are left out.

## 5. The handoff model

**State.** `memory` is the coordinator's four dictionaries; `ledger` is what `reconcile()` would rebuild
them to from the events so far. The two are written by different definitions (`Remembered` and the
`EXCEPT`s of the actions for the one; `ReadBarrier`, `ReadHandoff`, `ReadAccepted`, the loop of
`reconcile`, for the other), so `MemoryIsReplay` can fail. `live` is the set of source leases that are
still active, `due` the versions whose deadline has passed; deadlines are absolute and may pass before the
barrier is opened.

**Steps.** One step is one call with the batch it appends; `Commit` is `_append_events`: all events are in
and the assignments follow, or the batch is refused and nothing changes. Calls that only answer (with a
duplicate or a rejection) change nothing and are no steps; the order of the checks that lead there is kept
in `Valid`, `New`, `InTime` and `FirstFrom`.

| action | code |
|---|---|
| `OpenBarrier` | `open_barrier` |
| `SubmitLate`, `SubmitConflicting`, `SubmitAccepted` | the three outcomes of `submit_handoff` that store something |
| `InConflict`, `AfterAccept` | `_barrier_with_conflict`, `_barrier_after_accept` |
| `ResolveBarrier` | `resolve_barrier`, which looks up version 1 whatever versions there are |
| `Restart` | the next process's `__init__` calls `reconcile` |
| `LeaseEnds`, `DeadlinePasses` | the scheduler ends a source lease; the clock reaches a deadline |

An id may be used for two submissions with different keys; nothing refuses the second, and `_handoffs` has
the later one. `Resubmitted(i)` says that this has happened, and `InputsAreTheAccepted` that everything else
the destination is given is what its barrier accepted. While a barrier waits, its event is keyed by the ids
accepted so far, so a packet under an id that is among them already is refused with its batch.

**Abstractions.** A submission is well formed: checks of identity, topology, clearance, taint and
references reject it before anything is stored. A packet's failed checks and unresolved questions are
its membership in `OpenQuestions`. One destination is modelled; barriers of different destinations share
nothing but the dictionaries they are keyed in.

## 6. The ledger's store and run_once

**State.** `file` is what is committed: events, checkpoints, side-effect rows, retry and failure rows. Each
process has a connection: `tx` is the transaction Python's `sqlite3` has open on it (`none`, `open` without
a lock after a refused attempt, reading, or writing), `seen` the state its reads come from. `at`, `call` and
`job` say which statement of `run_once` or of a batch comes next. `ran` counts executions of the effect and
`said` what callers were answered; both are history.

**Steps.** One step is one SQL statement, with the commit that follows it at once. `View` and `Select` say
what a read returns: the file, or the snapshot an open transaction pinned. `Locked`, `Refused`, `Committed`
and `RolledBack` are the four ends of a write; `Refused` (a primary key already there, an `UPDATE` of no
row) leaves the transaction open with its lock, `Locked` leaves it open without one. A write from a
snapshot that is no longer the file fails at once, as SQLite's `SQLITE_BUSY_SNAPSHOT` does.

| action | code |
|---|---|
| `RunOnce`, `ReserveSideEffect`, `Execute`, `CompleteSideEffect`, `MarkUncertain` | `run_once` and the statements it makes |
| `RecordRetry` | `record_retry`, and `record_failure` of the same form |
| `BuildBatch`, `SendAgain`, `ValidateBatch`, `InsertBatch` | `append`, `append_batch`: the chain is read and validated before `BEGIN IMMEDIATE` |
| `TakeCheckpoint` | `checkpoint` |
| `Look` | `recover` and the reads of other queries, which may pin a snapshot |
| `Restart` | the process dies, or closes; SQLite rolls its transaction back |

Of a batch that is sent again the store compares the number of transactions it finds with the number of
events (`ledger.py:311`): a batch of one is answered as committed (`AnswersAgain`), a longer one is an
`IdempotencyConflict`. `UnknownIsNotRepeated` is what `run_once` guarantees without any assumption about its
callers: no process executes an effect twice, over its restarts, and a second process executes it only when
the first execution is on record as completed. It does not guarantee one execution (section 14).

**Abstractions.** An event is its batch, its place in it and the event before it, in place of hashes. A
statement and the autocommit after it are one step: in between nobody else can write, and a death leaves the
file as it was. Opening the file, `VACUUM` and the schema are left out, and so is an effect that uses the
same ledger from inside.

## 7. The team runtime

**State.** `teamTask`, `outcomes`, `joins`, `leases` and `done` are what the ledger holds; `at`, `waves`,
`thread`, `cancel` are memory; `passed` is the clock; `unreleased` has the leases that the last clean-up
tried to release in vain. `waves[a]` is how far an assignment of the running
wave is: queued, prepared, running, how it ended (returned, raised, refused, timed out, cancelled), and whether its
packets are submitted. `thread` is separate: a worker's thread may run on after its assignment has been
given up.

| action | code |
|---|---|
| `Execute` | `execute`: checks, `_replay_worker_outcomes`, the short answer for a finished team |
| `NextWave`, `NothingReady`, `TeamCompletes` | the loop of `execute` over `_ready_assignments` |
| `StartWorker`, `EquipWorker`, `Launch` | `_prepare_invocation` (grant, activate, records), `create_worker_context`, the start of the threads |
| `WorkerEnds`, `WaitEnds` | `_call_worker`; `wait()` with the earliest deadline of the wave |
| `CommitCancelled`, `CommitFailed`, `SubmitHandoffs`, `CommitCompleted`, `ReleaseLease` | `_commit_outcome`, `_submit_handoffs`, `_release`, in assignment order |
| `CancelPending`, `FinishCancelled` | `_cancel_pending`, `_finish_cancelled` |
| `StorageFails` | a `StorageFailure` or `SchedulerError` out of any append |
| `RequestCancel`, `DeadlinePasses`, `LeaseExpires` | `request_cancel` from another thread; the clock; the scheduler |
| `Crash` | the process dies; the next one begins with nothing but the durable variables |

`Answer` is what the coordinator may say to a packet, by `HandoffBarrier`: accepted, duplicate, late,
conflicting. `Stops` and `FailsTeam` are the ways out of `execute` by a veto, by `_fail_team`, and by an
exception. Each tries every lease of the team (`Tried`) and passes over any release that raises, as
`_cleanup_active_leases` does, and ends the task all the same. `StorageFails` is an append that raises, a
lease's release among them. `EndedTeamTriedEveryLease` is about the calls that returned: what an ended team
still holds is what could not be released. A later `execute` of the ended task is refused and cleans up once
more, in vain: the ledger takes no lease event of an ended task.

**Abstractions.** One team and one task; worker contexts are empty, and their compaction is gone;
`rebuild_context` is a reading of the ledger that nothing here depends on. An external end of the task (the
orchestrator's own `cancel`) is not taken: it leaves the leases held, since nothing tells the runtime.

## 8. The commands of the Node

**State.** `stream` is each task's ledger; `wire` the commands ever sent, any of which may arrive at any
time and again; `said` the answers the Node gave; `serving` the command it is at, and how far; `clicks` bounds what the operator does; `asked` the
command each handler of the desktop waits for. `start`, `view`, `review` are what App.tsx keeps: the start
in progress with the sequence it goes by, the task shown with its last sequence, and the plan under review.

| action | code |
|---|---|
| `ReceiveCommand`, `DecideCommand`, `CommitCommand` | the handler of `create_app` under its lock: `_existing_command` and `_check_expected_sequence`; the state and the plan as they are when the orchestrator looks; the append with `_command_metadata`, and the checkpoint after it |
| `Restart` | the process dies while it serves a command |
| `RebuildCommand` | the client sends the same operation again under its key with the sequence it knows now |
| `Work`, `QueryUpload`, `RecordAccess` | the node's other parts move the task or append to its stream |
| `StartTask`, `TaskCreated`, `Authorize`, `UploadFails`, `TaskAuthorized`, `ReadPlan`, `Synchronize` | `startTask`, await by await |
| `ApprovePlan`, `StopTask`, `RequestReview`, `CommandSettled` | `approvePlan`, `stopTask`; another client's review; the answer, or its loss |

**Abstractions.** A fingerprint is the command's content. Authentication, clearances and the forms of the
answers are gone. `checked` stands for the run from approval to a passed verification.

The lock is between requests. The Node's other parts write without it, so what `DecideCommand` looks at may
have moved since the sequence was compared, and the append may come after further writes. The answers are
"accepted", "refused" (stale, or the key belongs to another command) and "rejected" (not allowed in the
task's state). A 503 is no answer the model keeps, because it says nothing: `transition` appends and then
saves a checkpoint, and when that fails the Node answers that the transition was not committed although it is
recorded (section 14). `RefusedForGood` is about the two answers that mean something: what was refused is
never recorded, and what was rejected only by a copy that was past its check when another part wrote.

## 9. The desktop's view

**State.** `streams` is each task's projected events at the Node, `store` the event store of each task's
synchronizer (the events it holds, and its health), `op` the synchronizations in progress and who waits for
them, `ref` App.tsx's `synchronizationRef`, `cur` its `synchronizerRef`, `loop` the synchronizer the running
loop polls, `projection` what is shown, `connected` and `starting` the rest of App's state.

| action | code |
|---|---|
| `Write` | the Node projects another event |
| `Tick`, `RefreshTask`, `StartTask`, `StartFails`, `SyncTask`, `Reconnect` | `TaskEventLoop.tick`, and the handlers of App.tsx that ask for a synchronization or join the one in progress |
| `Answer` | `event_batch` or `snapshot` at the Node, for the cursor it was asked with |
| `GotBatch`, `GotSnapshot`, `FetchFails` | the continuation of `synchronizeOnce`, `resynchronize`, `synchronizeWithRetry`, up to the next `await` |

`ViewsArePrefixes` is what remains true however synchronizations overlap: a view may be replaced by an
earlier one (section 14) and is still a beginning of the stream. `LoopCatchesUp` says that a
polling loop does not stand still.

**Abstractions.** An event is its number and its kind (plain, terminal, of a type the desktop does not
know). The operator starts the tasks in numbered order, which names them. The timer's delay is gone.

## 10. Model calls

**State.** `entry` is each target's manifest entry with its staged artifact, sound or blemished; `loaded`
whether the registry has been read; `condition` what is true of a target now (ready, down, queued for
resources, under review, refused, its qualification lapsed); `sticky` the router's routes by stage; `call`
the `execute_model_call` in progress, with its target, attempt and sends; `log` the idempotency keys of the
records in the ledger. `setup` is chosen once: which adapters have the ledger, which requests are made as
streams, which backends can stream and which remote profiles declare it, and whether the profiles let only
requests with an idempotency key be retried (`retry_only_idempotent`). `posts` and `left` are histories:
what was sent with the ledger on the adapter, and the target an escalation left to each stage.

| action | code |
|---|---|
| `Provision`, `LoadRegistry` | the manifest and the artifacts; `ModelRegistry.load` with `validate`, `verify_qualification_signature`, `verify_artifacts` |
| `Changes` | a backend, a qualification or capacity changes |
| `Route`, `RecordDecision` | `ModelRouter.route` and the decision event of `execute_model_call` |
| `EndpointBegins`, `LocalBegins`, `Check`, `Post`, `Reply`, `EndpointCompletes` | `complete` and `stream` of the remote and of the local adapters: preflight, `selected`, health, capabilities and budget, `started`, send, parse, and the endpoint's own record of completion |
| `StepReturns`, `StepRetries`, `CallRaises` | `execute_step` around the call, and an exception past it |
| `Restart` | the process dies: routes and the call are gone, the ledger stays |

The router's rules are kept: an escalating turn considers the capable targets alone and holds the one it
gets for its stage; later turns of the stage put the held route first; settled mechanical work prefers the
efficient targets and other work the capable ones; of equals the roster's first wins. The instance has a
local target whose adapter has the ledger and a remote one without, with a profile that retries keyed
requests only or all of them; and a setup in which both have the ledger and are asked for streams, which the
local backend cannot give.

What the code records of streams is kept as it is: a backend that cannot stream appends `model.call.failed`
without `model.call.started`, and the remote endpoint's stream, which overrides the local one, appends no
`model.call.completed`, only its own `endpoint.request.completed`. `LedgerTellsOneOutcome` names both.
`EscalationIsKept` is about the route an escalation chose (`left`) until a turn of its stage finds that
target out; from then on the stage may stay with the fallback (section 14).

**Abstractions.** Payloads and streams are a reply that parses or does not. The Gemini adapter is of the
same form as the remote one. Artifacts are verified when the registry is loaded and then taken as they are,
as the code does.

## 11. Tool runs

**State.** `decisions`, `results`, `manifest`, `filed` are the ledger; `permits` what the caller holds of
it; `run` the code execution in memory and how far it is (main, then each test, then capture and seal);
`live` the runs whose code executes, `kept` those whose container exists, so that a container can outlive
its run and a process its starter; `file` the one output file, `had` all contents it has had.

| action | code |
|---|---|
| `Authorize` | `ToolGateway.authorize`: two records, of which the second may be missing |
| `StartCode`, `StartAction` (`StartRefused`, `HalfAdmitted`, `Admitted`) | `CodeExecutionRunner.run`, the admission of `SandboxRunner.execute` with its own two records |
| `Launch`, `NotLaunched`, `WritesOutput`, `RunEnds` | the provider starts the code or raises; the code writes; it ends, times out, or its output does not decode |
| `CleanUp`, `RecordResult` | removal of the container, the result with the clean-up's status |
| `Capture`, `Seal` | `_capture_artifacts`, the tests' verdict, `_append_manifest` |
| `WriteFile`, `ReadFile`, `FileRecorded` | `FileToolRunner` |
| `Crash`, `OrphanEnds` | the process dies; code it started goes on until it ends |

What is killed at a time-out is the worker alone. The guard of a local worker does not deny `os.fork`, so
children of its code may live on (`GoesOn`); `LeftoversAreReported` is therefore about containers.

A start is the pair of an action and the number of the try, since the container's name carries it. The
three owners of keys answer a held key differently, which the model keeps: gateway, file tool and manifest
return the old event, the sandbox fails.

**Abstractions.** One output file, a main action and declared tests. Authorizations are asked for while no
run is in progress. The spreadsheet tool is a file tool of another format.

## 12. Documents

**State.** The ledger is `task`, `evidence`, `requested`, `verdict`, `staged`, `checked`, `accessed`; the
disk `stored` and `file`; `call` is the upload the Node works on, `run` the thread that verifies and
renders; `served` is what clients were given.

| action | code |
|---|---|
| `StageUpload`, `RecordEvidence`, `EvidenceRefused`, `CommitUpload` | `FileIntakeLayer.intake`: the store's staging, the event, the rename |
| `BeginRun`, `Evaluate`, `Seal` | `VerificationRunner.run`: request, rules, sealed verdict |
| `BeginRender`, `WriteFile`, `StageArtifact`, `CheckArtifact`, `EndRun` | `DeliverableEngine.render` and its two events |
| `Download` | both gateways: the record, the bytes checked against it, the access record |
| `OtherTransition`, `Decay`, `Restart` | the rest of the task's life, damage on the disk, the process |

`OutcomeOf` is the runner's fold of the rules' findings: a rule not reached or above the clearance needs a
review, a broken one fails, and only if all hold it is passed. The bytes of a rendering are the number of
the rendering, because two renderings of one document differ.

A verification asked for again with other inputs raises before it records anything (`runner.py:249`), and
is no step.

**Abstractions.** One run at a time verifies and renders, as the callers do; clients of the Node have the
clearance of the task. What a rule computes, parsing and layout are data.

## 13. Runs

All runs pass but `scheduler_expiry`, which refutes what the code says of itself (section 14, item 1).
Deadlock is checked where the system cannot stop; where the operator may stop, the task may
be over or a bound used up (`team_runtime`, `node_commands`, `task_sync`, `model_calls`, `tool_runs`,
`documents`), the `.cfg` says so.

| run | instance | states | shows |
|---|---|---|---|
| `scheduler_leases` | two teams of two, parallel and serial, one or two slots; expire, grant, cancel, drain; failing storage, a closable task, restarts on another measurement | @scheduler_leases@ | memory = replay, counters = held, serial exclusion, admission before lease, no overcommitment, leases move forward |
| `scheduler_queue` | two single-worker teams of two priority classes, one of them pipelined, an odd amount of VRAM over two GPUs, three plan versions, cancel, drain, failing storage, restarts | @scheduler_queue@ | the queue holds the waiting, drains honour priority, a refusal after waiting has a reason, devices hold what is placed on them |
| `scheduler_expiry` | leases past their deadline, a task that ends while a lease of it is active, restarts, no failing storage; fairness | violated | that an overdue lease ends does not hold |
| `lifecycle` | one task, a caller of transitions beside a step of two attempts, all eight appending components | @lifecycle@ | the two readings agree, completion follows a verdict, refinement of `TaskOutcome` |
| `handoffs` | two predecessors, two versions, eight submissions, two of them under one id, deadlines, ended leases, refused batches, restarts | @handoffs@ | memory = replay, inputs = the accepted, completion earned, barriers settle, nothing after the deadline |
| `ledger_store` | two processes, one key used for two actions, batches of two events and of one, deaths anywhere | @ledger_store@ | an effect of unknown outcome is not repeated, answers are durable, one chain |
| `team_runtime` | three assignments, the third joining the other two, whose leases come with the plan; packets with and without open questions; cancellation, deadlines, expiring leases, failing appends and releases, one crash; fairness | @team_runtime@ | work follows its inputs, an ended team has tried every lease, `execute` returns |
| `node_commands` | six events of one task and one of another, three clicks, one command rebuilt, any loss and repetition, restarts, writes between the steps of a command | @node_commands@ | a key is recorded once, a refused command never, each acts on what its sender saw |
| `task_sync` | two tasks, the first ending; two overlapping synchronizations, pages of one event, one pass, two attempts; fairness | @task_sync@ | views are prefixes, the loop catches up |
| `model_calls` | a local and a remote target, two requests of one stage, as streams or not, two attempts, one retry at the endpoint, four setups of ledgers and profiles, three blemishes of an entry, restarts | @model_calls@ | asked under a decision, bounded sends, one outcome, an escalation's route is kept |
| `tool_runs` | main and one test, asked twice; containers gated and not, subprocess; failed appends, failed removals, a crash anywhere; one file operation | @tool_runs@ | code starts as decided, manifests rest on results, leftovers reported, file records true |
| `documents` | two uploads, two rules, three renderings, two restarts, damage, refused appends | @documents@ | rendered on a pass, the checked file stays, served as recorded |

**Bounds.** `MaxVersion` limits plan versions per team: two are needed for a retry, three for a retry of a
retry with a superseded version behind it. Two workers are enough for a team half granted and a serial
team tempted to overlap; two teams for every conflict over capacity and for an order of classes.
Capacities are chosen so that a team fits, fits one by one, fits only alone, and does not fit. For a task one caller of
transitions, beside `execute_step` and the components that append directly, leaves every pair of a check and
a foreign append; one step identity suffices, since keys of different steps never meet, and two attempts make a first, a
repeated and a last one. `TwoWorkers` of the barriers holds every relation two submissions can have: the
same packet under another id, another packet, another version, another worker's key, another worker's id,
a packet with open questions. One key of the recovery store suffices because rows of different keys share nothing but the
file and its lock, which the batches use as well; two actions make a key meet another caller's result. A
join of two is the smallest one that can be half complete, and a capacity of two lets both its sources run
at once. Two synchronizations in progress are what `startTask` can produce against one loop; pages of
one event and one pass stand for 128 events and eight passes, so that a synchronizer can stay behind its
passes. Two requests of one stage are what a held route needs. A retry of a code execution is the second
try; a third meets the same held keys. `MaxRenderings` exceeds the restarts by one, so that the last can
succeed. `MaxUploads` bounds how long a
stream still takes uploads and previews. `clicks`, `MaxRetries`, `MaxCrashes`, `MaxTries` and `StreamBound` cap counters in guards.

**Fairness.** `scheduler_expiry`: a call returns (`WF` of its last step); callers keep asking for expiry
(`SF` of beginning such a call, though nothing in the repository calls `expire_leases` but
`grant_worker_lease`); the append of an expiry that is possible again and again succeeds some time (`SF`).
This is the most that could be hoped for, and `OverdueLeasesEnd` is refuted all the same. `team_runtime`: `execute` is a running thread (`WF` of its steps), the clock advances (`WF` of
each deadline); nothing is assumed of workers' threads, which is the point of `ExecutionReturns`.
`task_sync`: the timer fires (`WF` of `Tick`) and each awaited answer arrives or fails (`WF` of each
synchronization's next step), as `fetch` with its time-out does.

## 14. Observed divergences

Where the code does otherwise than a text of the repository says, or than a reader may expect, the
properties above state what does hold. The first is what `scheduler_expiry` finds; the others were met while the modules were written and are visible in the definitions named.

1. **A lease of a finished task cannot be ended.** `ledger.py:189` refuses every lease event of a closed
   task, so `release_lease` and `expire_leases` (`scheduler.py:449`, "Expire all active leases whose fixed
   deadline has passed", :443) raise, the reservation stays, and as `grant_worker_lease` expires first,
   every later grant on the node raises as well. `scheduler_expiry` finds it. Only a request for human review
   that opens the task again (`ReviewTask`, item 14) can make the expiry possible again.
2. **A retry loses its place, and after a restart its stages.** `drain_queue` promises "priority/FIFO" order
   (`scheduler.py:478`); the retried entry gets a new sequence number behind its class (:490), and
   `DrainHonoursPriority` is about classes. `reconcile` rebuilds queued requests without `worker_stages` and
   `pipeline_stages` (:1052-1086): a pipelined team that was told to wait is then refused on its retry
   (:586-589), and one that left the mode open can no longer be pipelined. `RefusedOnlyAfterARestart`
   allows exactly this.
3. **A cancelled team comes back.** Cancellation is recorded for the last plan version only, and
   `reconcile` requeues each queued version without such an event (`scheduler.py:453`, :552). Also: the
   plan of a cancelled team stays admitted, so that a worker without a lease can still be granted one; a
   second cancellation meets an idempotency conflict; and an append that fails in `drain_queue` drops the
   entry from memory until the next `reconcile`.
4. **Completion without verification.** `artifact.checked`, which the file tools append for every file they
   read, takes the orchestrator to `deliverable_verified` from any state (`orchestrator.py:106`,
   `docs/foundations/06_orchestration_engine.md:53`); the ledger in turn lets a task in `needs_review`
   complete. What holds is `CompletionFollowsAVerdict`.
5. **An exhausted step that cannot fail its task.** The same event leads to a state in which `task.failed`
   is refused (`orchestrator.py:407`; `tests/test_orchestrator.py:74,85`): the step raises
   `TransitionRejected` and the task stays open.
6. **One handoff id for two packets.** Submissions are compared by idempotency key and stored by id
   (`handoffs.py:299`), where `docs/evidence/backend/m4_3_integration_plan.md:237-240` has a repeated id with
   another packet as a conflict. `TwoWorkers` has such a pair, and `InputsAreTheAccepted` says what remains: under an id
   used again the destination may be given any later submission's packet.
7. **An effect that runs twice.** `tests/test_m10_resilience.py:188-189` says that `run_once` guarantees
   exactly-once. It looks for a completed row and reserves in two statements (`recovery.py:103`): when a
   second process looks up first and the first one completes in between, the second's `INSERT` is refused,
   `reserve_side_effect` finds its own action completed and returns, and `run_once` goes on to the effect.
   `UnknownIsNotRepeated` is what holds. A completed row also answers a different action under the same key
   (:103-105), and a committed batch of two events that is sent again is a conflict (`ledger.py:311`).
8. **A crash between `worker.failed` and `task.failed`.** If nothing else was pending, the next `execute`
   finds nothing left to do and completes the team (`team_runtime.py:917`;
   `docs/evidence/backend/m4_4_team_runtime_evidence.md:30`).
9. **The desktop's view may go back** when an older synchronization ends after a newer one
   (`eventStore.ts:231-234`, :259); `fe_dev_6_evidence.md:12` and `fe_dev_12_recovery_evidence.md:16-18`
   (`docs/desktop/evidence/`) say that there is no overlap. It remains a prefix.
10. **`worker.context.compacted` blocks the view.** The Node sends this event (`api.py:884`, `models.py:23`)
    and the desktop does not know it (`protocol.ts:206`).
11. **A fallback becomes the stage's route.** If an escalated stage falls back while its capable target is
    out, the fallback is held from then on (`router.py:119-121`), where
    `docs/foundations/07_serving_and_routing.md:29` (item 5) and
    `engineering_records/milestone_plans/m5_setup_and_progress.md:99` have the capable target stay for later
    turns. `EscalationIsKept` ends where the fallback begins.
12. **An ended team may keep leases.** `docs/evidence/backend/m4_4_team_runtime_evidence.md:29-30` and :46-47
    have a failed or cancelled team release its leases. `_cleanup_active_leases` passes over a release that
    raises (`team_runtime.py:907-913`), `_fail_team` and `_finish_cancelled` end the task nevertheless
    (:943-970), and from then on the ledger refuses these leases' events, as in item 1.
13. **"The local ledger did not commit the transition."** The Node says so (`api.py:317`, also :345 and :381)
    when `transition` raises, and `transition` may raise after its append, when the checkpoint fails
    (`orchestrator.py:336-338`, :577-582). The command is then recorded. Other parts of the Node write
    without its lock, also between the comparison of the sequence (`api.py:404`) and the append.
14. **A review request reopens an ended task.** `transition` checks the state and appends in two steps
    (`orchestrator.py:319`, :336), and the ledger takes `human.review.required` of an ended task
    (`ledger.py:189-190`). A request that crosses a cancellation, a failure or a completion opens the task again.
15. **Streams on record.** A backend that cannot stream is recorded as failed and was never started
    (`vllm_adapter.py:206-215`), so that the request may still be started and completed through another
    target; a stream of the remote endpoint is never recorded as `model.call.completed`
    (`remote_adapter.py:308-341`).
16. **Unkeyed requests may be retried.** `m5_setup_and_progress.md:115` says that retries require a key; the
    code requires one only where the profile's `retry_only_idempotent` is set (`remote_adapter.py:150`).

Smaller observations, by part:

- **Recovery.** A refused reservation leaves SQLite's implicit transaction, and its write lock, open on the
  connection until the next commit (`recovery.py:90`). Retry keys lack the run (`orchestrator.py:399`).
- **Orchestrator.** `audit_event` moves the ledger's reading with `human.signoff`, `escalation.required` and
  `resource.plan.queued`, although its docstring says that the task's state does not change. The in-memory
  ledger has no lock (`ledger.py:143`); the models take an append as atomic.
- **Handoffs.** A submission is validated before its key is looked up (`handoffs.py:190`), so a delivery
  repeated after its lease ended is rejected and not a duplicate; `resolve_barrier` looks up one version only (:317).
- **Team runtime.** `wait()` ends with the wave's earliest deadline, while threads may run on (:762);
  `_lease_for` ignores the team (:695); `rebuild_context` counts late, rejected and conflicting handoffs as
  accepted; a crash between `worker.completed` and the release leaves the lease until it expires.
- **Node and desktop.** "No local ... state was changed" is said also when an answer was lost; the plan is
  read in `startTask` only, so a later plan cannot be approved from the desktop; after a failed `startTask`
  the old event loop stays stopped; access to a deliverable that is not a `.docx` is recorded before it is refused.
- **Model calls.** With the ledger on the adapter every retry is refused, as the keys lack the attempt;
  `execute_step` retries failures that are marked non-retryable; the order of `except` clauses in
  `_post_json` makes HTTP 400 a retryable `unavailable`; a stream without its last chunk is recorded as
  completed and fails the step; a stray exception leaves `started` without an outcome; local adapters do
  not look at a qualification that lapsed after routing.
- **Tools.** Children that a local worker forked survive its time-out, and one that holds its pipes makes the
  provider wait past it (`sandbox.py:154-156`, :376-393); Podman output that does not decode skips the removal of the container
  (`podman_provider.py:205`), recorded as failed with its clean-up completed; a crash after main's result
  means that the execution can never be sealed; the artifact may be older than the run, or changed by a
  test before it is captured; a scope's expiry is not looked at when the code starts (`sandbox.py:527`).
- **Documents.** A sealed verdict is returned whatever the inputs of a later call are; the engine does not
  check that the verification it refers to exists, its caller does; with two runs at a time the file could
  differ from the check and every download would be refused; the staged event may tell older bytes than
  the checked one after a retry; staging directories of interrupted uploads stay.

## 15. Proofs

All theorems hold for all values of the constants under the named assumptions of the modules; what a
theorem assumes beyond them is named with it (one does, `SameMeasurement`). Two proof modules are about two models each: a module can
extend only one of them, as both have their `Init`, `Next` and `Spec`, so the second is an instance
(`Runtime`, `Sync`) over the state that `TeamPromises` or `ViewPromises` declares for both, and its
assumption is a hypothesis of its theorems (`Runtime!TeamAssumption`, `Sync!SyncAssumption`). The
invariants of those models (`TeamInv`, `IInv` of the commands, `SyncInv`) also hold in every state of the
instances that section 13 checks.

| module | theorems |
|---|---|
| `ResourceSchedulerProofs` | `TypeCorrectness`, `Replayable` (`MemoryIsReplay`), `Accounting` (`UsageIsHeld`), `Serial` (`SerialExclusive`), `Admission` (`LeasesFollowAdmission`), `Forward` (`LeasesMoveForward`), `NoOvercommit` (`NeverOvercommits`), `QueueInductive`, `QueueInOrder`, `NoTeamForgotten` (`QueueHoldsTheWaiting`), `WaitingIsNotRefused` (`RefusedOnlyAfterARestart`), `DrainInPriorityOrder` (`DrainHonoursPriority`), `DevicesAreNotOverloaded` (`DevicesHoldTheirLeases`, if `SameMeasurement`) |
| `TaskLifecycleProofs` | `TypeCorrect`, `ReadingsAlwaysAgree`, `CompletionAlwaysFollowsAVerdict`, `LifecycleKeepsPromise` (the refinement of `TaskOutcome`) |
| `HandoffBarrierProofs` | `TypeCorrect`, `AlwaysReplayable`, `CompletionIsEarned`, `BarriersAlwaysSettle`, `DeadlinesHold`, `InputsAreAlwaysTheAccepted`; of `TeamRuntime`: `TeamInductive`, `WorkersAreFed` (`WorkFollowsItsInputs`), `EndedTeamsTriedEveryLease` (`EndedTeamTriedEveryLease`) |
| `DesktopProofs` | of `NodeCommands`: `CommandsInductive`, `CommandsOnce` (`OncePerKey`), `RefusedNeverApplied` (`RefusedForGood`), `CommandsMeetWhatWasSeen` (`ActsOnWhatWasSeen`); of `TaskSync`: `ViewsInductive`, `ViewsArePrefixesOfStreams` (`ViewsArePrefixes`) |
| `LedgerStoreProofs` | `TypeCorrectness`, `UnknownIsNeverRepeated` (`UnknownIsNotRepeated`), `AnswersStayDurable`, `ChainStaysOne` |
| `ModelCallsProofs` | `TypeCorrectness`, `BackendsAreAskedUnderADecision`, `SendsStayBounded`, `OutcomesAreUnique` (`LedgerTellsOneOutcome`), `RoutesAreHeld` (`EscalationIsKept`) |
| `ToolRunsProofs` | `TypeCorrectness`, `StartsAreDecided`, `ManifestsRestOnResults`, `LeftoversAreAlwaysReported`, `FileRecordsStayTrue` |
| `DocumentsProofs` | `RendersOnlyOnAPass`, `CheckedFileAlwaysStays`, `ServesOnlyTheRecorded`, `StoresOnlyTheRecorded` |

**The scheduler.** The invariants are inductive only together. `TypeOK` of `used` after a release needs that
the counter is at least the lease's demand, which follows from `UsageIsHeld`; `UsageIsHeld` after a restart
needs `MemoryIsReplay`; `SerialExclusive` after the admission of a new version needs that a plan not yet
decided has no leases, part of `LeasesFollowAdmission`; and that the next version is undecided needs that
no version above `latest` is. `IInv` is `Core` (types, replay, accounting, admission) and `Around` (what the
call in progress and the queue may refer to). Accounting rests on the theory of sums: `SumOver` is a
recursive function on subsets, and the library's induction theorems take an operator, so `MinimalSubset`
proves by well-foundedness of the subsets' cardinalities that a counterexample of least size does not exist.

The queue has an invariant of its own, `QInv`: places are distinct and without a gap, and during a drain
everything that waits is what the drain has yet to serve. With `IInv`, which has it that waiting plans are
queued ones, it gives `QueueInOrder` and `DrainInPriorityOrder` without further assumptions.
`NoTeamForgotten` adds `LastPlansWait`: the last plan of a team that is queued and not cancelled waits or was
taken off by a call that failed. `WaitingIsNotRefused` adds `WaitingIsWelcome`: a plan that waits with a
request that was not rebuilt is one `SelectMode` would not stop on this measurement; a drain then refuses
only what was rebuilt (`DrainRefuses`), and `DecisionsSay` tells the two reasons apart.
`DevicesAreNotOverloaded` adds that no lease in use asks for VRAM without naming a device
(`LeasesNameDevices`) and that usage is within the measurement, and sums the shares of a device: it needs
that a restart finds the capacities it had before (`SameMeasurement`), as `reconcile` takes leases back
without fitting them to a smaller machine.

**The task life cycle.** The two tables are compared once, event by event, in `TargetsAgree`; `VerdictMoves`
does the same for the judgements. `Readings` adds that each state of the ledger's reading that allows
completion has its judgement behind it (`VerdictBehindState`); `AppendKeeps` carries it over any append, and
`StepIsAppend` reduces every action to one or to none. The refinement has to follow `asking` as well: a
transition that was checked is appended whatever the state is by then, and the only one that the ledger
takes of an ended task and that moves it is the review request (`ReviewReopens`).

**The handoff barriers.** `StepMoves` shows that every step, seen from memory, leaves the barriers alone,
opens one, gives one up, or takes a packet for one. The strengthening is `Known` and `Indexed` (the index of
accepted submissions and the barrier's hashes know the same predecessors; without it an acceptance might
replace a packet) and `Settled` (a waiting barrier saw no conflict). `InputsAreAlwaysTheAccepted` has two
parts besides, and no assumption about ids: `Named` (what is found under an id is kept under its own key) and
`Matched` (behind each accepted packet is a submission that was `Kept`: it is found under its id until
another is kept there under another key, and then both keys lead to the id, which is `Resubmitted`).

**The team runtime.** `TeamInv` has four parts beside the types. `JoinedIsComplete`: a completed barrier
has a packet with nothing open from each predecessor. `WaveIsPending`: between two waves `waves` is empty,
every member of a wave has its inputs, and none has an outcome but the one whose lease is about to be
released; without the last a crash between `worker.completed` and the release, or a submission of a member
that has been recorded already, could not be excluded. Threads have their inputs, which follows from the
member they were started for and from `OutcomesStay` and `PacketsStay`: what is recorded or in a barrier is
not taken back. `EndedIsTried`: a task ends only by a step that tries every lease and returns, no step grants one
afterwards, and a clean-up of an ended task leaves what it finds in `unreleased`. `Least` and `FirstLeads` give meaning to `First`, the first assignment in the
topological order, for any number of assignments.

**The store.** `Core` is types, `Sound` (the file's events are a chain of whole batches), that each snapshot
is an earlier state of the file (`Grows`), that a batch in progress is `BuiltOn` a beginning of the file, and
that answers are backed by rows. A batch built on an older head is refused because some event took its place
in the chain. `Once` says where each process stands with its key: one about to execute never ran the effect and, until
the effect is on record as completed, is alone with it (`RunsAlone`); one that comes to reserve a key it ran
before, which is completed, reads a snapshot of before that completion, so its write is refused as stale
(`ReservesOnAnOldView`). Only between a lookup and a reservation may another process complete, and this is
the one way to a second execution.

**Model calls.** `CallIsDecided` has a decision, and a sound registry, behind every place of a call after
routing. `CallIsStarted` has `started` on record before anything is sent or completed by an adapter with the
ledger, and a failure on record while a request is out only of a backend that could not stream
(`FailedUnstarted`). `SendsAreCounted` bounds the sends at each place by the attempts before and the tries of
this one; how many tries there are is the profile's to say (`Repeatable`). `RouteIsLeft` has it that what an
escalation left to a stage is the route the router holds for it, so that `RoutesAreHeld`, an action property,
follows from the order of candidates.

**Tool runs.** `LaunchesAreDecided` (code about to be launched has its decision, and was not launched before
if that is the sandbox's own), `LeftoversAreOfRuns` (what is live or kept is of a start that was counted, and
the run about to be recorded tells what it leaves), `MemoryIsOnRecord` (what the run remembers of main and
tests is recorded) and `FileWasSeen` (what is about to be recorded of the file is something it had).

**Documents.** `RunKeepsTheVerdict`, `RunIsAlone` and `StoredIsRecorded` are the strengthening: what the run
holds is the sealed verdict, it renders on a pass and finds its bytes on the disk, and what is stored has
its evidence event.

**The commands.** Everything rests on streams that only grow. `ReadsThePast` says that whatever a client
goes by (a command on the wire, the start in progress, the view, the plan under review) is of a
beginning of a stream. `RecordedAsSent` ties an event to the command it was recorded for and to the place
that command expected, with nothing but the writes of the Node's other parts in between. `IsStale` is what is
refused: its key is in the ledger, or the stream is longer than it expected; neither changes, and
`RefusedIsPast` says so of each refused command. What was rejected is past in a weaker sense (`IsPast`), as
another part may bring the task into a state that allows it, which is the exception `RefusedForGood` names.
`ServingIsMet` carries what was checked of the command being served over the writes that come between its
steps. `KeysApart` is `OncePerKey` as the steps use it.

**The views.** `SyncInv` says event by event what is a piece of a stream: what a synchronizer holds and what
is shown is a beginning of it, a batch that was answered follows the cursor it was asked with
(`OpHolds`), and the n-th event has number n. An overlapping synchronization may have moved the store on or
set it back meanwhile: `NewEvents` skips what the store has, and the numbers tell whether the rest continues
it. What `SubSeq`, `Append` and concatenation do to beginnings are lemmas of their own (`UptoLaw`,
`UptoBegins`, `AppendKeepsPrefix`), as is the first element of a filtered batch.

**Only model-checked.** Liveness (`ExecutionReturns`, `LoopCatchesUp`) is out of the prover's reach, as it
rests on fairness; so is the refutation of `OverdueLeasesEnd`. Every safety property of the runs is stated by a theorem.

## 16. Not modelled

`PROJECT.json` lists every component with its status and reason.

- **Kept out for good**, as they have no protocol state: byte transport and the desktop's connection poll,
  HTTP servers and clients, authentication, document parsing and rendering, hashing and signatures,
  knowledge retrieval (scoring), what a verification rule computes, the dataclasses and their validation.
- **Admission and authorization**: `AdmissionController` is not called by the rest of the source. Read for
  itself, its re-admission leaks VRAM and can queue an entry twice.
- **Model store**: an offline tool of one process. Its audit before a prune checks that files exist and not
  what they hold, and of two models sharing a cached file the second `unlink` fails half-way.
- **Circuit breaker**: a count per dependency that only closes; it is never reset, and no model call passes it.
- **Vertical slice, acceptance audit, independent evaluator**: scripted paths over the other components and
  functions of one document.
- **Bounds of the models**: one team per runtime, effects that do not use the ledger from inside, one
  declared output file, and other actors ending a task in the middle of a team's execution.
