# TaleClaw in TLA+

TaleClaw is an agent server: an HTTP service accepts chat requests, executes each of them as a *run* in a worker
process of its own, lets coding runs write in managed git worktrees, and delivers their commits. This directory holds
a formal model of the parts of it whose correctness depends on the order in which processes, threads and the disk act,
the TLC configurations that check the model on small instances, and TLAPS proofs that hold for every instance.

Paths below are relative to `src/`. Line numbers of every definition are in `PROJECT.json` under `map`.

| module | what it is |
|---|---|
| `RunLifecycle` | what the run supervisor promises of one run, in 7 actions |
| `AgentSupervisor` | the run supervisor, its disk files, its worker processes and their pipes |
| `Worktrees` | managed worktrees, writer leases, managed commands, and the supervisor's quarantine of a worktree |
| `DeliveryPromise` | what a delivery promises its user, in 7 actions |
| `WorktreeDelivery` | deliveries: check-in, candidate, verification, publication, with a target that moves |
| `ContextSnapshots` | the session of a coding task, its event log, and the snapshots that compact its prompt |
| `ExecutionBudget` | the budget of one turn and the threads of its parallel subagents that spend it |
| `SemanticMemory` | governed long-term memory: its rows, its commands, and the outbox that feeds the vector index |
| `MCAgentSupervisor`, `MCWorktrees`, `MCSemanticMemory` | the instances TLC explores; the other modules are their own |
| `AgentSupervisorProofs` | types, the inductive invariant, one worker per session, at most one execution, idempotent admission |
| `AgentSupervisorReleaseProofs` | a session is let go only when nothing of its run is left; the worktree of an interrupted run is quarantined; the limits on workers and runs hold; records guard admission |
| `AgentSupervisorRecordProofs` | quarantine is durable, the records implement `RunLifecycle`, a run has one end, which order its records keep under every fault, journals can be replayed |
| `WorktreesProofs` | the inductive invariant of the worktrees and the properties that follow from it; which quarantines last |
| `WorktreeDeliveryProofs` | deliveries implement `DeliveryPromise`, branches are exposed once, outcomes stay |
| `ContextSnapshotsProofs` | memory, rows, lineage, boundary and event log of a session agree; compactions drop nothing |
| `ExecutionBudgetProofs` | the bound of the overshoot, honest reports, nothing granted after the end; why a turn ends |
| `SemanticMemoryProofs` | what alone can leave an active memory out of the index, stale points show, searches settle, one successor, reviewed evidence |

To repeat a run: `tlc -workers 2 -config AgentSupervisor_safety.cfg MCAgentSupervisor.tla`. To repeat the proofs:
`tlapm AgentSupervisorProofs.tla`, and so on for the other seven.

## 1. The system

Components in the order in which a request meets them. *State* is what a component keeps between two calls, *hard* is
what makes it hard to get right, *correct if* is what one would like to be true of it.

### Run supervisor (`web/agent_service.py`) - modelled

* State. On disk, for every run, `.runs/<run>/request.json` (written once), `stream.jsonl` (one fsynced record per
  public event or state transition, with consecutive `seq`), `run_state.json` (replaced atomically). In memory
  `_states`, `_requests`, `_workers`, `_fatal`, `_stopping`, under one condition variable.
* Operations. `ensure_started` (lock, recovery of every directory), `submit`, `cancel_run`, `events_after`, `stop`; and
  the monitor thread, which drains pipes, forces cancelled workers, reaps dead ones, launches queued runs, and, if any
  of that raises, ends every worker and closes the service.
* Interactions. Spawns a worker process per run and reads its pipe; calls `quarantine` of the worktree registry; is
  called from HTTP threads.
* Hard. The service may be killed between any two disk writes, or inside one; worker processes survive it. A failed
  write leaves memory and disk apart. A forced or dead worker may leave processes behind.
* Correct if one worker per session is alive at a time, a request is executed at most once, a client reads one end, an
  unconfirmed exit keeps the session isolated, a journal can be replayed, and every run ends.

### Run worker (`web/run_worker.py`) - modelled as the supervisor sees it

* Sends `event`, `state` (worktree binding) and `result` messages, starts command processes, cleans up descendants,
  reports whether that succeeded, and exits. State: its process, its descendants, the pipe.
* Hard. May die at any of these points, also after a clean result and also in the middle of a message.

### HTTP and SSE interface (`web/chat_runs.py`, `web/server.py`) - not modelled

Parses requests, streams `events_after`. Keeps no state of runs. What a client can observe of a run (its final status)
is part of `AgentSupervisor`.

### Managed worktrees and leases (`runtime/worktrees.py`, `runtime/workspace_lease.py`, `tools/command.py`) - modelled

* State. One ownership record per worktree (`creating`, `ready`, `active`, `quarantined`, `removed`, with the commits
  that delivery refs preserve), the checkout itself, `active.json` for the one managed command that may run, and four
  kinds of OS file locks: per worktree, per repository, one reader-writer lock between managed writers and writers in
  place, one for managed commands.
* Operations. `create`, `lease` (enter, exit, raise), `quarantine`, `preserve`, `remove`, `command_scope`,
  `workspace_writer`.
* Interactions. Called by worker processes (a coding run, its commands), by HTTP threads (delivery, removal) and by the
  supervisor (quarantine).
* Hard. Records are read and written in two steps by several processes; the supervisor writes without a lock; a dead
  process frees its locks but not its record; commands leave descendants.
* Correct if writers and managed commands exclude each other, a worktree left badly is not written again, and a
  checkout disappears only with its work kept.

### Worktree delivery (`runtime/worktree_delivery.py`) - modelled

* State. A record `dl_*.json` per delivery (`preparing`, `prepared`, `conflict`, `verifying`, `verified`, `failed`,
  `published`), an integration worktree, delivery refs, and a lock per delivery that `verify` and `publish` take.
* Operations. `checkpoint` (commit the task's work), `prepare` (merge it onto the target), `verify` (run a command),
  `publish` (create a branch, in a ref transaction that also verifies the target). `get` shows a stage whose owner is
  gone as interrupted and a moved target as stale.
* Interactions. Called from HTTP threads; leases, creates and preserves worktrees; runs managed commands; the user moves
  the target branch with his own git.
* Hard. `prepare` takes no lock; the target moves between verification and publication; the command may change what it
  verifies; the ref is created and the record then not saved; the service dies anywhere.
* Correct if what is published has been verified, unchanged, against the target it is published on, and what was cut off
  is not replayed.

### Team orchestration (`applications/coding/orchestration/`, `runtime/messaging/`) - not modelled

* State. `TaskManager`: one JSON file per task (status, owner, `blockedBy`). `MessageBus`: one inbox file per member.
  `ReliableMessageBus`: pending requests and their answers. `TeammateManager`: members and their status.
  `BackgroundManager`: tasks and a queue of notifications.
* Most of it cannot be reached: `tools/policy.py:11` withholds the tools of teammates, inboxes and background tasks from
  every agent, and `ReliableMessageBus.request` has no caller outside the tests. A model of them would state properties of
  a program nobody runs.
* `TaskManager` can be reached. Hard: runs are processes, so its lock and its next id are per process while the task files
  are shared by the runs of one project; `update` writes a copy that `_clear_dependency` has just made old.

### Execution budget and parallel subagents (`runtime/execution/budget.py`, `agents/subagent/`) - modelled but for the retry

* State. Attempts and known tokens of a root execution, `closed`, `stop_message`; a future per parallel task.
* Operations. `check`, `claim`, `record_usage`, `stop`, `close`, `snapshot`; `run_parallel_tasks`; the end of the turn in
  `applications/turn_coordinator.py`.
* Interactions. Every model call and every tool of every thread of the turn claims from it.
* Hard. Threads look without the lock and claim under it; usage settles after the call, or never; a subagent that timed out
  goes on running; the report is written while it does.
* Correct if the limits are exceeded only by what is in flight, nothing is granted after a timeout or the end, a report
  that calls itself complete is, and the turn ends.
* The automatic retry after the first round (`parallel.py:121` and on) asks for an `effect_state` and a
  `worker_terminated` flag that no runner reports, so it never happens.

### Model pool (`models/model_pool.py`) - not modelled

* State. Health of a profile: consecutive failures, `disabled_until`. Operations: choose the route of a call, mark success
  or failure, fall back unless text has been streamed.
* Correct if a call never mixes the output of two models and an unhealthy profile comes back after its cool-down.

### Chat gateways (`gateway/telegram`, `gateway/feishu`, their workers) - not modelled

* State. Update offset, conversation ids, an outbox of pending messages in PostgreSQL.
* Hard. A message is sent and then marked as sent; a crash in between sends it again. Correct if nothing pending is lost
  and an update is handled at least once.

### Sessions and context snapshots (`runtime/sessions`, `runtime/context/snapshots.py`, `applications/coding/context_state.py`) - modelled for coding sessions

* State. In memory the messages, the event log, the snapshots, the active one and the archive boundary of a session; in
  PostgreSQL a row for each of them but the last two, which a load derives.
* Operations. `add_message`, `append_event`, the back-fill of events, `save_session`, `get_or_create`; `prepare`,
  `activate`, `_archive` of a snapshot; `build_coding_context_view` with grouping, selection and compaction.
* Interactions. The coding runner and the reasoning loop add messages and checkpoints and save; the loop builds a prompt
  before every model call.
* Hard. Two numberings (messages, events) that different writers extend; three transactions to one compaction, each of
  which may fail, with memory changed before; a process that dies between them.
* Correct if memory and rows agree, no message disappears that no summary holds, and a restart archives nothing.

### Long-term memory (`memory/`, `web/memory_management.py`) - modelled but for texts and scopes

* State. In PostgreSQL `memory_items` (status, version, predecessor) with their evidence, and `memory_index_outbox`
  (events `pending` or `retry`, `processing`, `completed`); a vector index with a point per version.
* Operations. `propose`, `remember`, `update`, `confirm`, `reject`, `revoke`, the actions of the console; `drain`.
* Interactions. The memory tools call them from worker processes, the console from HTTP threads; the memorize tool drains
  the outbox after its command; retrieval reads the index and looks every hit up in PostgreSQL.
* Hard. A command reads in one transaction and commits in another. A drain claims events, looks a memory up, changes the
  index and completes the event in four steps, any of which may fail, or be the last one of its process; two drains pass
  each other.
* Correct if no active memory is missing from the index for good (which the code does not quite achieve: see
  `NothingUnindexed`), an outdated point cannot pass for a memory, a memory is corrected once, and what a person has
  confirmed is what he has seen.

### Task state (`runtime/task_state`) - not modelled

A versioned task state per session, changed by one process at a time; a stale version is refused.

### Not modelled, and no plan to

* Recovery policy, routing, task lifecycle, tool handlers: sequential code around a model's answers. What the reasoning
  loop and the coding runner do to sessions and budgets is in `ContextSnapshots` and `ExecutionBudget`, the one part of
  tool execution with a protocol, `command_scope`, in `Worktrees`.
* Traces and reports: I/O. `RunState`, the record the supervisor decides on, is in `AgentSupervisor`.
* Retrieval, knowledge, plugins, skills, evaluation, front ends, benchmarks: data transformations and user interfaces
  with no protocol of their own.

## 2. The modules and the code

### `RunLifecycle`

The abstract specification: for every run its durable status and whether a process was ever started for it. A run is
accepted once, executed at most once, ends in one of four final statuses that never change, does not complete once it
has been cancelled, and is interrupted if its execution began before its start was on record.

### `AgentSupervisor`

One action is one critical section of the code, that is, one stretch under `_condition`, with every write it makes.
That is sound because the API methods, `_drain` and `_tick` do all their work inside `with self._condition` and
nothing but the service writes the run directories.

| variables | code |
|---|---|
| `req`, `journal`, `snapshot` | `request.json`, `stream.jsonl`, `run_state.json` of every run |
| `registry` | the status of the run's worktree in the registry of `runtime/worktrees.py` |
| `phase`, `fatal`, `stopping`, `states`, `workers` | the service process: inside or outside `ensure_started`, `_fatal`, `_stopping`, `_states` (with `_requests`, which is a function of it and of `req`), `_workers` |
| `proc`, `kids`, `pipe` | the worker process, the processes it started, the messages in its pipe |
| `sent`, `starts`, `boots`, `told` | observations: what bounds count, and the end a client has read |

| actions | code |
|---|---|
| `Submit`, `CancelQueued`, `CancelRunning`, `Stop`, `ReadEvents` | `submit`, `cancel_run`, `stop`, `events_after` |
| `Launch`, `LaunchFails`, `LaunchRaises` | `_launch`, its `process.start()` that raises, its unreadable `request.json` |
| `AcceptEvent`, `AcceptState`, `AcceptResult`, `AcceptTorn` | one message of `_drain`, one that the death of its sender cut short |
| `ForceStop`, `ReapNormal`, `ReapAbnormal` | `_tick` |
| `HandleFatal`, `MonitorExit` | the handler and the end of `_monitor` |
| `WorkerEvent` ... `WorkerDies`, `KidsExit` | `worker_entry`, `run_agent`, and the operating system |
| `Crash`, `Start`, `RecoverActive`, `RecoverTerminal`, `RecoverRefused`, `RecoverDone` | the service is killed; `ensure_started`, `_recover`, `_read_journal` |

Every write goes through `Commit`, which is `_commit`: `last_seq` advances in memory, a record is appended and fsynced,
the snapshot is replaced. Its parameter is the outcome:

| outcome | what happens |
|---|---|
| `ok` | all three |
| `append_error`, `torn_error` | the append raises, having written nothing, or part of a line |
| `snapshot_error` | the record is on disk, writing the snapshot raises |
| `torn_crash`, `snapshot_crash` | the process dies in the middle of the record, or after it |

A crash before the append is the action `Crash`. Outside `_commit`, `read_error`, `torn_message` and `registry_error`
are an unreadable request, a message cut short, and a registry that refuses. The constant `Faults` says which of all
these an instance allows.

Simplifications, all of which keep the order of the code's effects:

* A journal is its number of whole records, its last transition, whether it can be read, and whether it ends in a torn
  line. Events are not told apart: recovery uses only their number.
* `stop()` cancels every active run, then sets `_stopping`. The cancellations are the two cancel actions, which `Stop`
  requires to have happened.
* `HandleFatal` is one step per worker where the code holds the lock throughout; the model has more interleavings.
* When recovery fails, `ensure_started` raises and the next request tries again in the same process. The model closes the
  service, and `Crash` followed by `Start` is the retry; nothing of the failed attempt but the disk is used again.
* Queued runs keep their order because run directories are taken in the order of their numbers.
* Paths are values. `Overlap` relates the root of a request, or the checkout that a run was bound to (the run's own name
  stands for it), to the root of another request; the instances have no request inside a managed checkout. A state message
  of the worker may come with or without its worktree binding (`AcceptState`).

### `Worktrees`

Here the code takes no common lock, so an action is one read or one write of the shared directory. A process that
reads a record keeps it in `copy` until it writes it back, and any other process may act in between.

| variables | code |
|---|---|
| `registry` | the ownership records: status, latest commit that `preserved_refs` holds |
| `checkout`, `refs`, `marker` | the working directory, the delivery refs of the repository, `active.json` |
| `pc`, `at`, `copy` | what each process does, in which worktree, the record it has read; a lock is held in certain stages, so it vanishes with its holder |
| `bound`, `sup` | the worktree the supervisor knows for a run; the quarantine it is in the middle of |
| `tainted`, `straying`, `isolated` | observations: worktrees a writer left badly, worktrees with surviving descendants, worktrees the supervisor has quarantined |

Actions: `CreateStart`, `CreateCheckout`, `CreateReady`, `CreateEnd` are `create`, whose record says `ready` before the
last inspection; `LeaseEnter`, `LeaseRead`, `LeaseActivate`, `LeaseFails`, `LeaveRead`, `LeaveSave` are `lease`; `Edit` and `CommitWork` are what its body does; `InPlaceEnter` and
`InPlaceExit` are `workspace_writer`; `CommandStart`, `CommandConfirmed`, `CommandUnconfirmed` are `command_scope`;
`PreserveRead`, `PreserveSave`, `RemoveRead`, `RemoveDetach`, `RemoveSave` are `preserve` and `remove`; `Bind`,
`RunEnds`, `QuarantineRead`, `QuarantineSave`, `Kill`, `Crash`, `Restart` are the run, its supervisor and the death of a
process. Git is external: `git worktree add` creates a directory, `git worktree remove` refuses a dirty one, a commit
takes all changes.

Simplifications:

* One repository and one owner: repository locks of different repositories never meet, owners never share a worktree.
* A write that fails raises out of the operation before anything else changes, which is the death of the process at that
  point as far as the shared directory can tell.
* The quarantine that a writer does himself, inside his lease, is one step: only the supervisor can write the record
  meanwhile, and what it writes is a quarantine too.
* The inspection after `create` may fail for any reason, so `CreateEnd` may quarantine what `CreateReady` has shown to
  everyone, even if a writer is in it by then.
* A commit is its number since the base. Refs are never deleted (the code has no operation that does), and a ref on the
  base itself is left out.
* Crashes of the supervisor itself are in `AgentSupervisor`. The two models meet in `registry` there and in
  `QuarantineRead`, `QuarantineSave` and `bound` here.

### `WorktreeDelivery` and `DeliveryPromise`

An action is one read or one write of a shared file, ref or checkout by one HTTP thread.

| variables | code |
|---|---|
| `target`, `task` | the user's branch; the task's worktree, its commit, whether something is uncommitted |
| `tree` | the integration worktree of each candidate: its registry status and what the checkout holds |
| `record`, `kept`, `branch` | `dl_*.json`, the deliveries whose ref preserves the candidate, the published branches |
| `pc`, `job`, `value` | a thread: where it is, for which delivery, the record it works on |

`PrepareLook` ... `PrepareFails` are the steps of `prepare`, `VerifyStart` ... `VerifyFails` of `verify`, `PublishStart`
... `PublishSave` of `publish`; `Displayed` is `get`, which `verify` and `publish` decide on. `RunEnters`, `RunWrites`,
`RunLeaves` are the task's runs, `RemoveTree` the removal of a candidate's worktree, `MoveTarget` the user, `Crash` the
death of the service, after which `_process_started` disowns every operation under way.

Simplifications: the lease of a worktree, which `Worktrees` details, is one step that needs a `ready` record;
`checkpoint` and the fixing of the source do nothing but read or commit under the lease and are one step each. The ref
transaction is atomic, as git promises. Nobody but the service touches the refs it creates. `kept` grows with the
candidate's ref; a record that says so follows. The text of an error is left out.

`DeliveryPromise` has only the target, the base of every candidate, and three sets: candidates whose checkout is intact,
which passed, which are public. A candidate becomes public only if it has passed and its base is the target; it passes
only if intact; and what has passed is not disturbed. The mapping reads the three sets off the records, the checkouts and
the branches.

Two behaviours that the model shows and that contradict no document: a branch created right before a death stays exposed
although the target has moved since and `get` shows the delivery as stale, so that publishing it again is refused; and a
new verification after such a death may end in `failed` although the branch is there.

### `ContextSnapshots`

One process owns a session, so an action is what it does between two points where a write may fail or the process die.

| variables | code |
|---|---|
| `messages`, `log`, `snaps`, `active`, `boundary` | the fields of `Session`; an event is the index of its message, 0 if it has none |
| `saved` | the tables `messages`, `context_events`, `context_snapshots` |
| `at`, `turn`, `kept`, `prompt` | where the process stands, the request of the turn, the first message the compaction under way keeps, what the last prompt held verbatim |

| actions | code |
|---|---|
| `Load`, `Crash` | `get_or_create`; the death of the process, or the eviction of the session from the cache when nothing runs |
| `StartTurn` | `CodingAgentRunner`: request and wrapper |
| `StartStep`, `CallTool`, `StopTools`, `Answer`, `Retry`, `StopTurn`, `ModelError` | the reasoning loop and its checkpoints; `StopTools` is the end of a turn whose tools were cancelled |
| `BuildPrompt`, `BeginCompaction`, `RefuseSummary` | `build_coding_context_view` |
| `Prepare`, `Activate`, `Archive` and their failures | `ContextSnapshotManager` and the three transactions of `SessionStore` |

`Saves` is `save_session` in one transaction: it fails as a whole, the caller raises and the run ends with memory as it
was. A message is its kind. Token counts decide which groups a compaction keeps: every choice that the selection rules
allow is possible. Left out: artifacts that replace long messages, checkpoints of the older format, the experimental
policies, and the version of the task state, which nothing else changes during a compaction. Calls are always stored with
their results, because the loop closes pending calls when it is stopped (`reasoning_loop.py:1046`); in that case the stop
message gets its event first and call and result are back-filled behind it by the save.

### `ExecutionBudget`

| variables | code |
|---|---|
| `model`, `tool`, `known`, `settled`, `unknown`, `closed`, `stopped` | the fields of `ExecutionBudget` |
| `cancelled`, `expired` | what `cancel_requested` answers, whether the deadline has passed |
| `pc` | each thread: the root's, and each subtask's future with the thread that runs it |
| `phase`, `late`, `results`, `report` | `run_parallel_tasks` and the end of the turn |

`Check` is `check`, without the lock; `ClaimModel`, `ClaimTool`, `Refuse` are `claim`, under it; `SettleKnown` and
`SettleUnknown` are the end of `_bounded_model_call` with `record_usage`. `Dispatch`, `Start`, `Collect`, `TimeOut`,
`SweepFinished`, `SweepUnfinished`, `Gathered`, `Join` are `run_parallel_tasks`; `Close` and `Report` the `finally` of the
turn coordinator; `Cancel` and `Expire` the user and the clock.

Simplifications: the several checks in front of one claim are one; a cancellation between check and claim is noticed by
the check behind the call, as in the code. A snapshot written earlier is replaced by the coordinator's last one, which
alone is modelled. The turn delegates once. Left out is the `except` branch of the wait (`parallel.py:117-119`), which
gives the pool up and raises again. That Python joins pool threads when the interpreter exits is outside: the
report has been written by then.

### `SemanticMemory`

An action is one transaction, or one call of the vector index.

| variables | code |
|---|---|
| `item` | `memory_items`; of the evidence, who proposed it without a person's request |
| `plan`, `commands` | what each caller has read and is about to commit; what the bound counts |
| `due`, `processing`, `completed` | `memory_index_outbox` by status, `due` being `pending` and `retry` |
| `forfeited` | observation: events that a drain held when it ended |
| `index`, `sync` | the points of the vector index; where each `drain` stands |

| actions | code |
|---|---|
| `Propose`, `Remember`, `Correct` | the commands up to their decision (`command_service.py`) |
| `Confirm`, `Reject`, `Revoke`, together `Review` | what a person decides, in a conversation or at the console (`command_service.py`, `memory_management.py`) |
| `CommitCreate`, `CommitMerge`, `CommitSupersede`, `CommitTransition`, `Refuse` | the transactions of `postgres_repository.py`, or the conflict they report |
| `Expire` | `valid_until` passes |
| `Claim`, `LookUp`, `Apply`, `Complete`, `Fail`, `Abandon` | `drain` of `index_sync.py`, its `except` branch, the death of its process |

Simplifications: one owner and one kind of memory, so that every text may be like every other; whether it is, and what the
conflict service makes of it, is open. Of the evidence only what the model has proposed is kept, by proposer. Waiting times and
attempt counts of a retry are left out: any due event may be claimed next. The status `expired` is in the table of
transitions, but nothing asks for it; expiry is `valid_until`, which a correction may inherit (`update`) or not (`remember`). `scripts/rebuild_memory_index.py` writes points of active
memories, as a late upsert does, and is not a separate action. A caller whose process ends never commits its plan.

## 3. What the runs check

### Passing runs

| run | checks | instance |
|---|---|---|
| `AgentSupervisor_safety` | `TypeOK`, `ReleaseIsClean`, `JournalReadable`, `MemoryIsDurable`, `WorktreeFollowsRun`, `TerminalIsFinal`, `QuarantineIsSticky`, `ImplementsLifecycle` | 2 runs of 2 sessions, 1 event per worker, 2 starts of the service, crashes anywhere, also inside a commit |
| `AgentSupervisor_faults` | `SessionExclusive`, `AtMostOnce`, `IdempotentAdmission`, `Consistent` | 2 runs from 3 requests that compete for a key, a session and a directory; every fault but a crash between record and snapshot |
| `AgentSupervisor_live` | `CancelTerminates`, `StopTerminates`, `EveryRunEnds` | 2 runs, under `FairSpec`, with unreadable requests and messages cut short, so that the service may fail |
| `Worktrees_safety` | `TypeOK`, `OneWriter`, `CommandsExclusive`, `NothingLost`, `NeverReentered` | 2 worktrees, a run, an HTTP thread, 1 commit |
| `WorktreeDelivery` | `TypeOK`, `ExposesOnce`, `DeliversAsPromised`, `OutcomesStay` | 1 delivery, 2 HTTP threads, 2 commits the target may be at, 1 commit of the task, 3 starts of the service |
| `ContextSnapshots` | `TypeOK`, `SnapshotsAgree`, `LineageIsHistory`, `RestartArchivesNothing`, `EventsMirrorMessages`, `CompactionDropsNothing` | up to 9 messages, 2 failed writes or crashes |
| `ExecutionBudget` | `TypeOK`, `OvershootBounded`, `ReportHonest`, `NothingGrantedAfter`, `TurnEnds` | a root and 2 subtasks, 4 model and 2 tool attempts, 2 tokens, calls of up to 2 |
| `SemanticMemory` | `TypeOK`, `NothingUnindexed`, `VersionTellsActive`, `OneSuccessor`, `EvidenceReviewed` | 3 memories, 1 of them at the start, 2 callers, 2 drains that claim up to 2 events, 2 commands, 1 expiry |

What each property says, and of which code, is written above its definition. The ones a reader should know:

* `SessionExclusive`: *one active run per session* holds of processes, not of records. The supervisor refuses a session by
  what it has on record; workers survive it; the property says that the two never come apart.
* `ReleaseIsClean`: a session is given to the next run only when the process of the last one exited normally and nothing
  it started is left.
* `TerminalIsFinal`, `JournalReadable`, `MemoryIsDurable`: what a client has read stays true, a restart can read what was
  written, and a healthy service decides on what is on disk.
* `NeverReentered`: a worktree whose writer raised, died or left a command unconfirmed is never written again, although
  the supervisor rewrites its record without holding a lock.
* `NothingLost`: a checkout is gone only if a delivery ref holds its last commit, although a removal looks first and
  deletes later, and deliveries go on next to it.
* `DeliversAsPromised`: the refinement of `DeliveryPromise`. It speaks of three things that different processes change:
  the user's branch, the checkout that a command may touch, and the record.
* `OutcomesStay`: a verification that died with the service is not run again, even though a new request asks for it.
* `CompactionDropsNothing`: what a compaction takes out of the prompt is in a summary. `NothingForgotten`, which the code
  breaks, asks the same of the next prompt.
* `OvershootBounded`: tokens are known too late to stop at the limit; how late is at most one call per pool worker. It
  holds because a wait that timed out stops the budget: without that the root would go on beside the workers it gave up.
* `NothingUnindexed`: an active memory that the index lacks has an event that is due, or in the hands of a drain that is at
  work; failures, retries and drains that overtake each other do not lose it. One thing does, and is excepted by name: a
  drain that ends with the event in its hands leaves it `processing`, and nothing claims it again (F8 of
  `docs/agent-design-review/03-memory.md:268-272`). The run explores this; the memory then is missing for good.
* `VersionTellsActive`: a late upsert brings the point of an ended memory back, and nobody will delete it. The index may be
  stale in this way, but the comparison of versions in retrieval sees through it.
* `OneSuccessor`, `EvidenceReviewed`: the version is what ties a command's two transactions together.
* `TurnEnds`: nothing is assumed of the subtasks, which may hang for ever.

`PROJECT.json` lists with each of these a *mutant*: a small change of one definition, as a slip in the code would be,
under which the property is violated in the same instance. The mutated definitions stand beside the originals.

### Bounds

* Two runs are the smallest number at which sessions, keys, worker slots and workspaces can be competed for; the
  properties speak of single runs or of pairs of runs. The proofs below hold for any number.
* `MaxWorkers = 1` and `MaxPending = 1`: with one slot the queue, the order of launches and the limit of admission all
  matter. With two slots and two runs nobody ever waits. The proofs cover every value.
* `MaxBoots = 2`: one restart after any history. What a second restart finds differs only by one more record.
* `MaxEvents = 1` in `safety`, so that events, worktree bindings and descendants occur; 0 in the other runs of
  `AgentSupervisor`, where admission and faults are the question and workers send their results only.
  Hence no run has both a bound worktree and a registry that refuses; the theorems cover that combination.
* `Faults` is divided between the runs because their product is too large for one. `snapshot_error`, `append_error` and
  `torn_error` are left out of `safety`, since properties there do not hold under them: see the violations below. That the
  records implement `RunLifecycle` under failing appends too is proved.
* `MaxHead = 1` in `Worktrees_safety`: a second commit, which would let an older commit be preserved and a newer one lost,
  makes the run too long for daily use; `WorkIsKept` proves `NothingLost` for any number.
* `WorktreeDelivery`: deliveries share the target, the task and the threads only, and the properties speak of one each; two
  threads and two restarts are what a delivery needs to be prepared, cut off, verified by one and published by another.
  The proofs hold for any number.
* `MaxMessages = 9`: request, wrapper and three tool transactions, or two turns; a compaction needs a tool transaction
  in front of the kept one, so two compactions in a row occur, and `MaxFaults = 2` reaches a failure followed by a restart.
* `ExecutionBudget`: two subtasks on a pool of two, so that one may hang while the other is collected; the token limit is
  reached by one call, the attempt limits by the three threads together.
* `SemanticMemory`: a memory, its correction and one more; two commands race for one memory, and two drains for the two
  events of a correction. The proofs hold for any number of each.
* Symmetry: the specification does not tell apart worktrees, nor memories, callers and drains; in `AgentSupervisor_safety`
  the permutations are those that map the given requests to each other. Symmetry is used in safety runs only.
* `CHECK_DEADLOCK FALSE` in the runs of `AgentSupervisor`: after the last start that `MaxBoots` allows the service may
  be closed, and nothing more happens; of `ContextSnapshots`, where `MaxMessages` is reached; of `ExecutionBudget`,
  where the turn has ended; and of `SemanticMemory`, where the commands are used up and the outbox is drained. `Worktrees` and `WorktreeDelivery` never stop, and their runs check that.

### Fairness

`FairSpec` assumes that the monitor thread goes on (weak fairness of draining, forcing, reaping, launching, of its
handler and of its return: `_monitor` loops over them with a wait of bounded length), that a process that has been
killed ends, and that whoever runs the service starts it when it is down and lets recovery proceed. It does not assume
that a worker ever finishes, that a client does anything, or that `stop` is called. `EveryRunEnds` therefore has two
conditions: no worker runs for ever, and a service that has failed is started again, which `MaxBoots` limits. `CancelTerminates` has none, because the code kills.

`ExecutionBudget` assumes weak fairness of the root thread only: its model calls carry a timeout of at most 60 seconds
(`models/provider.py:662`), its tools theirs, and its wait for subtasks is timed. That a subtask's call returns is not
assumed. The other modules have no fairness: nothing in them says that a user comes back. In particular nobody drains the
outbox of memory events but the memorize tool (`tools/handlers.py:3166`), so an event waits for the next call of it.

### Where the code differs from its documents

Four runs end in a counterexample; the sentences they refute are quoted in `PROJECT.json` under `findings`.

* `AgentSupervisor_gap` (`JournalReadable`). `_commit` advances `last_seq`, the append fails, the handler of `_monitor`
  commits again with the next number. The journal now has a gap, `_read_journal` raises at the next start, and no run
  of any session can be served until someone repairs the file.
* `AgentSupervisor_workspace` (`WorkspaceIsolated`). The overlap with quarantined workspaces is tested by `submit`, not by
  `_launch`: a run that was already queued is started in a directory that has been quarantined since.
* `Worktrees_isolation` (`IsolationHolds`). `quarantine` takes no lock: a lease or a `preserve` that has read `ready`
  writes its own copy over the supervisor's quarantine. The run concerned must have held no lease at that moment; if
  it was writing, `NeverReentered` shows that the worktree stays shut.
* `ContextSnapshots_kept` (`NothingForgotten`). `_events_before_message_index` covers every event that has no message, also
  those behind the messages that are kept. The checkpoint written at the start of each step is such an event and the last
  one of the log, so the archive boundary moves behind the kept messages: the next prompt has them neither verbatim nor in
  the summary. No failure is needed, only a second step after a compaction.

More was met that has no run:

* The journal says `completed`, writing `run_state.json` fails (`web/agent_service.py:360`), and the handler of `_monitor`
  (line 555) ends the same run again as `interrupted`; a client can read both. This is why `TerminalIsFinal` is checked and
  proved without `snapshot_error`.
* `ContextSnapshotManager.recover`, which would complete an activation that was cut off
  (`docs/architecture/runtime-system-design.md:93-96`), has no caller outside the tests; and after a crash between activation
  and archiving the boundary restarts behind the last archived snapshot, so the events in between are summarised twice
  (`docs/agent-design-review/02-context.md:732` asks that they are not). `RestartArchivesNothing` and `LineageIsHistory`
  show that nothing is lost by it.
* Evidence does not advance the version of a memory, so a confirmation may cover evidence that came after its reader looked.
* The search for an equal text and the insertion are two transactions, and no constraint forbids equal texts: two proposals
  at once may create the same memory twice.

## 4. What is proved

The proofs hold for every number of runs, sessions, workers, events, restarts, worktrees, processes, commits, deliveries,
messages, faults, subtasks, memories, commands and drains, and every budget. They assume what the modules assume of their constants, in named
`ASSUME`s: bounds are natural numbers, capacities positive, the markers for "none" are not members of the sets they
extend, the root thread is not a subtask, and the subtasks of a turn are finitely many.

| theorem | states | for |
|---|---|---|
| `TypeCorrect` | `TypeOK` | every set of faults |
| `Invariance` | `Consistent` | every set of faults |
| `OneWorkerPerSession`, `LaunchedOnce`, `AdmittedOncePerKey`, `MemoryAgrees` | `SessionExclusive`, `AtMostOnce`, `IdempotentAdmission`, `MemoryIsDurable` | every set of faults |
| `CleanInvariance`, `ReleasedIsClean` | `Clean`, `ReleaseIsClean` | every set of faults |
| `QuarantineStays` | `QuarantineIsSticky` | every set of faults |
| `LifecycleImplemented`, `OneEnd` | `ImplementsLifecycle`, `TerminalIsFinal` | no `snapshot_error` (with it they are false, see above) |
| `RecordsProgress`, `LaterEnds` | `RecordsTurn`, `EndsOnlyInterrupted`: what is left of the two under failing snapshots | every set of faults |
| `JournalsReadable` | `JournalReadable` | no `append_error`, no `torn_error` (with them it is false, see above) |
| `HealthyJournals` | `HealthyNumbers`: the same while the service has not failed | every set of faults |
| `WorktreesFollow` | `WorktreeFollowsRun` | no `registry_error` |
| `LimitsHold` | `WithinLimits`: workers and unfinished runs are bounded | every set of faults |
| `AdmissionSeesRecords` | `AdmissionsIsolated`: what holds where `WorkspaceIsolated` fails | every set of faults |
| `WorktreesGuarded`, `WorktreesTypes` | `TypeOK`, `Guarded` | all |
| `WritersExclusive`, `ManagedCommandsExclusive`, `WorkIsKept`, `ShutForGood` | `OneWriter`, `CommandsExclusive`, `NothingLost`, `NeverReentered` | all |
| `QuarantinesSettle` | `SealsHold`: what holds where `IsolationHolds` fails | all |
| `DeliveriesSound`, `DeliveriesTyped` | `Sound`, `TypeOK` | all |
| `BranchesExposedOnce`, `DeliveryOutcomesStay`, `PromiseKept` | `ExposesOnce`, `OutcomesStay`, `DeliversAsPromised` | all |
| `SessionsSound`, `SessionsTyped` | `Inv`, `TypeOK` | all |
| `SnapshotsAlwaysAgree`, `LineageIsTheHistory`, `RestartsArchiveNothing`, `EventsMirror`, `CompactionsDropNothing` | the five properties of `ContextSnapshots` | all |
| `BudgetSound`, `BudgetTyped` | `Inv`, `TypeOK` | all |
| `OvershootIsBounded`, `ReportsAreHonest`, `NothingIsGrantedAfter` | `OvershootBounded`, `ReportHonest`, `NothingGrantedAfter` | all |
| `TurnsAreFinite`, `RootNeverStuck` | `EffortShrinks`, `NeverStuck`: what `TurnEnds` rests on | all |
| `Invariant`, `MemoriesTyped` of `SemanticMemoryProofs` | `Inv`, `TypeOK` | all |
| `MemoriesFound`, `StaleIsSeen`, `HistoryIsALine`, `DecidedStaysDecided` | `NothingUnindexed`, `VersionTellsActive`, `OneSuccessor`, `EvidenceReviewed` | all |
| `SearchesSettle` | `SettledIndex`: what a search finds once the outbox is empty | all |

**`Consistent`.** `SessionExclusive` alone is not inductive: it says nothing of records, and it is records that `submit`
looks at. `ExecutionInv` says that a living process is behind a *blocking* record (active or quarantined) and that a
run not yet admitted has none; `PairInv` that two runs of a session never block it together, counting as a claim also an
entry of `_workers` whose record the handler of `_monitor` may still rewrite; `ServiceInv` that a healthy service has
the durable statuses in memory, which is what makes the test of `submit` a test of the disk. The delicate case is a
failed commit: memory is then ahead of the disk, and the invariant survives only because the service is fatal from
that step on and launches and admits nothing.

**`Clean`.** Why may a record let go of its session? Because the worker reported that its descendants are gone, exited
with code 0 and was not forced. The report has to stay true while it travels: `CleanInv` follows it from the pipe to
`workers[r].result` to the record.

**Records.** `LifecycleImplemented` maps every step to a step of `RunLifecycle` or a stutter. It needs one more invariant,
`Unfinished`: an entry in `_workers` belongs to a run whose durable record has not ended. It is this that a failed
snapshot breaks. `OneEnd` follows from the same step lemma with the fact that what a client was told is what the
journal says.

With `snapshot_error` both are false, and two theorems say by how much. `RecordsProgress`: a record still never loses an
admission, completes after a cancellation or goes back, and the one thing that may follow an end is `interrupted`, with the
session kept. `LaterEnds`: hence a client that has read an end reads at most this one after it. The step lemma
`RecordProtocol`, which holds under every fault, gives both.

**Replaying the journal.** `JournalReadable` is about files, but whether the next record fits is decided by a number in
memory. `JournalInv` therefore says that `last_seq` in memory is the number of the last record from the moment a start
has read the journal until the service fails; that a journal is registered as long as a worker may write to it; and that
no snapshot is ahead of a readable journal. Crashes are harmless, inside a commit too: the next start cuts off a torn
line, and its number is given again. A failing append is not, which `AgentSupervisor_gap` shows, and
`JournalsReadable` excludes it. `HealthyJournals` excludes nothing: even then no journal is damaged before the service has
noted its own failure, so that it is the handler of `_monitor` that does the damage.

**The registry.** The service, the registry and the record are three places, written one after the other.
`WorktreesFollow` holds because `_quarantine` comes first, and because the binding it marks is that of the state which is
written next, or, at a restart, of the record that is about to be ended: whatever cuts the rest off leaves a mark too many.
The hypothesis is needed, since the refusal of a registry is only noted in the record. `LimitsHold` needs no
fault excluded: the handler of `_monitor` and recovery end runs and never begin them.

**Workspaces.** What `AgentSupervisor_workspace` refutes is narrower than it looks. `submit` asks the memory of the service
which quarantined runs may still write where, and whether they had a worktree of their own. `Bindings` says that a healthy
service, and one that recovers, knows of every run it has loaded whether its record has a binding; with `ServiceInv`, which
says the same of status and quarantine, every admission is decided on the records. `AdmissionSeesRecords` is the result:
under every fault, a run can only meet a quarantined execution in its workspace if it was queued before the quarantine.

**`Guarded`** has five parts, proved in the order in which they lean on each other: `LockInv` (who holds which lock) by
itself; `RecordInv` (whoever holds a lock knows the record he will write back) from it; `TaintInv` (a worktree left badly
is active or quarantined, and nobody holds a copy of its record to write back) and `KeptInv` (what a record, or a copy of
it, says is preserved is held by a ref) from both; `CommandInv` (marker and descendants). `TaintInv` is why the unlocked
quarantine is harmless for `NeverReentered`: a process that has read a copy holds the lock of the worktree, and no
writer can have left it badly meanwhile. For the other worktrees, where `Worktrees_isolation` shows the supervisor's
quarantine overwritten, `QuarantinesSettle` says when it is not: a quarantine that meets no operation in the middle of the
worktree is for good, since every operation that would change it begins by reading a record it refuses.

**`Sound`** (deliveries). `ExposesOnce` needs to know that no other operation of the delivery is under way, but `prepare`
takes no lock. `OneOperation` follows from the record instead: while a delivery is prepared its record says so, and
neither `verify` nor `publish` accepts that. `OperationInv` says what each stage knows: the record still is what it was
when the stage began, and a judgement that passed is of a checkout that still holds the candidate. `RecordInv` carries
this over deaths: `passed` on disk implies an intact checkout. Each action is then an action of `DeliveryPromise` or a
stutter, and `PublishExpose` is the one that needs all of it.

**`Inv`** (sessions) has three parts beside the types. `Kept` is about the rows alone, hence true across crashes: every
message has one event, a call is followed by its result, one row at most is active, every activated row's parent is the
activated one before it. `Follows` says how memory may differ while a session is loaded: the same snapshots, a longer log,
a boundary not behind the restored one. `InHand` says what is true inside a compaction: the draft is the newest row,
covers what precedes the kept message, and the last event of the log has no message. It is this last fact that makes
covered events reach to the end of the log, which is harmless for `CompactionDropsNothing` and the reason why
`NothingForgotten` fails.

**`Inv`** (budget). `OvershootBounded` counts calls in flight at full cost, so it needs to know how many there can be:
`Pooled` bounds the workers, `RootPlaced` says that the root calls no model while it waits, and `Given` that after the
wait every subtask has answered, and runs no more, or has timed out, and then the budget is stopped. `ReportHonest` needs
`Booked`: every attempt granted is settled, unknown or in flight; if all are settled none is in flight.

**Why a turn ends.** `TurnEnds` needs fairness and `ENABLED`; all but that is proved. `Effort` adds up the attempts that
the limits still allow, the place of every thread in its loop, the subtasks without a result and the phases to come:
`TurnsAreFinite` says that every step of any thread makes it smaller, so no loop goes on for ever. `RootNeverStuck` says
that until the report is written the root's place and phase satisfy the guard of one of the root's own steps, taken
together in `RootGoesOn`; the delicate place is the join of the pool, which waits unless a timeout was noted. Weak
fairness of the root joins the two to `TurnEnds`; this last step is left to TLC.

**`Inv`** (memory). A point may outlive its memory and an event its meaning, so the argument goes by versions. `EventsTell`
says that the memory of an event is no candidate any more, that an upsert has the current version exactly while its memory is
active, and that nothing active has a deletion. `PointsAskedFor` says that some event asked for every point;
`VersionTellsActive` follows from the two. For `NothingUnindexed` it takes `InOneHand` (no two drains hold one event),
`HandKnows` (what a drain has found, and done, for the event in its hand), `Carried` (a memory
that the index lacks has an event that is not completed) and `Accounted` (what is `processing` is in a hand or forfeited). The delicate case is a drain that is about to
delete all points of a memory while another has just written one: its memory is not retrievable, and once it has had an
event it will never be again. `PlansHold` says what a plan whose version still holds knows of the row, which is all that
`OneSuccessor` and `EvidenceReviewed` need.

**Only model-checked.** `CancelTerminates`, `StopTerminates`, `EveryRunEnds` and `TurnEnds`, the four properties that are
eventually true: the prover handles neither fairness nor `ENABLED`. Every other property of a passing run is the statement
of a theorem, for the faults given in the table. The four properties that the code breaks are refuted by TLC and cannot be
proved. No module declares a `RECURSIVE` operator, and no theorem is by induction over data.

## 5. Plan

Done: the run supervisor with its workers, the worktrees, deliveries, coding sessions, the budget, long-term memory, and
the theorems above.
Next, in this order:

1. A proof of what remains true where the code breaks `NothingForgotten`: which messages a prompt still has after a
   compaction was archived.
2. The ownership of the supervisor: `ensure_started` and `.supervisor.lock` with two service processes, and a monitor thread
   that cannot be started.
3. `TaskManager` over a directory that several runs share, if runs of one project are meant to share it.
4. The model pool and the outboxes of the gateways.

The hazards of these parts are listed in `PROJECT.json` at their lines.
