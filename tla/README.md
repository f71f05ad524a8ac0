# TitanShift in TLA+

TLA+ models, TLC runs and TLAPS proofs of the TitanShift *harness*, the Python
runtime under `harness/`: one asyncio process behind a FastAPI server that runs
agent tasks, bounds and times them, schedules jobs, gates tools and keeps
records of all of it. Concurrency in it is that of a single event loop: code
between two `await`s is atomic, and everything interesting happens because
other handlers, timers and tasks run at the `await`s. An action of a model is
such a stretch of code. What crosses a restart is what has been committed to
SQLite or written to a file.

`PROJECT.json` lists the components, the runs, for every property a plausible
defect of the code that breaks it, the source lines of every definition, the
hazards and the findings. Paths below are relative to `src/`.

## 1. Inventory

| component | state | operations | what is hard | what makes it correct | module |
|---|---|---|---|---|---|
| Run queue `harness/execution/queue.py` | entries, semaphore | `submit`, `_execute`, `await_result`, `get_status` | slot hand-over, tasks accepted but not started, timeout vs. late result | cap, order, no lost wake-up, one final outcome, termination | `RunQueue` |
| Run admission `harness/api/server.py` | `_run_queue`, open event streams | `POST /runs`, `/chat`, `/chat/stream`, `GET /runs...`, `POST /config` | the queue is replaced while runs, chats and streams are open | old runs end, refusals justified, streams end with the outcome | `RunAdmission` |
| Task lifecycle `harness/orchestrator/task_store.py`, `harness/runtime/cancellation.py`, server | records (dictionary and SQLite), registry of asyncio tasks | create, mark_*, delete, purge, cancel, restart | cancel, timeout, delete, result and crash in any order | entry, record and registry agree; results final; requests answered | `TaskRuns` |
| Orchestrator workflow `harness/orchestrator/orchestrator.py`, engine sidecar `harness/engine/` | agents, approvals, plan drafts, process | gate, plan phase, review rounds, specialists, sidecar, announcements | cancellation and settings that change at any await | nothing implemented without approval and review, every end announced, agents inactive | `Workflow` |
| Scheduler `harness/scheduler/module.py`, server | dictionary of jobs, counters, flags, heartbeat | tick, register, remove, toggle, heartbeat | background loop and API both tick; dictionary changed under the iterator | guardrail, no stuck flags, jobs get their turn, outages reported once | `Scheduler`, `Heartbeat` |
| Tools, policy, approvals `harness/tools/registry.py`, server | pending futures, session grants, live rules, semaphores | `execute_tool`, `_request_approval`, reply, edit rules | reply vs. registration vs. timeout vs. cancellation | nothing runs unapproved, slots add up, calls end | `ToolCalls` |
| Built-in tools `harness/tools/builtin.py`, `harness/execution/runner.py`, `harness/artifacts/backends.py` | files of the workspace, processes | some forty tools | failure in the middle of several files, hang of a process | a failed scaffold is undone, a rollback restores | `FileTools` |
| Rollback store `harness/runtime/rollback.py`, server | snapshot files per task | snapshot, restore, discard | crash in a write, rollback of a live task, two tasks on a file | restore gives the files before the task | `RollbackStore` |
| Hooks `harness/api/hooks.py`, streams of `/chat/stream` | list of registrations, a queue per stream | register, unregister, emit | list changed during an emission, disconnected clients | each stream tells the events of its run, once, in order | `ChatStreams` |
| Templates, scheduler persistence (server) | three JSON files per workspace, tables | save, load, run, delete, set-root | deleted while running, ids that cross, torn files | files, tables and scheduler agree | `Schedules` |
| API key store `harness/api/key_store.py` | keys and events in SQLite | create, revoke, rotate, authenticate | rotate is three transactions | no gap, log complete | `KeyStore` |
| Configuration `harness/runtime/config.py` | overrides, local and base file | get, set | two files written in place, edits by hand | settings survive a restart | `ConfigStore` |
| Migrations `harness/migrations/runner.py` | version table, schema | apply, check | crash in a script, two processes | recorded versions are in the schema | `Migrations` |
| Memory, graph `harness/memory/`, ingestion (server) | multigraph, `graph.json` | graphify, record a run, export, import | each addition saved on its own | knowledge kept, concepts linked once | `KnowledgeGraph` |
| Service manager, model adapters, telemetry, logging, emergency, skills, audit, client, CLI, frontend | see `PROJECT.json` | | I/O, static data or no live callers | | none |

How they interact: a request enters a FastAPI handler. `POST /runs` hands the
coroutine of `Orchestrator.run_reactive_task` to the run queue and returns;
`/chat` and `/chat/stream` start it themselves after asking the queue whether
it is full; resume, plan approval and templates (also as scheduler jobs) await
it. The coroutine creates the record, runs hooks, review phases and the engine,
writes the result and emits its last notifications. Clients look at the queue's
entry, the record, or a stream, and may cancel, delete, purge or roll back at
any time.

Around the runs: every tool call of a run goes through the registry, whose hooks
feed the streams of `/chat/stream` and whose snapshots feed the rollback
endpoint. Scheduler jobs run templates and stacks, which a server rebuilds from
the files of its workspace when it starts. A finished run is recorded in the
knowledge graph. Keys and settings are consulted by every request; each of the
three SQLite databases is migrated before it is used.

## 2. Plan

Done, in this order:

1. `WorkerPool`, `RunQueue`, `RunQueueProofs`; `RunAdmission` (two instances of
   `RunQueue`), `RunAdmissionProofs` (two instances of `RunQueueProofs`)
2. `TaskRuns` (on an instance of `WorkerPool`), `TaskRunsProofs`
3. `Scheduler`, `SchedulerProofs`
4. `FileTools`, `RollbackStore`, `ToolCalls` (each extends the one before),
   `ToolCallsProofs`
5. `Workflow`, `WorkflowProofs`
6. `KeyStore`, `ChatStreams`, `Schedules`, `ConfigStore`, `KnowledgeGraph`,
   `Heartbeat`, `Migrations`: small modules, checked together by
   `MCControlPlane`; `ControlPlaneProofs` for all of them but `ChatStreams`,
   which has `ChatStreamsProofs`

Left: two runs at a time in `Workflow` for TLC (its theorems are for any number),
and lemmas about single operators of `FileTools` beyond what the rollback needs,
such as that a scaffold which is undone leaves the files as they were.

## 3. Modules

### WorkerPool - what the queue promises
A backlog served in order by at most `MaxWorkers` workers; refusal only when
accepted runs could use every worker; one outcome per run. `RunQueue`
implements it (`PoolSpec`), `TaskRuns` builds on it in place of the queue.

### RunQueue - `harness/execution/queue.py`
`pc` is where each run's `_execute` task stands (accepted and not yet scheduled,
parked in the semaphore, woken and not resumed, inside `wait_for`, cancelled and
unwinding, ended); `state`, `completed` and `runs` are what clients read;
`ready` is the loop's queue of new tasks; `slots`, `granted`, `waiters` are the
counter and the waiter list of `asyncio.Semaphore`, modelled as in Python 3.11,
the oldest version `pyproject.toml` admits. Actions: `Accept`, `Refuse` (submit),
`StartNow`, `Park`, `Resume` (entering the `async with` block), `Expire`
(timeout: cancellation of the coroutine), `FinishInTime`, `FinishLate` (the rest
of `_execute`, with release and hand-over). Time is abstract: a run inside
`wait_for` may expire at any moment. The counter `_value` and the woken waiters
are kept apart because that is where a semaphore loses wake-ups or lets
newcomers overtake. Times, errors and durations of an entry are left out.

### RunAdmission - the server's use of the queue
Two instances of `RunQueue`, the queue before and the one after a change of an
`execution.*` setting. `SubmitRun` submits to the current one, `ExecuteRun` lets
the tasks of both go on, `BeginChat` looks at the current one and takes no slot,
`OpenStream` / `CloseStream` are `GET /runs/{id}/stream`, which keeps the entry
it found and later asks the current queue. Bound: one change of the setting.

### TaskRuns - tasks, records, registry
A task is queued (`POST /runs`), direct (resume, plan approval, template, stack)
or a chat. `coro` is its coroutine: `executing` until `mark_completed`,
`recorded` until the last notifications are out, then `returned`, or `raised`, or
`unwound` by a cancellation; `lost` in a restart. `stop` says why it was
cancelled. `record` is the status in the store ("none": no record), `registered`
the registry's keys, `answer` a chat's response; `backlog`, `status` the worker
pool. `run_reactive_task` does not suspend between `create`, `mark_started` and
the start of the work, so beginning is one action; a crash may come between the
two commits (`Restart`, second disjunct, leaves "pending"). A cancelled coroutine
may still complete, since `asyncio.wait_for` of Python 3.11 drops a cancellation
that arrives together with the inner result. `CancelTask`, `DeleteTask` and
`PurgeTasks` are the endpoints; tenants are abstracted to an arbitrary scope of
the purge. `/chat/stream` runs are neither registered, recorded nor timed, so
this module has nothing to say of them.

### Scheduler - `harness/scheduler/module.py` and its callers
Jobs are `ScheduledJob` objects; `entries` is the insertion-ordered dictionary,
with a hole where a key was deleted, so that an iterator's position means what
it means in CPython: it raises RuntimeError when the size has changed, or when
it finds more entries than the dictionary had (`Steps`, `left`). `tick` keeps,
for the background loop and for each request that ticks, the time the tick
began, its iterator and the callback it awaits. `JobSucceeds` / `JobFails` are
the code after the callback, on to the next due job. A cron expression is a
period. `overruled` is a history variable: jobs an operator enabled although
they had failed too often. A synchronous callback that raises does so without a
suspension before it; the model puts one there.

### Heartbeat - the scheduler's heartbeat
The clock, the last beat and the alert; `LoopTick` (beat and tick in one stretch
of the background loop), `ApiHeartbeat`, `ApiTick`. Jobs do not matter here,
except that they keep the loop for any time. `reports` and `carried` are
history: what has been published, and whether the alert is left from an outage
that a beat of the API has ended.

### FileTools, RollbackStore, ToolCalls - a tool call
`FileTools` has the built-in tools as operators from files and arguments to
sets of outcomes; of a text only its author is kept, since a rollback is judged
by whose text a file holds, and whether a text fits an edit is an argument.
`Altered` is the author of what `write_text` makes of what
`read_text(errors="replace")` has read: undecodable bytes and newlines may be
lost. Scaffolds are written file by file, with `UndoScaffold` for a failure in
the middle. `RollbackStore` has snapshots the same way: `Readings` is what a
snapshot may say of a path, altered text and, after an OSError, no content
(`Unread`) included.

Paths are absolute; a relative name is one in a directory, and `Resolve` finds
its path. There are two such directories: `root`, which tools and the policy use
(`execution.default_cwd`, `policy.workspace_root`) and `SetRoot`
(`POST /workspace/set-root`) changes at any moment, and `Cwd`, that of the
process, below which `RollbackStore.snapshot` resolves the name it is given.
`SnapshotPaths` and `WrittenPaths` are therefore different sets.

`ToolCalls` cuts `execute_tool` at its awaits: PreToolUse hooks (`Begin`), the
verdict of the policy, or none for a call with `bypass_policy` (`Evaluate`), the
announcement of an approval request and the registration of its future
(`RegisterApproval`), its reply, timeout and resumption (`Reply`, `Expire`,
`Resume`, `DenyExpired`), snapshot and first step of the handler (`Dispatch`),
the queue for a slot (`Enter`), processes and the web (`ProcessEnds`, `Finish`,
`TimeOut`, after which only the release notes are still written), PostToolUse
hooks (`Report`), cancellation at each of them. A future
whose timer has fired and whose reply has arrived in the same turn of the loop
is the race to model: `asyncio.wait_for` prefers the result. `Close` ends a
task, `Rollback` is the endpoint, `CrashInSnapshot` and `Restart` take the
server down. `label` is the reason a call may run: the policy, the bypass, or the
rule that asked. `TakeSnapshots` passes over a snapshot that fails, before it has
written anything or halfway. `before` is history: what was on a path before the
task's first mutating call, or `Astray` if that call did not put it on record,
because its snapshot failed or was of another file than the one it wrote.

### Workflow - `Orchestrator.run_reactive_task`
`pc` is where a run stands between its awaits; `task` is its input as built by
`/chat`, `POST /runs`, resume or approve-plan; `named` and `spawned` are the
agents in its result and in its list of specialists, `active` those not
deactivated; `told` what has been announced. `PassGate`, `Plan`, `Refuse` are
the approval gate and the plan phase; `SpawnImplementer` to `Verify` the review
rounds, one spawn per await; `item` has with the place in the plan the number of
rounds (`rounds`), which the loop reads from the configuration when it begins:
any integer, and for one below 1 an item goes on to its verifier without a
reviewer (`AfterReview`). `SpawnSpecialist` lightning mode; `Announce`,
`Telemetry`, `Stop` the finally block; `StartEngine` to `EngineStop` the sidecar
that replaces all of it. `settings` (stored approvals, sub-agents, sidecar)
change at any time, and `flag` is the attribute `enable_subagents`, which other
runs overwrite. The state machine that implements a task is imported from a
package that is not in the repository, and is external: only how it ends is
modelled.

### MCControlPlane and its seven parts
`KeyStore`, `ChatStreams`, `Schedules`, `ConfigStore`, `KnowledgeGraph`,
`Heartbeat` and `Migrations` share no state. `focus`, chosen initially, says
which of them moves; the others stand still. Nothing is lost by that: a property
of one of them is about its variables only, and no step of another changes
these, so the states it can be in are the same as in the interleaving of all.

- `KeyStore`: each operation is a transaction, `rotate_key` is three
  (`BeginRotation`, `CreateReplacement`, `FinishRotation`), with `Crash` in
  between. Handlers do not pause, so nothing else runs there.
- `ChatStreams`: `emission` is the place in the list of PreToolUse hooks that
  each caller's event is at, and the list, if it has been replaced: registering
  inserts in place, unregistering replaces the list. Only `tenant_tool_filter`
  makes an emission wait. A stream is told an event once, unless two others have
  come: when both register while the filter is asked, they push its hook to the
  place behind the one the emission is at, and it is called again.
- `Schedules`: tables, files of two workspaces, the scheduler's jobs.
  `CrashInSave` leaves a torn file, which loads as empty; `SetRoot` changes the
  workspace and loads nothing; `Cleanup` removes files. `moved`, `crossed`,
  `made` are history.
- `ConfigStore`: `Set` with its two writes, `CrashInLocal`, `CrashBetween`,
  `CrashInBase`, edits of the local file by hand. `edited` is history: settings
  edited since the last start, which alone may differ from what is served.
- `KnowledgeGraph`: texts are sequences of words, of which `Concepts` are those
  that are no stop words. A handler is a list of additions, carried out and saved one
  at a time (`Step`); `Import` adds parallel edges; the file is renamed into
  place and so is never torn, an export may be.
- `Migrations`: the server and `harness migrate`, of any two versions of the
  package; a script is committed statement by statement and recorded
  afterwards. A script with ALTER TABLE fails when repeated.

## 4. Runs

| run | bounds | shows |
|---|---|---|
| `run_queue` | 4 runs, 2 workers | books of the semaphore balance, no wake-up lost among them; cap, order; outcomes final; accepted runs end; implements `WorkerPool` |
| `run_queue_claim` | 4 runs, 2 workers | violation: a third run is accepted before the first tasks have run |
| `run_admission` | 2 runs, 1 chat, caps 1 and 1, one change | each queue keeps its cap, chats refused rightly, streams end with an outcome, old runs end |
| `run_admission_stream` | same | violation: a stream breaks off when the queue has been replaced |
| `task_runs` | 2 queued, 1 direct, 1 chat, of which any 2 are started; 1 worker, 1 restart | entry, record and registry agree; results final; cancelled chats answered; runs decided |
| `task_runs_force_close` | 1 queued, 1 direct, 1 chat, any 2; 1 worker | violation: a live run's record is closed as stale |
| `scheduler` | 3 job objects under 2 ids, a cron job, 2 tickers, 2 failures, time 1..2, 2 API calls | guardrail, flags, new jobs get their turn |
| `scheduler_cron` | same, 3 API calls, one job without timeout | violation: a cron job runs twice for one minute |
| `tool_calls` | 2 calls of a chat and a queued task, 2 paths, one relative name that is either of them in one of 2 directories, all tools, one of the calls past the policy, 1 slot per category, 1 edit of the rules, move of the workspace or restart | nothing runs unapproved, slots add up, a rollback undoes, calls end |
| `tool_calls_rollback` | same, edits of files under the policy only, no events | violation: a file changes without a snapshot |
| `workflow` | 1 run and an earlier record, 2 items, 2 rounds or none, 2 specialists, 2 cancellations, 2 changes of settings | work approved and reviewed, ends announced, nothing left behind, runs end |
| `control_plane` | one part at a time: 3 keys; 2 streams and 3 events; 1 template, 1 job id, 2 workspaces; 2 settings; 2 texts over 2 concepts and 1 run; time 1..7; 2 versions of 2 statements | the properties of the seven parts |

Why the bounds are enough to be interesting. *Queue*: with two workers, four
runs suffice for one run executing, one woken, one parked and one arriving,
which is the most crowded situation the semaphore distinguishes; the proofs
cover any number. *Admission*: a cap of 1 on each side gives a queue that is
full, free, or draining while the other one works; a run is in one queue only.
*Tasks*: tasks meet only in the pool, for which two queued runs on one worker
produce waiting, and in a purge; all else happens to one task, and the proofs
cover any number. *Scheduler*: two objects with the same id give replacement,
also under a running callback; two failures give a first one and a disabling
one; two requests give a tick that overlaps the loop's and a toggle or a
removal in it. Times 1 and 2 give a minute that matches the cron period and one
that does not. *Tool calls*: two calls compete for one slot, share a session
grant, or mutate one file for two tasks, one of which is rolled back; the
workspace is empty initially, so that the first call of one task writes the file
that the other finds; one relative name means either file, and its snapshot
is of the other one once the workspace has moved; the
theorems cover any number. *Workflow*: the setting of review rounds is 0 or 2, which
stand for all that leave the loop out and all that repeat it; two items and two
rounds give a first, a last, a failed and a repeated one; a second cancellation
hits the announcements of the first; runs meet in the settings only, which
change at any time, and in the attribute `flag`, which `OtherRun` overwrites.
*Control plane*: three keys are a chain of two rotations; two streams register,
leave and disconnect under each other's events; one id suffices for jobs that
cross, two workspaces for a change between them; one local and one tracked
setting; a text with a frequent word, a rare one and a stop word, and one that
overlaps; seven ticks hold two outages; version 2 cannot be repeated, version 1
can.

`CHECK_DEADLOCK FALSE` stands in all runs because the systems may stop: when
every run, chat, call or task has been started and has ended, and when requests,
time or restarts are used up. That nothing stops too early is what the liveness
properties say.

### Fairness
- *Queue, tasks*: the event loop runs every scheduled callback, so a task that
  can start, resume or unwind does; timers fire, so `wait_for` expires; a
  cancelled coroutine comes to its end, because `except Exception` does not
  catch CancelledError. Nothing obliges a client to submit, a run to end before
  its timeout, or an uncancelled chat to end (superpowered chats may have no
  timeout).
- *Streams* of a run poll every 100 ms while their client listens.
- *Scheduler*: the background loop ticks over and over and survives exceptions
  of a tick; a job with a `timeout_s` ends. `NewJobsRun` gives every job a
  timeout, because one without may hang the loop for good, which is a hazard on
  the list, not a property.
- *Tool calls*: what a call does by itself happens (`Advance`): hooks are
  emitted under a timeout or into a queue, the 120 s of an approval and the
  timeouts of processes and web requests fire. Nobody has to reply, and no
  process has to end.
- *Workflow*: models, tools and the sidecar answer or are given up after a
  timeout, so a run that can go on does.
- *Control plane*: none; its properties are safety.

## 5. Proofs

All theorems are proved for every value of the constants that satisfies the
named assumptions, which TLC evaluates in the runs: `MaxWorkersAssumption` (the
constructor raises ValueError otherwise), `CapsAssumption`, `TasksAssumption`
(kinds of tasks are disjoint, bounds are natural numbers), `WorkflowAssumption`
(the setting of review rounds has some integers for values, of whatever sign),
`SchedulerAssumption` (the loop is a ticker, periods and limits of failures are
at least 1), `FilesAssumption` (no task is called like the marks for authors),
`CallsAssumption` (finitely many calls, caps at least 1, rules are rules, every
relative name has a path in every directory), `KeyStoreAssumption`, and in `MCControlPlane`
`StreamsAssumption`, `JobsAssumption`, `SettingsAssumption`, `GraphAssumption`
(texts and a run's paths are finite; concepts, tasks and paths are different
nodes), `HeartbeatAssumption` and `SchemaAssumption`: that markers such as "no
job", "unset" or "torn" are none of the values they stand beside, and that bounds
are natural numbers.

`RunQueueProofs`. The inductive invariant is `QueueInv`: types, lines
(`InLine`: each line holds the runs that are in it, once), slots
(`SlotsAddUp`: free slots and slot holders add up to `MaxWorkers`), entries
(`EntriesMatch`) and `NoLostWakeup`. The cap alone is not inductive: that a task
that leaves the semaphore is within it follows only from the fact that the slot
was counted as held since the wake-up; and that a wake-up takes a slot that is
there, only from the balance of slots and holders. The work is in lemmas about
`WakeNext`, shared by `Resume` and `Finish`, and about finite sets of holders.
`CapHolds` then follows because executing runs are holders; `OutcomesAreFinal`
is proved of each step from `EntriesMatch`. For the order, `Ordered` says that the
accepted runs are those that have begun, in order, and then the backlog: the
woken, the parked and the new ones, one line after the other. It needs
`QueueInv`, since a new task takes a slot at once only when the semaphore is not
locked, and then nobody may be before it. Each step changes this backlog as a step
of `WorkerPool` does: `Accepts` appends, `Begins` takes its head, `Passes` leaves
it alone, which gives `ImplementsPool`, the safety part of the refinement.

`RunAdmissionProofs`. The theorems of `RunQueueProofs` are instantiated for both
queues, and `AdmissionInv` adds that a run comes to the second queue only after
the change, and only if it never was in the first. A stream's last report
stays true because outcomes are final, and a chat is refused on the number of
holders, which is the cap exactly when no slot is free.

`TaskRunsProofs`. The inductive invariant `RunsInv` adds to the properties:
runs of the backlog have not begun and stand in it once (`BacklogScheduled`), a
coroutine still executing has no result in the store (`ExecutingUndecided`),
a run with outcome "completed" has returned (`CompletedHasReturned`), an
answered chat is over (`AnsweredIsOver`), and chats have no record
(`ChatsUnrecorded`). Without `ExecutingUndecided` a late `mark_completed` could
overwrite a result, and without `ChatsUnrecorded` a cancellation that hits a
registered coroutine could overwrite one.

`ToolCallsProofs`. `SlotsInv` is `SlotsAddUp` with the types it needs; the work is
in lemmas about the set of calls that hold a slot, each way into and out of a
handler adding or removing one, and counting needs the set of calls to be
finite. `ApprovalsInv` says that a call which runs was allowed by the policy, goes
past it, or met an "ask" rule and has a decision that allows it
(`QueuedApproved` for those that wait for a slot), that calls not yet decided have
none (`Undecided`), and that each session grant goes back to an acknowledged "always" (`GrantsFounded`):
without the last, a call let through by another call's grant could not be
traced to a reply.

For rollbacks, `RollbackInv` says that a path holds a file of some task, a
directory or nothing (`Sound`), whatever tools do, which is a lemma per family of
tools; that calls under way name a task and paths, and a project under
installation remembers sound files, since a failed one puts these back
(`CallsInv`); and that a snapshot is a reading of what the path was before the
task's first call on it (`OnRecord`): this, altered, without content, torn, or
anything if that call went `Astray` (`RecordInv`). What makes the property provable step by step is
that no step but a rollback forgets a snapshot (`SnapshotsStay`). The types
(`TypesInv`) rest on the other two: that a slot counter does not exceed its cap
follows from the balance of `SlotsInv` only, and that it does not fall below 0 from
the guards of `Dispatch` and `Enter`; that a session grant is for a pattern
of a rule, from the existence of a last rule among finitely many that match
(`LastExists`).

`WorkflowProofs`. `WorkflowInv` is, for each run, what it has done when it is at a
place of the code (`CourseInv`) and what it has announced (`EndInv`). In the review
loop (`Reviewing`) the items before the current one are covered by every role, the
crew belongs to the current item, and whoever is active is named in a result, on
the crew, or followed there by somebody of the same role and item of a later round; from it
come `Ready` (with a setting below 1: that no reviewer is named), with which a run may implement, and `Tidy`, from which the finally
block leaves nothing behind. A step of one run leaves all others alone (`Still`),
so the proof is one lemma per action.

`SchedulerProofs`. `SchedulerInv` adds to types, guardrail and flags that an
object which is not registered yet has not failed (`NewJobsUnfailed`): registering
may enable it. A tick takes its next job by `Min`, so the job exists only because
a set of numbers that is not empty has its minimum in it (`MinIsMember`), for
which a least interval `0 .. x` is chosen among finite sets ordered by inclusion.

`ControlPlaneProofs` has the small modules one after the other.
`PartsKeepTheirSpecs` says that a behaviour of the run `control_plane` is one of
each part by its own specification, so what is proved of the parts holds of what
TLC explores.

- *Keys.* `KeysInv` adds to types and log that events are about keys that exist
  (`EventsOfStored`), so that a fresh key cannot look revoked, and that the
  replacement a rotation is holding has the scope, tenant and expiry of the old key
  and is not revoked (`ReplacementMatches`), which is what leaves no gap when the
  old one goes.
- *Templates and jobs.* `SchedulesInv`: types, the files of the active workspace
  are up to date but for torn and removed ones (`FilesUpToDate`), and the scheduler
  has the records' jobs. Acknowledged data survive because every handler saves what
  it has changed before it answers; deletions last because a restart loads only
  what is in files that are up to date.
- *Migrations.* `MigrationInv`: each version of a process's package is recorded
  or still on its list, which is empty once it is up (`NothingForgotten`), and the
  statements before its next one are in the schema (`ScriptBegun`). Only the latter
  makes the recording of a version sound when two processes run one script.
- *Heartbeat.* `BeatInv`: a report is of an earlier beat, or of the last one
  while its alert is on and the beat is still missed (`ReportsAreOfOutages`);
  without it a later tick might report the same outage again.
- *Settings.* `ConfigInv`: what is in memory agrees with the files, setting by
  setting, but for those edited by hand since the start (`MemoryFollowsFiles`).
  An edit by hand is served only after the next start, which is why the property
  has to speak of `edited`.
- *Graph.* `GraphInv`: what a text that is being read still lacks is on the list
  of additions, and links stand behind concepts (`ReadingInv`), so a crash loses
  only what was not acknowledged; an export keeps what had been ingested when it
  was taken (`CopyInv`); links join concepts that are there (`Linked`), at most
  once unless a graph was merged in (`Single`). That the list has every concept
  and relation of a text rests on the finiteness of both.

`ChatStreamsProofs`. `ChatInv`: the list of hooks has the streams once each, and
the filter last; who is registered is who is streaming or whose run is going
(`ListenersInv`); an emission waits where the filter was, in the list as it was or
as it has grown since (`EmissionsInv`); what was sent and what is in the queue are
together the numbers up to the last event, in order, and repeated only where two
others have come (`TellInv`); and after the end nothing of the own run is in the queue
(`EndInv`). The proof showed a wrong claim, that a stream tells each event once:
it needs three streams to fail, one more than the run has. TLC agrees on
instances of the module alone (two streams and three events, 337431 states; three
streams and one event, 804897 states, where a hook is called twice).

| theorem | property |
|---|---|
| `QueueBooksBalance` | `QueueInv` |
| `TypeCorrect` | types of `RunQueue` |
| `CapHolds` | `WithinCap` |
| `WakeupsAreNotLost` | `NoLostWakeup`, part of `QueueInv` |
| `OutcomesAreFinal` | `OutcomeIsFinal` |
| `ServedInOrder` | `NoOvertaking` |
| `ImplementsPool` | safety part of `PoolSpec` |
| `CapsHold` | `EachQueueWithinCap` |
| `StreamsAreTrue` | `StreamsReportTheEnd` |
| `RefusalsAreJustified` | `ChatRefusalJustified` |
| `TypesHold` | `TaskRuns!TypeOK` |
| `ViewsAgree` | `EntryAndRecordAgree` |
| `RegistryExact` | `RegistryHoldsOpenChats` |
| `ResultsAreFinal` | `RecordedResultIsFinal` |
| `ApprovedAndReviewed` | `WorkIsApprovedAndReviewed` |
| `AnnouncedOnce` | `EndsAreAnnounced` |
| `NothingLeftBehind` | `NothingIsLeftBehind` |
| `NoSlotIsLost` | `SlotsAddUp` |
| `NothingRunsUnapproved` | `OnlyApprovedCallsRun` |
| `RollbacksUndo` | `RollbackUndoes` |
| `TypesAreKept` | `ToolCalls!TypeOK` |
| `GuardrailStands` | `GuardrailHolds` |
| `FlagsAreReset` | `RunningIsNotStuck` |
| `LogIsComplete` | `LogTellsAll` |
| `NoWindowWithoutKey` | `RotationLeavesNoGap` |
| `AcknowledgedSurvives` | `AcknowledgedIsStored` |
| `JobsFollowRecords` | `RecordsAreScheduled` |
| `DeletionsLast` | `DeletedStaysDeleted` |
| `RecordedIsApplied` | `SchemaIsThere` |
| `EachOutageOnce` | `OutagesAreReportedOnce` |
| `SettingsLast` | `SettingsSurvive` |
| `IngestionsLast` | `KnowledgeIsKept` |
| `NoParallelLinks` | `ConceptsAreLinkedOnce` |
| `ClientsHearAll` | `StreamsTellAll` |
| `PartsKeepTheirSpecs` | links the run `control_plane` to the parts |

Every invariant and every action property of the passing runs has a theorem. Only
model-checked is what the prover cannot do: liveness under fairness, which needs
ENABLED (`AcceptedRunsEnd`, `AcceptedRunsEndAnyway`, `CancelledChatsAreAnswered`,
`RunsAreDecided`, `NewJobsRun`, `CallsEnd`, `RunsEnd`), and with it the fairness
that `PoolSpec` asks of the refinement.

## 6. Findings

1. `submit` accepts more runs than there are workers when submissions come
   faster than the loop starts tasks; the load test promises a 429
   (`run_queue_claim`).
2. A run's event stream breaks off with a TypeError when an execution setting is
   changed before the run ends (`run_admission_stream`).
3. Cancelling a live queued, resumed or template run only rewrites its record:
   it goes on and later overwrites "cancelled" by its result
   (`task_runs_force_close`).
4. A cron job runs twice for one minute when ticks overlap (`scheduler_cron`).
5. The destination of `rename_or_move`, and a file that `edit_file` gets as
   `file_path`, change without a snapshot, so a rollback does not restore them
   (`tool_calls_rollback`). Neither does it restore a file whose relative name is
   another one's below the working directory of the process (`registry.py:446`,
   `rollback.py:41`, against `builtin.py:32`), as after `set-root`, nor one whose
   snapshot has failed (`registry.py:447`).

What properties had to be weakened for, because the code does it and no doc
says otherwise, or only in general terms; each weakening is named at the
property:

- `OnlyApprovedCallsRun`: a call with `bypass_policy` runs whatever the rules say.
- `RollbackUndoes`: a file whose record went `Astray` at the task's first call on
  it may be given the content of a later moment; a text that is not plain UTF-8
  comes back altered (`rollback.py:52`); a path whose snapshot has no content is
  reported as restored and left alone.
- `WorkIsApprovedAndReviewed`: with `review_loop_max_iterations` at 0 or less, which
  `POST /config` accepts (`orchestrator.py:360`), the review loop is skipped and
  the item still `ok` (`orchestrator.py:631`), without the warning that a loop
  that gave up leaves; the docstring (`orchestrator.py:352`) has reviewers for each
  task.
- `StreamsTellAll`: an event may be told twice when two other streams register
  while the filter is asked about it; when a client disconnects, its hooks are
  never unregistered
  and its run goes on; events without a task go to every stream.
- `AcknowledgedIsStored`, `DeletedStaysDeleted`: a change of the workspace loads
  nothing, so the old one's tables are written over the new one's files; a
  template deleted while it runs comes back at the end of the run
  (`server.py:2089`); the cleanup of artifacts removes `task_templates.json`,
  the files of jobs and `graph.json` with the old reports.
- `RecordsAreScheduled`: ids of different kinds of jobs may cross.
- `SettingsSurvive`: `config.py:71` says that secrets belong in the local,
  untracked file, but `api.admin_api_key` does not end in `.api_key` and goes to
  the tracked one.
- `ConceptsAreLinkedOnce`: an import adds edges that exist a second time, and
  counts them as not added.
- `OutagesAreReportedOnce`: the background loop never finds an outage, since it
  beats right before its own tick, and an outage after a heartbeat of the API
  may go unreported.
- `NothingIsLeftBehind`: reviewers of earlier rounds stay active, those of a run
  that failed or was cancelled in its reviews do, and a cancelled run leaves its
  sidecar process.
- `SchemaIsThere` says nothing of progress: after a crash in a script with
  ALTER TABLE, every later start fails ("running it twice applies nothing on the
  second call", `runner.py:7`, holds only of completed ones).

## 7. Not modelled

Components left out stand with the reason in `PROJECT.json`: they are I/O
(model adapters, semantic stores, Neo4j, market and repository intake),
projections of the log (reports, incidents), static text (audit, emergency,
skills), declarations, or without live callers (most of the service manager; the
functions that uninstall, detect and verify repositories).

Within the modelled components:

- durations, error texts, payloads; tenants (who may see or cancel what);
- *Scheduler*: the fields of a cron expression;
- *Tools*: I/O errors other than in scaffolds and snapshots; directories above a
  path are taken to exist; relative names that reach one file in several ways (`..`,
  links); calls without a task id, of the command line and of a code skill, for
  which there are no snapshots; arguments that a tool does not take, for which
  the registry takes snapshots all the same (`source_path` given to `write_file`);
  who passes `bypass_policy`: no caller under `harness/` does, only the archived
  state machine, for superpowered runs (`_archive/harness/state_machine/reactive.py:1269`);
 how the hunks of a patch are placed; whether names, hosts and
  commands are on a list; texts other than their author. A cancellation that
  hits a handler while hooks are set surfaces as UnboundLocalError
  (`registry.py:491`), which only the missing state machine would see;
- *Workflow*: two runs at a time, skills and context, the improvement cycle, the
  state machine itself;
- *Streams*: the stream of the external state machine, the payloads;
- *Schedules*: other fields of a record than the template; requests that
  overwrite one; enabling and disabling of jobs, which is not persisted;
- *Configuration*: the nesting of dotted keys, environment variables, defaults,
  edits by hand of the tracked file, which the next `set` overwrites;
- *Graph*: types and texts of nodes and edges, statistics, the nodes of tools
  and skills;
- *Migrations*: a database that is locked too long, other than as a crash.
