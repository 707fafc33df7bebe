# Verification of the DEVCORE platform core

DEVCORE is a self-hosted platform for software agents: an HTTP gateway in front
of a *durable run engine* (commands of many projects, executed in child
processes, surviving crashes and restarts), project and task services, a local
scheduler daemon, a published dashboard with an event stream, a model router and
many scripts. This directory holds TLA+ models of its core, TLC configurations
that check them on small instances, and TLAPS proofs of the most important
results for instances of any size.

The models follow the parts where the program is concurrent or persists, retries,
times out and recovers, and where a mistake executes a command twice, loses a
result, or tells a client something that did not happen: the run engine and its
stores, the two schedulers, the task services, and the publication of the
dashboard.

Contents: [the system](#the-system), [the models](#the-models),
[the runs](#the-runs), [fairness](#fairness), [the proofs](#the-proofs),
[what disagrees](#what-the-code-and-its-documents-disagree-about),
[what is left out](#what-is-not-modelled), [the plan](#the-plan).

## The system

Paths are relative to `src/DEV_CORE/`; `runs/` is `devcore_engine/runs/`.

### Parts that are modelled

| part | state | operations | interacts with |
|---|---|---|---|
| Run records (`runs/models.py`, `API/devcore_api/run_state.py`) | one row per run: status, worker token, attempt, cancellation flag, heartbeat, result | the SQL statements of both stores | both stores |
| Run engine (`runs/engine.py`) | stop flag, thread pool, active runs | submit, worker loop, `step`, execute a claimed run, start/stop worker, recover | store, scheduler, executor |
| Process executor (`runs/executor.py`) | child process, deadline, time of the last heartbeat | the poll loop: exit, deadline, cancellation, pause, heartbeat | store, through three callbacks |
| PostgreSQL store (`runs/postgres_store.py`) | `runs`, `events`, `schedule_history`, `projects.status` | claim, heartbeat, complete, time out, cancel, confirm, pause, resume, approvals, recover; a project archived or restored | engines of several processes |
| SQLite store (`runs/store.py`) | `runs` | the same, without projects | one host's processes |
| Fair scheduler (`runs/scheduler.py`) | none of its own; it counts and lists rows | admission check, select next run | store, engine |
| External effects (`runs/effects.py`, `runs/postgres_effects.py`) | one row per (project, key, type) | `execute_idempotent_effect` | callers of external services |
| Schedule dispatcher (`runs/postgres_schedules.py`) | `schedules`, `schedule_history`, rows it inserts into `runs` | register, disable, poll, overlap check, dispatch | requests on the same queue, other dispatchers |
| Scheduler daemon (`Scheduler/`) | lease file and its OS guard, `scheduler.db`, `jobs.json` | acquire, cycle, registry sync, resolve a claim, stop, resume | supervisor, operators, child processes |
| Task mutations (`devcore_engine/services/tasks.py`, `postgres_task_mutations.py`) | tasks with versions, steps and dependencies | create, next, complete, delete, pause, skip, resume, step, edit | gateway, command line |
| Dashboard store (`Scripts/dashboard/snapshots.py`, `generation_lock.py`, `gen_dashboard.py`) | directories of generations, `current.json`, two locks | generate, collect, stage, commit; pin for reading | readers in the dashboard API |
| Dashboard event stream (`Scripts/dashboard_api.py`, `dashboard/input_watcher.py`, `refresh_coordinator.py`) | two shared watchers, one refresh coordinator, a coroutine per browser | probe, refresh, greet, announce | generators, browsers |

What is hard about them:

* *Interleaving and stale state.* An executor reads the row through callbacks at
  different moments of its loop, and stores its result much later; meanwhile
  requests cancel, pause or resume the run, the recovery takes it back and
  another engine claims it. Only the *worker token* of the last claim tells the
  row's owner from a late worker (fencing). The daemon holds jobs in memory that
  are edited in the file; a browser's coroutine acts on samples shared with
  others; a task client sends a change to a task it read before.
* *Atomicity.* `PostgresRunStore` puts each operation's guard in its `UPDATE` or
  holds a row lock; `SqliteRunStore` reads on one connection and writes on
  another. The scheduler, the submission and the schedule dispatcher count, list
  and insert in separate transactions. `create` and `transition` of a task lock
  different things.
* *Crashes and time.* Engines, daemons and generators die between any two steps;
  heartbeats of living workers come late; leases expire under a long job;
  deadlines race exits; a probe answers after its callers have given up.
* *Partial failure.* A database error in a callback, or while a result is
  stored, loses that result; an effect may take place and its record fail; one
  job's exception ends a cycle with the jobs before it done; a removal stops
  half way at an open file.
* *Liveness.* A claimed run must not stay `running` for good; a queued run must
  be started, a due slot attended, a changed input published, a connected
  browser told.

What makes them correct, in one sentence each: the store accepts one result per
run, from the owner; a success was seen by the owner; terminal rows rest;
cancellation requests survive every retry; attempts are counted, so retries end;
the status a client reads and the terminal event agree and follow a lifecycle;
the executor of an archived run stops and cannot end the run later; quotas hold;
one idempotency key gives one run, or one effect; a due occurrence is run once
or recorded as skipped; a slot of the local scheduler is executed at most once
and not passed without a result; a project has one active task, started after
what it needs; what `current.json` names is complete and can be read to the end,
and room is made for the next; who stays connected learns of the current
generation.

### Parts that are not modelled

| part | state | what is hard, or why not |
|---|---|---|
| Service watchdog (`system_watcher.py`, `infra/restart_budget.py`) | attempts, window, lease per service | boundary of window and limit; two watchdogs; next in the plan |
| Router admission, rate limit (`Scripts/router/`) | slots, counters, a sliding window | release on every path; saturation of counters |
| Browser sessions (`security/browser_sessions.py`) | one dictionary under one lock | a session outliving its credential |
| OTLP worker (`API/devcore_api/otlp_worker.py`) | bounded queue, counters | shutdown while an export is in flight |
| Transactional outbox (`persistence/outbox.py`) | messages with status and attempts | messages are only appended: no process of the repository runs the publisher |
| HTTP gateway (`API/devcore_api/app.py`) | none of its own | only its run and task endpoints are part of the models |

Identity, memory and knowledge services are reads and single transactions with
access checks. Automation scripts, MCP servers, plugins, web pages, migration
and release tooling are input and output, prompts, or run once. They are most
of the repository's lines.

## The models

```
RunRecords          a row, and what each SQL statement does to it
  RunExecution      claims, the executor's loop, stop, start and crash of engines;
                    the properties expected on either store
    PostgresRuns    one action per transaction;  refines RunLifecycle
      PostgresArchive   the same beside the archiving of projects, with fairness
        PostgresRunsProofs
    SqliteRuns      a read and a write per operation
RunLifecycle        what a client is promised (abstract)
FairScheduler       selection and claim, read by read
    FairSchedulerProofs
RunSubmission       submit_run by concurrent request threads
  RunScheduling     the schedule dispatchers beside them
    RunSchedulingProofs
EffectCalls         calls with one idempotency key
    PostgresEffects, PostgresEffectsProofs
    SqliteEffects
SchedulerDaemon     the local scheduler
    SchedulerDaemonProofs
TaskRecords         tasks, and clients with what they have read
  SqliteTasks, PostgresTasks
    TaskMutations   either store;  refines TaskBoard
      TaskMutationsProofs
TaskBoard           what the task routes promise (abstract)
DashboardStore      generations, locks, collection;  refines SnapshotRegister
    DashboardStoreProofs
SnapshotRegister    what readers of the dashboard are promised (abstract)
DashboardStream     watchers, coordinator and coroutines, on that register
    DashboardStreamProofs
MC*                 symmetry sets and constants for TLC
```

**RunRecords.** `Row` keeps the columns the control depends on. `output` stands
for output, error and exit code and names the execution they came from; `stale`
stands for `heartbeat_at` and says whether it is older than the heartbeat
timeout. `Owns`, `Expired`, `Parked`, `Pausable` are `WHERE` clauses,
`ClaimedBy`, `Finished`, `Requeued`, `Recovered`, ... the rows statements leave
behind. Both stores share them because both schemas and `SET` lists do.

**RunExecution.** An execution is one claim, named by its worker token. `pc`
follows `_execute_claimed_run` and `ProcessRunExecutor.execute`: `start`, then
rounds of `poll` (exit code, then deadline), `cancelCheck`, `pauseCheck`,
`beat` and, when the heartbeat is refused, `recheck`; then `finish`, and on
SQLite `commit`; then `done` (the store took the result) or `gone`. Each callback
is an action of its own because each is a transaction of its own. `proc` is the
child process; `StopWorker` and `Crash` kill it from outside. `NeverDispatched`
is a claim whose future the thread pool refuses or cancels; `CallbackRaises` and
`ResultIsLost` are database errors. Which run is claimed is left open here: any
choice of the scheduler is covered.

**PostgresRuns.** `StoreResult` (`complete_run`, `timeout_run`),
`ConfirmCancellation`, `CancelRun`, `PauseRun`, `ResumeRun`, `RequestApproval`,
`ApproveRun`, `Recover` and the loop of `stop_worker` (`StopCancels`), each as
one transaction. `finished` is the `project_job.finished` event (or the
`schedule_history` row) that `_record_project_job_result` inserts with
`ON CONFLICT DO NOTHING` in the transaction that makes the row terminal. The
recovery skips locked rows, so it may take any part of the stale ones.

**PostgresArchive.** The store finds the project of a run among the *active*
projects, in a transaction before the operation's own. `project` is `active`,
`closing` (archived, but lookups made before may still be under way) or
`archived`; every step of PostgresRuns is taken under `MayFind`, and the `Miss...`
actions say what each caller does when `_run_project` returns nothing: no
cancellation, no pause, a refused heartbeat, a lost result.

**RunLifecycle.** Status and event only: the edges a status may move along, the
announcement of a terminal status in the same step, rest afterwards. The
refinement mapping projects the status column and `finished`.

**SqliteRuns.** A request thread is `Idle` or remembers what it is about to
write after its read; the recovery likewise. The second half of `pause_run`
checks the status again, that of `request_approval` the token, the others
nothing. `complete_run` and `timeout_run` check status and token twice,
`confirm_cancellation` only once and only the token.

**FairScheduler.** A dispatcher (a worker loop, or a thread serving
`POST /runs/step`) counts running runs project by project, checks the global
quota on the sum, lists the queues project by project, chooses the project with
the fewest running runs (then the oldest run), fetches its oldest run and claims
it. Others act between any two of these. Runs are numbered by `created_at`; a
requeued run comes back with its number. `TakeAway` is a pause, an approval
request or a recovery of a running run; its execution goes on for a while as a
`stray` one that occupies a thread.

**RunSubmission, RunScheduling.** `submit_run` by concurrent threads on the
PostgreSQL store: lookup of the key, admission check, `save_submission` (one
upsert). RunScheduling adds the schedule daemons: a poll finds the schedules that
are due, and each is taken under the project's advisory lock through the overlap
check (`SkipOverlap`), the queue count and the insert, or disabled meanwhile. The
dispatcher of an occurrence goes through the stages of a submission, so it is one
more thread for `Threads`. Clients are assumed not to use the keys of occurrences.

**EffectCalls, PostgresEffects, SqliteEffects.** Calls of
`execute_idempotent_effect` with one key, from different threads or processes:
reservation, the effect outside any transaction, the record of its outcome.
`performed` says for which calls the effect took place, whatever was recorded.

**SchedulerDaemon.** One daemon at a time, under a new owner id each time it
starts; a cycle loads `jobs.json`, and job by job publishes what the history
already settles, claims the slot, starts the command, records the result and
moves the state in memory, to be saved at the end. A crash or an exception may
end it anywhere. Beside it the registry is edited and synchronised, the lease
expires, operators resolve claims (`ResolveClaim`) and request stops. Policies
`skip`, `run_once`, `catch_up` and the kind `once` with its grace are kept.

**TaskRecords, SqliteTasks, PostgresTasks, TaskMutations, TaskBoard.** A row
keeps status, version, the task it needs and its steps; a client has seen a row
at a version and sends a change later, or changes blindly as the command line
does. SQLite operations are one transaction; on PostgreSQL a transaction is what
it reads and decides, then what it writes, with the locks it holds in between
(an advisory lock, or the project's row for `create`). The event appended beside
each change is left out, as no operation reads it. TaskBoard is the abstract
specification of both: starting, suspending, ending.

**DashboardStore, SnapshotRegister.** A generator takes the generation lock,
gathers the inputs, collects old directories behind the catalog gate, file by
file, checks that there is room (`HasRoom`), adds a directory, writes its files,
the manifest and at last `current.json`; it may die anywhere (`Abort`) and leave
what it did. `HasRoom` is `check_snapshot_capacity`: fewer directories than
`MaxGenerations`, and no more than `MaxBytes` for the files that are there
(`Used`) with what the new generation may need (`Reserve`: its artifacts, the
largest once more, and 12288 bytes). Sizes are counted in blocks of 4096 bytes;
`Size` says how many each file takes that is rendered from a version of the
inputs, and `made` from which version a directory was. A
reader takes the gate, resolves the pointer and opens file after file. `windows`
says whether an open file refuses to be unlinked. SnapshotRegister is what
readers are promised: a register that never goes back, seen as it was when one
looked.

**DashboardStream.** Coroutines interleave at every `await`; `phase` and `stage`
say at which. A probe (`Start`, `Probe`, `ProbeEnds`, `ProbeFails`) is shared by
those who ask while it runs, and goes on when nobody waits any more; a refresh
likewise. The published generation is the register of SnapshotRegister with a
name for each publication.

A definition `D_Slip` next to `D` is `D` with a plausible mistake in it. Nothing
in the specifications uses it; it documents which mistake each property catches
(PROJECT.json, "mutants").

## The runs

Every run explores the full state space of its instance.

| run | asks | instance |
|---|---|---|
| PgTwoEngines | everything the engine on PostgreSQL promises about one run | one run with a job, two engines, two claims, two attempts; 600 234 states |
| PgArchive | what archiving does to a run that executes; does a running run stop running, does a cancellation end a run | one project, one run, one engine, two claims; 160 290 states |
| SqRequests | what survives the two-transaction operations of SQLite | one engine, one request thread next to executors and the recovery; 1 728 415 states |
| PgEffects | is an effect executed once, and is everybody told the same | four calls with one key; 326 states up to symmetry |
| Sched | by how much are quotas exceeded, does every queued run start | a worker loop and a `step` caller, two projects, global quota 2, project quota 1, three runs and requeues; 476 383 states |
| PgSchedules | are occurrences doubled or overlapped, is a due one passed without a run or a record; one key, one run; the queue limit | four requests, two with one key, on two threads, two schedule daemons, one schedule with two occurrences, a failing poll; 752 401 states up to symmetry |
| Daemon | what survives crashes, failing cycles, edits and operators in the local scheduler | two jobs of every policy in turn, two ticks, two starts, one failure, one edit; 445 446 states |
| Tasks | one active task, after what it needs; no lost update; the board | two tasks, two clients, either store, five versions, two steps; 879 404 states up to symmetry |
| DashStore | is the published generation complete and readable to the end; is a generation refused while more could be removed | two generators, a reader, five directories, 19 blocks, two artifacts, two kept, two versions of the inputs; 1 034 539 states up to symmetry |
| DashStream | is what counts as refreshed published; does a browser learn of the current generation, a change reach it | one browser that comes and goes, three versions, one other generator, one failure; 289 423 states |

Violation runs, each with one property that TLC refutes: SqTerminal and
SqEffectsTwice; see
[below](#what-the-code-and-its-documents-disagree-about).

### The properties

* `OneResultPerRun`: late workers, retries, recoveries, requests: still the
  store accepted the result of at most one execution of a run.
* `ReassignedRunIsFenced`: a late worker cannot end a run that has been given
  to another one.
* `SuccessIsHonest`: `succeeded` means that the owner saw exit code zero, and
  the stored output is that process's, even when `stop_worker` killed the
  process at that moment or the run changed hands.
* `AttemptsAreCounted`: `attempt_number` counts the claims, so `max_attempts`
  bounds the retries of the recovery.
* `EventTellsFinalStatus`: the terminal event is there exactly when the row is
  terminal, with its status, whichever of the paths made it terminal.
* `PausedNeverCompletes`, `CancellationSticks`: what no step may do to a row.
* `ImplementsLifecycle`: `PostgresRuns` implements `RunLifecycle`.
* `ArchivedRunStops`, `NoRunIsStuck`: the executor of an archived run learns at
  the next heartbeat and kills the process, and a project that is at last left
  active has no run `running` for good nor a cancellation pending for good.
  `ReassignedRunIsFenced` is asked here too: that executor may store its failure
  when the project has been restored and the run given to another one.
* `BoundedOvershoot`, `WithinSlots`, `QueuedRunsStart`: every dispatcher but one
  may add one run beyond a quota (none with a single one); nobody executes more
  than it has threads, strays included; no queued run is forgotten.
* `OneRunPerKey`, `BoundedQueue`, `NoOverlap`, `OccurrenceIsSettled`,
  `DisabledIsQuiet`: submissions and dispatched occurrences. `OccurrenceIsSettled`
  tells the slot a schedule is *due* at, which gets a run or a record that it was
  skipped, from the slots after it that a dispatcher comes too late for. Those the
  code passes over on purpose, with neither ("missed slots are skipped"); the
  property asks that they were due by then, so that no move skips the future.
* `ExecutedAtMostOnce`, `OneResultForAll`: effects.
* `SlotRunsOnce`, `CountMatchesHistory`, `OnlySettledSlotsArePassed`,
  `RegistryNeverRegresses`, `LiveClaimIsUntouched`, `DueSlotIsAttended`: the
  local scheduler. The count is between that of the slots passed with success
  and that of those nobody resolved by hand.
* `OneActiveTask`, `ActiveDependencyDone`, `StepsAddUp`,
  `NoLostUpdate`, `ImplementsBoard`: tasks.
* `PublishedIsComplete`, `RefusedAsLastResort`, `ImplementsRegister`: the dashboard
  store, whoever dies with which directories half written or half removed. The
  store *may* refuse a generation, by either limit; it may not do so while it holds
  more than a collection has to keep (`KeptAtMost`), once something is published.
* `CompletedIsPublished`, `ClientCatchesUp`, `ChangesArePublished`: the event
  stream.

### Bounds

* *One run* (PgTwoEngines, PgArchive, SqRequests). No statement of a store reads
  or writes two rows to decide on one of them, apart from the recovery and
  `stop_worker`, which treat each row by itself; runs only meet in the scheduler
  and in the queue, which have their own models. The proofs hold for any number.
* *Two tokens.* Two claims are the least that make a late worker and a
  reassigned run; with `MaxAttempts = 2` the second claim is also the last
  attempt, so both branches of the recovery are taken. Resumes and approvals
  need a token left, otherwise the queued run could not be claimed again; that
  is the only guard the bound adds (`TokenLeft`). In PostgresArchive a claim
  takes a chosen unused token, since tokens are interchangeable.
* *Two engines* put stop, crash and claim of different processes side by side.
* *Two projects, quotas 2 and 1, two dispatchers* let both quotas bind and be
  exceeded. `MaxRuns` counts submitted and requeued runs together. Three runs
  of one project would break the bound of `BoundedOvershoot` on projects; the
  bound on all of them is itself three, so that half rests on the proof (whose
  invariant was checked on a larger instance: global quota 1, three dispatchers).
* *Three threads and a limit of one*: two request threads and the dispatcher
  reach the admission check at its boundary together. Two ticks make an
  occurrence that is due while the one before is open.
* *Two jobs, whose policies an edit changes*, so that each policy occurs, with
  another job before or after it in the file; two starts and one failure are a
  crash or an exception at any place, and the recovery from it.
* *Two tasks* are a task and the one it needs; `MaxVersion` bounds how often one
  changes. *Two clients* overlap on PostgreSQL and make views stale.
* *Five directories, two kept*: the published one, two unfinished newer ones, and
  candidates that an open file defers. `MaxGenerations = 5` is one more than a
  collection may have to keep; names are reused once nothing tells of them.
* *19 blocks*: an artifact of the first version takes one block and of the second
  two, a manifest one. Three directories of the second version (15) leave no room
  for a fourth generation (9 more), two of them (10) just do; so both limits
  refuse in the instance, by bytes also when something is published, and on either
  kind of file system.
* *One browser*: the probes and refreshes it leaves behind when it goes are the
  second actor that shares the watchers and the coordinator. One failure may be
  any probe, wait, cursor read or generation.

### Symmetry and deadlock

Tokens, calls, dispatchers, clients, directories, generators and artifacts are
only compared for equality, so their permutations are symmetries. Runs that
check liveness use none. Deadlock is checked wherever the system goes on for
ever. `CHECK_DEADLOCK FALSE` stands where the instance ends: all calls of the
effects and submissions models have returned, all runs of the scheduler model
have ended, the clock or the versions are used up.

## Fairness

*PostgresArchive* (the run engine): executor threads go round their loops and
store what came of it (weak fairness per execution), `stop_worker` finishes its
loop, a stopped engine is started again, and the worker loop of a started engine
recovers and claims. The last two are strong: the loop runs every half second,
but requests may take the run away and give it back in between infinitely often,
and an engine may be stopped and started, a project archived and restored, for
ever. Time passes: the deadline of a process comes (not relied on while the
project is archived, since it may be an hour away), and the heartbeat of a run
nobody executes becomes stale. Not fair: requests, archiving, crashes, the exit
of a command by itself, and late heartbeats of a living execution. Without
fairness of `StartWorker` a store without any engine would be a counterexample.

*FairScheduler*: each worker loop goes round, stray executions and runs end
(deadline). Callers of `POST /runs/step` are not fair.

*SchedulerDaemon*: the supervisor starts a daemon that is missing, the daemon
goes round every ten seconds, a command ends at its timeout, and a lease of
thirty seconds, although it may expire between any two steps, does not expire
every time between being acquired and the next statement: strong fairness of
entering a cycle with one's own lease.

*DashboardStream*: threads, processes and coroutines make progress. A new probe
is strongly fair, because a turn of the loop sleeps as long as a sample stands,
so that not every question is answered from an old one. Nobody has to come or to
stay, and failures are bounded.

## The proofs

`tlapm` checks every proof; nothing is assumed but the named assumptions on the
constants (`NoneAssumption`, `AttemptsAssumption`, `SubmissionAssumption`,
`SchedulingAssumption`, `SchedulerAssumption`, `DaemonAssumption`,
`TasksAssumption`, `RetentionAssumption`, `SizeAssumption`, `BoundsAssumption` and
the like), which say that a null is no member of a set, that bounds are numbers,
that a collection keeps at least two generations, that finitely many calls,
projects and dispatchers are there, and at least one dispatcher, that the keys of
occurrences are not used by clients. Otherwise sets of runs, tokens, engines,
clients, generators and directories are arbitrary, infinite ones included. Two
theorems have hypotheses of their own, `RefusesAsLastResort` (finitely many
readers) and `AlwaysRoom`.

**PostgresRunsProofs.** The inductive invariant is

    IInv == TypeOK /\ RunningIsOwned /\ ResultsAreRecorded
            /\ SuccessIsHonest /\ EventTellsFinalStatus

`OneResultPerRun` is not inductive: from a state with one `done` execution and
a running row, the next `StoreResult` breaks it. `ResultsAreRecorded`
excludes that state: an accepted result left a terminal row that still carries
its token; as terminal rows rest and the tokens of two executions differ, a
second one cannot be accepted. It also ties the life of a process to the
polling steps, which `SuccessIsHonest` needs: once an outcome is decided, the
process cannot change the exit code that will be stored. `RunningIsOwned` makes
the owner an execution of the same run. The proof goes bottom up: what each
statement makes of a row (`RowClaimed`, ...), what each step makes of an
execution (`Execution...`), how a change of one of them keeps `IInv`
(`ExecutionMoves`, `RowsMove`), one lemma per action (`...Keeps`), `StepIInv`.

`RowAdvances`: every step moves every row along an edge of the lifecycle or leaves
its status, keeps terminal rows and keeps the cancellation flag. From it
`TerminalStays`, `PausedStays`, `CancellationStays`; from `OwnersStore`,
`AlwaysFenced`; and from `LifecycleStarts` and `LifecycleMoves` the refinement
`Implements`: `Spec => Lifecycle!Spec`.

`AlwaysCounted` needs no more than that a claim adds one execution of its run and
one attempt (`ClaimCounts`), and that no other step gives an execution to a run
(`RunsStay`) or changes an attempt number (`RowContinues`): `Counted` says so of
the set of executions, which is finite although the tokens need not be.

Beside archiving all of it still holds. `ArchiveSteps` shows that a step of
PostgresArchive is, seen from the store, a step PostgresRuns could take as well, or
an executor that goes on although its row says otherwise (`GoesOn`), or a
cancellation given up (`GivesUp`). The last two disturb none of the invariants, so
`PromisesOutliveArchiving` and `ImplementsBesideArchiving` follow. That is not
because archiving is a special case: a lookup that finds no project makes an
executor miss a cancellation or a pause, which PostgresRuns never does.
`FencedBesideArchiving`: nor do the two let a late executor end a run that is
another one's, since only `OwnersStore` steps reach `done`.

**PostgresEffectsProofs.** The invariant says that calls at work hold the
pending row, alone (`SingleFlight`, `Reservation`), and that a completed row
names the one call that executed. Then `NeverLost` (the two `RuntimeError`s of
the code are unreachable), `AtMostOneExecution`, `AlwaysOneResult`,
`CompletedStays`, for any number of calls.

**FairSchedulerProofs.** `AlwaysWithinSlots` is inductive once one knows that a
dispatcher that looks for a run has a slot left (`SlotIsKept`). `OvershootIsBounded`
is not: the counts a dispatcher has taken say nothing of the claims of others
since. The invariant ranks the dispatchers, the one that claimed last first
(`Ranked`): only dispatchers that rank before it can have claimed behind the back of
one since it began to count, so what it has counted, with what runs in the projects
it has yet to visit (`Estimate`), falls short of what runs by less than its rank
(`CountsAlmost`); the same for each project it may still choose
(`CountsProjectAlmost`). A claim moves its dispatcher to the first rank and those
before it one down. The rank is an existential of the invariant, not a variable
added to the model. The last dispatcher ranks `Cardinality(Dispatchers)`, from which
the bound: one run for every dispatcher but one, however often each of them claims.

**RunSchedulingProofs.** Of the submissions `AlwaysOneRun` and `AlwaysBounded`.
`OneRunPerKey` follows from two inductive facts: an accepted call was told an
existing run, its own or one with its key (`AnswersExist`), and no two runs share
a key (`KeysAreUnique`, which the conflict clause of the insert keeps).
`BoundedQueue` is not inductive, as it says nothing of calls that have passed the
admission check and not inserted yet; `Bounded` counts those with the queue
(`Coming`) and bounds the calls being served (`Serving`) by `Threads`.
`DispatchersSubmit`: whatever the schedule daemons do is, seen from the
submissions, a step of one, or none; so `OneRunWithSchedules` and
`BoundedWithSchedules` carry over. The advisory lock (`LockIsExclusive`) leaves
the slot a dispatcher is at due and untouched until it inserts (`LockedIsDue`,
`FutureIsClean`), from which `NeverOverlaps`, `SettlesOccurrences` and
`DisabledStaysQuiet` follow; that a poll began at a time already past
(`AlwaysPollsStarted`) gives the half of `SettlesOccurrences` on missed slots.

**SchedulerDaemonProofs.** What makes `jobs.json` correct is said of one job state
against the history (`Sound`: its last slot is recorded, later slots are clean but
the next one, its count is that of the slots passed), and holds of the file and,
during a cycle, of the memory; the history and the number of executions agree
(`RunsMatchHistory`). It is what makes repetitions harmless: a cycle that starts
over finds each slot either untouched or settled. Then `RunsOnce`,
`CountsAreRight`, `PassesOnlySettled`, `NeverRegresses`, `LiveStaysUntouched`.

**TaskMutationsProofs.** What a change does to a row is stated once (`RowChange`);
that each operation of both stores is such a change needs `CallsAreValid`: what
the checks of an open transaction found still holds when it writes, although a
creation may commit in between. `ViewsAreHonest` gives `NoUpdateIsLost`.
`Implements`: both stores implement the board.

**DashboardStoreProofs.** The invariant says that a generator at work has the lock
(`Locked`), that the directory it writes and those it removes are not the
published one (`Apart`), that the version it has gathered is not older than the
published one and not newer than the inputs (`Current`), and that a generation
stays whole while a reader opens its files (`Served`). From it `AlwaysComplete` and
`Implements`: every step publishes, looks, leaves or is invisible to
SnapshotRegister.

`RefusesAsLastResort` adds to it that a collection keeps no more than the newest
few, the published directory and those readers have open. `Roomy` counts, while it
runs, the directories that are no candidates (any more) together with the readers
that may still keep a candidate: a directory the collection has to leave (`Defer`)
takes the place of a reader of it in that sum, and no reader joins as the gate is
held. It needs finitely many readers and nothing of the sizes.

When is there always room? `AlwaysRoom` answers under the hypothesis `Fits(L)`: no
file has more than `L` blocks, and as many directories of such files as may be kept,
with the reserve of any generation, are within both limits. Then nothing is refused
once something is published. With the constants of `snapshots.py` (3 kept, 512
directories, 256 MiB, four artifacts) and one reader, files up to 8.5 MiB fit; an
artifact may have 16 MiB (`MAX_ARTIFACT_BYTES`), so the constants alone do not
exclude that the byte limit refuses every generation, until the inputs shrink.

**DashboardStreamProofs.** `AlwaysPublished`: what the coordinator calls completed was
published with inputs at least as new as the sample that gave the revision its
number. It needs that a refresh for the *latest* revision gathered after that
sample (`RefreshIsRecent`), and says nothing of earlier targets, which a later sample
overtakes. `VersionsArePast` relates generators, other processes included, to what is
published, and gives `AlwaysAdvances`: publications never go back.

Some theorems state what no run lists, because a stronger property of a run has taken
its place, or none was needed: type correctness of each module, `AlwaysOwned`,
`TerminalStays`, `AlwaysSingleFlight`, `NeverLost`, `CompletedStays`,
`AlwaysRecorded`, `AlwaysAdvances`.

Each inductive invariant was first checked by TLC on the instance of its run, or, where
the run's bounds do not let it bite, on a larger one.

Only model-checked: liveness (out of the prover's reach, as is `ENABLED`), that is
`ArchivedRunStops`, `NoRunIsStuck`, `QueuedRunsStart`, `DueSlotIsAttended`,
`ClientCatchesUp`, `ChangesArePublished`; and the SQLite run store
(`SuccessIsHonest`, `PausedNeverCompletes`), whose invariant would have to say what
each request thread and the recovery may still write.

## What the code and its documents disagree about

Shown by a run:

* **SqTerminal.** SQLite: the recovery, `resume_run` and `approve_run` write by
  id after a read in an earlier transaction; a run that ended in between is
  queued and executed again. (`confirm_cancellation` has the same shape: a late
  worker may end a run that has been given to another one.)
* **SqEffectsTwice.** SQLite: two calls may both find the key absent and both
  execute the effect.

Facts one meets in the models that have no run of their own:

* `stop_worker` kills the processes before it requests the cancellations, and the
  executor looks at the exit code first, so an interrupted run may be stored as
  `failed` where the documents say `cancelled`. A resumed run goes back to
  `queued` where `RunStateMachine` says `running` (`Moves` in RunLifecycle lists
  the edges that differ).
* Quotas are exceeded by up to one run for every dispatcher but the first
  (`BoundedOvershoot`).
* A task created while the one it needs is being deleted stays in `todo` for
  ever: it is never started. `add_task` of the SQLite store checks no dependency
  at all. The dependency of a paused task may be deleted, and the task cannot be
  resumed then. An edit may lower the number of steps to those done and leave the
  task in progress.
* A daemon that dies after it recorded an `error` and before the save leaves the
  slot to an operator (`resolve_claim`). A schedule whose dispatch raises ends the
  schedule daemon.
* Unfinished directories of generators that died before the very first
  publication are not collected as long as there is no `current.json`, and count
  towards both limits: the first publication may be refused for good.
* Kept directories and the reserve of a new one may exceed the byte limit of the
  dashboard store when artifacts grow beyond 8 to 12 MiB, depending on the readers:
  every generation is refused then, although each artifact is within its own limit.
* Occurrences between the one a schedule is due at and the next one in the future
  are passed without a run and without a record.
* On SQLite a run's cancellation request may be undone by a resume or an approval
  that read the row before.
* A browser may for a while be told an older cursor than it had (a slow probe
  answers late); `ClientCatchesUp` says that this does not last. One that connects
  after another's refresh has failed takes the change for its baseline, so
  `ChangesArePublished` speaks of who is connected when the change happens.

## What is not modelled

* Content: command lines, environments, captured output, metadata, wording, and
  what the dashboard shows.
* Row-level security, roles and memberships. `projects.status` "needs review" is
  as invisible to the runs as "archived" and not kept apart from it.
* SQLite `save_submission`, which looks its key up before its transaction, so
  that a racing insert hits the unique index.
* Clock skew between hosts: `stale`, `overdue` and leases are nondeterministic,
  which covers any clock, but not a clock that goes back.
* Effects left `pending` by a process that died stay pending; the code has no
  recovery for them, and the models none either.
* Of the local scheduler: the `enabled` flag, the look-back of thirty days, jobs
  removed from the registry, readiness receipts.
* Of the task stores: the order of creation, which only decides which of several
  candidates comes first; the events, which no task operation reads.
* Of the dashboard store: sizes that are not a multiple of 4096 bytes, the temporary
  file of a writer killed while it wrote one, which counts as used until its
  directory is collected, and the refusals of foreign directories and files, which
  the program does not make.
* Of the scheduling of queued runs: work without end. Runs come back by requeueing
  while others wait, but `MaxRuns` bounds them, so `QueuedRunsStart` says little of a
  project that always has another run.
* Of the dashboard: the exports outside the store, the limit of 32 streams, error
  reports, the other routes of `dashboard_api.py`.
* The outbox: its messages are appended in the transaction of the change, and no
  process runs the publisher.
* The rest of the repository, which is most of its lines: reports, renderers,
  scripts, prompts, migrations, release tooling. It keeps no state of its own
  between steps, or is run once by hand, and has no protocol to check.

## The plan

What would come next:

1. The service watchdog: `audit_and_heal` of two watchdogs, the launch guard, the
   pause flag and the restart budget; restarts in any window are bounded, nothing
   is launched once a pause was accepted, a service that is down is started again.
2. The small sequential parts: rate limit and admission of the router, browser
   sessions, the OTLP worker.
3. Larger instances: two browsers, two readers, two projects to archive.
4. Proofs: `SuccessIsHonest` and `PausedNeverCompletes` of the SQLite run store.
