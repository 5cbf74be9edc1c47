# A TLA+ verification of tgmonitor

tgmonitor collects cloud-drive links from Telegram channels, checks them,
copies the resources to cloud-drive accounts of the operator, publishes new
shares for them and replaces the old links.  This directory holds TLA+ models
of the parts of it where several processes, threads or requests act on the
same data, the TLC configurations that check them, and TLAPS proofs.

Paths below are relative to `src/`.

## 1. Inventory

Three processes share one PostgreSQL database:

* the **API** (`app/api`, FastAPI): handlers are coroutines on one event loop
  with synchronous database calls, so a handler gives up the loop only where
  it awaits a provider, a validation or an AI model; beside the loop run, in
  threads, the scheduler of the deduplication, the backup queue, and the
  dependency of every request that looks up whose token it carries;
* the **worker** (`app/worker/main.py`): one loop guarded by an advisory lock,
  and the threads of the link-check plans;
* the **monitor** (`app/core/monitor.py`): the Telegram client, coroutines.

They exchange rows, and link checks exchange files; there is no message queue.
Transactions run at READ COMMITTED through SQLAlchemy sessions: a statement
sees what was committed when it ran, an UPDATE writes only the columns the ORM
saw change (a JSON column as a whole), and blocks where two meet on a row.  A
connection that is returned to the pool commits (`models/models.py`,
`pool_reset_on_return="commit"`).

| Component | State | Operations | Hard behaviour | What makes it correct |
|---|---|---|---|---|
| Transfer queue `services/pan_transfer/{queue,worker,batches}.py` | batch status; item status, lock, attempts, staging snapshot, share URL, replacement | claim, recycle, transfer, reuse, share, validate, replace, finish; create, start, cancel, retry, delete | requests overlap the worker's transactions, crashes in the middle of an item, retries, stale locks | no effect repeated, attempts bounded, no item or batch stuck, batch status agrees with the items |
| Worker process and lock `worker/main.py` | advisory lock of a pooled connection | claim, work, release; signals, kills | claim and release run on connections the pool chooses; the lock is lost with its connection while the loop goes on | at most one worker executes; a lock is not left behind |
| Follow tasks `services/pan_transfer/follow_tasks.py` | `status`, `task_state`, `next_check_at`, automation settings, candidate | check with its automation; create, queue, pause, resume, settings, clear candidate, delete | a check keeps its copy of the row over every external call, and requests change the row meanwhile, from a row they have read without a lock; crash in `checking` | an active task is always going to be checked again |
| Follow sync `services/pan_transfer/follow_sync.py` | the batch of a task, `sync_queued` | create the batch (request or automation), success and failure hooks | a task and its batch change in different transactions; the guard is read before an await | a task returns from `sync_queued` when its batch ends |
| Recognition `services/resource_ops/recognition_*.py` | task status, tries, retry time, binding | queue, claim, resolve, error, retention | a request re-queues a task the worker is at; a resolver rolls back its caller's transaction | accepted requests are claimed, retries have a time, a match stays |
| Backup `services/backup_service.py` | runs, targets, artifacts, the queue thread | queue, schedule, execute, prune, delete | wake-ups of the thread, restart in the middle of a run, files and rows change in different steps | one run at a time, no pending run forgotten, the newest artifacts stay |
| Deduplication `services/dedup_runtime_*.py` | settings row, run lock, messages | schedule, run, delete | the JSON of the settings is written as a whole by several actors; two runs; a deadlock with recognition; others rewrite links during a pass | one pass at a time, no link lost, settings stay |
| Link check `services/link_check_runtime.py` | status file, memory of each process, marker | start, stop, run, recover | the same status in three places; a stop during a run; a process dies with its marker | one task at a time, a stop is obeyed, the marker is freed |
| Link check plans `services/link_check_plan_service.py`, `link_check_selection_service.py` | window, cursor, mode | claim, select, advance, edit | requests change the plan while a batch runs; crashes between batches | what a plan says it has covered was checked; a window is completed |
| Publishing `services/pan_transfer/publishing.py` | records, messages, rules, the directory | publish, republish, rule, edit, archive, take down, reclaim, delete, validate, refresh | an answer writes back what was read before it was awaited | a retired record does not come back; "reclaimed" means the directory is gone |
| Resource catalogue and clicks `services/resource_ops/{catalog,tracking}.py` | targets, references, events, daily statistics | index, click, unlink, delete, purge | several transactions of several statements over one target | statistics count the clicks there are; orphans are removed |
| Cloud drives `services/pan_transfer/providers/{quark,baidu}.py` | the directory of a resource, its contents, the recycle bin; what was posted and is not done | plan what is missing, transfer, replace, share, delete, purge | the drive works on after it has answered or was given up; retries, partial saves, deletions by path | a transfer brings what it took, once; a purge is for good |
| Accounts and sign-in `services/account_service.py`, `account_auth_service.py`, `linuxdo_auth_service.py` | accounts, sessions, batches with seats, policy | sign in and out, look up a token, create, change, delete, admit | a thread writes a session back that it read before its end; validity ends by itself | what is ended stays ended; limits and seats are kept; an administrator remains |
| AI centre `services/ai_center/service.py` | providers, models, a route with steps, health of providers | save, delete, refresh, test, migrate; execute the route | executions keep what they loaded while requests change the route; steps are renumbered | steps have distinct places and existing providers; one preferred model |
| Monitor and channels `core/monitor.py`, `services/channel_*.py` | mapping, attempts, messages, daily counts | refresh, handle a post, count, recount | savepoints, lost answers, the table changes under the mapping | a post is saved once or logged; counts agree |

`PROJECT.json` lists every component with its status and every hazard with the
line where it bites.

## 2. Plan

Done, in the order of how much depends on the behaviour:

1. `TransferQueue`, its abstract specification `ShareEffects`,
   `MCTransferQueue` and `TransferQueueProofs`.
2. `WorkerLock` and `WorkerLockProofs`.
3. `FollowSync`, `MCFollowSync` and `FollowSyncProofs`.
4. `BackupQueue`, `RecognitionQueue`, `DedupPass`, `DedupSchedule`,
   `DriveFolder`, composed in `MCJobs`; `BackupQueueProofs`,
   `RecognitionQueueProofs`, and `JobsProofs` about the other three and the
   composition.
5. `LinkCheckTask`, `LinkCheckPlan`, `PublishRecords`, `LinkCatalog`,
   `MonitorIngest`, composed in `MCServices`, with `ServicesProofs`.
6. `AccountSessions` and `AiRoutes`, composed in `MCAdmin`, with `AdminProofs`.
7. `MCLive`: liveness of the queue, backup, recognition, plans and monitor.

Left, in this order: link replacement and transfer accounts (small, all or
nothing, one default); the security settings; the choice of a candidate and the
diagnosis of files, and the parsing of posts, which are pure functions.  Every
invariant and every action property that a passing run checks is a theorem; what
is not is liveness, which the prover cannot reach (section 8).

## 3. The transfer queue

### State

| Variable | Code |
|---|---|
| `batch` | committed `PanTransferBatch.status`, plus "absent" (not yet created) and "deleted" |
| `item` | committed `PanTransferBatchItem` columns: `transfer_status`; `locked` (`locked_at` is set), `stale` (it is older than the stale limit), `due` (`next_retry_at` is reached), `attempts`, `staged` (`extra_json.staging_snapshot`), `shared` (`new_share_url`), `replaced` (`replacement_status`) |
| `worker` | for each worker process the place in `process_next_pan_transfer_item` and what its session holds: the claimed item, the columns read with it, the batch status read, the stale rows read |
| `api` | the open transaction of a cancel or retry request: what it has read and will write |
| `tally` | history only: claims since the last manual retry, staging copies and shares recorded |
| `crashes`, `retries` | history and bounds |
| `raced` | history only: batches of which a commit changed a status, or one of their items, while another transaction had read it and had still to write (`Races`) |

Time is abstracted: a lock becomes stale, a retry becomes due, by actions of
their own.  The content of names, paths, URLs and logs is left out.

### Actions

`Poll` reads the stale rows, `Claim`, `ClaimRefused` and `ClaimNothing` write
the recycled rows, refresh their batches and take an item
(`claim_next_pan_transfer_batch_item`; the claim is committed just before the
first call to the provider).  `FirstCall` chooses that call from what the row
records.  `TransferOk`, `ReuseValid`, `ReuseInvalid`, `ShareOk`, `ValidateOk`
and `CallFails` are the answers, each committed before the next call.  The
last transaction of an item is three steps: `FinishRead` reads the batch,
`FinishCount` counts the statuses of its items, `FinishCommit` writes both.
`Vanished` is the rollback when the rows were deleted under the worker,
`Crash` loses everything that was not committed.

`Create`, `Start` and `Delete` are one step: what they decide from cannot
change between their read and their commit (`Create` makes new rows; only
another request changes a draft; a terminal item changes only by a request).
`CancelRead`/`CancelCommit` and `RetryRead`/`RetryCommit` are split.  A commit
waits for rows the worker has updated and not committed (`RowLocked`) and
writes only the columns whose value differs from the one read, as the ORM does.
The API handlers are coroutines without an `await` between their first read
and their commit, so requests do not overlap each other.

### Overlap of requests and the worker

The constant `Overlap` says how long a request may stay open:

* `"slow"`: any time, even while a provider answers several calls;
* `"prompt"`: it may overlap the short transactions of the worker, but no
  provider call starts and ends inside it.

The runs that expect no violation use `"slow"`.  Nothing in the code keeps the
short transactions of the worker and of a request apart, and a commit computed
from rows that have changed meanwhile can undo what the other one wrote.  The
batches this happens to are in `raced`, and the properties of
`MCQueueRaces.cfg` except them by name; section 10 says which race breaks which
property.  Every other batch keeps them however requests, crashes and the worker
overlap: in particular over everything that happens during a provider call.  A
cancellation or a retry that arrives between two transactions of the worker, or
reads and commits inside a call, puts no batch into `raced`.

### Properties

| Property | What it says |
|---|---|
| `RetryBudget` | an item waits for a retry only while attempts remain |
| `EffectsNotRepeated` | a recorded staging copy or share is never made again |
| `RunsBounded` | between manual retries an item is executed at most `max_attempts` times, plus once per crash |
| `CompletionsAreWhole` | of a batch that has not raced: a completed item has its share recorded and its links replaced (`CompletedIsReplaced`), and a batch is reported completed only if all its items are (`CompletedBatchIsComplete`) |
| `BatchAndWorkAgree` | the same: a running batch has an active item (`RunningBatchHasWork`), and an item waits only in a batch that may still run it (`WaitingIsReachable`) |
| `EndingsStick` | the same, what a step may never do: undo a cancellation (`CancelSticks`), undo a completion (`CompletedIsFinal`) |
| `WorkEnds` | nothing stays in processing, in the queue, or running for ever |
| `ImplementsEffects` | the queue implements `ShareEffects`: staging, then a new or a continued share, each recorded once |

Definitions marked "Sensitivity" in a module are forms of the action or helper
that follows them with a plausible bug.  For each property there is one that
makes TLC find the property violated on the run's own instance: the instance is
large enough, and the property does depend on that piece of code.

### Runs

All runs have one batch; batches interact only through the order of claims.

| Configuration | Instance | Result |
|---|---|---|
| `MCTransferQueue.cfg` | two items (one with a share to continue), one worker, slow requests, `max_attempts` 2, one crash, one manual retry | passes |
| `MCQueueRaces.cfg` | the same, two manual retries | passes (4.4 million states) |
| `MCLive.cfg` (its part of the queue) | two items, slow requests, one crash, no manual retry, fairness; `raced` holds the batch from the start, because `WorkEnds` does not except it and the history would only multiply the states | passes |
| `MCQueueStranded.cfg` | as the first, requests that overlap short transactions (`"prompt"`), one manual retry | violates the property it checks, see section 10 |

**Bounds.**  `MaxAttempts` = 2 is the smallest budget with both a retry and an
exhausted budget; the code's default is 3.  Two items are enough for every
value of the batch status and for one item to settle the batch while the other
changes.  `MaxCrashes` bounds crashes and rolled back iterations, `MaxRetries`
manual retries; with two retries and a crash (`MCQueueRaces.cfg`) a row goes
through crash, recycling, failure and retry more than once.  `MaxRuns` bounds
the executions of one item; it is reached only with two workers, whose attempts
overwrite each other's count.  The runs disable the deadlock check: the
system may stop with every batch ended and the bounds used up.

**Fairness.**  `FairSpec` assumes weak fairness of a worker's steps, of the
clock for each item, and of closing an open request.  The worker loop polls
without end, calls to providers have timeouts, and a worker that died is
started again by systemd (`scripts/tg-worker.service`, `Restart=always`), so a
worker that can step eventually does.  Nothing is assumed of the
administrator: no run needs a batch to be created, retried or cancelled.  The
liveness properties hold because crashes are finitely many; a task that kills
its worker every time is recycled without end (`RunsBounded` says once per
crash, section 10).

## 4. The worker lock

`WorkerLock` models `worker/main.py` down to the connection each statement runs
on.  A session takes a connection from the pool of its process at its first
statement and gives it back at each commit or close; the pool hands out the
connection that was returned last (`models/models.py`, `pool_use_lifo`), and
`pool_recycle` and `pool_pre_ping` may replace it at that moment.  A
session-level advisory lock belongs to the connection.

| Variable | Code |
|---|---|
| `pc`, `task` | where `main` is: claim, granted or denied, in a task (`work`: with a connection; `task`: between two of its commits), `loop` between tasks, the `finally` block (`release` to `unlocked`); how many of the four tasks of an iteration are done |
| `stop` | `_stop_event` |
| `pool`, `uses` | idle connections of the process, last one next; the connection the main thread and the scheduler thread have |
| `hold` | how often a connection holds the lock (PostgreSQL counts) |
| `lost`, `failures` | history, bounded: replaced connections that held the lock, exceptions that leave the inner loop or the `finally` block |

`TryLock`, `Enter` and `Wait` are the claim; `Open`, `Commit` and `Close` a
session of a task; `Iterate`, `Leave` and `Fail` the ends of an iteration;
`Report`, `Reported`, `ReportFails`, `Unlock` and `Unlocked` the `finally`
block; `Signal`, `Exit`, `Kill`, `Start` the life of the process under systemd;
`Tick` and `TickEnds` the link-check scheduler thread, which shares the pool.

| Configuration | Instance | Result |
|---|---|---|
| `WorkerLock.cfg` | two processes, two connections each, two tasks in an iteration, one replaced connection, one failure, fairness | `ExclusiveUnlessLost`: two processes execute at once only after a connection was replaced while it held the lock.  `WaitingEnds`: a process that waits gets the lock, or another one executes; no lock outlives its process |

`WaitingEnds` says nothing after a failed iteration, because then a lock can be
left behind.  The unlock in the `finally` block runs on the connection the pool
offers, which need not be the one that holds the lock (the scheduler thread
changes their order); it returns `false`, which nothing looks at.  The process
then retries ("resource worker crashed before next retry", `main.py:137`) and
is refused while the pool offers it a connection other than that one.

A pool of two is the smallest in which the statements of one thread can move to
another connection; each process has one thread beside its main loop (the
scheduler; its plan threads take connections in the same way).  `FairSpec`
assumes that a running process goes on (its waits have timeouts) and that a
scheduler query ends; signals, kills, ticks and restarts are not assumed.  The
runs disable the deadlock check, as those of the queue do.

## 5. Follow tasks

A follow task is a row that watches a resource.  The worker's loop executes at
most one batch item, then checks at most one task that is due: it validates the
links, looks for a candidate source, and its automation may queue a sync, a
batch with one item.  The task then waits in `sync_queued` until the worker has
executed the item and a hook in that transaction sets its state and its next
check.  The administrator changes tasks and batches at any time.

### State

| Variable | Code |
|---|---|
| `task` | committed `PanTransferSyncTask`: `status`; `state` (`task_state`, the two invalid states in one); `next` (`next_check_at`: NULL, in the future, reached); `auto` (`automation.enabled` in `extra_json`); `cand` (a candidate is stored) |
| `batch` | the batches of syncs with their one item: `status`, the task, `cancelled` (the batch status), `attempts` |
| `pc`, `turn`, `on`, `mem` | where the worker's loop is, the task or batch it works on, its copy of the task row |
| `aim`, `copy` | for each open sync request its task and the row as it was read |
| `edit`, `seen` | the task of the request that is open on the event loop, and the row as it was read |
| `dropped` | history: tasks whose batch ended without a report (cancelled before it started or by recycling, or a hook that failed), whose check died with its worker, or whose row was last written by a commit that waits for something that had ended since it was read: settings that had read a check or a sync, a hook that had read a pause.  A commit that leaves the task scheduled or at rest takes it out |
| `requests`, `crashes` | history and bounds |

### Actions

The session of a check has `expire_on_commit` off and commits before every
external call, so `mem` is read once (`ClaimTask`) and written back by every
later commit: `Flushed` is that UPDATE, the columns that differ from the copy
and those that were assigned a new value (`extra_json` is always rewritten as a
whole).  `CheckWrites` is a commit in the course of a check, `CheckFinds` the
commit of its result before the automation, `CheckEnds` an end without
automation, `Automation*` the automation, `CheckLost` a check whose row was
deleted.

Whoever else changes a row reads it without a lock and commits later, and each
is two steps: a request (`EditReads`, then `QueueCheck`, `Pause`, `Resume`,
`Settings`, `ClearCandidate` or a rollback, `EditFails`), the hook of an item
(`ItemReports`, then `ItemSucceeds` or `ItemFails`), the exception handler of a
check (`CheckRaises`, then `CheckFails`), and a sync request, which awaits a
directory scan in between (`SyncBegin`, then `SyncCommit` or `SyncAborts`).
Requests overlap the worker, another process, and each other only at that
`await`.  `Settings` computes the next check from the state it has read
(`_schedule_follow_task_next_check`).  `CreateTask`, `DeleteTask` and the
requests on a batch are one step: they make a row, delete it, or decide from
what only another request changes.  Of the queue the model has what concerns the
task: claim, recycling, success, failure with or without another attempt,
cancel, retry, delete.  How an item is executed, and the overlap of a cancel or
retry with the worker's transactions, is in `TransferQueue`.

### Properties

* `NotForgotten`: a task not in `dropped` that shows `checking` is being
  checked, one that shows `sync_queued` has a batch that will be executed, and
  an active one without a next check has one of the two.  It relates the row,
  the worker's place and the batches; the code keeps it only because the last
  UPDATE of a check always differs from the copy in both columns that matter,
  and it does not keep it for the tasks in `dropped`, which the definition of
  `dropped` describes one by one.
* `EventuallyChecked`: an active task not in `dropped` is checked at some time.

### Runs

| Configuration | Instance | Result |
|---|---|---|
| `MCFollowSync.cfg` | one task, two interchangeable batches, one sync request at a time, two requests, one crash, one attempt per item | passes (1.3 million states); two batches of one task, a sync committed during a check, settings committed after the check or sync they had read, and a retry of a failed batch all occur |
| `MCFollowLive.cfg` | one batch, two attempts, one request, one crash, fairness | passes |

Tasks share nothing but the worker, which `turn` and the claims represent; a
second task adds only its place in the queue, which the fairness of `ClaimTask`
stands for, so the runs have one.  The proofs are for any number.  Two
requests are a sync and a change of the row or of its batch while it is open.
A hook that has read a pause and commits after the task was resumed takes three
(a sync, a pause, a resume): that exception is covered by the theorem, not by the
run.  The runs disable the deadlock check: the system may stop with every
task deleted and the bounds used up.

`FairSpec` assumes weak fairness of the worker's steps through its loop (calls
have timeouts, a dead worker is restarted) and of the clock, and strong
fairness of `ClaimTask(t)`: the claim orders by `next_check_at`, so of the due
tasks the one due longest is taken and none is passed over for ever
(`follow_tasks.py:4971`).  Nothing is assumed of requests.

## 6. Queues and schedules of the API and the worker

Five components that share nothing but the database; `MCJobs` composes them so
that one of them moves in a behaviour (`part`).

### Backup (`BackupQueue`)

| Variable | Code |
|---|---|
| `backups` | rows of `backup_runs`: `status`; the target; the second the file is named after; `path` (`local_path` or `remote_path`) |
| `targets` | rows of `backup_targets`: they exist, are scheduled, are due |
| `files` | artifacts that exist, locally or remotely |
| `threads`, `current` | queue threads of the process, the one in `_queue_worker_thread`; a thread's place in `_run_backup_queue_worker`, its run, whether it holds `_queue_run_lock`, what it has pruned and not committed |
| `dispatching`, `halfway` | callers between their commit and `dispatch_pending_backup_runs`; requests between their check (or a remote deletion) and their commit |

`StartBackup` and `ClaimDue` insert runs and commit, `DispatchSteps` look at the
thread under `_queue_worker_guard`, `ThreadSteps` follow a thread: `TryLock`,
`ClaimRun` (the oldest pending run), `Perform`, `SaveResult` or `SaveFailure`,
retention (`Prune` removes an artifact, `SavePruned` commits), `ReleaseLock`,
`ClearCurrent`, and `Recheck` looks at the queue once more.  `DeleteTargetCheck`/`DeleteTarget`, `DeleteRemoteFile`/
`ClearRemotePaths` and `DeleteRun` are requests; `CrashBackup` and
`DatabaseError` are the faults.

* `RunningIsExecuted`: at most one thread executes, and a run marked running is
  the one it executes.  Excepted are runs left by a fault (nothing looks at
  them afterwards) and runs of a target deleted meanwhile.
* `PendingIsServed`, `PendingEnds`: no wake-up is lost; a pending run ends.
  The exceptions are a fault and a thread that was replaced between its
  creation and its start (`overlapped`).
* `BackupsAreKept`: a success that names an artifact has it (`ArtifactExists`),
  and retention never takes one of the newest `retention_count` (`NewestKept`).
  The exceptions are the ones the code really has: a removal about to be
  recorded or hit by a fault, two runs of a target in one second, which name the
  same file, a request that deletes the file before its run is saved.

### Recognition (`RecognitionQueue`)

`tasks` and `bindings` are the rows per link, `resolver` the open transaction of
a worker, `asker` that of a request, `cleanup` the retention run that is part of
the worker's transaction.  `AskReads`/`AskCommits` write the columns that differ
from what was read.  `Iterate`, `ClaimTask`, `ClaimNothing`, `Resolve`,
`ResolveRaises` and `WriteError` are the worker: a resolver that fails rolls back the transaction of its caller, the
claim and the retention included, and the caller goes on with the error path.

* `RequestsAreKept` == `AcceptedIsQueued /\ RetryComes`: an accepted request is
  still to be claimed unless it overlapped with the worker's transaction
  (`missed`), and a task that waits for a retry has a time for it and tries
  left.
* `MatchStays`: a match is not lost to a later failure, unless two workers were
  at the link (`doubled`).
* `AskedIsServed`: accepted links are claimed, and the retention run is recorded
  in the end although failing resolvers roll it back.

### Deduplication (`DedupPass`, `DedupSchedule`)

`DedupPass` is the algorithm over messages with links and times, newest first,
over the links as one query has read them (`seen`).  Between its steps others
change the messages: they are deleted (`OtherDeletes`), lose invalid links
(`Prunes`), get the link of a new publication (`Republishes`), or the share that
took the place of another one (`Replaces`).  `moved` is the history of the links
put into a message or taken from it since the pass began.  `DedupIsSafe` ==
`[][DoomedIsCovered /\ LinksRemain]`: what is doomed has all the links that were
read in a message that is kept; and a pass that deletes a message leaves each
link it has by then on another one, unless others put that link into the
message, or took it from a keeper, since the pass began.  The exception is real:
the pass deletes by id what it chose by its copy.

`DedupSchedule` is the settings row and those who write it as one JSON value:
the scheduler thread, requests, the worker.  `rowLock`, `runLock` and
`targetLock` are the locks; the worker keeps the row locked while it recognizes,
and a pass that has deleted link targets waits for the row while the worker
waits for a target (`DeadlockDetected`).  `OneDedupExecutes` says that two
passes never overlap, `SettingStays` that what the deduplication and the worker
write about themselves undoes a saved setting only from a copy that was read
before it was saved.

### Cloud drives (`DriveFolder`)

The directory of one resource at one of the two drives.  The providers poll: they
post a save or a deletion and look until it is done, or give up, and what was
given up may still take effect.

| Variable | Code |
|---|---|
| `shared`, `exists`, `content`, `clash` | the source share; the directory, what it holds and which save brought it; directories of the share whose name a file has there |
| `postings`, `wipes`, `dropped`, `onTheWay`, `bin` | what the drive has still to do: saves, deletions of contents, the deletion of the directory, and what reaches the recycle bin later |
| `pc`, `mode`, `groups`, `plan`, `awaited` | `transfer_to_staging`: its step, the selection and what of it is left, the rows it waits to see gone |
| `dpc`, `purge`, `answer` | `delete_staging_target` |
| `out`, `preferred` | what the last share covers, the place the follow task remembers |
| `wanted`, `before`, `lostSave`, `lostWipe`, `unclear` | history: places a transfer has filled, saves posted before it, what was given up |

`RequestStandard`, `RequestIncremental` (a check plans what is missing; a
conflict or an empty plan asks for nothing) and `RequestReplacement` ask for a
transfer; `BeginTransfer`, `RowsGone`/`PathsGone`, `TakeGroup`,
`TaskSeen`/`TransferAnswered`, `TransferEnds` and `Share` execute it, `CallFails`
breaks it off at any call.  `DeleteAsked` to `EmptinessSeen` delete the directory
and empty the bin.  `SaveLands`, `WipeLands`, `DeletionLands`, `BinShows` and
`SourceChanges` are external: of the drive it is assumed that a save brings its
entries one by one and a directory before its contents, that the deletions of an
account take effect in order, at Quark by identity and at Baidu by path, and that
what is deleted is seen in the bin some time later.

* `DriveIsWhole` == `Whole /\ SavedOnce /\ ReplacedWhole /\ PurgedForGood`: a
  transfer that ended well has brought all it took, once; a replacement leaves
  nothing of what there was; a deletion that says the bin was emptied leaves the
  directory in neither place.  The exceptions are jobs that were given up
  (`lostSave`, `lostWipe`, `"given_up"`), an earlier deletion that was not looked
  for in the bin, and another directory of the same name in the bin, for which
  `BinSeen` takes the wrong one.

### Runs

| Configuration | Instance | Result |
|---|---|---|
| `MCJobs.cfg` | two targets (one remote), two threads, retention 1, two runs, two disturbances; two links, two resolvers, two tries, two requests, a fault; three messages, two links, times 0..2, window 2, one pass, one transaction that rewrites links; three hours, three saves, one failing pass; a share of a directory with a file and a file at its root, two requests, one failing call or change of the source (three events in all), either drive | passes |
| `MCLive.cfg` | one target, two threads, two runs, one disturbance; two links, one resolver, one fault (and the queue of section 3, the plan and monitor of section 7), fairness | passes |

Two targets of different kinds, two runs and retention 1 make every run one that
is pruned or kept.  Backup was also checked with retention 2 and three runs
(one disturbance, 1.6 million states), recognition with one link, three tries
and four requests (560 thousand).  The window of a pass is wide enough for
messages that are close and messages that are not; a pass starts from any messages,
so a second one adds nothing, and one rewrite in its course is what takes a link
away under it (`MCJobs` has 2.2 million states).  Threads, links and resolvers are
interchangeable, so `MCJobs` uses symmetry; `MCLive` does not, as its properties
are temporal.

`BackupFairness` assumes that created threads run and callers of dispatch go on
(threads of a live process); `RecognitionFairness` that the worker's loop goes
on, requests commit and time passes.  Faults are bounded by constants.

## 7. Checks, publishing, catalogue, monitor, accounts and AI

`MCServices` composes the first five in the same way, `MCAdmin` the last two;
`MCLive` adds the liveness of the plan and the monitor.  Totals (`ClicksOn`,
`RowsOf`, `LinksOf`) are cardinalities of sets of pairs, which the prover can
reason about, not recursive sums.

### Link check tasks (`LinkCheckTask`)

The status of a task is in three places: its file, and the memory of each
process.  `statusFile`, `memory` and `marker` (`_active_task.json`) are these,
`caller` the handler or plan thread of each process in the middle of
`start_or_reuse_task`, `request_task_stop` or a read, `runner` the thread of
each task, `rows` what is saved of it.  Reads, stores into the memory and
writes of a file are the steps.  `CrashCheck` ends a process with its threads
and memory.  The marker names its owner by a bare process id: `pid` is the id of
each process, and the one started after a crash gets another id or the same one, as
the first process of a container always does.  An owner is seen as dead only
when its id is free (`PidIsFree`), and not even then if a stranger has it.

* `MarkerGuards` == `OneTaskRuns /\ MarkerIsFreed`: one task runs at a time, and
  the marker lets the next one in.  Excepted: a task created, or a marker
  removed, on the strength of a marker that had been replaced since it was read
  (`crossed`), a stop request that overwrote a final status (`revived`), and a
  task whose process died and got its own id again (`orphaned`).
* `StopIsObeyed`: a stop request written during the network calls of a task is
  seen before anything is saved, in whichever process the task runs.

### Link check plans (`LinkCheckPlan`)

`plan` is the row (mode, window, cursor, `through`, enabled), `exec` the plan
thread with its preview and its copy, `edit` a request, `chat` the messages.
Selection is modelled with its batch target, overlap and safety limit.

* `CoveredIsChecked`: every message with links up to
  `completed_through_message_id` was in a completed batch, across windows, runs,
  crashes, lost messages and changes of mode; unless a change of mode overlapped
  with the opening of a window (`mixed`).
* `WindowCompletes`: an opened window is completed while the plan is enabled,
  unless a batch exceeds the safety limit (`oversized`).

### Publishing (`PublishRecords`)

`records` holds the rows with the parts of `extra_json` that matter (lifecycle,
rule, history, whether it has a share); `feed` the messages online;
`directory` what became of the drive directory of an item; `waiting` the
handlers that await a provider or a validation with what they read before;
`frozen` the event loop blocked by a row lock of one of them.

* `RetiredStays`: a retired record comes back only by a new publication or by an
  answer that writes back what was read before it was retired.
* `ReclaimedIsGone`: a record that says "reclaimed" has its directory deleted,
  or its rows.
* `RulesPublish` (violated): an enabled rule publishes.

### Catalogue and clicks (`LinkCatalog`)

One link target and its references, click events and daily statistic, with the
transactions of the monitor (`save`), the API (`index`, `click`, `delete`,
`unlink`) and the deduplication (`delete`), statement by statement with the row
locks each statement takes.  Others protect the target (`Protects`: a transfer
item, its log, a recognition task), and delete what protected it without a look
at the target (`Unprotects`: `delete_pan_transfer_batch`); and the retention run
throws the events of the day away (`EventsExpire`).  It keeps the statistic
longer (by default 365 days to 90); that the statistic goes too, in the end, is
left out.

* `CatalogAgrees` == `StatMatchesClicks /\ TargetIsReferenced`: the statistic
  counts the clicks there are, and once their events are thrown away those there
  were, until a deletion counts anew; an orphan is removed.  The exceptions: two
  deletions overlapped, and a target that only its protection named when that
  ended (`released`).

### Monitor (`MonitorIngest`)

`channelRows` is the table, `mapping` and `signature` what the process knows,
`refresher` the refresh of the loop and of a handler that waits for one,
`handler` the coroutine of each post with its attempts, `copies` and
`channelStat` what it stores, `cleaner` a cleanup of the API.

* `PostsAreAccounted` == `SavedOrLogged /\ StatCountsMessages`: a post is saved
  once or logged as lost, unless the answer of a commit was lost; the daily
  count agrees with the messages except where `drifted` names a reason.
* `AddedIsMonitored`: a channel that was added is monitored in the end.
* `ChangesTakeEffect` (violated): other changes take effect.

### Accounts and sign-in (`AccountSessions`)

`accounts`, `sessions`, `batches` and `policy` are the tables and the settings
that matter; `asking` the threads in which `get_current_user` answers for a
token: it reads the session (`ReadsSession`) and the account (`ReadsAccount`),
and writes the session, either its `last_seen_at` (`Touches`) or its end
(`RevokesRestricted`), while handlers change both.  Handlers are steps:
`SignIn`, `SignOut`, `CreateAccount`, `UpdateAccount`, `ChangePassword`,
`DeleteAccount`, `SavePolicy`, `SaveBatch`, `Admit` (LinuxDo) and `Bootstrap`.
The policy has the limit, who is exempt, the window in which a session counts as
online, and how long a new session lasts; `SavePolicy` changes any of them.
`tick` is the clock by which sessions and accounts end.  `epoch` (how often an
account's sessions were ended), `granted` (the limit at its last sign-in),
`revived`, `lapsed` and `lowered` are history.

* `OpenIsCurrent`: what ends the sessions of an account ends all of them for
  good, whatever a thread has read before.
* `LimitIsKept`: an account has no more sessions online than the limit at its
  last sign-in, but for sessions that were offline then and have come back online:
  they are used again, or the window is made longer.
* `AccountsAreKept` == `AdminRemains /\ SeatsAreKept`: an administrator who can
  sign in with a password is left, unless the validity of one has ended by
  itself; a batch admits as many as it has seats, unless these were lowered
  below its members, and one batch at most admits.

### AI centre (`AiRoutes`)

`providers`, `listed`, `offered`, `preferred` are the providers and their
models, `route` and `steps` the route, `executions` what each execution has
loaded and tried.  Requests are steps, each beginning with the migration of an
old provider (`MigrateLegacy`): `SaveProvider`, `DeleteProvider`,
`RefreshModels`, `TestProvider`, `SaveRoute`.  An execution begins with the
candidates of the route (`Begin`) and tries one after another (`Answers`,
`Fails`, `BreaksOff`); at its end it writes the columns of a provider's health
that differ from what it loaded (`Marked`).  The order in which candidates are
tried by score is any.

* `RoutesAreWhole` == `OneDefault /\ PreferredIsOne /\ StepsAreOrdered`: one
  default provider at most, a provider with models prefers one of them, an
  enabled one if it has any, no two steps have one place, every step names a
  provider there is.

### Runs

| Configuration | Instance | Result |
|---|---|---|
| `MCServices.cfg` | two tasks, two processes, three requests or crashes; three messages of at most two links, batch target and limit 2, overlap 1, two batches, one edit, one fault; one link and one item to publish, two waiting handlers, history 2, two records, three messages, three requests; two messages and two clicks of a target, two requests or protections; two channels, two posts, two rows, two attempts, two edits, one fault | passes |
| `MCLive.cfg` | three messages of one link, batch target 1; two channels, one post, one attempt; one fault each, fairness | passes |
| `MCAdmin.cfg` | two accounts with two sessions, one thread, two ticks, windows of 0 and 1, two durations, limits 0 (none) and 1, two requests; three accounts, two batches, three requests; two providers with two models, four requests; three steps, two executions (one a test), two requests, one tick | passes |
| `PublishRules.cfg`, `MonitorProfile.cfg` | one record; one channel; fairness | each violates the one property it checks, see section 10 |

Two tasks are enough for one to take the marker of the other, two processes for
a status to be in two memories.  A target of 2 with messages of two links makes
batches that are exact, that overshoot and that exceed the limit.  The monitor
was also checked with three edits and two faults (2.0 million states).  `MCAdmin`
has four parts, because sessions need a thread and few accounts, seats many
accounts and no thread (2.8 million states).  Two administrators beside the first
are needed for one to be removed on the strength of the other, two steps of a
route for one to be set aside while the other takes its place.

`LinkCheckPlanFairness`: the scheduler ticks, threads and requests go on, the
next day comes.  `IngestFairness`: the refresh goes on; `PublishFairSpec`: the
worker's loop turns and time passes.  All runs disable the deadlock check: the
bounds may be used up.

## 8. Proofs

Every theorem is about a specification for every value of its constants: any
number of rows, workers, threads, processes, messages, requests and failures,
from the named assumptions of the module that declares the constants.  In each
module a strengthening of the properties is proved inductive, one step per
action; below is what it adds and why.  The bounds of the runs (`MaxCrashes` and
the like) are constants too, so no theorem depends on their size.

### `TransferQueueProofs`

* `TypeCorrect`: lemmas on what updating a row or a worker record preserves.
* `RowsAlwaysSound`: `Spec => [](RetryBudget /\ ProcessingIsLocked)`, for any
  number of workers and any `Overlap`.  Every UPDATE that makes a row wait writes
  the attempts it has just compared with the budget, and every UPDATE that sets
  the processing status sets the lock too (`RowsSound`).
* `EffectsNeverRepeated` and `QueueImplementsEffects`, for one worker
  (`OneWorker`; with two the second is false, section 10).  `EffectsInv` relates
  the committed row, the history of effects and the call the worker is in: what
  is not recorded was never made, and the worker is in the call that makes it
  only if the row does not record it.  `Still` names the steps that touch no
  recorded effect; all but five actions are such steps, and they stutter in
  `ShareEffects`.
* `RunsAlwaysBounded`, for one worker and any `Overlap`.  `RunsBounded` says
  nothing of who owes the next attempt, so `RunsInv` does the accounts of each
  row: its runs are at most its attempts and the crashes, and one more while the
  worker has it in hand; and a row that will be run again has an attempt left, or a
  crash has paid for it.  The worker counts from the
  attempts in the row as it stands (`CountsFromRow`), because nobody else changes
  them while it is processing.
* `CompletionsAlwaysWhole`, `BatchAndWorkAlwaysAgree` and `EndingsAlwaysStick`,
  for one worker (`OneWorker`) and any `Overlap`; the batches in `raced` are
  excepted in the properties, not in a hypothesis.  `QueueInv` says of each other
  batch: its item statuses fit its status (`Fits`), what the worker's three-step
  transaction has in memory is what the database says, counts included
  (`WorkerKnows`), and so is what an open request has read (`RequestKnows`).
  `Unraced` is what `raced` gives: if a step leaves a batch out of it, either
  nothing of the batch has changed or nobody else has read it.  The heart is that
  the summary computed from the counts fits every item at the moment of the
  commit.

### `WorkerLockProofs`

`LockTypeCorrect` and `Exclusive` (`Spec => []ExclusiveUnlessLost`).
`ExclusiveUnlessLost` does not mention the locks, so it is not inductive;
`LockInv` adds that at most one connection anywhere holds the lock (`OneHolder`),
and that while none was replaced a process that executes has one that does
(`WorkingHolds`).  The lemmas follow what the steps do to connections: take one
(`Dropping`), give one back (`Closing`), claim (`Locking`), unlock (`Unlocking`),
end (`Ending`).

### `FollowSyncProofs`

`FollowTypeCorrect` and `NeverForgotten` (`Spec => []NotForgotten`).
`NotForgotten` is not inductive: that the commit ending a check schedules the
next one follows from what the worker's copy holds, not from the row.  `FollowInv`
adds `Placed` (the copy of a check in progress is active, due and in `checking`,
or after its result in a state the result may have, and the row no longer shows
`checking`), `Owned` (a batch belongs to a task), `Read` (the row a request has
read is still there, with that status) and `SyncsItself` (a task that began to
sync after a hook read it has another batch).  `FlushedRow` says what an
UPDATE from a copy leaves of a row; `EndedRow` combines it with `Placed`:
whatever requests have written meanwhile, the row leaves `checking` and, unless a
sync was queued, has a next check.  `EditedRow` and `ReportedRow` do the same for
what a request and a hook make of the row they had read; where that has ended
meanwhile, the task is in `dropped`.  `Bystander` covers the tasks a step is not
about.

### `BackupQueueProofs`

* `RunningAlwaysExecuted`, `PendingAlwaysServed`: the properties speak of threads
  that execute; `BackupInv` adds what the locks say: `Locks` (a thread that
  executes holds the run lock), `OneLock`, `Sole` (unless a thread was replaced,
  every thread but one in its last look is `current`) and `AtRun` (the run a
  thread is at).
* `BackupsAlwaysKept` (`BackupSpec => BackupsAreKept`), for any
  `retention_count`.  `KeptInv` adds the life of an artifact: a row that names
  one names that of its own target and second (`PathsHeld`), the thread that
  saves a result has made it (`WorkHeld`), and what is named and gone is
  accounted for by a request that has still to clear the path, retention that has
  still to record the removal, or a `Twin`, an ended run of the same target and
  second (`ArtifactsHeld`).  That retention spares the newest follows, because
  what it picks is not among them and has another name unless it is a twin.

### `RecognitionQueueProofs`

`RecognitionTypeCorrect`, `RequestsAlwaysKept` and `MatchesStay`, for any number
of links and workers and one event loop.  `RecognitionInv` relates the rows to the
transactions that are open: `Counted` (tries agree with the status, in the rows
and in what requests read), `Claimed` and `HeldAlone` (the task a worker is at is
queued or waits for a retry), `Exclusive` and `Apart` (who may be at a link),
`Sound` (a retry has a time), `Kept` and `Fresh` (what a request read is still the
row, or is marked stale), `Placed` and `Awaited`.  A request writes single columns
over a row it read before; that these combine to a row some claim selects is what
the proof is about.

### `JobsProofs`

* The pass (`DedupAlwaysSafe`): `PassInv` adds `PassPlaced` (keepers, doomed and
  rest are disjoint) and `Ordered` (what is left to scan is older than what is
  kept), and `Watched` (a link of a message that differs from what the pass has read
  is in `moved`).  `LoserHasFewer` shows that a keeper which loses to a later message has
  fewer links; `CoversOn` that coverage goes on through the new keeper.
* The schedule (`OneExecutes`, `SettingsStay`): `ScheduleInv` adds `RunIsLocked`
  (who executes holds the run lock); `Excused` is the exception of `SettingStays`
  as a state predicate of the actor that writes.
* The drive (`DriveAlwaysWhole`): `DriveIsWhole` speaks of a transfer that has
  ended; `DriveInv` says what holds on the way.  What a transfer has taken is
  there or still to come (`WantedHeld`); a deletion of contents under way is the
  one the transfer waits for, or was given up, and names nothing that has been
  saved since (`WipesHeld`, `PendingHeld`); while no save was given up, nothing is
  posted but what the transfer waits for (`SavesHeld`), so that a replacement
  starts from nothing (`ReplaceHeld`) and a retry finds what is there
  (`OnceHeld`).  `DeletionHeld` follows a directory into the bin.  What the drive
  is assumed to do (section 6) is in the actions, not in the theorem.
* `JobsTypeCorrect`: the composition.  The parts leave each other's variables
  alone, so each invariant is kept by the steps of the others.

### `ServicesProofs`

* Publishing (`ReclaimedAlwaysGone`, `RetiredAlwaysStay`): what a handler read is
  written back, so `SeenIsGone` says of it what `ReclaimedIsGone` says of the
  rows; `ReclaimsItem` that a handler which has the provider's answer holds
  records of one item whose directory is gone.
* Plans (`CoveredAlwaysChecked`): every message the cursor has passed in the open
  window was in a completed batch (`Walked`); the batch under way holds every
  message with links from the cursor to its last one, and to the end of the window
  when nothing follows (`BatchOf`).  The lemmas below it are about the selection:
  the first and the last message it takes, and that it skips none between them.
* Catalogue (`CatalogAlwaysAgrees`): until two deletions overlap there is one, and
  what it has found out stays true until it commits, because it holds the rows
  others would need (`DeletionHeld`).  What it counted it counted before the events
  were thrown away or after (`TellsOf`); a target loses its protection only into
  `released` when nothing else keeps it.
* Monitor (`PostsAlwaysAccounted`): what a post has beyond one row is an answer
  that was lost, and each of those was an attempt (`PostHeld`); a cleanup that has
  read has counted the other posts of its channel, or is late (`CleanerHeld`).
* Link checks (`MarkerAlwaysGuards`, `StopAlwaysObeyed`): a task's status is final
  nowhere, neither in the file nor in the memory of a process nor in what somebody
  has read, before its checking is over (`RunnerHeld`).  A caller that is prompt,
  because the marker was not replaced since it read it, finds nobody checking when
  it creates a task (`CallerHeld`), and the only step that begins a checking is
  `Mark`.
* `ServicesTypeCorrect`: the composition.

### `AdminProofs`

* Accounts (`SessionsAlwaysCurrent`, `LimitAlwaysKept`, `AccountsAlwaysKept`).
  That the sessions spared by `OverLimit` are fewer than the limit is a counting
  argument: each has another number of sessions seen later than itself
  (`LatestAreFew`, by an injection into these numbers).  A policy with a longer
  window adds to the sessions online only what `revived` then has
  (`PolicyAddsNone`).
* AI centre (`RoutesAlwaysWhole`).  `MaxIsLargest` makes the places set aside lie
  behind all others; they lie behind the new places only if a request has no more
  than 100 steps (`RequestsFit`).  The code sets steps aside 100 places behind
  (`ai_center/service.py:1674`) and nothing limits a request, so this hypothesis is
  the code's: beyond it two steps of the model get one place, which in the database
  the unique index of the table refuses, and the request fails.  `AiAssumption` says that a payload prefers one model at
  most, because `_save_provider_models` takes the first it flags.
* `AdminTypeCorrect`: the composition.

### Theorems

| Theorem | States |
|---|---|
| `TypeCorrect`, `LockTypeCorrect`, `FollowTypeCorrect`, `BackupTypeCorrect`, `RecognitionTypeCorrect`, `PassTypeCorrect`, `ScheduleTypeCorrect`, `DriveTypeCorrect`, `CheckTypeCorrect`, `PlanTypeCorrect`, `PublishTypeCorrect`, `CatalogTypeCorrect`, `IngestTypeCorrect`, `AccountTypeCorrect`, `AiTypeCorrect` | type correctness of the parts |
| `JobsTypeCorrect`, `ServicesTypeCorrect`, `AdminTypeCorrect` | type correctness of the compositions |
| `RowsAlwaysSound`, `EffectsNeverRepeated`, `QueueImplementsEffects`, `RunsAlwaysBounded`, `CompletionsAlwaysWhole`, `BatchAndWorkAlwaysAgree`, `EndingsAlwaysStick` | the transfer queue |
| `Exclusive`, `NeverForgotten` | the worker lock, follow tasks |
| `RunningAlwaysExecuted`, `PendingAlwaysServed`, `BackupsAlwaysKept` | backup |
| `RequestsAlwaysKept`, `MatchesStay` | recognition |
| `PassAlwaysInv`, `DedupAlwaysSafe`, `OneExecutes`, `SettingsStay` | deduplication |
| `DriveAlwaysWhole` | cloud drives |
| `ReclaimedAlwaysGone`, `RetiredAlwaysStay` | publishing |
| `CoveredAlwaysChecked`, `MarkerAlwaysGuards`, `StopAlwaysObeyed` | link checks |
| `CatalogAlwaysAgrees`, `PostsAlwaysAccounted` | catalogue, monitor |
| `SessionsAlwaysCurrent`, `LimitAlwaysKept`, `AccountsAlwaysKept`, `RoutesAlwaysWhole` | accounts, AI centre |

### Only model-checked

Liveness: `WorkEnds`, `WaitingEnds`, `EventuallyChecked`, `PendingEnds`,
`AskedIsServed`, `WindowCompletes`, `AddedIsMonitored`.  They rest on fairness,
whose proof rules need ENABLED, and ENABLED is beyond the prover.  The three runs
that expect a violation show counterexamples, which need no proof.

## 9. What is not modelled

`PROJECT.json` lists the components without a module and why; those planned are
in section 2.  Of the transfer queue itself: the
order among claimable items (a claim takes any item of the class the query
orders first), the retention of logs, the validation status shown in the
interface, and several API processes (the deployment starts one).

Of follow tasks: which candidate is chosen and what the automation plans (only
the outcome is), the content of `extra_json` beyond the automation switch, the
cooldown and other settings, the row locks of UPDATEs that were sent and not yet
committed (they delay a handler, and the model has all orders of commits), and
automatic share refresh, a commit like the others.  An exception in a hook is a
choice of `Report`.

A provider call that succeeds and whose answer is not committed because the
worker dies is repeated by the next attempt: the effects are recorded at most
once, and made at least once.  `ShareEffects` is about what is recorded.

Without a module: the transfer of bytes by providers and of messages by Telegram
(external, each call is an outcome); parsing of posts, names and titles
(`monitor_parser.py`, `resource_identity`, `file_diagnosis.py`: functions of
text, where nothing is shared); reports and listings (`workbench.py`,
`analytics.py`, `statistics_service.py`), which read only; `scripts/manage.py`,
a menu of the installer; the frontend.

Of backup: how an artifact is made, WebDAV itself, and restoring; and that the
commit of a retention run fails as a whole when one of the rows it clears was
deleted meanwhile (`backup_service.py:502-528`; `SavePruned` clears the others).  Of
recognition: what a resolver decides.  Of link checks: the network check of a
link is one step of its thread; manual selection modes and the expiry of status
files are left out, and the advance of a plan's window is one step, which the code
reads and commits separately (`link_check_plan_service.py:1014-1026`).  Of publishing: the text of a message, listings, and the
content of a share; and that the record of an item whose batch was deleted is not
always found again (`publishing.py:478-503`): the next publication may then make a
second record where the model updates the first.  Of the catalogue: unique visitors and listings, the
statistics of other days, and the end of a statistic after its year.  Of the
monitor: the parser is one outcome, saved or filtered.  Of accounts: passwords and
tokens themselves, the HTTP of LinuxDo, and the times between which a batch
admits.  Of the AI centre: prompts and answers, the score of a candidate
(any order is possible), the allowlist of models, the log of calls.  Of the
drives: HTTP, paths and passcodes; of each call only that it may fail.

## 10. What the checks found

* **Stranded in a cancelled batch** (`MCQueueStranded.cfg`).  The worker reads
  the batch as running, a cancellation commits, and the worker commits its
  item as waiting for a retry.  Nothing takes it from there.
* **Publish rules never publish** (`PublishRules.cfg`).  A rule's time is stored
  as `isoformat() + "Z"`, read back as an aware time, written again as
  "…+00:00Z", and this text cannot be read: the rule is skipped for ever.
* **Changes of a channel are not noticed** (`MonitorProfile.cfg`).  The refresh
  compares names only; a changed `parser_profile`, or the new id of a channel
  that was deleted and added again, waits for a restart or another new channel.

The models also show the following, which no run states.

* A draft batch can neither be deleted (its items are queued) nor cancelled.
* Cancelling a batch before its item starts (or after its worker died) tells
  the follow task nothing.  It shows "queued, waiting for the worker" and
  refuses another sync until somebody queues or resumes it.
* A sync request reads the task, awaits a directory scan, and writes the whole
  `extra_json` from what it has read; automation switched off in between is on
  again.  Checks do the same.
* Deleting a batch while a share refresh of one of its items awaits the provider
  blocks the event loop that would let the refresh commit (`frozen`).
* A link check batch over the safety limit is chosen again every day.
* Two deletions that overlap can leave a wrong statistic or an orphaned target.
* Deleting a batch deletes the items and logs that kept a link target from being
  purged and does not purge it: one that no message refers to stays
  (`batches.py:594-609`, `released`).
* Retention deletes click events after 90 days and daily statistics after 365.  A
  deletion of a message in between counts the old days anew from the events that
  are left, and their statistic is lost (`catalog.py:411-450`).
* Links that are replaced, removed or published while a deduplication runs can
  be lost: the pass decides by the links it has read and deletes by id
  (`dedup_runtime_service.py:237`, `moved`).
* A settings request that has read a follow task as `checking` or `sync_queued`
  writes no next check.  If the check or the sync has ended by its commit, the task
  is active and idle, its `next_check_at` is NULL, and it is never checked again
  until somebody queues it (`follow_tasks.py:1073`).  A hook that has read a task
  as paused and commits after it was resumed does the same.
* The marker of a link check names its owner by process id, and the own id counts
  as alive (`link_check_runtime.py:344`).  In the container of
  `docker/docker-compose.yml` the API is process 1 and `data` is kept: the marker
  of a task that dies with the container is never freed (`orphaned`).
* A longer `session_online_window_minutes` brings sessions online again that were
  not counted when the next one signed in, beyond the limit.
* A stop request that comes late overwrites a final status, after which the
  marker blocks new tasks.
* A retry of recognition may be left without a time when two workers are at one
  link and three or more tries are allowed.
* Intervals of deduplication from 25 to 47 hours run every 24 hours.
* `published_at` is local time and is treated as UTC by
  `_compute_next_publish_at`.
* The guard against deleting a plan that runs looks at the state of the API
  process; the plan runs in the worker.
* Groups of a selection at the root of a share are moved into the one place that
  other groups name, or that the task remembers (`Augmented`).
* A transfer of the whole share (`standard`) does not look at what an earlier
  attempt has saved: a retry saves it again (`SavedOnce` says so of incremental
  ones).
* Purging one directory empties the whole recycle bin of the account, and the wait
  for the directory to be seen there is satisfied by another one of its name.
* An update of an account through the API that leaves `validity_mode` or
  `session_limit_override` out makes the account permanent, or clears its limit:
  the handler passes what is missing as `None`, not as "unset".
* An execution of the AI route calls a model that a step names even when it is
  disabled; a success may not lift a cooldown that another execution has written
  (`Marked`); a provider deleted between two calls breaks the execution off.
* Deleting the last AI provider brings the one of the old settings back.
* `save_ai_route` sets steps that are not asked for aside 100 places behind the
  last one.  A request of more than 100 steps would reach these places, and the
  schema does not limit it; `RoutesAlwaysWhole` says so in its hypothesis.

Races of a request and a transaction of the worker, which put the batch into
`raced` and after which it need not keep the properties of `MCQueueRaces.cfg`; they
need no slow request (`Overlap = "prompt"` has them too), and no text of the
program promises otherwise:

* `CancelSticks`: the worker has read the batch as running, a cancellation
  commits, and the worker writes the final status over it.
* `RunningBatchHasWork`: the worker has read the batch as cancelled, a retry
  makes it running, the worker settles the item and, seeing no change, writes
  no status; the batch stays running without an active item.
* `WaitingIsReachable`: a retry resets an item while the worker settles the
  batch from counts without it.
* `CompletedIsFinal`: a retry reads an item that a cancellation has marked
  failed, its worker completes it, and the retry queues it again.

Two more that no run states.  Cancel reads the items without a lock, so the
worker may claim one before it commits (`CancelRead`, `Claim`,
`CancelCommit`): the item is marked failed and logged "cancelled before this
item started or retried" (`batches.py:534`) during its provider call, and then
settled by the worker as usual.  And recycling the lock of a dead worker does
not count the attempt (`queue.py:136`), so an item is executed once more than
`max_attempts` for every crash; `RunsBounded` allows for it.

With two workers `EffectsNotRepeated`, `RunsBounded`,
`CompletedBatchIsComplete` and `RunningBatchHasWork` fail as well: two workers
execute the same item after its lock expires, and the later commit overwrites
the count of the earlier.  The advisory lock is what prevents this, and it can
be lost:

* **Working without the lock** (`lost` in `WorkerLock`).  The commit after the
  claim gives the connection with the lock back to the pool.  When the pool
  replaces it (by default once it is half an hour old), the lock is released
  and the loop goes on, so that another worker process can start beside it.
  A deployment with one worker process is not affected.

Of follow tasks, races that no text of the program excludes: two sync requests,
or a request and the automation of a check, may both pass the guard
(`follow_sync.py:659`), and the task has two batches writing one directory; a
candidate cleared during a check leaves `candidate_found` without a candidate
or comes back; a task whose worker dies during a check stays in `checking` until
somebody queues or resumes it.
