------------------------------ MODULE BackupQueue ------------------------------
(***************************************************************************)
(* Backup runs: requests and the scheduler insert rows, one thread of the  *)
(* API process executes them in order, and old artifacts are pruned.       *)
(*                                                                         *)
(* The thread is created by dispatch_pending_backup_runs when none is      *)
(* alive; a database advisory lock keeps two of them apart.  The process   *)
(* may die at any step and comes back with the rows as they were.          *)
(***************************************************************************)
EXTENDS Integers, FiniteSets

CONSTANTS
    BackupTargets,  \* rows of backup_targets
    RemoteTargets,  \* those of kind webdav; the others are local
    BackupWorkers,  \* threads the process can have at a time
    NoThread,       \* "no thread", "no run"
    Retention,      \* retention_count, 0 for "keep all"
    MaxBackups,     \* bound: rows of backup_runs
    MaxSeconds,     \* bound: seconds the clock advances
    MaxDisturbances \* bound: changes of targets, files and old runs,
                    \* crashes and database errors together

ASSUME BackupAssumption ==
    /\ BackupTargets # {} /\ RemoteTargets \subseteq BackupTargets
    /\ NoThread \notin BackupWorkers \cup Nat
    /\ Retention \in Nat /\ MaxBackups \in Nat
    /\ MaxSeconds \in Nat /\ MaxDisturbances \in Nat

VARIABLES
    backups,     \* backup_runs by id
    targets,     \* backup_targets
    files,       \* artifacts that exist, named by target and second
    seconds,     \* the clock as file names show it
    threads,     \* backup queue threads
    current,     \* _queue_worker_thread
    dispatching, \* callers that have committed and are about to dispatch
    halfway,     \* requests between their check, or deletion, and their commit
    overlapped,  \* history: a thread was replaced before it was started
    early,       \* history: artifacts removed by a request before their run
                 \* was saved
    edits,       \* history: requests that change targets, files or old runs
    backupFaults \* history: crashes and database errors

backupVars == <<backups, targets, files, seconds, threads, current,
                dispatching, halfway, overlapped, early, edits, backupFaults>>

RunIds == 1..MaxBackups
Files  == BackupTargets \X (0..MaxSeconds)
NoFile == <<>>

BackupRow == [status: {"none", "pending", "running", "success", "failed",
                       "deleted"},
              target: BackupTargets, made: 0..MaxSeconds,
              path: Files \cup {NoFile}]
TargetRow == [exists: BOOLEAN, scheduled: BOOLEAN, due: BOOLEAN]

(* A thread that is alive, where it stands in _run_backup_queue_worker,    *)
(* the run it executes and the artifacts it has removed without committing. *)
ThreadPC == {"dead", "created", "try", "claim", "work", "save",
             "fail", "prune", "pruned", "release", "leave", "clear",
             "recheck"}
ThreadState == [pc: ThreadPC, run: RunIds \cup {NoThread}, lock: BOOLEAN,
                removed: SUBSET RunIds]
Dead == [pc |-> "dead", run |-> NoThread, lock |-> FALSE, removed |-> {}]

BackupTypeOK ==
    /\ backups \in [RunIds -> BackupRow]
    /\ targets \in [BackupTargets -> TargetRow]
    /\ files \subseteq Files
    /\ seconds \in 0..MaxSeconds
    /\ threads \in [BackupWorkers -> ThreadState]
    /\ current \in BackupWorkers \cup {NoThread}
    /\ dispatching \in Nat
    /\ halfway \subseteq ({"target"} \X BackupTargets)
                         \cup ({"file"} \X Files)
    /\ overlapped \in BOOLEAN
    /\ early \subseteq Files
    /\ edits \in Nat
    /\ backupFaults \in Nat

BackupInit ==
    /\ backups = [r \in RunIds |->
                    [status |-> "none", target |-> CHOOSE t \in BackupTargets : TRUE,
                     made |-> 0, path |-> NoFile]]
    /\ targets = [t \in BackupTargets |->
                    [exists |-> TRUE, scheduled |-> TRUE, due |-> FALSE]]
    /\ files = {}
    /\ seconds = 0
    /\ threads = [w \in BackupWorkers |-> Dead]
    /\ current = NoThread
    /\ dispatching = 0
    /\ halfway = {}
    /\ overlapped = FALSE
    /\ early = {}
    /\ edits = 0
    /\ backupFaults = 0

IsActive(r)   == backups[r].status \in {"pending", "running"}
RunsOf(t)     == {r \in RunIds : backups[r].status # "none"
                                 /\ backups[r].target = t}
HasActive(t)  == \E r \in RunsOf(t) : IsActive(r)
Pending       == {r \in RunIds : backups[r].status = "pending"}
Successes(t)  == {r \in RunsOf(t) : backups[r].status = "success"}
FreeRunIds    == {r \in RunIds : backups[r].status = "none"}
Newest(t)     == {r \in Successes(t) :
                    \/ Retention = 0
                    \/ Cardinality({q \in Successes(t) : q > r}) < Retention}

Executing == {"claim", "work", "save", "fail", "prune", "pruned"}

(***************************************************************************)
(* Requests and the scheduler                                              *)
(***************************************************************************)
(* Rows for the targets of ts, ids in any order. *)
Inserted(new) ==
    [r \in RunIds |-> IF \E t \in DOMAIN new : new[t] = r
                      THEN [status |-> "pending",
                            target |-> CHOOSE t \in DOMAIN new : new[t] = r,
                            made |-> 0, path |-> NoFile]
                      ELSE backups[r]]

NextIds(ts) ==
    {new \in [ts -> FreeRunIds] :
        /\ \A t, u \in ts : new[t] = new[u] => t = u
        /\ \A t \in ts, r \in FreeRunIds :
              r < new[t] => \E u \in ts : new[u] = r}

(* start_backup_run: the target row is locked, an active run is returned   *)
(* as it is and nothing is dispatched.                                     *)
StartBackup(t) ==
    /\ targets[t].exists /\ ~HasActive(t)
    /\ \E new \in NextIds({t}) : backups' = Inserted(new)
    /\ dispatching' = dispatching + 1
    /\ UNCHANGED <<targets, files, seconds, threads, current, halfway,
                   overlapped, early, edits, backupFaults>>

(* claim_due_backup_runs: every due target is given its next time, and a   *)
(* run unless one is active.                                               *)
DueTargets == {t \in BackupTargets : targets[t].exists
                                     /\ targets[t].scheduled /\ targets[t].due}

ClaimDue ==
    LET idle == {t \in DueTargets : ~HasActive(t)} IN
    /\ DueTargets # {}
    /\ targets' = [t \in BackupTargets |->
                     IF t \in DueTargets THEN [targets[t] EXCEPT !.due = FALSE]
                     ELSE targets[t]]
    /\ \E new \in NextIds(idle) : backups' = Inserted(new)
    /\ dispatching' = dispatching + (IF idle = {} THEN 0 ELSE 1)
    /\ UNCHANGED <<files, seconds, threads, current, halfway, overlapped,
                   early, edits, backupFaults>>

Edit == edits + backupFaults < MaxDisturbances /\ edits' = edits + 1

(* update_backup_target computes the next time from the settings. *)
SaveTarget(t, on) ==
    /\ Edit
    /\ targets[t].exists
    /\ targets' = [targets EXCEPT ![t].scheduled = on, ![t].due = FALSE]
    /\ UNCHANGED <<backups, files, seconds, threads, current, dispatching,
                   halfway, overlapped, early, backupFaults>>

ComesDue(t) ==
    /\ Edit
    /\ targets[t].exists /\ targets[t].scheduled /\ ~targets[t].due
    /\ FreeRunIds # {}
    /\ targets' = [targets EXCEPT ![t].due = TRUE]
    /\ UNCHANGED <<backups, files, seconds, threads, current, dispatching,
                   halfway, overlapped, early, backupFaults>>

(* delete_backup_target looks for an active run without a lock, then       *)
(* deletes the row.  One request of this kind is under way at a time.      *)
DeleteTargetCheck(t) ==
    /\ Edit
    /\ targets[t].exists /\ ~HasActive(t) /\ halfway = {}
    /\ halfway' = halfway \cup {<<"target", t>>}
    /\ UNCHANGED <<backups, targets, files, seconds, threads, current,
                   dispatching, overlapped, early, backupFaults>>

DeleteTarget(t) ==
    /\ <<"target", t>> \in halfway
    /\ halfway' = halfway \ {<<"target", t>>}
    /\ targets' = [targets EXCEPT ![t] = [exists |-> FALSE,
                                          scheduled |-> FALSE, due |-> FALSE]]
    /\ UNCHANGED <<backups, files, seconds, threads, current, dispatching,
                   overlapped, early, edits, backupFaults>>

(* delete_backup_target_remote_file: the file goes first, the paths of the *)
(* runs that name it are cleared by a later commit.                        *)
DeleteRemoteFile(f) ==
    /\ Edit
    /\ f \in files /\ f[1] \in RemoteTargets /\ targets[f[1]].exists
    /\ halfway = {}
    /\ files' = files \ {f}
    /\ halfway' = halfway \cup {<<"file", f>>}
    /\ early' = IF \E w \in BackupWorkers : threads[w].pc = "save"
                   /\ f = <<backups[threads[w].run].target,
                           backups[threads[w].run].made>>
                THEN early \cup {f} ELSE early
    /\ UNCHANGED <<backups, targets, seconds, threads, current, dispatching,
                   overlapped, backupFaults>>

ClearRemotePaths(f) ==
    /\ <<"file", f>> \in halfway
    /\ halfway' = halfway \ {<<"file", f>>}
    /\ backups' = [r \in RunIds |-> IF backups[r].path = f
                                    THEN [backups[r] EXCEPT !.path = NoFile]
                                    ELSE backups[r]]
    /\ UNCHANGED <<targets, files, seconds, threads, current, dispatching,
                   overlapped, early, edits, backupFaults>>

(* delete_backup_runs skips active runs; the artifacts stay. *)
DeleteRun(r) ==
    /\ Edit
    /\ backups[r].status \in {"success", "failed"}
    /\ backups' = [backups EXCEPT ![r].status = "deleted", ![r].path = NoFile]
    /\ UNCHANGED <<targets, files, seconds, threads, current, dispatching,
                   halfway, overlapped, early, backupFaults>>

(***************************************************************************)
(* The queue thread                                                        *)
(***************************************************************************)
(* dispatch_pending_backup_runs: a thread that has not been started yet is *)
(* not alive, so that a second caller replaces it.                         *)
CurrentAlive == \E w \in BackupWorkers :
    w = current /\ threads[w].pc \notin {"dead", "created"}

DispatchNothing ==
    /\ dispatching > 0
    /\ CurrentAlive
    /\ dispatching' = dispatching - 1
    /\ UNCHANGED <<backups, targets, files, seconds, threads, current, halfway,
                   overlapped, early, edits, backupFaults>>

Dispatch(w) ==
    /\ dispatching > 0
    /\ ~CurrentAlive
    /\ threads[w].pc = "dead"
    /\ dispatching' = dispatching - 1
    /\ threads' = [threads EXCEPT ![w].pc = "created"]
    /\ current' = w
    /\ overlapped' = (overlapped \/ \E v \in BackupWorkers :
                                       threads[v].pc = "created")
    /\ UNCHANGED <<backups, targets, files, seconds, halfway, early, edits, backupFaults>>

PcMoves(w, pc) == threads' = [threads EXCEPT ![w].pc = pc]

StartThread(w) ==
    /\ threads[w].pc = "created"
    /\ PcMoves(w, "try")
    /\ UNCHANGED <<backups, targets, files, seconds, current, dispatching,
                   halfway, overlapped, early, edits, backupFaults>>

LockFree == \A w \in BackupWorkers : ~threads[w].lock

(* Sensitivity: the answer of pg_try_advisory_lock is ignored. *)
TryLockIgnored(w) ==
    /\ threads[w].pc = "try"
    /\ threads' = [threads EXCEPT ![w].pc = "claim", ![w].lock = TRUE]
    /\ UNCHANGED <<backups, targets, files, seconds, current, dispatching,
                   halfway, overlapped, early, edits, backupFaults>>

TryLock(w) ==
    /\ threads[w].pc = "try"
    /\ threads' = [threads EXCEPT
                     ![w].pc = IF LockFree THEN "claim" ELSE "release",
                     ![w].lock = LockFree]
    /\ UNCHANGED <<backups, targets, files, seconds, current, dispatching,
                   halfway, overlapped, early, edits, backupFaults>>

ClaimRun(w) ==
    /\ threads[w].pc = "claim"
    /\ \/ /\ Pending = {}
          /\ PcMoves(w, "release") /\ UNCHANGED backups
       \/ \E r \in Pending :
            /\ \A q \in Pending : r <= q
            /\ backups' = [backups EXCEPT ![r].status = "running"]
            /\ threads' = [threads EXCEPT ![w].pc = "work", ![w].run = r]
    /\ UNCHANGED <<targets, files, seconds, current, dispatching, halfway,
                   overlapped, early, edits, backupFaults>>

(* Sensitivity: the artifact is named once the next second has begun.      *)
PerformLate(w) ==
    LET r == threads[w].run
        f == <<backups[r].target, seconds + 1>> IN
    /\ threads[w].pc = "work"
    /\ PcMoves(w, "save")
    /\ files' = files \cup {f}
    /\ backups' = [backups EXCEPT ![r].made = seconds + 1]
    /\ UNCHANGED <<targets, seconds, current, dispatching, halfway, overlapped,
                   early, edits, backupFaults>>

(* The target is read and copied, a missing one fails the run; then         *)
(* _perform_backup names the artifact after the target and the second.     *)
Perform(w) ==
    LET r == threads[w].run
        f == <<backups[r].target, seconds>> IN
    /\ threads[w].pc = "work"
    /\ \/ /\ targets[backups[r].target].exists
          /\ PcMoves(w, "save")
          /\ files' = files \cup {f}
          /\ backups' = [backups EXCEPT ![r].made = seconds]
       \/ PcMoves(w, "fail") /\ UNCHANGED <<files, backups>>
    /\ UNCHANGED <<targets, seconds, current, dispatching, halfway, overlapped,
                   early, edits, backupFaults>>

(* The result is saved unless the target is gone, which leaves the run     *)
(* running.                                                                *)
SaveResult(w) ==
    LET r == threads[w].run IN
    /\ threads[w].pc = "save"
    /\ IF targets[backups[r].target].exists
       THEN /\ backups' = [backups EXCEPT
                             ![r].status = "success",
                             ![r].path = <<backups[r].target, backups[r].made>>]
            /\ PcMoves(w, "prune")
       ELSE /\ threads' = [threads EXCEPT ![w].pc = "claim",
                                          ![w].run = NoThread]
            /\ UNCHANGED backups
    /\ UNCHANGED <<targets, files, seconds, current, dispatching, halfway,
                   overlapped, early, edits, backupFaults>>

SaveFailure(w) ==
    /\ threads[w].pc = "fail"
    /\ backups' = [backups EXCEPT ![threads[w].run].status = "failed"]
    /\ threads' = [threads EXCEPT ![w].pc = "claim", ![w].run = NoThread]
    /\ UNCHANGED <<targets, files, seconds, current, dispatching, halfway,
                   overlapped, early, edits, backupFaults>>

(* Sensitivity: one success too many is pruned.                            *)
PrunableTooMany(r) ==
    LET t == backups[r].target IN
    {q \in Successes(t) \ {r} :
        Retention > 0
        /\ Cardinality({p \in Successes(t) : p > q}) >= Retention - 1}

(* The successes that _apply_retention goes through when run r has ended. *)
Prunable(r) ==
    LET t == backups[r].target IN
    IF targets[t].exists THEN Successes(t) \ (Newest(t) \cup {r}) ELSE {}

(* Their artifacts are removed one by one, and each removal may fail.  A   *)
(* local file that is missing does not count as removed, a remote one does. *)
Prune(w) ==
    LET r == threads[w].run
        t == backups[r].target
        withFile == {q \in Prunable(r) : backups[q].path # NoFile} IN
    /\ threads[w].pc = "prune"
    /\ \E gone \in SUBSET withFile :
         /\ t \notin RemoteTargets => \A q \in gone : backups[q].path \in files
         /\ files' = files \ {backups[q].path : q \in gone}
         /\ threads' = [threads EXCEPT ![w].pc = "pruned",
                                       ![w].removed = gone]
    /\ UNCHANGED <<backups, targets, seconds, current, dispatching, halfway,
                   overlapped, early, edits, backupFaults>>

SavePruned(w) ==
    /\ threads[w].pc = "pruned"
    /\ backups' = [q \in RunIds |-> IF q \in threads[w].removed
                                    THEN [backups[q] EXCEPT !.path = NoFile]
                                    ELSE backups[q]]
    /\ threads' = [threads EXCEPT ![w].pc = "claim", ![w].run = NoThread,
                                  ![w].removed = {}]
    /\ UNCHANGED <<targets, files, seconds, current, dispatching, halfway,
                   overlapped, early, edits, backupFaults>>

ReleaseLock(w) ==
    /\ threads[w].pc = "release"
    /\ threads' = [threads EXCEPT ![w].lock = FALSE,
                                  ![w].pc = IF threads[w].lock THEN "clear"
                                            ELSE "leave"]
    /\ UNCHANGED <<backups, targets, files, seconds, current, dispatching,
                   halfway, overlapped, early, edits, backupFaults>>

(* The rest of the finally block.  Only a thread that held the lock and is *)
(* still the current one looks at the queue again.                         *)
ClearCurrent(w) ==
    /\ threads[w].pc \in {"clear", "leave"}
    /\ current' = IF current = w THEN NoThread ELSE current
    /\ threads' = [threads EXCEPT
                     ![w] = IF threads[w].pc = "clear" /\ current = w
                            THEN [Dead EXCEPT !.pc = "recheck"] ELSE Dead]
    /\ UNCHANGED <<backups, targets, files, seconds, dispatching, halfway,
                   overlapped, early, edits, backupFaults>>

(* Sensitivity: the thread ends without looking at the queue again.        *)
RecheckNothing(w) ==
    /\ threads[w].pc = "recheck"
    /\ threads' = [threads EXCEPT ![w] = Dead]
    /\ UNCHANGED <<backups, targets, files, seconds, current, dispatching,
                   halfway, overlapped, early, edits, backupFaults>>

Recheck(w) ==
    /\ threads[w].pc = "recheck"
    /\ threads' = [threads EXCEPT ![w] = Dead]
    /\ dispatching' = dispatching + (IF Pending = {} THEN 0 ELSE 1)
    /\ UNCHANGED <<backups, targets, files, seconds, current, halfway,
                   overlapped, early, edits, backupFaults>>

(***************************************************************************)
(* Faults and time                                                         *)
(***************************************************************************)
(* A statement raises: what the handlers around it do next. *)
DatabaseError(w) ==
    /\ edits + backupFaults < MaxDisturbances
    /\ \/ threads[w].pc \in {"work", "save"} /\ PcMoves(w, "fail")
       \/ /\ threads[w].pc \in {"claim", "fail"}
          /\ threads' = [threads EXCEPT ![w].pc = "release",
                                        ![w].run = NoThread]
       \/ /\ threads[w].pc \in {"prune", "pruned"}
          /\ threads' = [threads EXCEPT ![w].pc = "claim", ![w].removed = {},
                                        ![w].run = NoThread]
    /\ backupFaults' = backupFaults + 1
    /\ UNCHANGED <<backups, targets, files, seconds, current, dispatching,
                   halfway, overlapped, early, edits>>

(* The process dies and starts again; nothing looks at the runs it left.   *)
CrashBackup ==
    /\ edits + backupFaults < MaxDisturbances
    /\ backupFaults' = backupFaults + 1
    /\ threads' = [w \in BackupWorkers |-> Dead]
    /\ current' = NoThread
    /\ dispatching' = 0
    /\ halfway' = {}
    /\ UNCHANGED <<backups, targets, files, seconds, overlapped, early, edits>>

SecondPasses ==
    /\ seconds < MaxSeconds
    /\ seconds' = seconds + 1
    /\ UNCHANGED <<backups, targets, files, threads, current, dispatching,
                   halfway, overlapped, early, edits, backupFaults>>

ThreadSteps(w) ==
    \/ StartThread(w) \/ TryLock(w) \/ ClaimRun(w)
    \/ Perform(w) \/ SaveResult(w) \/ SaveFailure(w) \/ Prune(w)
    \/ SavePruned(w) \/ ReleaseLock(w) \/ ClearCurrent(w) \/ Recheck(w)

DispatchSteps == DispatchNothing \/ \E w \in BackupWorkers : Dispatch(w)

BackupNext ==
    \/ \E t \in BackupTargets :
          \/ StartBackup(t) \/ ComesDue(t) \/ DeleteTargetCheck(t)
          \/ DeleteTarget(t) \/ \E on \in BOOLEAN : SaveTarget(t, on)
    \/ ClaimDue
    \/ \E f \in Files : DeleteRemoteFile(f) \/ ClearRemotePaths(f)
    \/ \E r \in RunIds : DeleteRun(r)
    \/ DispatchSteps
    \/ \E w \in BackupWorkers : ThreadSteps(w) \/ DatabaseError(w)
    \/ CrashBackup
    \/ SecondPasses

BackupSpec == BackupInit /\ [][BackupNext]_backupVars

(* Threads that were created run, and so do the callers of dispatch.       *)
BackupFairness ==
    /\ WF_backupVars(DispatchSteps)
    /\ \A w \in BackupWorkers : WF_backupVars(ThreadSteps(w))

(***************************************************************************)
(* Properties                                                              *)
(***************************************************************************)
(* One thread executes at a time, whatever threads there are, and a run    *)
(* marked running (_claim_next_pending_run) is the one it executes; the    *)
(* exceptions are a crash or database error, and a target deleted under    *)
(* its run.                                                                *)
Executes(w) == threads[w].pc \in Executing

RunningIsExecuted ==
    /\ \A v, w \in BackupWorkers : Executes(v) /\ Executes(w) => v = w
    /\ \A r \in RunIds :
        backups[r].status = "running" =>
            \/ \E w \in BackupWorkers : Executes(w) /\ threads[w].run = r
            \/ backupFaults > 0
            \/ ~targets[backups[r].target].exists

(* No wake-up is lost in dispatch_pending_backup_runs and                  *)
(* _run_backup_queue_worker: while a run is pending, some caller is about  *)
(* to dispatch, or some thread will still look at the queue, unless the    *)
(* process died or a thread was replaced before it was started.            *)
PendingIsServed ==
    Pending # {} =>
        \/ dispatching > 0
        \/ \E w \in BackupWorkers :
              threads[w].pc \in Executing \cup {"created", "try", "recheck"}
        \/ \E w \in BackupWorkers :
              /\ w = current
              /\ \/ threads[w].pc = "clear"
                 \/ threads[w].pc = "release" /\ threads[w].lock
        \/ backupFaults > 0 \/ overlapped

(* A success that names an artifact has it: unless its removal is about to *)
(* be recorded, a run of the same target in the same second wrote the same *)
(* file, a fault hit the removal, or a request removed it before the run   *)
(* was saved (_apply_retention, delete_backup_target_remote_file).         *)
SameFile(r) == \E q \in RunIds \ {r} :
    /\ backups[q].status # "none" /\ backups[q].target = backups[r].target
    /\ backups[q].made = backups[r].made

ArtifactExists ==
    \A r \in RunIds :
        backups[r].path # NoFile =>
            \/ backups[r].path \in files
            \/ \E w \in BackupWorkers : r \in threads[w].removed
            \/ <<"file", backups[r].path>> \in halfway
            \/ SameFile(r) \/ backupFaults > 0
            \/ backups[r].path \in early

(* Retention never takes the artifact of one of the newest retention_count *)
(* successes of a target, unless an older run names the same file.         *)
NewestKept == [][
    \A t \in BackupTargets : \A r \in Newest(t) :
        backups[r].path \in files \ files' =>
            <<"file", backups[r].path>> \in halfway' \/ SameFile(r) ]_backupVars

(* What the table says of the artifacts is so, and the newest stay.        *)
BackupsAreKept == []ArtifactExists /\ NewestKept

(* A pending run is executed unless the process dies, a statement raises   *)
(* or a wake-up is lost.                                                   *)
PendingEnds ==
    \A r \in RunIds :
        backups[r].status = "pending" ~>
            (backups[r].status # "pending" \/ backupFaults > 0 \/ overlapped)
=============================================================================
