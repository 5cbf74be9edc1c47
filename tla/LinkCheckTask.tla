----------------------------- MODULE LinkCheckTask -----------------------------
(***************************************************************************)
(* Link check tasks: the API process and the worker process start them,    *)
(* each runs in a thread of the process that started it, and the API asks  *)
(* them to stop.                                                           *)
(*                                                                         *)
(* What the processes share is files: a status per task and one marker     *)
(* that names the active task and its owner.  Each process also keeps the  *)
(* statuses in memory: a reader loads the file and then stores what it     *)
(* read over the memory, a writer changes the memory and writes the file.  *)
(* A read, a store and a write are the atomic steps; handlers of the API   *)
(* run one after the other on its event loop, and so do the steps of the   *)
(* plan thread of the worker.                                              *)
(***************************************************************************)
EXTENDS Integers, FiniteSets

CONSTANTS
    CheckTasks,     \* task ids
    CheckProcs,     \* processes
    Api,            \* the one that takes requests to stop
    NoCheck,        \* "no task"
    MaxCheckAsks    \* bound: requests to start or stop a task or for its
                    \* status, and processes that die, together

ASSUME LinkCheckAssumption ==
    /\ Api \in CheckProcs /\ NoCheck \notin CheckTasks
    /\ MaxCheckAsks \in Nat

VARIABLES
    statusFile,   \* {task_id}.json
    memory,       \* _task_status of each process
    marker,       \* _active_task.json
    caller,       \* the handler or plan thread of each process
    runner,       \* the thread of each task
    rows,         \* what is saved of a task: nothing, stats, details as well
    checkAsks,    \* history: requests, and processes that died
    pid,          \* the process id of each process
    askedAtWork,  \* history: tasks told to stop during their network calls
    revived,      \* history: tasks whose final status a request overwrote
    orphaned,     \* history: tasks at work when their process died whose marker
                  \* names the process id that its successor then got
    crossed       \* history: a task was created, or a marker removed, on the
                  \* strength of a marker read before another was written

checkVars == <<statusFile, memory, marker, caller, runner, rows, checkAsks,
               pid, askedAtWork, revived, orphaned, crossed>>

States == {"none", "running", "stopping", "completed", "failed", "stopped"}
Finals == {"completed", "failed", "stopped"}
Status == [state: States, stop: BOOLEAN]
NoStatus == [state |-> "none", stop |-> FALSE]

Marker   == [task: CheckTasks \cup {NoCheck}, proc: CheckProcs, pid: Nat]
NoMarker == [task |-> NoCheck, proc |-> Api, pid |-> 0]

CallerState == [pc: {"idle", "load", "store", "recover", "clear", "unlink",
                     "create", "mark", "stop"},
                op: {"start", "stop", "poll"}, task: CheckTasks \cup {NoCheck},
                seen: Status, read: Marker, late: BOOLEAN]
IdleCaller  == [pc |-> "idle", op |-> "poll", task |-> NoCheck,
                seen |-> NoStatus, read |-> NoMarker, late |-> FALSE]

(* goal: what a status is read for; result: the status a task ends with;   *)
(* early: the marker is cleared before the finally block already.          *)
RunnerState == [pc: {"none", "begin", "load", "store", "work", "note",
                     "saving", "save", "end", "clear", "unlink", "done",
                     "lost"},
                proc: CheckProcs, seen: Status,
                goal: {"first", "callback", "last", "result", "finally"},
                result: Finals, early: BOOLEAN, late: BOOLEAN]
NoRunner    == [pc |-> "none", proc |-> Api, seen |-> NoStatus,
                goal |-> "first", result |-> "completed", early |-> FALSE,
                late |-> FALSE]

LinkCheckTypeOK ==
    /\ statusFile \in [CheckTasks -> Status]
    /\ memory \in [CheckProcs -> [CheckTasks -> Status]]
    /\ marker \in Marker
    /\ caller \in [CheckProcs -> CallerState]
    /\ runner \in [CheckTasks -> RunnerState]
    /\ rows \in [CheckTasks -> {"none", "stats", "full"}]
    /\ checkAsks \in Nat /\ pid \in [CheckProcs -> Nat]
    /\ askedAtWork \subseteq CheckTasks /\ revived \subseteq CheckTasks
    /\ orphaned \subseteq CheckTasks /\ crossed \in BOOLEAN

LinkCheckInit ==
    /\ statusFile = [t \in CheckTasks |-> NoStatus]
    /\ memory = [p \in CheckProcs |-> [t \in CheckTasks |-> NoStatus]]
    /\ marker = NoMarker
    /\ caller = [p \in CheckProcs |-> IdleCaller]
    /\ runner = [t \in CheckTasks |-> NoRunner]
    /\ rows = [t \in CheckTasks |-> "none"]
    /\ checkAsks = 0 /\ pid = [p \in CheckProcs |-> 0]
    /\ askedAtWork = {} /\ revived = {} /\ orphaned = {} /\ crossed = FALSE

(* _update_task_status: the status in memory, or else the one in the file, *)
(* is changed and written to both.                                         *)
Current(p, t) == IF memory[p][t] = NoStatus THEN statusFile[t] ELSE memory[p][t]

Write(p, t, status) ==
    /\ memory' = [memory EXCEPT ![p][t] = status]
    /\ statusFile' = [statusFile EXCEPT ![t] = status]

(* get_task_status after the file was read: the memory is overwritten.     *)
Store(p, t, seen) ==
    memory' = [memory EXCEPT ![p][t] = IF seen = NoStatus THEN @ ELSE seen]

(* A marker is written: whoever has read the one before is late.           *)
MarkerIs(t, p) == marker' = [task |-> t, proc |-> p, pid |-> pid[p]]
LateCallers(cs) == [q \in CheckProcs |->
    IF cs[q].op = "start" /\ cs[q].pc # "idle" THEN [cs[q] EXCEPT !.late = TRUE] ELSE cs[q]]
LateRunners(rs) == [u \in CheckTasks |->
    IF rs[u].pc = "unlink" THEN [rs[u] EXCEPT !.late = TRUE] ELSE rs[u]]

(***************************************************************************)
(* Callers: start_or_reuse_task with dispatch_task, request_task_stop,     *)
(* get_task_status                                                         *)
(***************************************************************************)
Goes(p, pc) == caller' = [caller EXCEPT ![p].pc = pc]

StartReads(p) ==
    /\ caller[p].pc = "idle"
    /\ \E t \in CheckTasks : runner[t].pc = "none"
    /\ checkAsks < MaxCheckAsks /\ checkAsks' = checkAsks + 1
    /\ caller' = [caller EXCEPT ![p] =
                    [IdleCaller EXCEPT
                       !.op = "start", !.task = marker.task, !.read = marker,
                       !.pc = IF marker.task = NoCheck THEN "create" ELSE "load"]]
    /\ UNCHANGED <<statusFile, memory, marker, runner, rows, pid,
                   askedAtWork, revived, orphaned, crossed>>

AskStatus(p, op, t) ==
    /\ caller[p].pc = "idle"
    /\ statusFile[t] # NoStatus
    /\ op = "stop" => p = Api
    /\ checkAsks < MaxCheckAsks /\ checkAsks' = checkAsks + 1
    /\ caller' = [caller EXCEPT ![p] = [IdleCaller EXCEPT !.op = op, !.task = t,
                                                          !.pc = "load"]]
    /\ UNCHANGED <<statusFile, memory, marker, runner, rows, pid,
                   askedAtWork, revived, orphaned, crossed>>

CallerLoads(p) ==
    /\ caller[p].pc = "load"
    /\ caller' = [caller EXCEPT ![p].pc = "store",
                                ![p].seen = statusFile[caller[p].task]]
    /\ UNCHANGED <<statusFile, memory, marker, runner, rows, checkAsks, pid,
                   askedAtWork, revived, orphaned, crossed>>

(* Sensitivity: a task that is stopping does not count as running.         *)
DecisionStopping(c, gone) ==
    CASE c.op = "poll" -> "idle"
      [] c.op = "stop" -> IF c.seen.state \in Finals THEN "idle" ELSE "stop"
      [] c.op = "start" -> IF c.seen.state # "running" THEN "clear"
                           ELSE IF gone THEN "recover" ELSE "idle"

(* What the caller does about the status it has read, and the owner.       *)
Decision(c, gone) ==
    CASE c.op = "poll" -> "idle"
      [] c.op = "stop" -> IF c.seen.state \in Finals THEN "idle" ELSE "stop"
      [] c.op = "start" -> IF c.seen.state \in Finals THEN "clear"
                           ELSE IF gone THEN "recover" ELSE "idle"

(* _pid_exists looks for the owner's process id and no more: it is free    *)
(* when the owner died and its successor has another one.  It may also be  *)
(* that of any other program by then.                                      *)
PidIsFree(m) == m.pid # pid[m.proc]

CallerStores(p) ==
    /\ caller[p].pc = "store"
    /\ Store(p, caller[p].task, caller[p].seen)
    /\ \E gone \in {FALSE, PidIsFree(caller[p].read)} :
       LET next == Decision(caller[p], gone) IN
       caller' = [caller EXCEPT ![p] = IF next = "idle" THEN IdleCaller
                                       ELSE [@ EXCEPT !.pc = next, !.seen = NoStatus,
                                                      !.read = NoMarker]]
    /\ UNCHANGED <<statusFile, marker, runner, rows, checkAsks, pid,
                   askedAtWork, revived, orphaned, crossed>>

(* request_task_stop after it has found the task unfinished.               *)
StopWrites(p) ==
    LET t == caller[p].task IN
    /\ caller[p].pc = "stop"
    /\ Write(p, t, [state |-> "stopping", stop |-> TRUE])
    /\ askedAtWork' = IF runner[t].pc = "work" THEN askedAtWork \cup {t}
                      ELSE askedAtWork
    /\ revived' = IF statusFile[t].state \in Finals THEN revived \cup {t}
                  ELSE revived
    /\ caller' = [caller EXCEPT ![p] = IdleCaller]
    /\ UNCHANGED <<marker, runner, rows, checkAsks, pid, orphaned, crossed>>

(* _recover_stale_active_task: the owner's process id is gone.             *)
Recover(p) ==
    /\ caller[p].pc = "recover"
    /\ Write(p, caller[p].task, [state |-> "stopped", stop |-> TRUE])
    /\ Goes(p, "clear")
    /\ UNCHANGED <<marker, runner, rows, checkAsks, pid, askedAtWork,
                   revived, orphaned, crossed>>

(* _clear_active_task compares, then removes, also when there was nothing  *)
(* to compare with.                                                        *)
NamesIt(t) == marker.task \in {t, NoCheck}

CallerClears(p) ==
    /\ caller[p].pc = "clear"
    /\ Goes(p, IF NamesIt(caller[p].task) THEN "unlink" ELSE "create")
    /\ UNCHANGED <<statusFile, memory, marker, runner, rows, checkAsks, pid,
                   askedAtWork, revived, orphaned, crossed>>

CallerUnlinks(p) ==
    /\ caller[p].pc = "unlink"
    /\ marker' = NoMarker
    /\ crossed' = (crossed \/ caller[p].late)
    /\ Goes(p, "create")
    /\ UNCHANGED <<statusFile, memory, runner, rows, checkAsks, pid,
                   askedAtWork, revived, orphaned>>

Create(p, t) ==
    /\ caller[p].pc = "create"
    /\ runner[t].pc = "none" /\ statusFile[t] = NoStatus
    /\ Write(p, t, [state |-> "running", stop |-> FALSE])
    /\ caller' = [caller EXCEPT ![p].pc = "mark", ![p].task = t]
    /\ UNCHANGED <<marker, runner, rows, checkAsks, pid, askedAtWork,
                   revived, orphaned, crossed>>

(* The marker, and the thread.                                             *)
Mark(p) ==
    LET t == caller[p].task IN
    /\ caller[p].pc = "mark"
    /\ MarkerIs(t, p)
    /\ crossed' = (crossed \/ caller[p].late)
    /\ runner' = LateRunners([runner EXCEPT ![t] = [NoRunner EXCEPT
                                            !.pc = "begin", !.proc = p]])
    /\ caller' = LateCallers([caller EXCEPT ![p] = IdleCaller])
    /\ UNCHANGED <<statusFile, memory, rows, checkAsks, pid, askedAtWork,
                   revived, orphaned>>

(***************************************************************************)
(* Threads: run_link_check_payload_task, run_link_check_task               *)
(***************************************************************************)
Left(r, pc)     == [NoRunner EXCEPT !.pc = pc, !.proc = r.proc]
At(t, pc)       == runner[t].pc = pc
Steps(t, pc)    == runner' = [runner EXCEPT ![t].pc = pc]
Reads(t, goal)  == runner' = [runner EXCEPT ![t].pc = "load", ![t].goal = goal]

(* An exception is caught, and the task ends as failed.                    *)
Fails(t) == runner' = [runner EXCEPT ![t].pc = "load", ![t].goal = "result",
                                     ![t].result = "failed"]

(* The marker is written once more, and the status. *)
Begin(t) ==
    LET p == runner[t].proc IN
    /\ At(t, "begin")
    /\ MarkerIs(t, p)
    /\ Write(p, t, [Current(p, t) EXCEPT !.state = "running"])
    /\ runner' = LateRunners([runner EXCEPT ![t].pc = "load", ![t].goal = "first"])
    /\ caller' = IF marker.task = t THEN caller ELSE LateCallers(caller)
    /\ UNCHANGED <<rows, checkAsks, pid, askedAtWork, revived, orphaned, crossed>>

(* Sensitivity: the status is taken from the process's memory.             *)
RunnerLoadsMemory(t) ==
    /\ At(t, "load")
    /\ runner' = [runner EXCEPT ![t].pc = "store",
                                ![t].seen = memory[runner[t].proc][t]]
    /\ UNCHANGED <<statusFile, memory, marker, caller, rows, checkAsks, pid,
                   askedAtWork, revived, orphaned, crossed>>

RunnerLoads(t) ==
    /\ At(t, "load")
    /\ runner' = [runner EXCEPT ![t].pc = "store", ![t].seen = statusFile[t]]
    /\ UNCHANGED <<statusFile, memory, marker, caller, rows, checkAsks, pid,
                   askedAtWork, revived, orphaned, crossed>>

(* A stop that was seen raises LinkCheckStopped; a task with no links, or  *)
(* with more than the limit, ends after the first look.                    *)
RunnerStores(t) ==
    LET r == runner[t]
        Then(pc) == [r EXCEPT !.pc = pc, !.seen = NoStatus, !.goal = "first"] IN
    /\ At(t, "store")
    /\ Store(r.proc, t, r.seen)
    /\ \E next \in
         CASE r.goal = "finally" ->
                {IF r.seen.state \in Finals THEN Then("clear") ELSE Left(r, "done")}
           [] r.goal = "result" -> {Then("end")}
           [] r.goal \in {"first", "callback", "last"} /\ r.seen.stop ->
                {[Then("load") EXCEPT !.goal = "result", !.result = "stopped"]}
           [] r.goal = "first" /\ ~r.seen.stop ->
                {Then("work")} \cup
                {[Then("end") EXCEPT !.result = x, !.early = TRUE] :
                   x \in {"completed", "failed"}}
           [] r.goal = "callback" /\ ~r.seen.stop -> {Then("note")}
           [] r.goal = "last" /\ ~r.seen.stop -> {Then("saving")} :
         runner' = [runner EXCEPT ![t] = next]
    /\ UNCHANGED <<statusFile, marker, caller, rows, checkAsks, pid,
                   askedAtWork, revived, orphaned, crossed>>

(* A link has been checked, all have been, or the check raises.            *)
Work(t) ==
    /\ At(t, "work")
    /\ Reads(t, "callback") \/ Reads(t, "last") \/ Fails(t)
    /\ UNCHANGED <<statusFile, memory, marker, caller, rows, checkAsks, pid,
                   askedAtWork, revived, orphaned, crossed>>

(* Progress is written, with whatever stop flag the memory has.            *)
Note(t) ==
    LET p == runner[t].proc IN
    /\ runner[t].pc \in {"note", "saving"}
    /\ Write(p, t, Current(p, t))
    /\ Steps(t, IF At(t, "note") THEN "work" ELSE "save")
    /\ UNCHANGED <<marker, caller, rows, checkAsks, pid, askedAtWork,
                   revived, orphaned, crossed>>

(* _save_link_check_rows: the stats are committed, then the details.       *)
Save(t) ==
    /\ At(t, "save")
    /\ \/ Fails(t) /\ \E saved \in {"none", "stats"} :
                         rows' = [rows EXCEPT ![t] = saved]
       \/ /\ rows' = [rows EXCEPT ![t] = "full"]
          /\ runner' = [runner EXCEPT ![t].pc = "end", ![t].result = "completed"]
    /\ UNCHANGED <<statusFile, memory, marker, caller, checkAsks, pid,
                   askedAtWork, revived, orphaned, crossed>>

End(t) ==
    LET p == runner[t].proc IN
    /\ At(t, "end")
    /\ Write(p, t, [Current(p, t) EXCEPT !.state = runner[t].result])
    /\ IF runner[t].early THEN Steps(t, "clear") ELSE Reads(t, "finally")
    /\ UNCHANGED <<marker, caller, rows, checkAsks, pid, askedAtWork,
                   revived, orphaned, crossed>>

Leaves(t) == runner' = [runner EXCEPT
    ![t] = IF runner[t].early THEN [Left(@, "load") EXCEPT !.goal = "finally"]
           ELSE Left(@, "done")]

RunnerClears(t) ==
    /\ At(t, "clear")
    /\ IF NamesIt(t) THEN Steps(t, "unlink") ELSE Leaves(t)
    /\ UNCHANGED <<statusFile, memory, marker, caller, rows, checkAsks, pid,
                   askedAtWork, revived, orphaned, crossed>>

RunnerUnlinks(t) ==
    /\ At(t, "unlink")
    /\ marker' = NoMarker
    /\ crossed' = (crossed \/ runner[t].late)
    /\ Leaves(t)
    /\ UNCHANGED <<statusFile, memory, caller, rows, checkAsks, pid,
                   askedAtWork, revived, orphaned>>

AtWork(t) == runner[t].pc \notin {"none", "done", "lost"}

(* A process dies; the files stay.  The one started in its place may get   *)
(* the same process id, as the first process of a container always does.   *)
CrashCheck(p, same) ==
    /\ checkAsks < MaxCheckAsks /\ checkAsks' = checkAsks + 1
    /\ pid' = [pid EXCEPT ![p] = IF same THEN @ ELSE @ + 1]
    /\ orphaned' = IF same /\ \E t \in CheckTasks :
                          marker.task = t /\ AtWork(t) /\ runner[t].proc = p
                   THEN orphaned \cup {marker.task} ELSE orphaned
    /\ memory' = [memory EXCEPT ![p] = [t \in CheckTasks |-> NoStatus]]
    /\ caller' = [caller EXCEPT ![p] = IdleCaller]
    /\ runner' = [t \in CheckTasks |->
                    IF runner[t].proc = p /\ runner[t].pc \notin {"none", "done"}
                    THEN Left(runner[t], "lost") ELSE runner[t]]
    /\ UNCHANGED <<statusFile, marker, rows, askedAtWork, revived, crossed>>

CallerSteps(p) ==
    \/ CallerLoads(p) \/ CallerStores(p) \/ StopWrites(p) \/ Recover(p)
    \/ CallerClears(p) \/ CallerUnlinks(p) \/ Mark(p)
    \/ \E t \in CheckTasks : Create(p, t)

RunnerSteps(t) ==
    \/ Begin(t) \/ RunnerLoads(t) \/ RunnerStores(t)
    \/ Work(t) \/ Note(t) \/ Save(t) \/ End(t) \/ RunnerClears(t)
    \/ RunnerUnlinks(t)

LinkCheckNext ==
    \/ \E p \in CheckProcs :
          \/ StartReads(p) \/ CallerSteps(p)
          \/ \E same \in BOOLEAN : CrashCheck(p, same)
          \/ \E t \in CheckTasks, op \in {"stop", "poll"} : AskStatus(p, op, t)
    \/ \E t \in CheckTasks : RunnerSteps(t)

LinkCheckSpec == LinkCheckInit /\ [][LinkCheckNext]_checkVars

(***************************************************************************)
(* Properties                                                              *)
(***************************************************************************)
Checking(t) == AtWork(t) /\ runner[t].goal # "finally"
                         /\ runner[t].pc \notin {"clear", "unlink"}

(* One task runs at a time (start_or_reuse_task, _clear_active_task): two  *)
(* do only after a task was created, or a marker removed, on the strength  *)
(* of a marker that had been replaced since it was read, or when a process *)
(* dies while it starts one.                                               *)
OneTaskRuns ==
    \A t, u \in CheckTasks : Checking(t) /\ Checking(u) => t = u \/ crossed

(* A stop request that is written during the network calls of a task is    *)
(* seen before anything is saved, in whichever process the task runs       *)
(* (should_stop_task); one that is written between a look and the update   *)
(* after it can be overwritten.                                            *)
StopIsObeyed ==
    \A t \in askedAtWork : rows[t] = "none" /\ statusFile[t].state # "completed"

(* A marker never blocks new tasks for good: the task it names is at work  *)
(* or being started, or its status is final, or its owner's process id is  *)
(* free unless a stranger has it; but it does when a stop request          *)
(* overwrote the final status (request_task_stop), or when the process     *)
(* started in the owner's place got its process id (_pid_exists).          *)
MarkerIsFreed ==
    LET t == marker.task IN
    t # NoCheck =>
        \/ AtWork(t)
        \/ statusFile[t].state \in Finals
        \/ PidIsFree(marker)
        \/ t \in revived \cup orphaned

(* The marker excludes a second task, and lets the next one in.            *)
MarkerGuards == OneTaskRuns /\ MarkerIsFreed
=============================================================================
