----------------------------- MODULE DedupSchedule -----------------------------
(***************************************************************************)
(* The row of system settings and those who write it: the scheduler of the *)
(* deduplication (a thread of the API), the requests of the API (its event *)
(* loop) and the resource worker (another process).                        *)
(*                                                                         *)
(* The JSON of the row is written as a whole, from the copy that was read  *)
(* before; the UPDATE waits for the lock of the row, and the copy grows    *)
(* old while it does.  The worker holds that lock while it recognizes a    *)
(* link.                                                                   *)
(***************************************************************************)
EXTENDS Integers

CONSTANTS
    MaxClock,      \* bound: hours
    MaxSaves,      \* bound: requests of the administrator
    MaxRunFaults   \* bound: passes that fail

ASSUME DedupScheduleAssumption ==
    MaxClock \in Nat /\ MaxSaves \in Nat /\ MaxRunFaults \in Nat

VARIABLES
    row,        \* the committed row
    job,        \* what an actor is at
    copy,       \* the row as it read it
    runLock,    \* pg_try_advisory_xact_lock(DEDUP_RUN_LOCK_KEY)
    rowLock,    \* lock of the settings row
    targetLock, \* lock of the link targets a pass deletes or a binding names
    clock,      \* hours
    saves, runFaults

schedVars == <<row, job, copy, runLock, rowLock, targetLock, clock, saves, runFaults>>

Actors    == {"scheduler", "api", "worker"}
Executors == {"scheduler", "api"}
NoActor   == "nobody"
NoTime    == 0
Row  == [on: BOOLEAN, next: 0..MaxClock + 2, auto: BOOLEAN, state: {"idle", "running"}]
Meta == {"completed", "failed", "waiting"}
Jobs == {"none", "executing", "deleted", "ensure", "read", "running", "bound",
         "on", "off", "auto", "sync"} \cup Meta

ScheduleTypeOK ==
    /\ row \in Row /\ copy \in [Actors -> Row] /\ job \in [Actors -> Jobs]
    /\ runLock \in Executors \cup {NoActor} /\ rowLock \in {"worker", NoActor}
    /\ targetLock \in Actors \cup {NoActor}
    /\ clock \in 1..MaxClock + 1 /\ saves \in 0..MaxSaves /\ runFaults \in 0..MaxRunFaults

ScheduleInit ==
    /\ row = [on |-> FALSE, next |-> NoTime, auto |-> FALSE, state |-> "idle"]
    /\ copy = [a \in Actors |-> row] /\ job = [a \in Actors |-> "none"]
    /\ runLock = NoActor /\ rowLock = NoActor /\ targetLock = NoActor
    /\ clock = 1 /\ saves = 0 /\ runFaults = 0

(* compute_dedup_next_run_at: the next time of the schedule is after now.  *)
ComputeNext(on) == IF on THEN clock + 1 ELSE NoTime

IsDue(r) == r.on /\ r.next # NoTime /\ r.next <= clock

Reads(a, j) == job' = [job EXCEPT ![a] = j] /\ copy' = [copy EXCEPT ![a] = row]
MovesOn(a, j) == job' = [job EXCEPT ![a] = j] /\ UNCHANGED copy

Releases(lock, a) == IF lock = a THEN NoActor ELSE lock

(***************************************************************************)
(* The deduplication                                                       *)
(***************************************************************************)
(* A scheduled tick; nothing is written when nothing is due.               *)
Tick ==
    /\ job["scheduler"] = "none" /\ row.on
    /\ \/ row.next = NoTime /\ Reads("scheduler", "ensure") /\ UNCHANGED runLock
       \/ /\ IsDue(row) /\ runLock = NoActor
          /\ Reads("scheduler", "executing") /\ runLock' = "scheduler"
       \/ /\ IsDue(row) /\ runLock # NoActor
          /\ Reads("scheduler", "waiting") /\ UNCHANGED runLock
    /\ UNCHANGED <<row, rowLock, targetLock, clock, saves, runFaults>>

(* Sensitivity: the answer of the lock is not looked at.                   *)
ManualRunIgnoring ==
    /\ job["api"] = "none" /\ saves < MaxSaves /\ saves' = saves + 1
    /\ Reads("api", "executing") /\ runLock' = "api"
    /\ UNCHANGED <<row, rowLock, targetLock, clock, runFaults>>

(* A manual run that finds the lock taken answers "busy" and writes        *)
(* nothing.                                                                *)
ManualRun ==
    /\ job["api"] = "none" /\ saves < MaxSaves /\ saves' = saves + 1
    /\ IF runLock = NoActor
       THEN Reads("api", "executing") /\ runLock' = "api"
       ELSE UNCHANGED <<job, copy, runLock>>
    /\ UNCHANGED <<row, rowLock, targetLock, clock, runFaults>>

Deletes(a) ==
    /\ job[a] = "executing" /\ targetLock = NoActor
    /\ MovesOn(a, "deleted") /\ targetLock' = a
    /\ UNCHANGED <<row, runLock, rowLock, clock, saves, runFaults>>

(* The configuration is read again at the end of the pass.                 *)
Finishes(a) ==
    /\ job[a] = "deleted" /\ Reads(a, "completed")
    /\ UNCHANGED <<row, runLock, rowLock, targetLock, clock, saves, runFaults>>

(* The rollback gives up what the pass holds; the row is read after it.    *)
FailsWith(a) ==
    /\ Reads(a, "failed")
    /\ runLock' = Releases(runLock, a) /\ targetLock' = Releases(targetLock, a)
    /\ UNCHANGED <<row, rowLock, clock, saves>>

Fails(a) ==
    /\ job[a] \in {"executing", "deleted"} /\ runFaults < MaxRunFaults
    /\ runFaults' = runFaults + 1 /\ FailsWith(a)

NextAfter(a, seen) ==
    IF seen.on /\ a = "api" /\ ~IsDue(seen) THEN seen.next ELSE ComputeNext(seen.on)

(* Sensitivity: the JSON is made anew, with the own part alone.            *)
WritesAnew(a, r) ==
    /\ rowLock = NoActor /\ row' = [r EXCEPT !.auto = @ /\ a = "api"] /\ MovesOn(a, "none")
    /\ UNCHANGED rowLock

Writes(a, r) ==
    /\ rowLock = NoActor /\ row' = r /\ MovesOn(a, "none")
    /\ UNCHANGED rowLock

(* update_dedup_runtime_meta and the commit: the locks end with it.        *)
WritesMeta(a) ==
    /\ job[a] \in Meta
    /\ Writes(a, [copy[a] EXCEPT !.next = NextAfter(a, copy[a])])
    /\ runLock' = Releases(runLock, a) /\ targetLock' = Releases(targetLock, a)
    /\ UNCHANGED <<clock, saves, runFaults>>

EnsuresNext ==
    /\ job["scheduler"] = "ensure"
    /\ Writes("scheduler", [copy["scheduler"] EXCEPT !.next =
            IF copy["scheduler"].next = NoTime THEN ComputeNext(copy["scheduler"].on) ELSE @])
    /\ UNCHANGED <<runLock, targetLock, clock, saves, runFaults>>

(***************************************************************************)
(* Requests of the administrator: settings, and a batch of the catalogue   *)
(* that writes its cursor into another part of the JSON                    *)
(***************************************************************************)
RequestReads(j) ==
    /\ job["api"] = "none" /\ saves < MaxSaves /\ saves' = saves + 1
    /\ Reads("api", j)
    /\ UNCHANGED <<row, runLock, rowLock, targetLock, clock, runFaults>>

Requested(j, r) ==
    CASE j = "on"   -> [r EXCEPT !.on = TRUE, !.next = ComputeNext(TRUE)]
      [] j = "off"  -> [r EXCEPT !.on = FALSE, !.next = NoTime]
      [] j = "auto" -> [r EXCEPT !.auto = ~@]
      [] j = "sync" -> r

RequestWrites ==
    /\ job["api"] \in {"on", "off", "auto", "sync"}
    /\ Writes("api", Requested(job["api"], copy["api"]))
    /\ UNCHANGED <<runLock, targetLock, clock, saves, runFaults>>

(***************************************************************************)
(* The worker: an iteration writes its state, recognizes, writes again     *)
(***************************************************************************)
WorkerReads ==
    /\ job["worker"] = "none" /\ Reads("worker", "read")
    /\ UNCHANGED <<row, runLock, rowLock, targetLock, clock, saves, runFaults>>

WorkerIsIdle ==
    /\ job["worker"] = "read" /\ Writes("worker", [copy["worker"] EXCEPT !.state = "idle"])
    /\ UNCHANGED <<runLock, targetLock, clock, saves, runFaults>>

WorkerClaims ==
    /\ job["worker"] = "read" /\ rowLock = NoActor /\ rowLock' = "worker"
    /\ MovesOn("worker", "running")
    /\ UNCHANGED <<row, runLock, targetLock, clock, saves, runFaults>>

WorkerBinds ==
    /\ job["worker"] = "running" /\ targetLock = NoActor /\ targetLock' = "worker"
    /\ MovesOn("worker", "bound")
    /\ UNCHANGED <<row, runLock, rowLock, clock, saves, runFaults>>

WorkerEnds(r) ==
    /\ row' = r /\ rowLock' = NoActor /\ targetLock' = Releases(targetLock, "worker")
    /\ MovesOn("worker", "none") /\ UNCHANGED <<runLock, clock, saves, runFaults>>

WorkerCommits ==
    job["worker"] = "bound" /\ WorkerEnds([copy["worker"] EXCEPT !.state = "idle"])

(* A pass waits for the row and the worker for a target of the pass: the   *)
(* database aborts one of the two.                                         *)
DeadlockDetected(a) ==
    /\ targetLock = a /\ job[a] \in Meta
    /\ rowLock = "worker" /\ job["worker"] = "running"
    /\ \/ FailsWith(a) /\ UNCHANGED runFaults
       \/ WorkerEnds(row)

HourPasses ==
    /\ clock < MaxClock /\ clock' = clock + 1
    /\ UNCHANGED <<row, job, copy, runLock, rowLock, targetLock, saves, runFaults>>

ExecutorStep(a) == Deletes(a) \/ Finishes(a) \/ WritesMeta(a) \/ DeadlockDetected(a)
WorkerStep == WorkerReads \/ WorkerIsIdle \/ WorkerClaims \/ WorkerBinds \/ WorkerCommits

ScheduleNext ==
    \/ Tick \/ EnsuresNext \/ ManualRun
    \/ \E a \in Executors : ExecutorStep(a) \/ Fails(a)
    \/ \E j \in {"on", "off", "auto", "sync"} : RequestReads(j)
    \/ RequestWrites \/ WorkerStep \/ HourPasses

ScheduleSpec == ScheduleInit /\ [][ScheduleNext]_schedVars

(***************************************************************************)
(* Properties                                                              *)
(***************************************************************************)
(* Two passes never run at the same time, whoever started them: each would *)
(* delete what the other one keeps.                                        *)
Passing(a) == job[a] \in {"executing", "deleted", "completed"}

OneDedupExecutes == \A a, b \in Executors : Passing(a) /\ Passing(b) => a = b

(* A setting changes by the request that saves it, or is undone by a write *)
(* whose copy is older than that; what the deduplication and the worker    *)
(* write about themselves does not touch it.                               *)
Stale(a) == job[a] # "none" /\ copy[a].auto # row.auto

SettingStays ==
    [][row'.auto # row.auto =>
          job["api"] = "auto" \/ \E a \in Actors : Stale(a) /\ job'[a] = "none"]_schedVars
=============================================================================
