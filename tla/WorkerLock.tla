------------------------------ MODULE WorkerLock ------------------------------
(***************************************************************************)
(* The advisory lock that makes one worker process the active one.  The    *)
(* lock belongs to a database session, that is to a pooled connection, and *)
(* not to the Python object that asked for it: each ORM session takes a    *)
(* connection from the pool of its process when it runs its first          *)
(* statement and gives it back when it commits or closes, and the pool     *)
(* hands out the connection that was returned last.                        *)
(***************************************************************************)
EXTENDS Integers, Sequences

CONSTANTS
    Procs,          \* worker processes
    Slots,          \* connections a pool may open
    NoSlot,         \* "no connection"
    Tasks,          \* tasks in an iteration: recognition, transfer, ...
    MaxLost,        \* bound: connections replaced while they hold the lock
    MaxFailures     \* bound: exceptions that end an iteration

ASSUME NoSlotAssumption == NoSlot \notin Slots
ASSUME TasksAssumption  == Tasks \in Nat \ {0}

VARIABLES
    pc,        \* where the main loop of a process is
    task,      \* tasks done in this iteration of the inner loop
    stop,      \* _stop_event is set
    pool,      \* idle connections of a process, the next one last
    uses,      \* the connection each thread of a process has checked out
    hold,      \* how often a connection holds the advisory lock
    lost,      \* history: replaced connections that held the lock
    failures   \* history: failed iterations

vars == <<pc, task, stop, pool, uses, hold, lost, failures>>

Threads == {"main", "scheduler"}

PC == {"down", "acquire", "granted", "denied", "loop", "work", "task",
       "release", "report", "unlock", "unlocked"}

TypeOK ==
    /\ pc \in [Procs -> PC]
    /\ task \in [Procs -> 0..Tasks]
    /\ stop \in [Procs -> BOOLEAN]
    /\ pool \in [Procs -> Seq(Slots)]
    /\ uses \in [Procs -> [Threads -> Slots \cup {NoSlot}]]
    /\ hold \in [Procs -> [Slots -> Nat]]
    /\ lost \in Nat
    /\ failures \in Nat

NoConnection == [t \in Threads |-> NoSlot]
NoLock       == [s \in Slots |-> 0]

Init ==
    /\ pc = [p \in Procs |-> "down"]
    /\ task = [p \in Procs |-> 0]
    /\ stop = [p \in Procs |-> FALSE]
    /\ pool = [p \in Procs |-> <<>>]
    /\ uses = [p \in Procs |-> NoConnection]
    /\ hold = [p \in Procs |-> NoLock]
    /\ lost = 0
    /\ failures = 0

(***************************************************************************)
(* The connection pool                                                     *)
(***************************************************************************)
Idle(p) == {pool[p][k] : k \in DOMAIN pool[p]}
Busy(p) == {uses[p][t] : t \in Threads}

(* The connection the pool hands out: the one returned last, or a new one. *)
Offered(p) == IF pool[p] # <<>> THEN {pool[p][Len(pool[p])]}
              ELSE Slots \ Busy(p)

(* Thread t checks connection s out.  A connection older than pool_recycle *)
(* or found dead is replaced at that moment, and with it goes the lock.    *)
CheckOut(p, t, s, replaced) ==
    /\ uses[p][t] = NoSlot
    /\ s \in Offered(p)
    /\ replaced => hold[p][s] > 0 /\ lost < MaxLost
    /\ pool' = IF pool[p] = <<>> THEN pool
               ELSE [pool EXCEPT ![p] = SubSeq(pool[p], 1, Len(pool[p]) - 1)]
    /\ uses' = [uses EXCEPT ![p][t] = s]
    /\ lost' = IF replaced THEN lost + 1 ELSE lost

Held(p, s, replaced) == IF replaced THEN 0 ELSE hold[p][s]

CheckIn(p, t) ==
    /\ uses[p][t] # NoSlot
    /\ pool' = [pool EXCEPT ![p] = Append(pool[p], uses[p][t])]
    /\ uses' = [uses EXCEPT ![p][t] = NoSlot]
    /\ UNCHANGED lost

(***************************************************************************)
(* The main loop                                                           *)
(***************************************************************************)
(* systemd starts the process. *)
Start(p) ==
    /\ pc[p] = "down"
    /\ pc' = [pc EXCEPT ![p] = "acquire"]
    /\ stop' = [stop EXCEPT ![p] = FALSE]
    /\ UNCHANGED <<task, pool, uses, hold, lost, failures>>

(* pg_try_advisory_lock: granted unless another database session holds it, *)
(* and counted when the same one holds it already.                         *)
Free(p, s) ==
    \A q \in Procs, r \in Slots : hold[q][r] > 0 => q = p /\ r = s

TryLock(p) ==
    \E s \in Slots, replaced \in BOOLEAN :
        /\ pc[p] = "acquire" /\ ~stop[p]
        /\ CheckOut(p, "main", s, replaced)
        /\ LET got == Free(p, s) IN
           /\ hold' = [hold EXCEPT ![p][s] =
                         Held(p, s, replaced) + (IF got THEN 1 ELSE 0)]
           /\ pc' = [pc EXCEPT ![p] = IF got THEN "granted" ELSE "denied"]
        /\ UNCHANGED <<task, stop, failures>>

(* Sensitivity: a transaction-level lock, released by that commit.         *)
EnterReleases(p) ==
    /\ pc[p] = "granted"
    /\ CheckIn(p, "main")
    /\ pc' = [pc EXCEPT ![p] = "loop"]
    /\ hold' = [hold EXCEPT ![p] = NoLock]
    /\ UNCHANGED <<task, stop, failures>>

(* lock_session.commit() gives the connection back; the lock stays on it.  *)
Enter(p) ==
    /\ pc[p] = "granted"
    /\ CheckIn(p, "main")
    /\ pc' = [pc EXCEPT ![p] = "loop"]
    /\ UNCHANGED <<task, stop, hold, failures>>

Wait(p) ==
    /\ pc[p] = "denied"
    /\ CheckIn(p, "main")
    /\ pc' = [pc EXCEPT ![p] = "acquire"]
    /\ UNCHANGED <<task, stop, hold, failures>>

(* The session of the next task.  The stop event is looked at before the   *)
(* first task of an iteration and after the last one.                      *)
Open(p) ==
    \E s \in Slots, replaced \in BOOLEAN :
        /\ \/ pc[p] = "task"
           \/ pc[p] = "loop" /\ task[p] < Tasks /\ (task[p] = 0 => ~stop[p])
        /\ CheckOut(p, "main", s, replaced)
        /\ hold' = [hold EXCEPT ![p][s] = Held(p, s, replaced)]
        /\ pc' = [pc EXCEPT ![p] = "work"]
        /\ UNCHANGED <<task, stop, failures>>

(* A commit within the task gives the connection back as its end does.     *)
Commit(p) ==
    /\ pc[p] = "work"
    /\ CheckIn(p, "main")
    /\ pc' = [pc EXCEPT ![p] = "task"]
    /\ UNCHANGED <<task, stop, hold, failures>>

Close(p) ==
    /\ pc[p] = "work"
    /\ CheckIn(p, "main")
    /\ pc' = [pc EXCEPT ![p] = "loop"]
    /\ task' = [task EXCEPT ![p] = @ + 1]
    /\ UNCHANGED <<stop, hold, failures>>

Iterate(p) ==
    /\ pc[p] = "loop" /\ task[p] = Tasks /\ ~stop[p]
    /\ task' = [task EXCEPT ![p] = 0]
    /\ UNCHANGED <<pc, stop, pool, uses, hold, lost, failures>>

(* The commit after the lock, or the handler of a failed task, raises: the *)
(* inner loop is left.                                                     *)
Fail(p) ==
    /\ pc[p] \in {"granted", "work"}
    /\ failures < MaxFailures
    /\ CheckIn(p, "main")
    /\ pc' = [pc EXCEPT ![p] = "release"]
    /\ task' = [task EXCEPT ![p] = 0]
    /\ failures' = failures + 1
    /\ UNCHANGED <<stop, hold>>

Leave(p) ==
    /\ pc[p] = "loop" /\ stop[p] /\ task[p] \in {0, Tasks}
    /\ pc' = [pc EXCEPT ![p] = "release"]
    /\ task' = [task EXCEPT ![p] = 0]
    /\ UNCHANGED <<stop, pool, uses, hold, lost, failures>>

(* The finally block first reports the worker idle, in its own session.    *)
Report(p) ==
    \E s \in Slots, replaced \in BOOLEAN :
        /\ pc[p] = "release"
        /\ CheckOut(p, "main", s, replaced)
        /\ hold' = [hold EXCEPT ![p][s] = Held(p, s, replaced)]
        /\ pc' = [pc EXCEPT ![p] = "report"]
        /\ UNCHANGED <<task, stop, failures>>

Reported(p) ==
    /\ pc[p] = "report"
    /\ CheckIn(p, "main")
    /\ pc' = [pc EXCEPT ![p] = "unlock"]
    /\ UNCHANGED <<task, stop, hold, failures>>

(* That or the unlock raises: the lock stays, the loop goes on.            *)
ReportFails(p) ==
    /\ pc[p] = "report"
    /\ failures < MaxFailures
    /\ CheckIn(p, "main")
    /\ pc' = [pc EXCEPT ![p] = "acquire"]
    /\ failures' = failures + 1
    /\ UNCHANGED <<task, stop, hold>>

(* pg_advisory_unlock on whatever connection lock_session gets now: where  *)
(* the lock is not held it returns false, which nothing looks at.          *)
Unlock(p) ==
    \E s \in Slots, replaced \in BOOLEAN :
        /\ pc[p] = "unlock"
        /\ CheckOut(p, "main", s, replaced)
        /\ LET h == Held(p, s, replaced) IN
           hold' = [hold EXCEPT ![p][s] = IF h > 0 THEN h - 1 ELSE 0]
        /\ pc' = [pc EXCEPT ![p] = "unlocked"]
        /\ UNCHANGED <<task, stop, failures>>

Unlocked(p) ==
    /\ pc[p] = "unlocked"
    /\ CheckIn(p, "main")
    /\ pc' = [pc EXCEPT ![p] = "acquire"]
    /\ UNCHANGED <<task, stop, hold, failures>>

(* Sensitivity: the server keeps the lock of a session that is gone.       *)
ClosedKeepsLock(p) ==
    /\ pc' = [pc EXCEPT ![p] = "down"]
    /\ task' = [task EXCEPT ![p] = 0]
    /\ pool' = [pool EXCEPT ![p] = <<>>]
    /\ uses' = [uses EXCEPT ![p] = NoConnection]
    /\ UNCHANGED <<stop, hold, lost, failures>>

(* The process ends; the server closes its sessions and frees their locks. *)
Closed(p) ==
    /\ pc' = [pc EXCEPT ![p] = "down"]
    /\ task' = [task EXCEPT ![p] = 0]
    /\ pool' = [pool EXCEPT ![p] = <<>>]
    /\ uses' = [uses EXCEPT ![p] = NoConnection]
    /\ hold' = [hold EXCEPT ![p] = NoLock]
    /\ UNCHANGED <<stop, lost, failures>>

Exit(p) == pc[p] = "acquire" /\ stop[p] /\ Closed(p)

Kill(p) == pc[p] # "down" /\ Closed(p)

(* SIGINT or SIGTERM. *)
Signal(p) ==
    /\ pc[p] # "down"
    /\ ~stop[p]
    /\ stop' = [stop EXCEPT ![p] = TRUE]
    /\ UNCHANGED <<pc, task, pool, uses, hold, lost, failures>>

(***************************************************************************)
(* The link-check scheduler thread of the process uses the same pool.      *)
(***************************************************************************)
Tick(p) ==
    \E s \in Slots, replaced \in BOOLEAN :
        /\ pc[p] # "down"
        /\ CheckOut(p, "scheduler", s, replaced)
        /\ hold' = [hold EXCEPT ![p][s] = Held(p, s, replaced)]
        /\ UNCHANGED <<pc, task, stop, failures>>

TickEnds(p) ==
    /\ CheckIn(p, "scheduler")
    /\ UNCHANGED <<pc, task, stop, hold, failures>>

(***************************************************************************)
(* Specification                                                           *)
(***************************************************************************)
MainStep(p) == \/ TryLock(p) \/ Enter(p) \/ Wait(p)
               \/ Open(p) \/ Commit(p) \/ Close(p) \/ Iterate(p)
               \/ Leave(p) \/ Report(p) \/ Reported(p)
               \/ Unlock(p) \/ Unlocked(p) \/ Exit(p)

Next == \E p \in Procs :
            \/ Start(p) \/ MainStep(p) \/ Fail(p) \/ ReportFails(p)
            \/ Kill(p) \/ Signal(p) \/ Tick(p) \/ TickEnds(p)

Spec == Init /\ [][Next]_vars

(* A process that runs goes on running; the scheduler's queries end.       *)
Fairness == \A p \in Procs : WF_vars(MainStep(p)) /\ WF_vars(TickEnds(p))

FairSpec == Spec /\ Fairness

(***************************************************************************)
(* Properties                                                              *)
(***************************************************************************)
(* has_lock is true and the process executes or is about to.               *)
Working(p) == pc[p] \in {"granted", "loop", "work", "task"}

(* Two processes execute only after a connection was replaced while it     *)
(* held the lock, whatever connections the statements of the main loop and *)
(* of the scheduler thread run on, and whatever fails (worker/main.py).    *)
ExclusiveUnlessLost ==
    \A p, q \in Procs : Working(p) /\ Working(q) /\ p # q => lost > 0

(* A process that waits for the lock gets it, or another one executes, or  *)
(* it is stopped: the lock of a process that was stopped or killed is not  *)
(* left behind.  After a failed iteration it may be, on another connection *)
(* of its own process, and the process is then refused.                    *)
WaitingEnds ==
    \A p \in Procs : (pc[p] = "acquire" /\ failures = 0)
        ~> (pc[p] = "down" \/ failures > 0 \/ \E q \in Procs : Working(q))

=============================================================================
