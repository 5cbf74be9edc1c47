----------------------------- MODULE FollowSync -----------------------------
(***************************************************************************)
(* Follow tasks and the transfer batches they queue.  A follow task is one *)
(* row that the worker checks periodically and the admin API changes at    *)
(* any time; a sync puts it into sync_queued and leaves it there until the *)
(* worker has executed the batch and a hook reports the result.            *)
(*                                                                         *)
(* The worker keeps its copy of the row while a check waits for links and  *)
(* directories (expire_on_commit is off), commits before each such call,   *)
(* and its UPDATEs carry the columns that changed in the copy.  Whoever    *)
(* else changes a row reads it without a lock and commits later: a request *)
(* (edit, seen), the request that creates a sync and awaits a directory    *)
(* scan in between (aim, copy), the hook that reports an item, and the     *)
(* handler of a check that failed.  The API runs on one event loop, so its *)
(* requests overlap each other only where they await; the worker is        *)
(* another process.                                                        *)
(* How a batch item is executed is in TransferQueue; here an attempt is    *)
(* claimed and then succeeds or fails.                                     *)
(***************************************************************************)
EXTENDS Naturals, FiniteSets

CONSTANTS
    Tasks,          \* follow task identifiers, each used at most once
    Batches,        \* follow-sync batches, each with its one item
    Clients,        \* API requests that create a sync
    None,           \* "nothing": no task, no batch
    MaxAttempts,    \* max_attempts of a batch item
    MaxRequests,    \* bound: API requests on existing tasks and batches
    MaxCrashes      \* bound: worker crashes

ASSUME NoneAssumption     == None \notin Tasks \cup Batches
ASSUME AttemptsAssumption == MaxAttempts \in Nat \ {0}

VARIABLES
    task,      \* committed follow task rows
    batch,     \* committed batches with their items
    pc,        \* what the worker executes: "idle", "item" and the "report" of
               \* it, "check", "automate", or "failing": an exception in these two
    turn,      \* the task of its loop that comes next: "item" or "check"
    on,        \* the batch or the follow task it works on
    mem,       \* its copy of the follow task row
    aim,       \* the follow task an open sync request is about
    copy,      \* the row as that request has read it
    edit,      \* the task that the request on the event loop changes
    seen,      \* the row as that request has read it
    dropped,   \* history: tasks left behind, see LeaveBehind and Saves
    requests,  \* history: API requests so far
    crashes    \* history: worker crashes

work == <<pc, turn, on, mem>>
api  == <<aim, copy, edit, seen>>
vars == <<task, batch, work, api, dropped, requests, crashes>>

(***************************************************************************)
(* Types                                                                   *)
(***************************************************************************)
(* "invalid" is source_invalid or share_invalid; next is next_check_at:    *)
(* NULL, in the future, or reached; auto is automation.enabled in the      *)
(* column extra_json; cand says that a candidate source is stored.         *)
States == {"queued", "checking", "idle", "candidate_found", "invalid",
           "sync_queued", "error"}
Row == [status : {"absent", "active", "paused", "deleted"}, state : States,
        next : {"never", "later", "now"}, auto : BOOLEAN, cand : BOOLEAN]

(* "stale" is PROCESSING with an expired lock, "due" a RETRY_WAIT whose    *)
(* delay is over.                                                          *)
Active == {"queued", "processing", "stale", "waiting", "due"}
Batch  == [status : Active \cup {"absent", "completed", "failed", "deleted"},
           of : Tasks \cup {None}, cancelled : BOOLEAN, attempts : 0..MaxAttempts]

TypeOK ==
    /\ task \in [Tasks -> Row]
    /\ batch \in [Batches -> Batch]
    /\ pc \in {"idle", "item", "report", "check", "automate", "failing"}
    /\ turn \in {"item", "check"}
    /\ on \in Tasks \cup Batches \cup {None}
    /\ mem \in Row
    /\ aim \in [Clients -> Tasks \cup {None}]
    /\ copy \in [Clients -> Row]
    /\ edit \in Tasks \cup {None}
    /\ seen \in Row
    /\ dropped \subseteq Tasks
    /\ requests \in Nat
    /\ crashes \in Nat

Blank   == [status |-> "absent", state |-> "idle", next |-> "never",
            auto |-> FALSE, cand |-> FALSE]
NoBatch == [status |-> "absent", of |-> None, cancelled |-> FALSE, attempts |-> 0]

Init ==
    /\ task = [t \in Tasks |-> Blank]
    /\ batch = [b \in Batches |-> NoBatch]
    /\ pc = "idle"
    /\ turn = "item"
    /\ on = None
    /\ mem = Blank
    /\ aim = [c \in Clients |-> None]
    /\ copy = [c \in Clients |-> Blank]
    /\ edit = None
    /\ seen = Blank
    /\ dropped = {}
    /\ requests = 0
    /\ crashes = 0

(***************************************************************************)
(* Rows                                                                    *)
(***************************************************************************)
Exists(t)  == task[t].status \in {"active", "paused"}
Syncing(t) == \E b \in Batches : batch[b].of = t /\ batch[b].status \in Active
Checked(t) == pc \in {"check", "automate", "failing"} /\ on = t

(* _schedule_follow_task_next_check *)
Scheduled(row) ==
    [row EXCEPT !.next = IF /\ row.status = "active"
                            /\ row.state \notin {"checking", "sync_queued"}
                         THEN "later" ELSE "never"]

(* The UPDATE a session sends for a row that it read as old and changed to *)
(* new: the columns that differ, and those whose other content it rewrote. *)
Flushed(row, old, new, rewritten) ==
    [f \in DOMAIN row |->
        IF new[f] # old[f] \/ f \in rewritten THEN new[f] ELSE row[f]]

(* next_check_at is computed from the clock: one that is written is new.   *)
Times(new) == {f \in {"next"} : new.next # "never"}

(* A row that waits for nothing but its time. *)
Settled(row) ==
    /\ row.state \notin {"checking", "sync_queued"}
    /\ row.status = "active" => row.next # "never"

(* A commit of row, computed from an earlier reading.  It returns a task   *)
(* that was left behind; it leaves one behind if overtaken says that what  *)
(* it had read is over and the row it writes waits for that.               *)
Saves(t, row, overtaken) ==
    /\ task' = [task EXCEPT ![t] = row]
    /\ dropped' = IF Settled(row) THEN dropped \ {t}
                  ELSE IF overtaken THEN dropped \cup {t} ELSE dropped

WithoutCandidate(row) ==
    {[row EXCEPT !.state = s, !.cand = FALSE] : s \in {"idle", "invalid"}}

(* The outcomes of a batch that no hook reports to its task, and a check   *)
(* that ends with its worker: nothing in the program returns to the task.  *)
LeaveBehind(t) == dropped' = IF Exists(t) THEN dropped \cup {t} ELSE dropped

(* create_pan_transfer_follow_sync_batch, the batch *)
NewBatch(b, t) ==
    /\ batch[b].status = "absent"
    /\ batch' = [batch EXCEPT ![b] = [NoBatch EXCEPT !.status = "queued", !.of = t]]

(***************************************************************************)
(* The worker: batch items                                                 *)
(***************************************************************************)
Rest(next) == pc' = "idle" /\ turn' = next /\ on' = None /\ mem' = Blank

(* recycle_stale_pan_transfer_locks, run by every claim *)
Recycled ==
    [b \in Batches |->
        IF batch[b].status = "stale"
        THEN [batch[b] EXCEPT !.status = IF batch[b].cancelled THEN "failed" ELSE "queued"]
        ELSE batch[b]]

Unreported ==
    {t \in Tasks : Exists(t) /\ \E b \in Batches :
        batch[b].of = t /\ batch[b].status = "stale" /\ batch[b].cancelled}

Claimable(row) == row.status \in {"queued", "due"} /\ ~row.cancelled

ClaimItem(b) ==
    /\ pc = "idle" /\ turn = "item"
    /\ Claimable(Recycled[b])
    /\ batch' = [Recycled EXCEPT ![b].status = "processing"]
    /\ dropped' = dropped \cup Unreported
    /\ pc' = "item" /\ on' = b
    /\ UNCHANGED <<task, turn, mem, api, requests, crashes>>

PassItem ==
    /\ pc = "idle" /\ turn = "item"
    /\ \A b \in Batches : ~Claimable(Recycled[b])
    /\ batch' = Recycled
    /\ dropped' = dropped \cup Unreported
    /\ turn' = "check"
    /\ UNCHANGED <<task, pc, on, mem, api, requests, crashes>>

(* The hook reads the row of its task, in the transaction that records    *)
(* the outcome of the item.                                                *)
ItemReports(b) ==
    /\ pc = "item" /\ on = b
    /\ pc' = "report"
    /\ mem' = task[batch[b].of]
    /\ UNCHANGED <<task, batch, turn, on, api, dropped, requests, crashes>>

Resumed(t) == mem.status = "paused" /\ task[t].status = "active"

(* What a hook makes of the row of t.  Hooks run in a savepoint, and an    *)
(* exception in one is logged and forgotten.                               *)
Report(t, new) ==
    \/ /\ Exists(t) /\ mem.status \in {"active", "paused"}
       /\ Saves(t, Flushed(task[t], mem, Scheduled(new), Times(Scheduled(new))), Resumed(t))
    \/ /\ LeaveBehind(t)
       /\ UNCHANGED task

(* mark_pan_transfer_item_success, handle_follow_sync_item_success *)
ItemSucceeds(b) ==
    /\ pc = "report" /\ on = b
    /\ batch' = [batch EXCEPT ![b].status = "completed"]
    /\ Report(batch[b].of, [mem EXCEPT !.state = "idle", !.cand = FALSE])
    /\ Rest("check")
    /\ UNCHANGED <<api, requests, crashes>>

(* mark_pan_transfer_item_error, then handle_follow_sync_item_failure: the *)
(* hook runs also when the item waits for another attempt.                 *)
ItemFails(b) ==
    LET n == batch[b].attempts + 1 IN
    /\ pc = "report" /\ on = b
    /\ \E end \in {"waiting", "failed"} :
        /\ end = "waiting" => n < MaxAttempts /\ ~batch[b].cancelled
        /\ batch' = [batch EXCEPT ![b].status = end,
                        ![b].attempts = IF n < MaxAttempts THEN n ELSE MaxAttempts]
    /\ Report(batch[b].of, [mem EXCEPT !.state = "error"])
    /\ Rest("check")
    /\ UNCHANGED <<api, requests, crashes>>

(***************************************************************************)
(* The worker: checks                                                      *)
(***************************************************************************)
(* Sensitivity: tasks that found a candidate or failed are not due again. *)
DueQueuedOrIdle(t) ==
    /\ task[t].status = "active" /\ task[t].next = "now"
    /\ task[t].state \in {"queued", "idle"}

(* process_next_pan_transfer_follow_task, the claim *)
Due(t) ==
    /\ task[t].status = "active" /\ task[t].next = "now"
    /\ task[t].state \notin {"checking", "sync_queued"}

ClaimTask(t) ==
    /\ pc = "idle" /\ turn = "check"
    /\ Due(t)
    /\ mem' = [task[t] EXCEPT !.state = "checking"]
    /\ task' = [task EXCEPT ![t] = mem']
    /\ pc' = "check" /\ on' = t
    /\ UNCHANGED <<batch, turn, api, dropped, requests, crashes>>

PassTask ==
    /\ pc = "idle" /\ turn = "check"
    /\ \A t \in Tasks : ~Due(t)
    /\ turn' = "item"
    /\ UNCHANGED <<task, batch, pc, on, mem, api, dropped, requests, crashes>>

(* A commit in the course of the check or of its automation. *)
Commits(t, new, rewritten) ==
    /\ task' = [task EXCEPT ![t] = Flushed(task[t], mem, new, rewritten)]
    /\ mem' = new
    /\ UNCHANGED <<turn, on>>

(* The commit that ends them. *)
Ends(t, new, rewritten) ==
    /\ task' = [task EXCEPT ![t] = Flushed(task[t], mem, Scheduled(new), rewritten)]
    /\ Rest("item")

At(t, place) == pc = place /\ on = t /\ Exists(t)

(* Link states and snapshots are recorded before the next external call; a *)
(* stored candidate that no longer qualifies is removed.                   *)
CheckWrites(t) ==
    /\ At(t, "check")
    /\ \E cand \in {mem.cand, FALSE}, rewritten \in SUBSET {"auto"} :
        Commits(t, [mem EXCEPT !.cand = cand], rewritten)
    /\ UNCHANGED <<pc, batch, api, dropped, requests, crashes>>

(* The result of the check is committed before its automation starts.      *)
CheckFinds(t) ==
    /\ At(t, "check")
    /\ \E new \in WithoutCandidate(mem) \cup
                  {[mem EXCEPT !.state = "candidate_found", !.cand = TRUE]},
          rewritten \in SUBSET {"auto", "cand"} :
        Commits(t, new, rewritten)
    /\ pc' = "automate"
    /\ UNCHANGED <<batch, api, dropped, requests, crashes>>

(* The same episode: its links are replaced and there is no automation.    *)
CheckEnds(t) ==
    /\ At(t, "check")
    /\ \E new \in WithoutCandidate(mem) : Ends(t, new, {"auto"})
    /\ UNCHANGED <<batch, api, dropped, requests, crashes>>

AutomationOff(t) ==
    /\ At(t, "automate") /\ ~mem.auto
    /\ Ends(t, mem, {})
    /\ UNCHANGED <<batch, api, dropped, requests, crashes>>

(* The time of the automatic check is recorded, a candidate dropped.       *)
AutomationWrites(t) ==
    /\ At(t, "automate") /\ mem.auto
    /\ \E cand \in {mem.cand, FALSE} : Commits(t, [mem EXCEPT !.cand = cand], {"auto"})
    /\ UNCHANGED <<pc, batch, api, dropped, requests, crashes>>

(* No source or nothing to transfer; or a conflict, and automation stops.  *)
AutomationEnds(t) ==
    /\ At(t, "automate") /\ mem.auto
    /\ \E new \in {mem} \cup WithoutCandidate(mem), enabled \in BOOLEAN :
        Ends(t, [new EXCEPT !.auto = enabled], {"auto"})
    /\ UNCHANGED <<batch, api, dropped, requests, crashes>>

(* Sensitivity: the batch is rolled back, the state is not. *)
AutomationSyncsNothing(t, b) ==
    /\ At(t, "automate") /\ mem.auto
    /\ mem.state # "sync_queued"
    /\ batch[b].status = "absent"
    /\ \E cand \in {mem.cand, FALSE} :
        Ends(t, [mem EXCEPT !.state = "sync_queued", !.cand = cand], {"auto"})
    /\ UNCHANGED <<batch, api, dropped, requests, crashes>>

(* create_pan_transfer_follow_sync_batch: its guard looks at the copy. *)
AutomationSyncs(t, b) ==
    /\ At(t, "automate") /\ mem.auto
    /\ mem.state # "sync_queued"
    /\ NewBatch(b, t)
    /\ \E cand \in {mem.cand, FALSE} :
        Ends(t, [mem EXCEPT !.state = "sync_queued", !.cand = cand], {"auto"})
    /\ UNCHANGED <<api, dropped, requests, crashes>>

(* An exception: rollback, and the row is read again. *)
CheckRaises(t) ==
    /\ At(t, "check") \/ At(t, "automate")
    /\ pc' = "failing"
    /\ mem' = task[t]
    /\ UNCHANGED <<task, batch, turn, on, api, dropped, requests, crashes>>

CheckFails(t) ==
    LET new == Scheduled([mem EXCEPT !.state = "error"]) IN
    /\ At(t, "failing")
    /\ Saves(t, Flushed(task[t], mem, new, Times(new)), Resumed(t))
    /\ Rest("item")
    /\ UNCHANGED <<batch, api, requests, crashes>>

(* The row was deleted: its UPDATE matches nothing, and the exception      *)
(* handler does not find the row either.                                   *)
CheckLost(t) ==
    /\ Checked(t) /\ ~Exists(t)
    /\ Rest("item")
    /\ UNCHANGED <<task, batch, api, dropped, requests, crashes>>

(* The worker dies and is started again. *)
Crash ==
    /\ pc # "idle" /\ crashes < MaxCrashes
    /\ crashes' = crashes + 1
    /\ IF pc \in {"item", "report"} THEN UNCHANGED dropped ELSE LeaveBehind(on)
    /\ Rest("item")
    /\ UNCHANGED <<task, batch, api, requests>>

(***************************************************************************)
(* Time                                                                    *)
(***************************************************************************)
Tick(t) ==
    /\ task[t].next = "later"
    /\ task' = [task EXCEPT ![t].next = "now"]
    /\ UNCHANGED <<batch, work, api, dropped, requests, crashes>>

TickBatch(b) ==
    /\ \/ batch[b].status = "waiting" /\ batch' = [batch EXCEPT ![b].status = "due"]
       \/ /\ batch[b].status = "processing" /\ ~(pc \in {"item", "report"} /\ on = b)
          /\ batch' = [batch EXCEPT ![b].status = "stale"]
    /\ UNCHANGED <<task, work, api, dropped, requests, crashes>>

(***************************************************************************)
(* The admin API                                                           *)
(***************************************************************************)
Request == edit = None /\ requests < MaxRequests /\ requests' = requests + 1

CreateTask(t, enabled) ==
    /\ edit = None
    /\ task[t].status = "absent"
    /\ task' = [task EXCEPT ![t] = [status |-> "active", state |-> "queued", next |-> "now",
                                    auto |-> enabled, cand |-> FALSE]]
    /\ UNCHANGED <<batch, work, api, dropped, requests, crashes>>

(* A request on an existing task reads its row ... *)
EditReads(t) ==
    /\ Request
    /\ Exists(t)
    /\ edit' = t
    /\ seen' = task[t]
    /\ UNCHANGED <<task, batch, work, aim, copy, dropped, crashes>>

(* ... and ends by committing new, or by a rollback. *)
EditDone == edit' = None /\ seen' = Blank /\ UNCHANGED <<batch, work, aim, copy, requests, crashes>>

EditSaves(new, rewritten, overtaken) ==
    /\ edit # None
    /\ Saves(edit, Flushed(task[edit], seen, new, rewritten), overtaken)
    /\ EditDone

EditFails == edit # None /\ EditDone /\ UNCHANGED <<task, dropped>>

QueueCheck ==
    /\ seen.status = "active"
    /\ EditSaves([seen EXCEPT !.state = "queued", !.next = "now"], {"next"}, FALSE)

Pause == EditSaves([seen EXCEPT !.status = "paused", !.next = "never"], {}, FALSE)

Resume ==
    EditSaves([seen EXCEPT !.status = "active", !.state = "queued", !.next = "now"],
              {"next"}, FALSE)

(* The next check is computed from the state that was read: none for a     *)
(* task that is checked or syncs, also if that is over by the commit.      *)
Settings(enabled, rewritten) ==
    LET new == [seen EXCEPT !.auto = enabled] IN
    IF seen.status = "active" /\ seen.state = "queued"
    THEN EditSaves(new, rewritten, FALSE)
    ELSE EditSaves(Scheduled(new), rewritten \cup Times(Scheduled(new)),
                   /\ seen.state \in {"checking", "sync_queued"}
                   /\ ~Checked(edit) /\ ~Syncing(edit))

ClearCandidate ==
    /\ seen.cand
    /\ \E new \in WithoutCandidate(seen) : EditSaves(new, {}, FALSE)

DeleteTask(t) ==
    /\ Request
    /\ Exists(t)
    /\ task' = [task EXCEPT ![t] = [Blank EXCEPT !.status = "deleted"]]
    /\ dropped' = dropped \ {t}
    /\ UNCHANGED <<batch, work, api, crashes>>

(* create_pan_transfer_follow_sync_batch as a request, up to its await. *)
SyncBegin(c, t) ==
    /\ Request
    /\ aim[c] = None
    /\ Exists(t) /\ task[t].state # "sync_queued"
    /\ aim' = [aim EXCEPT ![c] = t]
    /\ copy' = [copy EXCEPT ![c] = task[t]]
    /\ UNCHANGED <<task, batch, work, edit, seen, dropped, crashes>>

Answered(c) ==
    /\ edit = None
    /\ aim' = [aim EXCEPT ![c] = None]
    /\ copy' = [copy EXCEPT ![c] = Blank]
    /\ UNCHANGED <<work, edit, seen, dropped, requests, crashes>>

SyncCommit(c, b) ==
    LET t == aim[c] IN
    /\ t # None
    /\ Exists(t)
    /\ NewBatch(b, t)
    /\ task' = [task EXCEPT ![t] = Flushed(task[t], copy[c],
                   [copy[c] EXCEPT !.state = "sync_queued"], {"auto"})]
    /\ Answered(c)

(* The scan fails, or the row is gone: rollback. *)
SyncAborts(c) ==
    /\ aim[c] # None
    /\ Answered(c)
    /\ UNCHANGED <<task, batch>>

(* A cancelled batch; an item that is executed is left to the worker. *)
Cancelled(row) ==
    IF row.status \in {"processing", "stale"} THEN [row EXCEPT !.cancelled = TRUE]
    ELSE [row EXCEPT !.cancelled = TRUE, !.status = "failed"]

(* cancel_pan_transfer_batch: an item that has not started is failed, and  *)
(* the follow task hears nothing of it.                                    *)
CancelBatch(b) ==
    /\ Request
    /\ batch[b].status \in Active /\ ~batch[b].cancelled
    /\ batch' = [batch EXCEPT ![b] = Cancelled(batch[b])]
    /\ IF batch[b].status \in {"processing", "stale"}
       THEN UNCHANGED dropped ELSE LeaveBehind(batch[b].of)
    /\ UNCHANGED <<task, work, api, crashes>>

RetryBatch(b) ==
    /\ Request
    /\ batch[b].status = "failed"
    /\ batch' = [batch EXCEPT ![b].status = "queued", ![b].cancelled = FALSE]
    /\ UNCHANGED <<task, work, api, dropped, crashes>>

DeleteBatch(b) ==
    /\ Request
    /\ batch[b].status \in {"completed", "failed"}
    /\ batch' = [batch EXCEPT ![b] = [NoBatch EXCEPT !.status = "deleted"]]
    /\ UNCHANGED <<task, work, api, dropped, crashes>>

(***************************************************************************)
(* Specification                                                           *)
(***************************************************************************)
(* The steps that take the worker through its loop. *)
Works ==
    \/ PassItem \/ PassTask
    \/ \E b \in Batches : ClaimItem(b) \/ ItemReports(b) \/ ItemSucceeds(b) \/ ItemFails(b)
    \/ \E t \in Tasks :
        \/ ClaimTask(t) \/ CheckFinds(t) \/ CheckEnds(t)
        \/ CheckRaises(t) \/ CheckFails(t) \/ CheckLost(t)
        \/ AutomationOff(t) \/ AutomationEnds(t)
        \/ \E b \in Batches : AutomationSyncs(t, b)

Edits ==
    \/ QueueCheck \/ Pause \/ Resume \/ ClearCandidate \/ EditFails
    \/ \E enabled \in BOOLEAN, rewritten \in SUBSET {"auto"} : Settings(enabled, rewritten)

Requests ==
    \/ \E t \in Tasks :
        \/ EditReads(t) \/ DeleteTask(t)
        \/ \E enabled \in BOOLEAN : CreateTask(t, enabled)
        \/ \E c \in Clients : SyncBegin(c, t)
    \/ Edits
    \/ \E c \in Clients : SyncAborts(c) \/ \E b \in Batches : SyncCommit(c, b)
    \/ \E b \in Batches : CancelBatch(b) \/ RetryBatch(b) \/ DeleteBatch(b)

Next ==
    \/ Works
    \/ Requests
    \/ Crash
    \/ \E t \in Tasks : CheckWrites(t) \/ AutomationWrites(t) \/ Tick(t)
    \/ \E b \in Batches : TickBatch(b)

Spec == Init /\ [][Next]_vars

(* The loop polls without end, its external calls have timeouts, and time  *)
(* passes; of the tasks due the one due longest is claimed, so none is     *)
(* passed over for ever.                                                   *)
FairSpec ==
    /\ Spec
    /\ WF_vars(Works)
    /\ \A t \in Tasks : WF_vars(Tick(t)) /\ SF_vars(ClaimTask(t))
    /\ \A b \in Batches : WF_vars(TickBatch(b))

(***************************************************************************)
(* Properties                                                              *)
(***************************************************************************)
(* A task waits only for something that will happen: one that shows        *)
(* "checking" is being checked, one that shows "sync_queued" has a batch   *)
(* to be executed, and an active one is scheduled, being checked or has    *)
(* such a batch.  Left out are the tasks in dropped: their batch was       *)
(* cancelled before it started (or by recycling), their hook failed, their *)
(* check died with the worker, a settings request had read that they were  *)
(* checked or syncing and committed after that had ended, or a hook had    *)
(* read them as paused and committed after they were resumed.              *)
Attended(t) ==
    /\ task[t].state = "checking" => Checked(t)
    /\ task[t].state = "sync_queued" => Syncing(t)
    /\ task[t].status = "active" /\ task[t].next = "never" => Checked(t) \/ Syncing(t)

NotForgotten == \A t \in Tasks : Exists(t) /\ t \notin dropped => Attended(t)

(* What makes NotForgotten inductive: the worker is at what pc says, the   *)
(* next check it writes differs from the one it has read, a row that a     *)
(* request has read is still there with that status, a sync that a hook    *)
(* has not read of has a batch of its own, and a batch belongs to a task.  *)
Placed ==
    /\ pc = "idle" => on = None
    /\ pc \in {"item", "report"} => on \in Batches /\ batch[on].status = "processing"
    /\ pc \in {"check", "automate", "failing"} => on \in Tasks
    /\ \A t \in Tasks : Checked(t) => task[t].status # "absent"
    /\ \A t \in Tasks : Checked(t) /\ Exists(t) =>
        /\ task[t].state # "error" /\ mem.state # "error"
        /\ pc \in {"check", "automate"} => mem.status = "active" /\ mem.next = "now"
        /\ pc = "check" => mem.state = "checking"
        /\ pc = "automate" => /\ mem.state \in {"idle", "invalid", "candidate_found"}
                             /\ task[t].state # "checking"

Read ==
    /\ edit # None => Exists(edit) /\ seen.status = task[edit].status
    /\ pc = "failing" /\ Exists(on) => mem.status \in {"active", "paused"}

SyncsItself ==
    \A t \in Tasks :
        /\ pc = "report" /\ batch[on].of = t /\ Exists(t)
        /\ mem.state # "sync_queued" /\ task[t].state = "sync_queued" /\ t \notin dropped
        => \E b \in Batches \ {on} : batch[b].of = t /\ batch[b].status \in Active

Owned == \A b \in Batches : batch[b].status \notin {"absent", "deleted"} => batch[b].of \in Tasks

FollowInv == TypeOK /\ Placed /\ Owned /\ Read /\ SyncsItself /\ NotForgotten

(* Whatever requests and failures came before, an active task that was not *)
(* left behind is checked at some time.                                    *)
EventuallyChecked ==
    \A t \in Tasks :
        (task[t].status = "active" /\ t \notin dropped)
            ~> (Checked(t) \/ task[t].status # "active" \/ t \in dropped)

=============================================================================
