---------------------------- MODULE TransferQueue ----------------------------
(***************************************************************************)
(* The pan-transfer batch queue: PostgreSQL rows (batches and their        *)
(* items), the worker process that executes one item at a time against a   *)
(* cloud-drive provider, and the admin API that creates, starts, cancels,  *)
(* retries and deletes batches.                                            *)
(*                                                                         *)
(* Every transaction runs at READ COMMITTED.  A transaction that decides   *)
(* from what it read and writes later is split into a read step and a      *)
(* commit step, and a commit overwrites only the columns that the ORM saw  *)
(* change.  The API is one process whose handlers do not await between     *)
(* their first read and their commit, so one API transaction is open at a  *)
(* time; the worker commits before each call to the provider and holds no  *)
(* row lock while it waits.                                                *)
(***************************************************************************)
EXTENDS Naturals, FiniteSets

CONSTANTS
    Batches,          \* batch identifiers, each used at most once
    Items,            \* batch item identifiers
    BatchOf,          \* the batch an item belongs to
    ReuseItems,       \* follow-sync items that carry a share URL to reuse
    Workers,          \* worker processes that believe they hold the lock
    NoItem,           \* "no item", for an idle worker
    MaxAttempts,      \* max_attempts of the batch's retry policy
    MaxCrashes,       \* bound: worker crashes and rolled back transactions
    MaxRetries,       \* bound: manual retries
    MaxRuns,          \* bound: claims of an item after which no lock expires
    Overlap           \* how requests interleave with the worker, see below

ASSUME BatchOfAssumption   == BatchOf \in [Items -> Batches]
ASSUME ReuseAssumption     == ReuseItems \subseteq Items
ASSUME NoItemAssumption    == NoItem \notin Items
ASSUME AttemptsAssumption  == MaxAttempts \in Nat \ {0}
ASSUME OverlapAssumption   == Overlap \in {"prompt", "slow"}

VARIABLES
    batch,     \* committed batch.status
    item,      \* committed batch item rows
    worker,    \* program counter and memory of each worker process
    api,       \* the open API transaction
    tally,     \* history: claims since the last manual retry, recorded effects
    crashes,   \* history: worker crashes so far
    retries,   \* history: manual retries so far
    raced      \* history: batches that changed under an open transaction

vars == <<batch, item, worker, api, tally, crashes, retries, raced>>

(***************************************************************************)
(* Types                                                                   *)
(***************************************************************************)
Active   == {"queued", "processing", "retry_wait"}
Terminal == {"completed", "failed"}
Ended    == {"completed", "completed_with_errors", "failed"}
NoRow    == {"absent", "deleted"}

BatchStatus == NoRow \cup {"draft", "running", "cancelled"} \cup Ended
ItemStatus  == {"none"} \cup Active \cup Terminal

ItemRow == [status : ItemStatus, locked : BOOLEAN, stale : BOOLEAN,
            due : BOOLEAN, attempts : Nat,
            staged : BOOLEAN, shared : BOOLEAN, replaced : BOOLEAN]

Calls == {"transfer", "reuse", "share", "validate"}   \* provider calls
PC    == {"idle", "polled", "finish", "read", "counted"} \cup Calls

WorkerState == [pc : PC, item : Items \cup {NoItem}, attempts : Nat,
                replaced : BOOLEAN, outcome : {"none", "ok", "retry", "fatal"},
                seen : BatchStatus, next : BatchStatus,
                requeue : SUBSET Items, drop : SUBSET Items]

ApiState == [op : {"cancel", "retry"}, on : Batches, seen : BatchStatus,
             rows : SUBSET Items, locked : SUBSET Items,
             replaced : SUBSET Items]

Tally == [runs : Nat, staged : Nat, shared : Nat]

TypeOK ==
    /\ batch \in [Batches -> BatchStatus]
    /\ item \in [Items -> ItemRow]
    /\ worker \in [Workers -> WorkerState]
    /\ \A w \in Workers : worker[w].pc \notin {"idle", "polled"}
                             => worker[w].item \in Items
    /\ api \in {[op |-> "none"]} \cup ApiState
    /\ tally \in [Items -> Tally]
    /\ crashes \in Nat
    /\ retries \in Nat
    /\ raced \in SUBSET Batches

Vacant == [status |-> "none", locked |-> FALSE, stale |-> FALSE,
           due |-> FALSE, attempts |-> 0,
           staged |-> FALSE, shared |-> FALSE, replaced |-> FALSE]

Idle == [pc |-> "idle", item |-> NoItem, attempts |-> 0,
         replaced |-> FALSE, outcome |-> "none",
         seen |-> "absent", next |-> "absent", requeue |-> {}, drop |-> {}]

StartsEmpty ==
    /\ batch = [b \in Batches |-> "absent"]
    /\ item = [i \in Items |-> Vacant]
    /\ worker = [w \in Workers |-> Idle]
    /\ api = [op |-> "none"]
    /\ tally = [i \in Items |-> [runs |-> 0, staged |-> 0, shared |-> 0]]
    /\ crashes = 0
    /\ retries = 0

Init == StartsEmpty /\ raced = {}

(***************************************************************************)
(* Helpers                                                                 *)
(***************************************************************************)
Members(b) == {i \in Items : BatchOf[i] = b}
Present(i) == batch[BatchOf[i]] \notin NoRow

(* Sensitivity: a refresh that does not keep a cancelled batch cancelled.  *)
SummaryForgetsCancel(cur, S) ==
    IF S \cap Active # {}                     THEN "running"
    ELSE IF S = {"completed"}                 THEN "completed"
    ELSE IF S = {"failed"}                    THEN "failed"
    ELSE "completed_with_errors"

(* Sensitivity: a refresh that does not count the failed items.            *)
SummaryIgnoresFailed(cur, S) ==
    IF cur = "cancelled"                      THEN "cancelled"
    ELSE IF S \cap Active # {}                THEN "running"
    ELSE IF "completed" \in S                 THEN "completed"
    ELSE "failed"

(* refresh_pan_transfer_batch_summary: the status a batch gets from the    *)
(* statuses S of its items and the status cur the transaction has read.    *)
Summary(cur, S) ==
    IF cur = "cancelled"                      THEN "cancelled"
    ELSE IF cur = "draft" /\ S \subseteq {"queued"} THEN "draft"
    ELSE IF S \cap Active # {}                THEN "running"
    ELSE IF S = {"completed"}                 THEN "completed"
    ELSE IF S = {"failed"}                    THEN "failed"
    ELSE IF S = Terminal                      THEN "completed_with_errors"
    ELSE "running"

StatusesIn(rows, b) == {rows[i].status : i \in Members(b)}

(* Sensitivity: recycling that leaves the items of a cancelled batch.     *)
StaleRowsOfRunning == {i \in Items : /\ item[i].status = "processing"
                                     /\ item[i].stale
                                     /\ batch[BatchOf[i]] = "running"}

(* Rows a PROCESSING lock older than the stale limit would select.         *)
StaleRows == {i \in Items : /\ item[i].status = "processing"
                            /\ item[i].locked
                            /\ item[i].stale}

(* The items the claim query can return, given rows and batch statuses.    *)
Claimable(rows, stat) ==
    LET open(i) == stat[BatchOf[i]] = "running"
        queued  == {i \in Items : open(i) /\ rows[i].status = "queued"}
        due     == {i \in Items : /\ open(i)
                                  /\ rows[i].status = "retry_wait"
                                  /\ rows[i].due}
    IN  IF queued # {} THEN queued ELSE due

(* The item row is locked by the worker's last transaction: its UPDATE was *)
(* flushed and not committed, so another transaction's UPDATE must wait.   *)
RowLocked(i) ==
    \E w \in Workers :
        /\ worker[w].item = i
        /\ \/ worker[w].pc = "counted"
           \/ worker[w].pc \in {"finish", "read"} /\ worker[w].outcome = "ok"

(* Overlap.  "slow" puts no bound on the time between the read and the     *)
(* commit of a request.  "prompt": a provider call takes seconds and a     *)
(* request milliseconds, so no answer arrives while a request is open.     *)
AnswerMayArrive == Overlap = "slow" \/ api.op = "none"
RequestMayOpen  == api.op = "none"

(* What a transaction has read of a batch and will decide from.            *)
RequestReads(b)   == api.op # "none" /\ api.on = b
WorkerReads(w, b) ==
    \/ worker[w].pc = "polled" /\ Members(b) \cap (worker[w].requeue \cup worker[w].drop) # {}
    \/ worker[w].pc \in {"read", "counted"} /\ BatchOf[worker[w].item] = b

(* A status of the batch or of an item of it changes under a transaction   *)
(* of someone else that has read it.                                       *)
Changes(b) == batch'[b] # batch[b] \/ \E i \in Members(b) : item'[i].status # item[i].status
Races ==
    raced' = raced \cup {b \in Batches :
        /\ Changes(b)
        /\ \/ RequestReads(b) /\ api' = api
           \/ \E w \in Workers : WorkerReads(w, b) /\ worker'[w] = worker[w]}

(***************************************************************************)
(* Worker: claiming                                                        *)
(***************************************************************************)
(* recycle_stale_pan_transfer_locks, its reads: the stale rows and, for    *)
(* each, whether its batch is cancelled.                                   *)
Poll(w) ==
    /\ worker[w].pc = "idle"
    /\ LET dead == {i \in StaleRows : batch[BatchOf[i]] = "cancelled"}
       IN  worker' = [worker EXCEPT ![w] =
                        [Idle EXCEPT !.pc = "polled",
                                     !.drop = dead,
                                     !.requeue = StaleRows \ dead]]
    /\ UNCHANGED <<batch, item, api, tally, crashes, retries, raced>>

Recycled(m) ==
    [i \in Items |->
        IF ~Present(i) \/ i \notin m.requeue \cup m.drop THEN item[i]
        ELSE [item[i] EXCEPT !.status = IF i \in m.drop THEN "failed"
                                                        ELSE "queued",
                             !.locked = FALSE, !.stale = FALSE]]

(* Every batch with a recycled item is refreshed. *)
Refreshed(m, rows) ==
    [b \in Batches |->
        IF Members(b) \cap (m.requeue \cup m.drop) # {} /\ batch[b] \notin NoRow
        THEN Summary(batch[b], StatusesIn(rows, b))
        ELSE batch[b]]

(* Sensitivity: the staging snapshot is not looked at; it is looked at     *)
(* before the recorded share.                                              *)
FirstCallTransfersAgain(i, row) == IF row.shared THEN "validate" ELSE "transfer"

FirstCallSnapshotFirst(i, row) ==
    IF ~row.staged THEN "transfer"
    ELSE IF i \in ReuseItems THEN "reuse" ELSE "share"

(* The first provider call the row needs: no recorded share and no staging *)
(* snapshot means a transfer; a snapshot is reused; a recorded share URL   *)
(* is only validated again.                                                *)
FirstCall(i, row) ==
    IF row.shared THEN "validate"
    ELSE IF ~row.staged THEN "transfer"
    ELSE IF i \in ReuseItems THEN "reuse" ELSE "share"

(* The row is locked PROCESSING and committed just before the first call.  *)
(* A claim does not count as an attempt: only a finished one does.         *)
Claim(w, i) ==
    LET m    == worker[w]
        rows == Recycled(m)
        stat == Refreshed(m, rows)
    IN  /\ m.pc = "polled"
        /\ i \in Claimable(rows, stat)
        /\ item' = [rows EXCEPT ![i] =
                      [@ EXCEPT !.status = "processing", !.locked = TRUE,
                                !.stale = FALSE, !.due = FALSE]]
        /\ batch' = stat
        /\ worker' = [worker EXCEPT ![w] =
                        [Idle EXCEPT !.pc = FirstCall(i, rows[i]),
                                     !.item = i,
                                     !.attempts = rows[i].attempts,
                                     !.replaced = rows[i].replaced]]
        /\ tally' = [tally EXCEPT ![i].runs = @ + 1]
        /\ UNCHANGED <<api, crashes, retries>>
        /\ Races

(* The account is missing or disabled, or the source link is gone: the     *)
(* item is claimed and failed in one transaction, before any call.         *)
ClaimRefused(w, i) ==
    LET m    == worker[w]
        rows == Recycled(m)
        stat == Refreshed(m, rows)
        done == [rows EXCEPT ![i] =
                   [@ EXCEPT !.status = "failed", !.locked = FALSE,
                             !.stale = FALSE, !.due = FALSE,
                             !.attempts = rows[i].attempts + 1]]
        b    == BatchOf[i]
    IN  /\ m.pc = "polled"
        /\ i \in Claimable(rows, stat)
        /\ item' = done
        /\ batch' = [stat EXCEPT ![b] = Summary("running", StatusesIn(done, b))]
        /\ worker' = [worker EXCEPT ![w] = Idle]
        /\ tally' = [tally EXCEPT ![i].runs = @ + 1]
        /\ UNCHANGED <<api, crashes, retries>>
        /\ Races

(* Nothing to claim: the recycling is committed by the worker's main loop. *)
ClaimNothing(w) ==
    LET m    == worker[w]
        rows == Recycled(m)
        stat == Refreshed(m, rows)
    IN  /\ m.pc = "polled"
        /\ Claimable(rows, stat) = {}
        /\ item' = rows
        /\ batch' = stat
        /\ worker' = [worker EXCEPT ![w] = Idle]
        /\ UNCHANGED <<api, tally, crashes, retries>>
        /\ Races

(***************************************************************************)
(* Worker: provider calls.  The result of a call is committed just before  *)
(* the next call, or with the transaction that finishes the item.          *)
(***************************************************************************)
Answer(w, call) ==
    /\ worker[w].pc = call
    /\ Present(worker[w].item)
    /\ AnswerMayArrive

TransferOk(w) ==
    LET i == worker[w].item IN
    /\ Answer(w, "transfer")
    /\ item' = [item EXCEPT ![i].staged = TRUE]
    /\ tally' = [tally EXCEPT ![i].staged = @ + 1]
    /\ worker' = [worker EXCEPT ![w].pc =
                    IF i \in ReuseItems THEN "reuse" ELSE "share"]
    /\ UNCHANGED <<batch, api, crashes, retries, raced>>

(* The share the follow task already has is still valid: it is recorded.   *)
ReuseValid(w) ==
    LET i == worker[w].item IN
    /\ Answer(w, "reuse")
    /\ item' = [item EXCEPT ![i].shared = TRUE]
    /\ worker' = [worker EXCEPT ![w].pc = "validate"]
    /\ UNCHANGED <<batch, api, tally, crashes, retries, raced>>

(* It is invalid, or checking it failed: a new share is created instead.   *)
ReuseInvalid(w) ==
    /\ Answer(w, "reuse")
    /\ worker' = [worker EXCEPT ![w].pc = "share"]
    /\ UNCHANGED <<batch, item, api, tally, crashes, retries, raced>>

ShareOk(w) ==
    LET i == worker[w].item IN
    /\ Answer(w, "share")
    /\ item' = [item EXCEPT ![i].shared = TRUE]
    /\ tally' = [tally EXCEPT ![i].shared = @ + 1]
    /\ worker' = [worker EXCEPT ![w].pc = "validate"]
    /\ UNCHANGED <<batch, api, crashes, retries, raced>>

(* The share is usable and the old links were replaced, unless the row was *)
(* claimed with its links replaced already, in the transaction that also   *)
(* marks the item completed.                                               *)
ValidateOk(w) ==
    /\ Answer(w, "validate")
    /\ worker' = [worker EXCEPT ![w].pc = "finish", ![w].outcome = "ok"]
    /\ UNCHANGED <<batch, item, api, tally, crashes, retries, raced>>

(* The call raised, the share is invalid, or the replacement raised.  Only *)
(* the providers raise errors that must not be retried.                    *)
CallFails(w) ==
    \E call \in Calls \ {"reuse"}, o \in {"retry", "fatal"} :
        /\ Answer(w, call)
        /\ call = "validate" => o = "retry"
        /\ worker' = [worker EXCEPT ![w].pc = "finish", ![w].outcome = o]
        /\ UNCHANGED <<batch, item, api, tally, crashes, retries, raced>>

(***************************************************************************)
(* Worker: finishing.  The last transaction reads the batch (read), counts *)
(* the item statuses including its own update (counted), and commits.      *)
(***************************************************************************)
FinishRead(w) ==
    /\ worker[w].pc = "finish"
    /\ Present(worker[w].item)
    /\ worker' = [worker EXCEPT ![w].pc = "read",
                                ![w].seen = batch[BatchOf[worker[w].item]]]
    /\ UNCHANGED <<batch, item, api, tally, crashes, retries, raced>>

(* Sensitivity: the attempt just made is not counted against the limit;    *)
(* the cancellation of the batch is not looked at, or becomes the item's.  *)
FinalStatusOffByOne(m) ==
    IF m.outcome = "ok" THEN "completed"
    ELSE IF /\ m.outcome = "retry"
            /\ m.seen # "cancelled"
            /\ m.attempts < MaxAttempts
         THEN "retry_wait"
    ELSE "failed"

FinalStatusIgnoresCancel(m) ==
    IF m.outcome = "ok" THEN "completed"
    ELSE IF m.outcome = "retry" /\ m.attempts + 1 < MaxAttempts
         THEN "retry_wait"
    ELSE "failed"

FinalStatusOfBatch(m) ==
    IF m.outcome = "ok" THEN "completed"
    ELSE IF m.seen = "cancelled" THEN "cancelled" ELSE "failed"

(* mark_pan_transfer_item_success, mark_pan_transfer_item_error: another   *)
(* attempt follows only for a retryable error, in a batch that was not     *)
(* seen cancelled, while attempts remain.                                  *)
FinalStatus(m) ==
    IF m.outcome = "ok" THEN "completed"
    ELSE IF /\ m.outcome = "retry"
            /\ m.seen # "cancelled"
            /\ m.attempts + 1 < MaxAttempts
         THEN "retry_wait"
    ELSE "failed"

(* Sensitivity: an attempt that is not counted.                            *)
FinishedUncounted(m) ==
    [item EXCEPT ![m.item] =
        [@ EXCEPT !.status = FinalStatus(m), !.locked = FALSE,
                  !.stale = FALSE, !.due = FALSE,
                  !.attempts = m.attempts,
                  !.replaced = \/ item[m.item].replaced
                               \/ m.outcome = "ok" /\ ~m.replaced]]

Finished(m) ==
    [item EXCEPT ![m.item] =
        [@ EXCEPT !.status = FinalStatus(m), !.locked = FALSE,
                  !.stale = FALSE, !.due = FALSE,
                  !.attempts = m.attempts + 1,
                  !.replaced = \/ item[m.item].replaced
                               \/ m.outcome = "ok" /\ ~m.replaced]]

FinishCount(w) ==
    LET m == worker[w]
        b == BatchOf[m.item] IN
    /\ m.pc = "read"
    /\ Present(m.item)
    /\ worker' = [worker EXCEPT ![w].pc = "counted",
                    ![w].next = Summary(m.seen, StatusesIn(Finished(m), b))]
    /\ UNCHANGED <<batch, item, api, tally, crashes, retries, raced>>

(* The batch status is written only if it differs from the one read.       *)
FinishCommit(w) ==
    LET m == worker[w]
        b == BatchOf[m.item] IN
    /\ m.pc = "counted"
    /\ Present(m.item)
    /\ item' = Finished(m)
    /\ batch' = IF m.next = m.seen THEN batch ELSE [batch EXCEPT ![b] = m.next]
    /\ worker' = [worker EXCEPT ![w] = Idle]
    /\ UNCHANGED <<api, tally, crashes, retries>>
    /\ Races

(* The rows were deleted under the worker: its UPDATE matches no row, the  *)
(* main loop rolls back.  A call in flight may still take effect.          *)
Vanished(w) ==
    /\ worker[w].item # NoItem
    /\ ~Present(worker[w].item)
    /\ worker' = [worker EXCEPT ![w] = Idle]
    /\ UNCHANGED <<batch, item, api, tally, crashes, retries, raced>>

(* The worker process dies and is restarted, or its transaction is rolled  *)
(* back: whatever was not committed is lost, the lock stays on the row.    *)
Crash(w) ==
    /\ worker[w].pc # "idle"
    /\ crashes < MaxCrashes
    /\ crashes' = crashes + 1
    /\ worker' = [worker EXCEPT ![w] = Idle]
    /\ UNCHANGED <<batch, item, api, tally, retries, raced>>

(***************************************************************************)
(* Time                                                                    *)
(***************************************************************************)
(* next_retry_at is reached. *)
RetryFallsDue(i) ==
    /\ item[i].status = "retry_wait"
    /\ ~item[i].due
    /\ item' = [item EXCEPT ![i].due = TRUE]
    /\ UNCHANGED <<batch, worker, api, tally, crashes, retries, raced>>

(* locked_at falls behind the stale limit of 20 minutes, longer than any   *)
(* provider call.                                                          *)
LockAges(i) ==
    /\ item[i].status = "processing"
    /\ item[i].locked
    /\ ~item[i].stale
    /\ tally[i].runs < MaxRuns
    /\ AnswerMayArrive
    /\ item' = [item EXCEPT ![i].stale = TRUE]
    /\ UNCHANGED <<batch, worker, api, tally, crashes, retries, raced>>

(***************************************************************************)
(* Admin API                                                               *)
(***************************************************************************)
(* create_manual_pan_transfer_batch, with or without start_immediately.    *)
Create(b, status) ==
    /\ RequestMayOpen
    /\ batch[b] = "absent"
    /\ Members(b) # {}
    /\ batch' = [batch EXCEPT ![b] = status]
    /\ item' = [i \in Items |->
                  IF i \in Members(b) THEN [Vacant EXCEPT !.status = "queued"]
                                      ELSE item[i]]
    /\ UNCHANGED <<worker, api, tally, crashes, retries>>
    /\ Races

(* start_pan_transfer_batch: only the API changes a draft, so its read and *)
(* its commit are one step.                                                *)
Start(b) ==
    /\ RequestMayOpen
    /\ batch[b] = "draft"
    /\ batch' = [batch EXCEPT ![b] = Summary("running", StatusesIn(item, b))]
    /\ UNCHANGED <<item, worker, api, tally, crashes, retries>>
    /\ Races

(* cancel_pan_transfer_batch: the batch is refreshed, must then be running *)
(* and its items are read; waiting ones will be failed, a processing one   *)
(* is left to the worker.                                                  *)
CancelRead(b) ==
    /\ RequestMayOpen
    /\ batch[b] \notin NoRow
    /\ Summary(batch[b], StatusesIn(item, b)) = "running"
    /\ api' = [op |-> "cancel", on |-> b, seen |-> batch[b],
               rows |-> {i \in Members(b) :
                           item[i].status \in {"queued", "retry_wait"}},
               locked |-> {}, replaced |-> {}]
    /\ UNCHANGED <<batch, item, worker, tally, crashes, retries, raced>>

(* locked_by and locked_at were read as NULL and are not written.          *)
CancelCommit ==
    /\ api.op = "cancel"
    /\ \A i \in api.rows : ~RowLocked(i)
    /\ batch' = [batch EXCEPT ![api.on] = "cancelled"]
    /\ item' = [i \in Items |->
                  IF i \in api.rows
                  THEN [item[i] EXCEPT !.status = "failed", !.due = FALSE]
                  ELSE item[i]]
    /\ api' = [op |-> "none"]
    /\ UNCHANGED <<worker, tally, crashes, retries>>
    /\ Races

(* retry_pan_transfer_batch: the failed items among those asked for.       *)
RetryRead(b) ==
    \E asked \in SUBSET Members(b) :
        LET rows == {i \in asked : item[i].status = "failed"} IN
        /\ RequestMayOpen
        /\ retries < MaxRetries
        /\ batch[b] \notin NoRow
        /\ rows # {}
        /\ api' = [op |-> "retry", on |-> b, seen |-> batch[b],
                   rows |-> rows,
                   locked |-> {i \in rows : item[i].locked},
                   replaced |-> {i \in rows : item[i].replaced}]
        /\ retries' = retries + 1
        /\ UNCHANGED <<batch, item, worker, tally, crashes, raced>>

(* reset_pan_transfer_batch_items keeps attempt_count, the staging         *)
(* snapshot and a recorded share URL.  The lock, the replacement status and *)
(* the batch status are written only where the values read differ.         *)
RetryCommit ==
    /\ api.op = "retry"
    /\ \A i \in api.rows : ~RowLocked(i)
    /\ item' = [i \in Items |->
                  IF i \in api.rows
                  THEN [item[i] EXCEPT
                          !.status = "queued",
                          !.locked = @ /\ i \notin api.locked,
                          !.stale = @ /\ i \notin api.locked,
                          !.due = FALSE,
                          !.replaced = @ /\ i \notin api.replaced]
                  ELSE item[i]]
    /\ batch' = IF api.seen = "running" THEN batch
                ELSE [batch EXCEPT ![api.on] = "running"]
    /\ tally' = [i \in Items |-> IF i \in api.rows
                                 THEN [tally[i] EXCEPT !.runs = 0]
                                 ELSE tally[i]]
    /\ api' = [op |-> "none"]
    /\ UNCHANGED <<worker, crashes, retries>>
    /\ Races

(* The request fails (deadlock with the worker, lost connection, restart   *)
(* of the API): it is rolled back.                                         *)
ApiRollback ==
    /\ api.op # "none"
    /\ api' = [op |-> "none"]
    /\ UNCHANGED <<batch, item, worker, tally, crashes, retries, raced>>

(* delete_pan_transfer_batch: refused while an item is active.             *)
Delete(b) ==
    /\ RequestMayOpen
    /\ batch[b] \notin NoRow
    /\ StatusesIn(item, b) \cap Active = {}
    /\ batch' = [batch EXCEPT ![b] = "deleted"]
    /\ item' = [i \in Items |-> IF i \in Members(b) THEN Vacant ELSE item[i]]
    /\ UNCHANGED <<worker, api, tally, crashes, retries>>
    /\ Races

(***************************************************************************)
(* Specification                                                           *)
(***************************************************************************)
ClaimStep(w) == \/ ClaimNothing(w)
                \/ \E i \in Items : Claim(w, i) \/ ClaimRefused(w, i)

AnswerStep(w) == \/ TransferOk(w) \/ ReuseValid(w) \/ ReuseInvalid(w)
                 \/ ShareOk(w) \/ ValidateOk(w) \/ CallFails(w)

FinishStep(w) == FinishRead(w) \/ FinishCount(w) \/ FinishCommit(w)

WorkerStep(w) == Poll(w) \/ ClaimStep(w) \/ AnswerStep(w) \/ FinishStep(w)
                 \/ Vanished(w)

ApiCommit == CancelCommit \/ RetryCommit

Next ==
    \/ \E w \in Workers : WorkerStep(w) \/ Crash(w)
    \/ \E i \in Items : RetryFallsDue(i) \/ LockAges(i)
    \/ \E b \in Batches : \/ Create(b, "draft") \/ Create(b, "running")
                          \/ Start(b) \/ CancelRead(b) \/ RetryRead(b)
                          \/ Delete(b)
    \/ ApiCommit
    \/ ApiRollback

Spec == Init /\ [][Next]_vars

(* The worker loop never stops asking for work, its calls return or time   *)
(* out, the clock advances, and an open request is committed or rolled     *)
(* back.  Nothing is assumed of the administrator.                         *)
Fairness ==
    /\ \A w \in Workers : WF_vars(WorkerStep(w))
    /\ \A i \in Items : WF_vars(RetryFallsDue(i)) /\ WF_vars(LockAges(i))
    /\ WF_vars(ApiCommit \/ ApiRollback)

FairSpec == Spec /\ Fairness

(***************************************************************************)
(* Properties                                                              *)
(***************************************************************************)
(* An item waits for another automatic attempt only while attempts remain, *)
(* whatever manual retries, cancellations and crashes came before          *)
(* (mark_pan_transfer_item_error).                                         *)
RetryBudget ==
    \A i \in Items : item[i].status = "retry_wait"
                        => item[i].attempts < MaxAttempts

(* A PROCESSING row always carries its lock: the stale-lock recycling is   *)
(* the only way back for it after a crash, and it selects rows by          *)
(* locked_at, so a PROCESSING row without one would be stuck for ever.     *)
ProcessingIsLocked ==
    \A i \in Items : item[i].status = "processing" => item[i].locked

(* However often an item is retried, recycled or cancelled and retried, a  *)
(* recorded staging snapshot or share is never made a second time: only an *)
(* effect whose result was lost in a crash can be repeated.                *)
EffectsNotRepeated ==
    \A i \in Items : tally[i].staged <= 1 /\ tally[i].shared <= 1

(* Between two manual retries an item is executed at most max_attempts     *)
(* times, plus once for every crash that lost an attempt.                  *)
RunsBounded ==
    \A i \in Items : tally[i].runs <= MaxAttempts + crashes

(* A batch in raced is one that a commit changed while another transaction *)
(* had read it and had still to write: the properties below except it by   *)
(* name, and hold of every other batch however requests and worker overlap.*)
(* A completed item has its old links replaced and its share recorded.     *)
CompletedIsReplaced ==
    \A i \in Items : item[i].status = "completed"
                        => (item[i].replaced /\ item[i].shared) \/ BatchOf[i] \in raced

(* A batch is reported completed only if every item of it is: the status   *)
(* is computed from counts that other transactions may change meanwhile.   *)
CompletedBatchIsComplete ==
    \A b \in Batches \ raced : batch[b] = "completed"
                          => StatusesIn(item, b) = {"completed"}

(* A running batch has work left: none is left running for ever when its   *)
(* last item ends (refresh_pan_transfer_batch_summary).                    *)
RunningBatchHasWork ==
    \A b \in Batches \ raced : batch[b] = "running"
                          => StatusesIn(item, b) \cap Active # {}

(* An item waits in the queue only while its batch can still run it.       *)
WaitingIsReachable ==
    \A i \in Items : item[i].status \in {"queued", "retry_wait"}
                        => \/ batch[BatchOf[i]] \in {"draft", "running"}
                           \/ BatchOf[i] \in raced

(* A cancellation is undone only by a manual retry or by deleting the      *)
(* batch, never by the worker, unless the batch raced.                     *)
CancelSticks ==
    [][\A b \in Batches \ raced' : batch[b] = "cancelled"
          => \/ batch'[b] \in {"cancelled", "deleted"}
             \/ api.op = "retry" /\ api.on = b]_vars

(* A completed item stays completed until its batch is deleted or raced.   *)
CompletedIsFinal ==
    [][\A i \in Items : item[i].status = "completed"
          => item'[i].status \in {"completed", "none"} \/ BatchOf[i] \in raced']_vars

(* A completed item has its links replaced, and a batch that is reported   *)
(* completed has no other items: the status comes from counts of rows that *)
(* change (refresh_pan_transfer_batch_summary).  Only a batch that changed *)
(* under a transaction which had read it (raced) may fail to be so.        *)
CompletionsAreWhole == CompletedIsReplaced /\ CompletedBatchIsComplete

(* A running batch has work left, and work that waits has a batch that can *)
(* run it: neither waits for the other for ever, unless the batch raced    *)
(* (refresh_pan_transfer_batch_summary, mark_pan_transfer_item_error).     *)
BatchAndWorkAgree == RunningBatchHasWork /\ WaitingIsReachable

(* What was cancelled or completed stays so while the worker goes on with  *)
(* rows it read before (cancel_pan_transfer_batch), unless the batch       *)
(* changed under a transaction that had read it.                           *)
EndingsStick == CancelSticks /\ CompletedIsFinal

(* An item that is being processed does not stay so: its worker finishes   *)
(* it, or the lock of a crashed worker is recycled.                        *)
ProcessingEnds ==
    \A i \in Items : item[i].status = "processing" ~> item[i].status # "processing"

(* Queued work of a running batch is eventually picked up, or the batch    *)
(* stops running.                                                          *)
QueuedIsServed ==
    \A i \in Items : (item[i].status = "queued" /\ batch[BatchOf[i]] = "running")
        ~> (item[i].status # "queued" \/ batch[BatchOf[i]] # "running")

(* A running batch does not run for ever, unless the administrator retries *)
(* items: attempts run out, and a cancellation or a crash does not leave   *)
(* an item behind that keeps the batch running.                            *)
RunningEnds ==
    \A b \in Batches : (batch[b] = "running" /\ retries = 0)
                          ~> (batch[b] # "running" \/ retries > 0)

(* Every attempt, queued item and running batch comes to an end, through a *)
(* crash of the worker and cancellations (claim_next_pan_transfer_batch_item, *)
(* recycle_stale_pan_transfer_locks).                                      *)
WorkEnds == ProcessingEnds /\ QueuedIsServed /\ RunningEnds

(***************************************************************************)
(* Refinement                                                              *)
(***************************************************************************)
StageOf(i) == IF batch[BatchOf[i]] = "deleted" THEN "gone"
              ELSE IF item[i].shared THEN "shared"
              ELSE IF item[i].staged THEN "staged" ELSE "none"

Effects == INSTANCE ShareEffects
             WITH stage  <- [i \in Items |-> StageOf(i)],
                  copies <- [i \in Items |-> tally[i].staged],
                  shares <- [i \in Items |-> tally[i].shared]

(* The queue implements the effects specification: a staging copy and a    *)
(* share are recorded at most once and in order for every item, under      *)
(* every interleaving of requests, retries, cancellations and crashes with *)
(* the one worker.                                                         *)
ImplementsEffects == Effects!Spec

(* The batch is stopped and the item in progress leaves the queue after    *)
(* this attempt: an item of a cancelled batch that no worker has in hand   *)
(* is not left active.                                                     *)
CancelledItemsLeave ==
    \A i \in Items :
        /\ batch[BatchOf[i]] = "cancelled"
        /\ \A w \in Workers : worker[w].item # i
        => item[i].status \in Terminal \/ item[i].locked
=============================================================================
