------------------------- MODULE TransferQueueProofs -------------------------
(***************************************************************************)
(* Proofs about the transfer queue, for every number of batches, items and *)
(* workers, every max_attempts and every bound.                            *)
(***************************************************************************)
EXTENDS TransferQueue, TLAPS

(* The status computed for a batch is never "absent" or "deleted".         *)
LEMMA SummaryType ==
    ASSUME NEW cur, NEW S
    PROVE  Summary(cur, S) \in BatchStatus \ NoRow
BY DEF Summary, BatchStatus, NoRow, Ended

(* The updates of an item row that the actions make keep its type.         *)
LEMMA RowUpdates ==
    ASSUME NEW r \in ItemRow
    PROVE  /\ [r EXCEPT !.staged = TRUE] \in ItemRow
           /\ [r EXCEPT !.shared = TRUE] \in ItemRow
           /\ [r EXCEPT !.due = TRUE] \in ItemRow
           /\ [r EXCEPT !.stale = TRUE] \in ItemRow
           /\ [r EXCEPT !.status = "failed", !.due = FALSE] \in ItemRow
BY DEF ItemRow, ItemStatus, Active, Terminal

LEMMA RowOutcome ==
    ASSUME NEW r \in ItemRow, NEW s \in ItemStatus, NEW n \in Nat,
           NEW p \in BOOLEAN
    PROVE  /\ [r EXCEPT !.status = s, !.locked = FALSE, !.stale = FALSE,
                        !.due = FALSE, !.attempts = n] \in ItemRow
           /\ [r EXCEPT !.status = s, !.locked = FALSE, !.stale = FALSE,
                        !.due = FALSE, !.attempts = n, !.replaced = p]
                  \in ItemRow
BY DEF ItemRow

LEMMA RowReset ==
    ASSUME NEW r \in ItemRow,
           NEW p \in BOOLEAN, NEW q \in BOOLEAN, NEW t \in BOOLEAN
    PROVE  [r EXCEPT !.status = "queued", !.locked = p, !.stale = q,
                     !.due = FALSE, !.replaced = t] \in ItemRow
BY DEF ItemRow, ItemStatus, Active

LEMMA WorkerUpdates ==
    ASSUME NEW m \in WorkerState, NEW b \in BatchStatus
    PROVE  /\ [m EXCEPT !.pc = "read", !.seen = b] \in WorkerState
           /\ [m EXCEPT !.pc = "counted", !.next = b] \in WorkerState
BY DEF WorkerState, PC

(* Recycling stale locks yields well-formed rows and batch statuses.       *)
LEMMA RecycledType ==
    ASSUME TypeOK, NEW m
    PROVE  Recycled(m) \in [Items -> ItemRow]
<1> SUFFICES ASSUME NEW i \in Items
             PROVE  (IF ~Present(i) \/ i \notin m.requeue \cup m.drop
                     THEN item[i]
                     ELSE [item[i] EXCEPT
                             !.status = IF i \in m.drop THEN "failed"
                                                        ELSE "queued",
                             !.locked = FALSE, !.stale = FALSE]) \in ItemRow
  BY DEF Recycled
<1>1. item[i] \in ItemRow
  BY DEF TypeOK
<1>2. [item[i] EXCEPT !.status = IF i \in m.drop THEN "failed" ELSE "queued",
                      !.locked = FALSE, !.stale = FALSE] \in ItemRow
  BY <1>1 DEF ItemRow, ItemStatus, Active, Terminal
<1>3. QED
  BY <1>1, <1>2

LEMMA RefreshedType ==
    ASSUME TypeOK, NEW m, NEW rows
    PROVE  Refreshed(m, rows) \in [Batches -> BatchStatus]
<1>1. \A b \in Batches : batch[b] \in BatchStatus
  BY DEF TypeOK
<1>2. \A b \in Batches :
         Summary(batch[b], StatusesIn(rows, b)) \in BatchStatus
  BY SummaryType
<1>3. QED
  BY <1>1, <1>2 DEF Refreshed

(* Every step keeps every variable in its type.                            *)
LEMMA RacedType ==
    ASSUME raced \in SUBSET Batches, [Next]_vars
    PROVE  raced' \in SUBSET Batches
<1>1. Races => raced' \in SUBSET Batches
  BY DEF Races
<1>2. UNCHANGED vars => raced' \in SUBSET Batches
  BY DEF vars
<1>3. Next => Races \/ UNCHANGED raced
  BY DEF Next, WorkerStep, ClaimStep, AnswerStep, FinishStep, ApiCommit, Poll, Claim,
         ClaimRefused, ClaimNothing, TransferOk, ReuseValid, ReuseInvalid, ShareOk,
         ValidateOk, CallFails, FinishRead, FinishCount, FinishCommit, Vanished, Crash,
         RetryFallsDue, LockAges, Create, Start, CancelRead, RetryRead, Delete,
         CancelCommit, RetryCommit, ApiRollback
<1>. QED
  BY <1>1, <1>2, <1>3

LEMMA TypeStep == TypeOK /\ [Next]_vars => TypeOK'
<1> USE BatchOfAssumption, NoItemAssumption
<1>2. TypeOK /\ [Next]_vars => TypeOK'
  <2> SUFFICES ASSUME TypeOK, [Next]_vars PROVE TypeOK'
    OBVIOUS
  <2>raced. raced' \in SUBSET Batches
    BY RacedType DEF TypeOK
  <2> USE <2>raced DEF TypeOK
  <2>idle. Idle \in WorkerState
    BY DEF Idle, WorkerState, PC, BatchStatus, NoRow
  <2>vacant. Vacant \in ItemRow
    BY DEF Vacant, ItemRow, ItemStatus
  <2>status. \A s \in {"queued", "processing", "retry_wait", "completed",
                       "failed"} : s \in ItemStatus
    BY DEF ItemStatus, Active, Terminal
  <2>row. ASSUME NEW i \in Items, NEW r \in ItemRow
          PROVE  [item EXCEPT ![i] = r] \in [Items -> ItemRow]
    OBVIOUS
  <2>1. ASSUME NEW w \in Workers, Poll(w) PROVE TypeOK'
    <3>1. StaleRows \in SUBSET Items
      BY DEF StaleRows
    <3>2. \A R \in SUBSET Items, D \in SUBSET Items :
            [Idle EXCEPT !.pc = "polled", !.drop = D, !.requeue = R]
               \in WorkerState
      BY <2>idle DEF WorkerState, PC
    <3>3. worker' \in [Workers -> WorkerState]
      BY <2>1, <3>1, <3>2 DEF Poll
    <3>4. QED
      BY <2>1, <3>3 DEF Poll
  <2>2. ASSUME NEW w \in Workers, NEW i \in Items, Claim(w, i) PROVE TypeOK'
    <3> DEFINE rows == Recycled(worker[w])
    <3>1. rows \in [Items -> ItemRow]
      BY RecycledType
    <3>2. Refreshed(worker[w], rows) \in [Batches -> BatchStatus]
      BY RefreshedType
    <3>3. item' \in [Items -> ItemRow]
      BY ZenonT(40), <2>2, <3>1 DEF Claim, ItemRow, ItemStatus, Active
    <3>4. FirstCall(i, rows[i]) \in PC
      BY DEF FirstCall, PC, Calls
    <3>5. rows[i].attempts \in Nat /\ rows[i].replaced \in BOOLEAN
      BY <3>1 DEF ItemRow
    <3> HIDE DEF rows
    <3>6. [Idle EXCEPT !.pc = FirstCall(i, rows[i]), !.item = i,
                       !.attempts = rows[i].attempts,
                       !.replaced = rows[i].replaced] \in WorkerState
      BY <2>idle, <3>4, <3>5 DEF WorkerState
    <3>7. worker' \in [Workers -> WorkerState]
      BY <2>2, <3>6 DEF Claim, rows
    <3>8. tally' \in [Items -> Tally]
      BY <2>2 DEF Claim, Tally
    <3>9. QED
      BY <2>2, <3>2, <3>3, <3>7, <3>8 DEF Claim, rows
  <2>3. ASSUME NEW w \in Workers, NEW i \in Items, ClaimRefused(w, i)
        PROVE TypeOK'
    <3> DEFINE rows == Recycled(worker[w])
    <3>1. rows \in [Items -> ItemRow]
      BY RecycledType
    <3>2. Refreshed(worker[w], rows) \in [Batches -> BatchStatus]
      BY RefreshedType
    <3> DEFINE r == [rows[i] EXCEPT !.status = "failed", !.locked = FALSE,
                                    !.stale = FALSE, !.due = FALSE,
                                    !.attempts = rows[i].attempts + 1]
    <3>r. r \in ItemRow
      <4>1. rows[i] \in ItemRow
        BY <3>1
      <4>2. rows[i].attempts + 1 \in Nat
        BY <4>1 DEF ItemRow
      <4>3. QED
        BY <4>1, <4>2, <2>status, RowOutcome
    <3>e. item' = [rows EXCEPT ![i] = r]
      BY <2>3 DEF ClaimRefused
    <3>3. item' \in [Items -> ItemRow]
      BY <3>r, <3>e, <3>1
    <3>4. batch' \in [Batches -> BatchStatus]
      BY <2>3, <3>2, SummaryType DEF ClaimRefused
    <3>5. tally' \in [Items -> Tally]
      BY <2>3 DEF ClaimRefused, Tally
    <3>6. QED
      BY <2>3, <2>idle, <3>3, <3>4, <3>5 DEF ClaimRefused, Idle
  <2>4. ASSUME NEW w \in Workers, ClaimNothing(w) PROVE TypeOK'
    <3>1. item' \in [Items -> ItemRow]
      BY <2>4, RecycledType DEF ClaimNothing
    <3>2. batch' \in [Batches -> BatchStatus]
      BY <2>4, RefreshedType DEF ClaimNothing
    <3>3. QED
      BY <2>4, <2>idle, <3>1, <3>2 DEF ClaimNothing, Idle
  <2>5. ASSUME NEW w \in Workers, AnswerStep(w) PROVE TypeOK'
    <3>1. worker' \in [Workers -> WorkerState]
      BY <2>5 DEF AnswerStep, TransferOk, ReuseValid, ReuseInvalid, ShareOk,
                  ValidateOk, CallFails, WorkerState, PC, Calls
    <3>2. item' \in [Items -> ItemRow]
      <4>1. \A i \in Items : /\ [item[i] EXCEPT !.staged = TRUE] \in ItemRow
                             /\ [item[i] EXCEPT !.shared = TRUE] \in ItemRow
        BY RowUpdates
      <4>2. \/ UNCHANGED item
            \/ item' = [item EXCEPT ![worker[w].item] =
                                     [@ EXCEPT !.staged = TRUE]]
            \/ item' = [item EXCEPT ![worker[w].item] =
                                     [@ EXCEPT !.shared = TRUE]]
        BY <2>5 DEF AnswerStep, TransferOk, ReuseValid, ReuseInvalid, ShareOk,
                    ValidateOk, CallFails
      <4>3. QED
        BY <4>1, <4>2
    <3>3. tally' \in [Items -> Tally]
      BY <2>5 DEF AnswerStep, TransferOk, ReuseValid, ReuseInvalid, ShareOk,
                  ValidateOk, CallFails, Tally
    <3>4. \A v \in Workers : worker'[v].pc \notin {"idle", "polled"}
                                => worker'[v].item \in Items
      <4>1. worker[w].item \in Items
        BY <2>5 DEF AnswerStep, TransferOk, ReuseValid, ReuseInvalid, ShareOk,
                    ValidateOk, CallFails, Answer, Calls
      <4>2. \A v \in Workers : worker'[v].item = worker[v].item
        BY SMTT(30), <2>5 DEF AnswerStep, TransferOk, ReuseValid, ReuseInvalid, ShareOk,
                    ValidateOk, CallFails, WorkerState
      <4>3. \A v \in Workers \ {w} : worker'[v] = worker[v]
        BY <2>5 DEF AnswerStep, TransferOk, ReuseValid, ReuseInvalid, ShareOk,
                    ValidateOk, CallFails
      <4>4. QED
        BY <4>1, <4>2, <4>3
    <3>5. QED
      BY <2>5, <3>1, <3>2, <3>3, <3>4
         DEF AnswerStep, TransferOk, ReuseValid, ReuseInvalid, ShareOk,
             ValidateOk, CallFails
  <2>6. ASSUME NEW w \in Workers, FinishRead(w) PROVE TypeOK'
    <3>1. worker[w].item \in Items
      BY <2>6 DEF FinishRead
    <3>2. batch[BatchOf[worker[w].item]] \in BatchStatus
      BY <3>1
    <3>s. [worker[w] EXCEPT !.pc = "read",
                            !.seen = batch[BatchOf[worker[w].item]]]
             \in WorkerState
      BY <3>2, WorkerUpdates
    <3>e. worker' = [worker EXCEPT ![w] =
             [@ EXCEPT !.pc = "read",
                       !.seen = batch[BatchOf[worker[w].item]]]]
      BY <2>6 DEF FinishRead
    <3>3. worker' \in [Workers -> WorkerState]
      BY <3>s, <3>e
    <3>4. QED
      BY <2>6, <3>1, <3>3, <3>e DEF FinishRead, WorkerState
  <2>7. ASSUME NEW w \in Workers, FinishCount(w) PROVE TypeOK'
    <3> DEFINE n == Summary(worker[w].seen,
                     StatusesIn(Finished(worker[w]), BatchOf[worker[w].item]))
    <3>1. n \in BatchStatus
      BY SummaryType
    <3>e. worker' = [worker EXCEPT ![w] =
                       [@ EXCEPT !.pc = "counted", !.next = n]]
      BY <2>7 DEF FinishCount
    <3> HIDE DEF n
    <3>s. [worker[w] EXCEPT !.pc = "counted", !.next = n] \in WorkerState
      BY <3>1, WorkerUpdates
    <3>2. worker' \in [Workers -> WorkerState]
      BY <3>s, <3>e
    <3>3. QED
      BY <2>7, <3>2, <3>e DEF FinishCount, WorkerState
  <2>8. ASSUME NEW w \in Workers, FinishCommit(w) PROVE TypeOK'
    <3>1. worker[w].attempts + 1 \in Nat
      BY DEF WorkerState
    <3>2. FinalStatus(worker[w]) \in ItemStatus
      BY DEF FinalStatus, ItemStatus, Active, Terminal
    <3>i. worker[w].item \in Items
      BY <2>8 DEF FinishCommit
    <3> DEFINE i == worker[w].item
               r == [item[i] EXCEPT
                       !.status = FinalStatus(worker[w]), !.locked = FALSE,
                       !.stale = FALSE, !.due = FALSE,
                       !.attempts = worker[w].attempts + 1,
                       !.replaced = \/ item[i].replaced
                                    \/ /\ worker[w].outcome = "ok"
                                       /\ ~worker[w].replaced]
    <3>e. item' = [item EXCEPT ![i] = r]
      BY <2>8 DEF FinishCommit, Finished
    <3>b. (item[i].replaced \/ (/\ worker[w].outcome = "ok"
                                /\ ~worker[w].replaced)) \in BOOLEAN
      OBVIOUS
    <3>r. r \in ItemRow
      BY <3>i, <3>1, <3>2, <3>b, RowOutcome
    <3>3. item' \in [Items -> ItemRow]
      BY <3>e, <3>r, <3>i
    <3>4. worker[w].next \in BatchStatus
      BY DEF WorkerState
    <3>5. batch' \in [Batches -> BatchStatus]
      BY <2>8, <3>4 DEF FinishCommit
    <3>6. QED
      BY <2>8, <2>idle, <3>3, <3>5 DEF FinishCommit, Idle
  <2>9. ASSUME NEW w \in Workers, Vanished(w) \/ Crash(w) PROVE TypeOK'
    <3>1. worker' = [worker EXCEPT ![w] = Idle] /\ crashes' \in Nat
      BY <2>9 DEF Vanished, Crash
    <3>2. UNCHANGED <<batch, item, api, tally, retries>>
      BY <2>9 DEF Vanished, Crash
    <3>3. QED
      BY <3>1, <3>2, <2>idle DEF Idle
  <2>10. ASSUME NEW i \in Items, RetryFallsDue(i) \/ LockAges(i) PROVE TypeOK'
    <3>r. /\ [item[i] EXCEPT !.due = TRUE] \in ItemRow
          /\ [item[i] EXCEPT !.stale = TRUE] \in ItemRow
      BY RowUpdates
    <3>e. \/ item' = [item EXCEPT ![i] = [@ EXCEPT !.due = TRUE]]
          \/ item' = [item EXCEPT ![i] = [@ EXCEPT !.stale = TRUE]]
      BY <2>10 DEF RetryFallsDue, LockAges
    <3>1. item' \in [Items -> ItemRow]
      BY <3>r, <3>e
    <3>2. QED
      BY <2>10, <3>1 DEF RetryFallsDue, LockAges
  <2>11. ASSUME NEW b \in Batches, Create(b, "draft") \/ Create(b, "running")
         PROVE TypeOK'
    <3>1. [Vacant EXCEPT !.status = "queued"] \in ItemRow
      BY <2>vacant DEF ItemRow, ItemStatus, Active
    <3>2. item' \in [Items -> ItemRow]
      BY <2>11, <3>1 DEF Create
    <3>3. batch' \in [Batches -> BatchStatus]
      BY <2>11 DEF Create, BatchStatus
    <3>4. QED
      BY <2>11, <3>2, <3>3 DEF Create
  <2>12. ASSUME NEW b \in Batches, Start(b) PROVE TypeOK'
    BY <2>12, SummaryType DEF Start
  <2>13. ASSUME NEW b \in Batches, CancelRead(b) PROVE TypeOK'
    <3>1. {i \in Members(b) : item[i].status \in {"queued", "retry_wait"}}
             \in SUBSET Items
      BY DEF Members
    <3>2. api' \in ApiState
      BY <2>13, <3>1 DEF CancelRead, ApiState
    <3>3. QED
      BY <2>13, <3>2 DEF CancelRead
  <2>14. ASSUME NEW b \in Batches, RetryRead(b) PROVE TypeOK'
    <3>1. api' \in ApiState /\ retries' \in Nat
      BY <2>14 DEF RetryRead, ApiState, Members
    <3>2. QED
      BY <2>14, <3>1 DEF RetryRead
  <2>15. ASSUME NEW b \in Batches, Delete(b) PROVE TypeOK'
    <3>1. item' \in [Items -> ItemRow]
      BY <2>15, <2>vacant DEF Delete
    <3>2. batch' \in [Batches -> BatchStatus]
      BY <2>15 DEF Delete, BatchStatus, NoRow
    <3>3. QED
      BY <2>15, <3>1, <3>2 DEF Delete
  <2>16. CASE CancelCommit
    <3>r. \A i \in Items : [item[i] EXCEPT !.status = "failed", !.due = FALSE]
                               \in ItemRow
      BY RowUpdates
    <3>1. item' \in [Items -> ItemRow]
      BY <2>16, <3>r DEF CancelCommit
    <3>2. batch' \in [Batches -> BatchStatus]
      BY <2>16 DEF CancelCommit, BatchStatus
    <3>3. QED
      BY <2>16, <3>1, <3>2 DEF CancelCommit
  <2>17. CASE RetryCommit
    <3>r. \A i \in Items, p \in BOOLEAN, q \in BOOLEAN, t \in BOOLEAN :
             [item[i] EXCEPT !.status = "queued", !.locked = p, !.stale = q,
                             !.due = FALSE, !.replaced = t] \in ItemRow
      BY RowReset
    <3>b. \A i \in Items : /\ (item[i].locked /\ i \notin api.locked) \in BOOLEAN
                           /\ (item[i].stale /\ i \notin api.locked) \in BOOLEAN
                           /\ (item[i].replaced /\ i \notin api.replaced)
                                  \in BOOLEAN
      OBVIOUS
    <3>1. item' \in [Items -> ItemRow]
      BY <2>17, <3>r, <3>b DEF RetryCommit
    <3>2. batch' \in [Batches -> BatchStatus]
      BY <2>17 DEF RetryCommit, BatchStatus
    <3>3. tally' \in [Items -> Tally]
      BY <2>17 DEF RetryCommit, Tally
    <3>4. QED
      BY <2>17, <3>1, <3>2, <3>3 DEF RetryCommit
  <2>18. CASE ApiRollback
    BY <2>18 DEF ApiRollback
  <2>19. CASE UNCHANGED vars
    BY <2>19 DEF vars
  <2>20. QED
    BY <2>1, <2>2, <2>3, <2>4, <2>5, <2>6, <2>7, <2>8, <2>9, <2>10, <2>11,
       <2>12, <2>13, <2>14, <2>15, <2>16, <2>17, <2>18, <2>19
       DEF Next, WorkerStep, ClaimStep, FinishStep, ApiCommit
<1>3. QED
  BY <1>2

(* Every variable keeps its type: a typing invariant of the queue.         *)
THEOREM TypeCorrect == Spec => []TypeOK
<1>1. Init => TypeOK
  BY BatchOfAssumption, NoItemAssumption
     DEF Init, StartsEmpty, TypeOK, Vacant, Idle, ItemRow, ItemStatus, WorkerState, PC,
         Calls, BatchStatus, NoRow, Active, Terminal, Tally
<1>2. QED
  BY <1>1, TypeStep, PTL DEF Spec

(***************************************************************************)
(* Rows: the retry budget and the lock of a processing row, for any number *)
(* of workers.                                                             *)
(***************************************************************************)
SoundRow(r) == /\ r.status = "retry_wait" => r.attempts < MaxAttempts
               /\ r.status = "processing" => r.locked

RowsSound == \A i \in Items : SoundRow(item[i])

LEMMA RecycledSound ==
    ASSUME TypeOK, RowsSound, NEW m, NEW i \in Items
    PROVE  SoundRow(Recycled(m)[i])
<1>1. SoundRow(item[i]) /\ item[i] \in ItemRow
  BY DEF RowsSound, TypeOK
<1>2. SoundRow([item[i] EXCEPT !.status = IF i \in m.drop THEN "failed"
                                                        ELSE "queued",
                              !.locked = FALSE, !.stale = FALSE])
  BY <1>1 DEF SoundRow, ItemRow
<1>3. QED
  BY <1>1, <1>2 DEF Recycled

(* Every step keeps the rows sound: only the worker's last transaction     *)
(* puts an item into RETRY_WAIT and only a claim makes it PROCESSING.      *)
LEMMA RowsSoundStep ==
    ASSUME TypeOK, RowsSound, [Next]_vars
    PROVE  RowsSound'
<1> USE AttemptsAssumption
<1>row. \A i \in Items : item[i] \in ItemRow /\ SoundRow(item[i])
  BY DEF TypeOK, RowsSound
<1>keep. ASSUME NEW i \in Items
         PROVE  /\ SoundRow([item[i] EXCEPT !.staged = TRUE])
                /\ SoundRow([item[i] EXCEPT !.shared = TRUE])
                /\ SoundRow([item[i] EXCEPT !.due = TRUE])
                /\ SoundRow([item[i] EXCEPT !.stale = TRUE])
                /\ SoundRow([item[i] EXCEPT !.status = "failed",
                                            !.due = FALSE])
  BY <1>row DEF SoundRow, ItemRow
<1>item. item \in [Items -> ItemRow]
  BY DEF TypeOK
<1>1. ASSUME NEW w \in Workers, ClaimStep(w) PROVE RowsSound'
  <2> DEFINE rows == Recycled(worker[w])
  <2>1. rows \in [Items -> ItemRow] /\ \A i \in Items : SoundRow(rows[i])
    BY RecycledType, RecycledSound
  <2>2. CASE ClaimNothing(w)
    BY <2>1, <2>2 DEF ClaimNothing, RowsSound
  <2>3. ASSUME NEW i \in Items, Claim(w, i) PROVE RowsSound'
    <3>1. SoundRow([rows[i] EXCEPT !.status = "processing", !.locked = TRUE,
                                   !.stale = FALSE, !.due = FALSE])
      BY <2>1 DEF SoundRow, ItemRow
    <3>2. item' = [rows EXCEPT ![i] =
                     [rows[i] EXCEPT !.status = "processing", !.locked = TRUE,
                                     !.stale = FALSE, !.due = FALSE]]
      BY <2>3 DEF Claim
    <3> HIDE DEF rows
    <3>3. QED
      BY <2>1, <3>1, <3>2 DEF RowsSound
  <2>4. ASSUME NEW i \in Items, ClaimRefused(w, i) PROVE RowsSound'
    <3> DEFINE r == [rows[i] EXCEPT !.status = "failed", !.locked = FALSE,
                                    !.stale = FALSE, !.due = FALSE,
                                    !.attempts = rows[i].attempts + 1]
    <3>1. SoundRow(r)
      BY <2>1 DEF SoundRow, ItemRow
    <3>2. item' = [rows EXCEPT ![i] = r]
      BY <2>4 DEF ClaimRefused
    <3> HIDE DEF rows, r
    <3>3. QED
      BY <2>1, <3>1, <3>2 DEF RowsSound
  <2>5. QED
    BY <1>1, <2>2, <2>3, <2>4 DEF ClaimStep
<1>2. ASSUME NEW w \in Workers, AnswerStep(w) PROVE RowsSound'
  <2>1. \/ UNCHANGED item
        \/ item' = [item EXCEPT ![worker[w].item] = [@ EXCEPT !.staged = TRUE]]
        \/ item' = [item EXCEPT ![worker[w].item] = [@ EXCEPT !.shared = TRUE]]
    BY <1>2 DEF AnswerStep, TransferOk, ReuseValid, ReuseInvalid, ShareOk,
                ValidateOk, CallFails
  <2>2. QED
    BY <1>row, <1>keep, <1>item, <2>1 DEF RowsSound
<1>3. ASSUME NEW w \in Workers, FinishCommit(w) PROVE RowsSound'
  <2> DEFINE m == worker[w]
             r == [item[m.item] EXCEPT
                     !.status = FinalStatus(m), !.locked = FALSE,
                     !.stale = FALSE, !.due = FALSE,
                     !.attempts = m.attempts + 1,
                     !.replaced = \/ item[m.item].replaced
                                  \/ m.outcome = "ok" /\ ~m.replaced]
  <2>1. m.item \in Items
    BY <1>3 DEF FinishCommit, TypeOK
  <2>2. FinalStatus(m) = "retry_wait" => m.attempts + 1 < MaxAttempts
    BY DEF FinalStatus
  <2>3. FinalStatus(m) # "processing"
    BY DEF FinalStatus
  <2>4. r.status = FinalStatus(m) /\ r.attempts = m.attempts + 1
    BY <1>row, <2>1 DEF ItemRow
  <2>5. SoundRow(r)
    BY <2>2, <2>3, <2>4 DEF SoundRow
  <2>6. item' = [item EXCEPT ![m.item] = r]
    BY <1>3 DEF FinishCommit, Finished
  <2> HIDE DEF r, m
  <2>7. QED
    BY <1>row, <1>item, <2>5, <2>6 DEF RowsSound
<1>4. ASSUME NEW i \in Items, RetryFallsDue(i) \/ LockAges(i) PROVE RowsSound'
  <2>1. \/ item' = [item EXCEPT ![i] = [@ EXCEPT !.due = TRUE]]
        \/ item' = [item EXCEPT ![i] = [@ EXCEPT !.stale = TRUE]]
    BY <1>4 DEF RetryFallsDue, LockAges
  <2>2. QED
    BY <1>row, <1>keep, <1>item, <2>1 DEF RowsSound
<1>5. ASSUME NEW b \in Batches,
             Create(b, "draft") \/ Create(b, "running") \/ Delete(b)
      PROVE  RowsSound'
  <2>1. SoundRow(Vacant) /\ SoundRow([Vacant EXCEPT !.status = "queued"])
    BY DEF SoundRow, Vacant
  <2>2. QED
    BY <1>5, <1>row, <2>1 DEF Create, Delete, RowsSound
<1>6. CASE CancelCommit
  BY <1>6, <1>row, <1>keep DEF CancelCommit, RowsSound
<1>7. CASE RetryCommit
  <2>1. ASSUME NEW i \in Items, NEW p \in BOOLEAN, NEW q \in BOOLEAN,
               NEW t \in BOOLEAN
        PROVE  SoundRow([item[i] EXCEPT !.status = "queued", !.locked = p,
                                        !.stale = q, !.due = FALSE,
                                        !.replaced = t])
    BY <1>row DEF SoundRow, ItemRow
  <2>2. \A i \in Items : /\ (item[i].locked /\ i \notin api.locked) \in BOOLEAN
                         /\ (item[i].stale /\ i \notin api.locked) \in BOOLEAN
                         /\ (item[i].replaced /\ i \notin api.replaced)
                                \in BOOLEAN
    OBVIOUS
  <2>3. QED
    BY <1>7, <1>row, <2>1, <2>2 DEF RetryCommit, RowsSound
<1>8. CASE UNCHANGED item
  BY <1>8 DEF RowsSound
<1>9. QED
  <2>1. ASSUME NEW w \in Workers,
               Poll(w) \/ FinishRead(w) \/ FinishCount(w) \/ Vanished(w)
                  \/ Crash(w)
        PROVE  UNCHANGED item
    BY <2>1 DEF Poll, FinishRead, FinishCount, Vanished, Crash
  <2>2. ASSUME NEW b \in Batches, Start(b) \/ CancelRead(b) \/ RetryRead(b)
        PROVE  UNCHANGED item
    BY <2>2 DEF Start, CancelRead, RetryRead
  <2>3. CASE ApiRollback \/ UNCHANGED vars
    BY <1>8, <2>3 DEF ApiRollback, vars
  <2>4. QED
    BY <1>1, <1>2, <1>3, <1>4, <1>5, <1>6, <1>7, <1>8, <2>1, <2>2, <2>3
       DEF Next, WorkerStep, FinishStep, ApiCommit

(* An item waits for an automatic retry only while attempts remain, and a  *)
(* processing row always carries the lock by which a crashed worker's item *)
(* is found again, with any number of workers and any interleaving of      *)
(* requests (mark_pan_transfer_item_error, recycle_stale_pan_transfer_locks).*)
THEOREM RowsAlwaysSound == Spec => [](RetryBudget /\ ProcessingIsLocked)
<1>1. Init => RowsSound
  BY DEF Init, StartsEmpty, RowsSound, SoundRow, Vacant
<1>2. RowsSound => RetryBudget /\ ProcessingIsLocked
  BY DEF RowsSound, SoundRow, RetryBudget, ProcessingIsLocked
<1>3. TypeOK /\ RowsSound /\ [Next]_vars => RowsSound'
  BY RowsSoundStep
<1>4. QED
  BY <1>1, <1>2, <1>3, TypeCorrect, PTL DEF Spec

(***************************************************************************)
(* Effects: with one worker the queue implements ShareEffects.  The        *)
(* invariant relates three things: the committed row, the history of       *)
(* recorded effects, and the call the worker is in.                        *)
(***************************************************************************)
OneWorker == \A u \in Workers, v \in Workers : u = v

RowMatchesTally(i) ==
    /\ tally[i].staged <= 1
    /\ tally[i].shared <= 1
    /\ batch[BatchOf[i]] # "deleted" /\ ~item[i].staged => tally[i].staged = 0
    /\ batch[BatchOf[i]] # "deleted" /\ ~item[i].shared => tally[i].shared = 0
    /\ batch[BatchOf[i]] \in NoRow => ~item[i].staged /\ ~item[i].shared

CallMatchesRow(w) ==
    LET i == worker[w].item IN
    worker[w].pc \in Calls /\ Present(i) =>
        /\ worker[w].pc = "transfer" => ~item[i].staged /\ ~item[i].shared
        /\ worker[w].pc \in {"reuse", "share"} => item[i].staged /\ ~item[i].shared
        /\ worker[w].pc = "reuse" => i \in ReuseItems

EffectsInv ==
    /\ \A i \in Items : RowMatchesTally(i)
    /\ \A w \in Workers : CallMatchesRow(w)
    /\ \A w \in Workers : worker[w].pc = "counted" => worker[w].next \notin NoRow
    /\ \A w \in Workers : worker[w].pc \notin {"idle", "polled"}
                               => batch[BatchOf[worker[w].item]] # "absent"
    /\ api.op # "none" => batch[api.on] \notin NoRow

(* A step after which every effect is recorded as before and no batch was  *)
(* created or deleted.                                                     *)
Still ==
    /\ \A i \in Items : /\ item'[i].staged = item[i].staged
                        /\ item'[i].shared = item[i].shared
                        /\ tally'[i].staged = tally[i].staged
                        /\ tally'[i].shared = tally[i].shared
    /\ \A b \in Batches : \/ batch'[b] = batch[b]
                          \/ batch[b] \notin NoRow /\ batch'[b] \notin NoRow

LEMMA RecycledStill ==
    ASSUME TypeOK, NEW m, NEW i \in Items
    PROVE  /\ Recycled(m)[i].staged = item[i].staged
           /\ Recycled(m)[i].shared = item[i].shared
<1>1. item[i] \in ItemRow
  BY DEF TypeOK
<1>2. QED
  BY <1>1 DEF Recycled, ItemRow

LEMMA RefreshedStill ==
    ASSUME NEW m, NEW rows, NEW b \in Batches
    PROVE  LET s == Refreshed(m, rows)
           IN  s[b] = batch[b] \/ (batch[b] \notin NoRow /\ s[b] \notin NoRow)
BY SummaryType DEF Refreshed

(* A claim that may be found is one of a batch whose row exists, and       *)
(* recycling before it left the recorded effects alone.                    *)
LEMMA ClaimStill ==
    ASSUME TypeOK, NEW w \in Workers, ClaimStep(w)
    PROVE  Still
<1> DEFINE rows == Recycled(worker[w])
           stat == Refreshed(worker[w], rows)
<1>1. /\ rows \in [Items -> ItemRow]
      /\ \A i \in Items : /\ rows[i].staged = item[i].staged
                          /\ rows[i].shared = item[i].shared
  BY RecycledType, RecycledStill
<1>2. /\ stat \in [Batches -> BatchStatus]
      /\ \A b \in Batches :
            stat[b] = batch[b] \/ (batch[b] \notin NoRow /\ stat[b] \notin NoRow)
  BY RefreshedType, RefreshedStill
<1>t. tally \in [Items -> Tally]
  BY DEF TypeOK
<1>r. \A i \in Items, n \in Nat :
        LET p == [rows[i] EXCEPT !.status = "processing", !.locked = TRUE,
                                 !.stale = FALSE, !.due = FALSE]
            f == [rows[i] EXCEPT !.status = "failed", !.locked = FALSE,
                                 !.stale = FALSE, !.due = FALSE,
                                 !.attempts = n]
        IN  /\ p.staged = rows[i].staged /\ p.shared = rows[i].shared
            /\ f.staged = rows[i].staged /\ f.shared = rows[i].shared
  BY <1>1 DEF ItemRow
<1>c. ASSUME NEW i \in Items, tally' = [tally EXCEPT ![i].runs = @ + 1]
      PROVE  \A j \in Items : /\ tally'[j].staged = tally[j].staged
                              /\ tally'[j].shared = tally[j].shared
  BY <1>t, <1>c DEF Tally
<1>3. CASE ClaimNothing(w)
  BY <1>1, <1>2, <1>3 DEF ClaimNothing, Still
<1>4. ASSUME NEW i \in Items, Claim(w, i) PROVE Still
  <2>1. item' = [rows EXCEPT ![i] =
                   [rows[i] EXCEPT !.status = "processing", !.locked = TRUE,
                                   !.stale = FALSE, !.due = FALSE]]
    BY <1>4 DEF Claim
  <2>2. batch' = stat /\ tally' = [tally EXCEPT ![i].runs = @ + 1]
    BY <1>4 DEF Claim
  <2> HIDE DEF rows, stat
  <2>3. QED
    BY <1>1, <1>2, <1>r, <1>c, <2>1, <2>2 DEF Still
<1>5. ASSUME NEW i \in Items, ClaimRefused(w, i) PROVE Still
  <2> DEFINE done == [rows EXCEPT ![i] =
                        [rows[i] EXCEPT !.status = "failed", !.locked = FALSE,
                                        !.stale = FALSE, !.due = FALSE,
                                        !.attempts = rows[i].attempts + 1]]
             next == Summary("running", StatusesIn(done, BatchOf[i]))
  <2>1. item' = done /\ tally' = [tally EXCEPT ![i].runs = @ + 1]
    BY <1>5 DEF ClaimRefused
  <2>2. batch' = [stat EXCEPT ![BatchOf[i]] = next]
    BY <1>5 DEF ClaimRefused
  <2>3. next \notin NoRow
    BY SummaryType
  <2>4. stat[BatchOf[i]] = "running"
    BY <1>5 DEF ClaimRefused, Claimable
  <2>5. rows[i].attempts + 1 \in Nat
    BY <1>1 DEF ItemRow
  <2>6. \A j \in Items : /\ item'[j].staged = item[j].staged
                         /\ item'[j].shared = item[j].shared
    BY <1>1, <1>r, <2>1, <2>5
  <2>7. BatchOf[i] \in Batches
    BY BatchOfAssumption
  <2>8. batch[BatchOf[i]] \notin NoRow
    BY <1>2, <2>4, <2>7 DEF NoRow
  <2> HIDE DEF rows, stat, done, next
  <2>9. QED
    BY <1>2, <1>c, <2>1, <2>2, <2>3, <2>6, <2>7, <2>8 DEF Still
<1>6. QED
  BY <1>3, <1>4, <1>5 DEF ClaimStep

(* The steps that record no effect and neither create nor delete a batch.  *)
LEMMA OtherStepsStill ==
    ASSUME TypeOK, EffectsInv, [Next]_vars,
           ~ \E w \in Workers : TransferOk(w) \/ ShareOk(w) \/ ReuseValid(w),
           ~ \E b \in Batches : \/ Create(b, "draft") \/ Create(b, "running")
                                \/ Delete(b)
    PROVE  Still
<1>row. \A i \in Items : item[i] \in ItemRow
  BY DEF TypeOK
<1>item. item \in [Items -> ItemRow] /\ tally \in [Items -> Tally]
  BY DEF TypeOK
<1>1. ASSUME NEW w \in Workers, ClaimStep(w) PROVE Still
  BY <1>1, ClaimStill
<1>2. ASSUME NEW w \in Workers,
             Poll(w) \/ ReuseInvalid(w) \/ ValidateOk(w) \/ CallFails(w)
                \/ FinishRead(w) \/ FinishCount(w) \/ Vanished(w) \/ Crash(w)
      PROVE  Still
  BY <1>2 DEF Poll, ReuseInvalid, ValidateOk, CallFails, FinishRead,
              FinishCount, Vanished, Crash, Still
<1>3. ASSUME NEW w \in Workers, FinishCommit(w) PROVE Still
  <2> DEFINE m == worker[w]
             i == m.item
             r == [item[i] EXCEPT
                     !.status = FinalStatus(m), !.locked = FALSE,
                     !.stale = FALSE, !.due = FALSE,
                     !.attempts = m.attempts + 1,
                     !.replaced = \/ item[m.item].replaced
                                  \/ m.outcome = "ok" /\ ~m.replaced]
  <2>1. i \in Items /\ Present(i) /\ m.next \notin NoRow
    BY <1>3 DEF FinishCommit, TypeOK, EffectsInv
  <2>2. r.staged = item[i].staged /\ r.shared = item[i].shared
    BY <1>row, <2>1 DEF ItemRow
  <2>3. item' = [item EXCEPT ![i] = r]
    BY <1>3 DEF FinishCommit, Finished
  <2>4. batch' = batch \/ batch' = [batch EXCEPT ![BatchOf[i]] = m.next]
    BY <1>3 DEF FinishCommit
  <2>5. UNCHANGED tally
    BY <1>3 DEF FinishCommit
  <2>6. \A b \in Batches : \/ batch'[b] = batch[b]
                           \/ batch[b] \notin NoRow /\ batch'[b] \notin NoRow
    BY <2>1, <2>4 DEF Present, TypeOK
  <2> HIDE DEF m, r, i
  <2>7. QED
    BY <1>item, <2>2, <2>3, <2>5, <2>6 DEF Still
<1>4. ASSUME NEW i \in Items, RetryFallsDue(i) \/ LockAges(i) PROVE Still
  <2>1. \/ item' = [item EXCEPT ![i] = [@ EXCEPT !.due = TRUE]]
        \/ item' = [item EXCEPT ![i] = [@ EXCEPT !.stale = TRUE]]
    BY <1>4 DEF RetryFallsDue, LockAges
  <2>2. UNCHANGED <<batch, tally>>
    BY <1>4 DEF RetryFallsDue, LockAges
  <2>3. \A x \in BOOLEAN :
           LET p == [item[i] EXCEPT !.due = x]
               q == [item[i] EXCEPT !.stale = x]
           IN  /\ p.staged = item[i].staged /\ p.shared = item[i].shared
               /\ q.staged = item[i].staged /\ q.shared = item[i].shared
    BY <1>row DEF ItemRow
  <2>4. QED
    BY <1>item, <2>1, <2>2, <2>3 DEF Still
<1>5. ASSUME NEW b \in Batches, Start(b) PROVE Still
  BY <1>5, SummaryType DEF Start, Still, TypeOK, NoRow
<1>6. ASSUME NEW b \in Batches, CancelRead(b) \/ RetryRead(b) PROVE Still
  BY <1>6 DEF CancelRead, RetryRead, Still
<1>7. CASE CancelCommit
  <2>1. \A i \in Items :
           LET p == [item[i] EXCEPT !.status = "failed", !.due = FALSE]
           IN  p.staged = item[i].staged /\ p.shared = item[i].shared
    BY <1>row DEF ItemRow
  <2>2. batch' = [batch EXCEPT ![api.on] = "cancelled"] /\ UNCHANGED tally
    BY <1>7 DEF CancelCommit
  <2>3. batch[api.on] \notin NoRow
    BY <1>7 DEF CancelCommit, EffectsInv
  <2>4. \A i \in Items : item'[i].staged = item[i].staged
                         /\ item'[i].shared = item[i].shared
    BY <1>7, <2>1 DEF CancelCommit
  <2>5. QED
    BY <2>2, <2>3, <2>4 DEF Still, TypeOK, NoRow
<1>8. CASE RetryCommit
  <2>1. ASSUME NEW i \in Items, NEW p \in BOOLEAN, NEW q \in BOOLEAN,
               NEW t \in BOOLEAN
        PROVE  LET r == [item[i] EXCEPT !.status = "queued", !.locked = p,
                                        !.stale = q, !.due = FALSE,
                                        !.replaced = t]
               IN  r.staged = item[i].staged /\ r.shared = item[i].shared
    BY <1>row DEF ItemRow
  <2>2. batch' = batch \/ batch' = [batch EXCEPT ![api.on] = "running"]
    BY <1>8 DEF RetryCommit
  <2>3. batch[api.on] \notin NoRow
    BY <1>8 DEF RetryCommit, EffectsInv
  <2>4. \A i \in Items : item'[i].staged = item[i].staged
                         /\ item'[i].shared = item[i].shared
    <3> SUFFICES ASSUME NEW i \in Items
                 PROVE  item'[i].staged = item[i].staged
                        /\ item'[i].shared = item[i].shared
      OBVIOUS
    <3>1. CASE i \notin api.rows
      BY <1>8, <3>1 DEF RetryCommit
    <3>2. CASE i \in api.rows
      <4> DEFINE p == item[i].locked /\ i \notin api.locked
                 q == item[i].stale /\ i \notin api.locked
                 t == item[i].replaced /\ i \notin api.replaced
      <4>1. item'[i] = [item[i] EXCEPT !.status = "queued", !.locked = p,
                                       !.stale = q, !.due = FALSE,
                                       !.replaced = t]
        BY <1>8, <3>2 DEF RetryCommit
      <4>2. p \in BOOLEAN /\ q \in BOOLEAN /\ t \in BOOLEAN
        OBVIOUS
      <4> HIDE DEF p, q, t
      <4>3. QED
        BY <2>1, <4>1, <4>2
    <3>3. QED
      BY <3>1, <3>2
  <2>5. \A i \in Items : LET t == [tally[i] EXCEPT !.runs = 0]
                         IN  t.staged = tally[i].staged
                             /\ t.shared = tally[i].shared
    BY <1>item DEF Tally
  <2>6. \A i \in Items : tally'[i].staged = tally[i].staged
                         /\ tally'[i].shared = tally[i].shared
    BY <1>8, <2>5 DEF RetryCommit
  <2>7. QED
    BY <2>2, <2>3, <2>4, <2>6 DEF Still, TypeOK, NoRow
<1>9. CASE ApiRollback \/ UNCHANGED vars
  BY <1>9 DEF ApiRollback, vars, Still
<1>10. QED
  BY <1>1, <1>2, <1>3, <1>4, <1>5, <1>6, <1>7, <1>8, <1>9
     DEF Next, WorkerStep, AnswerStep, FinishStep, ApiCommit

(* Where the worker is after a step: in the call it was in, in the first   *)
(* call of an item it has claimed, or in the call that follows an answer.  *)
LEMMA EffectsInvStep ==
    ASSUME OneWorker, TypeOK, EffectsInv, [Next]_vars
    PROVE  EffectsInv'
<1> USE BatchOfAssumption DEF TypeOK
<1>row. \A i \in Items : item[i] \in ItemRow /\ BatchOf[i] \in Batches
  OBVIOUS
<1>rows. ASSUME Still PROVE \A i \in Items : RowMatchesTally(i)'
  BY <1>rows, <1>row DEF Still, EffectsInv, RowMatchesTally, NoRow
<1>present. ASSUME Still, NEW i \in Items PROVE Present(i)' <=> Present(i)
  BY <1>present, <1>row DEF Still, Present
<1>1. ASSUME NEW w \in Workers, TransferOk(w) \/ ShareOk(w) \/ ReuseValid(w)
      PROVE  EffectsInv'
  <2> DEFINE i == worker[w].item
  <2>1. i \in Items /\ Present(i) /\ UNCHANGED <<batch, api>>
    BY <1>1 DEF TransferOk, ShareOk, ReuseValid, Answer
  <2>2. CallMatchesRow(w) /\ \A j \in Items : RowMatchesTally(j)
    BY DEF EffectsInv
  <2>p. batch'[BatchOf[i]] # "absent"
    BY <2>1 DEF Present, NoRow
  <2>o. \A v \in Workers : v = w
    BY DEF OneWorker
  <2>i. worker'[w].item = i
    BY <1>1 DEF TransferOk, ShareOk, ReuseValid, WorkerState
  <2>3. CASE TransferOk(w)
    <3>1. /\ worker[w].pc = "transfer"
          /\ item' = [item EXCEPT ![i].staged = TRUE]
          /\ tally' = [tally EXCEPT ![i].staged = @ + 1]
          /\ worker' = [worker EXCEPT ![w].pc =
                          IF i \in ReuseItems THEN "reuse" ELSE "share"]
      BY <2>3 DEF TransferOk, Answer
    <3>2. ~item[i].staged /\ ~item[i].shared
      BY <2>1, <2>2, <3>1 DEF CallMatchesRow, Calls
    <3>3. tally[i].staged = 0 /\ tally[i].shared = 0
      BY <2>1, <2>2, <3>2 DEF RowMatchesTally, Present, NoRow
    <3>4. item'[i].staged /\ ~item'[i].shared
          /\ tally'[i].staged = 1 /\ tally'[i].shared = 0
      BY <2>1, <3>1, <3>2, <3>3 DEF ItemRow, Tally
    <3>5. \A j \in Items \ {i} : item'[j] = item[j] /\ tally'[j] = tally[j]
      BY <3>1
    <3>6. \A j \in Items : RowMatchesTally(j)'
      BY <2>1, <2>2, <3>4, <3>5 DEF RowMatchesTally, Present
    <3>7. worker'[w].pc = (IF i \in ReuseItems THEN "reuse" ELSE "share")
          /\ worker'[w].item = i
      BY <3>1 DEF WorkerState
    <3>8. CallMatchesRow(w)'
      BY <3>4, <3>7 DEF CallMatchesRow
    <3>9. QED
      BY <2>1, <2>p, <2>o, <3>6, <3>7, <3>8 DEF EffectsInv
  <2>4. CASE ShareOk(w)
    <3>1. /\ worker[w].pc = "share"
          /\ item' = [item EXCEPT ![i].shared = TRUE]
          /\ tally' = [tally EXCEPT ![i].shared = @ + 1]
          /\ worker' = [worker EXCEPT ![w].pc = "validate"]
      BY <2>4 DEF ShareOk, Answer
    <3>2. item[i].staged /\ ~item[i].shared
      BY <2>1, <2>2, <3>1 DEF CallMatchesRow, Calls
    <3>3. tally[i].shared = 0
      BY <2>1, <2>2, <3>2 DEF RowMatchesTally, Present, NoRow
    <3>4. item'[i].staged /\ item'[i].shared
          /\ tally'[i].staged = tally[i].staged /\ tally'[i].shared = 1
      BY <2>1, <3>1, <3>2, <3>3 DEF ItemRow, Tally
    <3>5. \A j \in Items \ {i} : item'[j] = item[j] /\ tally'[j] = tally[j]
      BY <3>1
    <3>6. \A j \in Items : RowMatchesTally(j)'
      BY <2>1, <2>2, <3>4, <3>5 DEF RowMatchesTally, Present
    <3>7. worker'[w].pc = "validate"
      BY <3>1 DEF WorkerState
    <3>8. QED
      BY <2>1, <2>p, <2>o, <2>i, <3>6, <3>7 DEF EffectsInv, CallMatchesRow
  <2>5. CASE ReuseValid(w)
    <3>1. /\ worker[w].pc = "reuse"
          /\ item' = [item EXCEPT ![i].shared = TRUE]
          /\ UNCHANGED tally
          /\ worker' = [worker EXCEPT ![w].pc = "validate"]
      BY <2>5 DEF ReuseValid, Answer
    <3>2. item[i].staged /\ ~item[i].shared
      BY <2>1, <2>2, <3>1 DEF CallMatchesRow, Calls
    <3>3. item'[i].staged /\ item'[i].shared
      BY <2>1, <3>1, <3>2 DEF ItemRow
    <3>4. \A j \in Items \ {i} : item'[j] = item[j]
      BY <3>1
    <3>5. \A j \in Items : RowMatchesTally(j)'
      BY <2>1, <2>2, <3>1, <3>3, <3>4 DEF RowMatchesTally, Present
    <3>6. worker'[w].pc = "validate"
      BY <3>1 DEF WorkerState
    <3>7. QED
      BY <2>1, <2>p, <2>o, <2>i, <3>5, <3>6 DEF EffectsInv, CallMatchesRow
  <2>6. QED
    BY <1>1, <2>3, <2>4, <2>5
<1>2. ASSUME NEW b \in Batches, Create(b, "draft") \/ Create(b, "running")
      PROVE  EffectsInv'
  <2>1. /\ batch[b] = "absent"
        /\ batch' = [batch EXCEPT ![b] = "draft"]
              \/ batch' = [batch EXCEPT ![b] = "running"]
        /\ UNCHANGED <<worker, api, tally>> /\ api.op = "none"
    BY <1>2 DEF Create, RequestMayOpen
  <2>2. \A i \in Members(b) : ~item'[i].staged /\ ~item'[i].shared
    BY <1>2 DEF Create, Vacant, Members
  <2>3. \A i \in Items \ Members(b) : item'[i] = item[i]
    BY <1>2 DEF Create
  <2>4. \A i \in Members(b) : tally[i].staged = 0 /\ tally[i].shared = 0
    BY <2>1 DEF EffectsInv, RowMatchesTally, NoRow, Members
  <2>5. \A i \in Items : RowMatchesTally(i)'
    BY <1>row, <2>1, <2>2, <2>3, <2>4
       DEF EffectsInv, RowMatchesTally, Members, NoRow
  <2>6. \A w \in Workers : worker[w].pc \notin {"idle", "polled"}
                              => worker[w].item \notin Members(b)
    BY <2>1 DEF EffectsInv, Members
  <2>7. \A w \in Workers : CallMatchesRow(w)'
    BY <1>row, <2>1, <2>3, <2>6
       DEF EffectsInv, CallMatchesRow, Present, Members, Calls
  <2>8. QED
    BY <1>row, <2>1, <2>5, <2>7 DEF EffectsInv
<1>3. ASSUME NEW b \in Batches, Delete(b) PROVE EffectsInv'
  <2>1. /\ batch' = [batch EXCEPT ![b] = "deleted"]
        /\ UNCHANGED <<worker, api, tally>> /\ api.op = "none"
    BY <1>3 DEF Delete, RequestMayOpen
  <2>2. \A i \in Members(b) : ~item'[i].staged /\ ~item'[i].shared
    BY <1>3 DEF Delete, Vacant, Members
  <2>3. \A i \in Items \ Members(b) : item'[i] = item[i]
    BY <1>3 DEF Delete
  <2>4. \A i \in Items : RowMatchesTally(i)'
    BY <1>row, <2>1, <2>2, <2>3
       DEF EffectsInv, RowMatchesTally, Members, NoRow
  <2>5. \A w \in Workers : CallMatchesRow(w)'
    BY <1>row, <2>1, <2>3
       DEF EffectsInv, CallMatchesRow, Present, Members, Calls, NoRow
  <2>6. QED
    BY <1>row, <2>1, <2>4, <2>5 DEF EffectsInv
<1>4. ASSUME Still PROVE EffectsInv'
  <2>1. api' = api \/ api'.op = "none" \/ batch'[api'.on] \notin NoRow
    <3>1. ASSUME NEW w \in Workers, WorkerStep(w) \/ Crash(w)
          PROVE  UNCHANGED api
      BY <3>1 DEF WorkerStep, ClaimStep, AnswerStep, FinishStep, Poll, Claim,
                  ClaimRefused, ClaimNothing, TransferOk, ReuseValid,
                  ReuseInvalid, ShareOk, ValidateOk, CallFails, FinishRead,
                  FinishCount, FinishCommit, Vanished, Crash
    <3>2. ASSUME NEW i \in Items, RetryFallsDue(i) \/ LockAges(i)
          PROVE  UNCHANGED api
      BY <3>2 DEF RetryFallsDue, LockAges
    <3>3. ASSUME NEW b \in Batches, Create(b, "draft") \/ Create(b, "running")
                                      \/ Start(b) \/ Delete(b)
          PROVE  UNCHANGED api
      BY <3>3 DEF Create, Start, Delete
    <3>4. ASSUME NEW b \in Batches, CancelRead(b) \/ RetryRead(b)
          PROVE  batch'[api'.on] \notin NoRow
      BY <3>4 DEF CancelRead, RetryRead
    <3>5. ASSUME ApiCommit \/ ApiRollback PROVE api'.op = "none"
      <4>1. api' = [op |-> "none"]
        BY <3>5 DEF ApiCommit, CancelCommit, RetryCommit, ApiRollback
      <4>2. QED
        BY <4>1
    <3>6. QED
      BY <3>1, <3>2, <3>3, <3>4, <3>5 DEF Next, vars
  <2>2. api'.op # "none" => batch'[api'.on] \notin NoRow
    <3>1. api'.op # "none" => api' \in ApiState
      BY TypeStep
    <3>2. CASE api' = api
      BY <1>4, <3>1, <3>2 DEF EffectsInv, Still, ApiState
    <3>3. QED
      BY <2>1, <3>2
  <2>3. ASSUME NEW w \in Workers, worker'[w] = worker[w]
        PROVE  /\ CallMatchesRow(w)'
               /\ worker'[w].pc = "counted" => worker'[w].next \notin NoRow
               /\ worker'[w].pc \notin {"idle", "polled"}
                     => batch'[BatchOf[worker'[w].item]] # "absent"
    BY <1>4, <1>row, <1>present, <2>3
       DEF EffectsInv, Still, CallMatchesRow, Calls, NoRow
  <2>4. ASSUME NEW w \in Workers,
               worker'[w].pc \notin Calls \cup {"counted"},
               \/ worker'[w].pc \in {"idle", "polled"}
               \/ /\ worker[w].pc \notin {"idle", "polled"}
                  /\ worker'[w].item = worker[w].item
        PROVE  /\ CallMatchesRow(w)'
               /\ worker'[w].pc = "counted" => worker'[w].next \notin NoRow
               /\ worker'[w].pc \notin {"idle", "polled"}
                     => batch'[BatchOf[worker'[w].item]] # "absent"
    BY <1>4, <1>row, <2>4 DEF EffectsInv, Still, CallMatchesRow, NoRow
  <2> DEFINE Good(w) ==
               /\ CallMatchesRow(w)'
               /\ worker'[w].pc = "counted" => worker'[w].next \notin NoRow
               /\ worker'[w].pc \notin {"idle", "polled"}
                     => batch'[BatchOf[worker'[w].item]] # "absent"
  <2>5. ASSUME NEW w \in Workers, Poll(w) PROVE Good(w)
    BY <2>4, <2>5 DEF Poll, Idle, Calls
  <2>6. ASSUME NEW w \in Workers, NEW i \in Items, Claim(w, i) PROVE Good(w)
    <3> DEFINE rows == Recycled(worker[w])
               stat == Refreshed(worker[w], rows)
    <3>1. /\ worker'[w].pc = FirstCall(i, rows[i])
          /\ worker'[w].item = i
      BY <2>6 DEF Claim, Idle
    <3>2. /\ item'[i].staged = rows[i].staged
          /\ item'[i].shared = rows[i].shared
      BY <1>4, RecycledStill DEF Still
    <3>3. batch'[BatchOf[i]] = "running"
      BY <2>6 DEF Claim, Claimable
    <3>4. CallMatchesRow(w)'
      BY <3>1, <3>2 DEF CallMatchesRow, FirstCall
    <3>5. worker'[w].pc # "counted"
      BY <3>1 DEF FirstCall
    <3>6. QED
      BY <3>1, <3>3, <3>4, <3>5
  <2>7. ASSUME NEW w \in Workers, NEW i \in Items, ClaimRefused(w, i)
        PROVE  Good(w)
    BY <2>4, <2>7 DEF ClaimRefused, Idle, Calls
  <2>8. ASSUME NEW w \in Workers,
               ClaimNothing(w) \/ FinishCommit(w) \/ Vanished(w) \/ Crash(w)
        PROVE  Good(w)
    <3>1. worker' = [worker EXCEPT ![w] = Idle]
      BY <2>8 DEF ClaimNothing, FinishCommit, Vanished, Crash
    <3>2. QED
      BY <2>4, <3>1 DEF Idle, Calls
  <2>9. ASSUME NEW w \in Workers, ReuseInvalid(w) PROVE Good(w)
    <3>1. /\ worker[w].pc = "reuse" /\ Present(worker[w].item)
          /\ worker'[w].pc = "share" /\ worker'[w].item = worker[w].item
          /\ UNCHANGED <<item, batch>>
      BY <2>9 DEF ReuseInvalid, Answer, WorkerState
    <3>2. CallMatchesRow(w)'
      BY <3>1 DEF EffectsInv, CallMatchesRow, Calls
    <3>3. QED
      BY <3>1, <3>2 DEF EffectsInv
  <2>10. ASSUME NEW w \in Workers, ValidateOk(w) \/ CallFails(w) \/ FinishRead(w)
         PROVE  Good(w)
    <3>1. /\ worker[w].pc \notin {"idle", "polled"}
          /\ worker'[w].pc \in {"finish", "read"}
          /\ worker'[w].item = worker[w].item
      BY <2>10 DEF ValidateOk, CallFails, FinishRead, Answer, WorkerState, Calls
    <3>2. QED
      BY <2>4, <3>1 DEF Calls
  <2>11. ASSUME NEW w \in Workers, FinishCount(w) PROVE Good(w)
    <3> DEFINE n == Summary(worker[w].seen,
                     StatusesIn(Finished(worker[w]), BatchOf[worker[w].item]))
    <3>1. n \notin NoRow
      BY SummaryType
    <3>2. /\ worker[w].pc = "read" /\ UNCHANGED <<batch, item>>
          /\ worker' = [worker EXCEPT ![w] =
                          [@ EXCEPT !.pc = "counted", !.next = n]]
      BY <2>11 DEF FinishCount
    <3> HIDE DEF n
    <3>3. worker'[w].pc = "counted" /\ worker'[w].next = n
          /\ worker'[w].item = worker[w].item
      BY <3>2 DEF WorkerState
    <3>4. QED
      BY <3>1, <3>2, <3>3 DEF EffectsInv, CallMatchesRow, Calls
  <2>12. ASSUME ~ \E w \in Workers : WorkerStep(w) \/ Crash(w)
         PROVE  UNCHANGED worker
    BY <2>12 DEF Next, vars, ApiCommit, RetryFallsDue, LockAges, Create, Start,
                 CancelRead, RetryRead, CancelCommit, RetryCommit, ApiRollback,
                 Delete
  <2>13. ASSUME NEW w \in Workers, WorkerStep(w) \/ Crash(w) PROVE Good(w)
    <3>1. CASE \/ TransferOk(w) \/ ShareOk(w) \/ ReuseValid(w)
      BY <1>1, <3>1 DEF EffectsInv
    <3>2. QED
      BY <2>5, <2>6, <2>7, <2>8, <2>9, <2>10, <2>11, <2>13, <3>1
         DEF WorkerStep, ClaimStep, AnswerStep, FinishStep
  <2>14. \A w \in Workers : Good(w)
    BY <2>3, <2>12, <2>13 DEF OneWorker
  <2>15. QED
    BY <1>4, <1>rows, <2>2, <2>14 DEF EffectsInv
<1>5. QED
  BY <1>1, <1>2, <1>3, <1>4, OtherStepsStill

LEMMA EffectsInvInit == Init => EffectsInv
  BY DEF Init, StartsEmpty, EffectsInv, RowMatchesTally, CallMatchesRow, Vacant, Idle, Calls,
         NoRow

LEMMA StageUnchanged ==
    ASSUME NEW i \in Items,
           item'[i].staged = item[i].staged,
           item'[i].shared = item[i].shared,
           batch'[BatchOf[i]] = "deleted" <=> batch[BatchOf[i]] = "deleted"
    PROVE  StageOf(i)' = StageOf(i)
BY DEF StageOf

(* A step that records no effect stutters in the abstract specification.   *)
LEMMA StillStutters ==
    ASSUME TypeOK, Still
    PROVE  UNCHANGED Effects!vars
<1>1. \A i \in Items : BatchOf[i] \in Batches
  BY BatchOfAssumption
<1>2. \A i \in Items : StageOf(i)' = StageOf(i)
  BY <1>1, StageUnchanged DEF Still, NoRow
<1>3. \A i \in Items : tally'[i].staged = tally[i].staged
                       /\ tally'[i].shared = tally[i].shared
  BY DEF Still
<1>4. QED
  BY <1>2, <1>3 DEF Effects!vars

(* Recording a result is the abstract step of the same name; deleting a    *)
(* batch forgets its items; every other step stutters.                     *)
LEMMA EffectsStep ==
    ASSUME TypeOK, EffectsInv, [Next]_vars
    PROVE  [Effects!Next]_(Effects!vars)
<1> USE BatchOfAssumption
<1>row. item \in [Items -> ItemRow] /\ tally \in [Items -> Tally]
  BY DEF TypeOK
<1>1. ASSUME NEW w \in Workers, NEW i \in Items, i = worker[w].item,
             TransferOk(w)
      PROVE  Effects!Next
  <2>1. /\ worker[w].pc = "transfer" /\ i \in Items /\ Present(i)
        /\ item' = [item EXCEPT ![i].staged = TRUE]
        /\ tally' = [tally EXCEPT ![i].staged = @ + 1]
        /\ UNCHANGED batch
    BY <1>1 DEF TransferOk, Answer
  <2>2. ~item[i].staged /\ ~item[i].shared
    BY <1>1, <2>1 DEF EffectsInv, CallMatchesRow, Calls
  <2>3. /\ item'[i].staged /\ ~item'[i].shared
        /\ tally'[i].staged = tally[i].staged + 1
        /\ tally'[i].shared = tally[i].shared
    BY <1>row, <2>1, <2>2 DEF ItemRow, Tally
  <2>4. \A j \in Items \ {i} : item'[j] = item[j] /\ tally'[j] = tally[j]
    BY <1>row, <2>1
  <2>5. StageOf(i) = "none" /\ StageOf(i)' = "staged"
    BY <2>1, <2>2, <2>3 DEF StageOf, Present, NoRow
  <2>6. \A j \in Items \ {i} : StageOf(j)' = StageOf(j)
    BY <2>1, <2>4 DEF StageOf
  <2>7. Effects!Stage(i)
    <3>1. [j \in Items |-> tally[j].staged]'
            = [[j \in Items |-> tally[j].staged] EXCEPT
                 ![i] = [j \in Items |-> tally[j].staged][i] + 1]
      <4>1. \A j \in Items : tally'[j].staged = IF j = i THEN tally[j].staged + 1
                                            ELSE tally[j].staged
        BY <2>3, <2>4
      <4>2. QED
        BY <4>1
    <3>2. \A j \in Items : tally'[j].shared = tally[j].shared
      BY <2>3, <2>4
    <3>3. [j \in Items |-> StageOf(j)]'
            = [[j \in Items |-> StageOf(j)] EXCEPT ![i] = "staged"]
      BY <2>5, <2>6
    <3>4. QED
      BY <2>5, <3>1, <3>2, <3>3 DEF Effects!Stage
  <2>8. QED
    BY <2>1, <2>7 DEF Effects!Next
<1>2. ASSUME NEW w \in Workers, NEW i \in Items, i = worker[w].item,
             ShareOk(w)
      PROVE  Effects!Next
  <2>1. /\ worker[w].pc = "share" /\ i \in Items /\ Present(i)
        /\ item' = [item EXCEPT ![i].shared = TRUE]
        /\ tally' = [tally EXCEPT ![i].shared = @ + 1]
        /\ UNCHANGED batch
    BY <1>2 DEF ShareOk, Answer
  <2>2. item[i].staged /\ ~item[i].shared
    BY <1>2, <2>1 DEF EffectsInv, CallMatchesRow, Calls
  <2>3. /\ item'[i].shared
        /\ tally'[i].staged = tally[i].staged
        /\ tally'[i].shared = tally[i].shared + 1
    BY <1>row, <2>1 DEF ItemRow, Tally
  <2>4. \A j \in Items \ {i} : item'[j] = item[j] /\ tally'[j] = tally[j]
    BY <1>row, <2>1
  <2>5. StageOf(i) = "staged" /\ StageOf(i)' = "shared"
    BY <2>1, <2>2, <2>3 DEF StageOf, Present, NoRow
  <2>6. \A j \in Items \ {i} : StageOf(j)' = StageOf(j)
    BY <2>1, <2>4 DEF StageOf
  <2>7. Effects!Share(i)
    <3>1. [j \in Items |-> tally[j].shared]'
            = [[j \in Items |-> tally[j].shared] EXCEPT
                 ![i] = [j \in Items |-> tally[j].shared][i] + 1]
      <4>1. \A j \in Items : tally'[j].shared = IF j = i THEN tally[j].shared + 1
                                            ELSE tally[j].shared
        BY <2>3, <2>4
      <4>2. QED
        BY <4>1
    <3>2. \A j \in Items : tally'[j].staged = tally[j].staged
      BY <2>3, <2>4
    <3>3. [j \in Items |-> StageOf(j)]'
            = [[j \in Items |-> StageOf(j)] EXCEPT ![i] = "shared"]
      BY <2>5, <2>6
    <3>4. QED
      BY <2>5, <3>1, <3>2, <3>3 DEF Effects!Share
  <2>8. QED
    BY <2>1, <2>7 DEF Effects!Next
<1>3. ASSUME NEW w \in Workers, NEW i \in Items, i = worker[w].item,
             ReuseValid(w)
      PROVE  Effects!Next
  <2>1. /\ worker[w].pc = "reuse" /\ i \in Items /\ Present(i)
        /\ item' = [item EXCEPT ![i].shared = TRUE]
        /\ UNCHANGED <<batch, tally>>
    BY <1>3 DEF ReuseValid, Answer
  <2>2. item[i].staged /\ ~item[i].shared /\ i \in ReuseItems
    BY <1>3, <2>1 DEF EffectsInv, CallMatchesRow, Calls
  <2>3. item'[i].shared
    BY <1>row, <2>1 DEF ItemRow
  <2>4. \A j \in Items \ {i} : item'[j] = item[j]
    BY <1>row, <2>1
  <2>5. StageOf(i) = "staged" /\ StageOf(i)' = "shared"
    BY <2>1, <2>2, <2>3 DEF StageOf, Present, NoRow
  <2>6. \A j \in Items \ {i} : StageOf(j)' = StageOf(j)
    BY <2>1, <2>4 DEF StageOf
  <2>7. Effects!Reuse(i)
    BY <2>1, <2>2, <2>5, <2>6 DEF Effects!Reuse
  <2>8. QED
    BY <2>1, <2>7 DEF Effects!Next
<1>4. ASSUME NEW b \in Batches, Delete(b) PROVE Effects!Next
  <2>1. /\ batch' = [batch EXCEPT ![b] = "deleted"]
        /\ UNCHANGED tally
        /\ batch \in [Batches -> BatchStatus]
    BY <1>4 DEF Delete, TypeOK
  <2>2. \A i \in Members(b) : StageOf(i)' = "gone"
    BY <2>1 DEF StageOf, Members
  <2>3. \A i \in Items \ Members(b) : item'[i] = item[i]
    BY <1>4 DEF Delete
  <2>4. \A i \in Items \ Members(b) : StageOf(i)' = StageOf(i)
    BY <2>1, <2>3 DEF StageOf, Members
  <2>5. Members(b) \in SUBSET Items
    BY DEF Members
  <2>6. Effects!Forget(Members(b))
    BY <2>1, <2>2, <2>4 DEF Effects!Forget
  <2>7. QED
    BY <2>5, <2>6 DEF Effects!Next
<1>5. ASSUME NEW b \in Batches, Create(b, "draft") \/ Create(b, "running")
      PROVE  UNCHANGED Effects!vars
  <2>1. /\ batch[b] = "absent"
        /\ batch' = [batch EXCEPT ![b] = "draft"]
              \/ batch' = [batch EXCEPT ![b] = "running"]
        /\ UNCHANGED tally
        /\ batch \in [Batches -> BatchStatus]
    BY <1>5 DEF Create, TypeOK
  <2>2. \A i \in Members(b) : StageOf(i) = "none"
    BY <2>1 DEF EffectsInv, RowMatchesTally, StageOf, Members, NoRow
  <2>3. \A i \in Members(b) : ~item'[i].staged /\ ~item'[i].shared
    BY <1>5 DEF Create, Vacant, Members
  <2>4. \A i \in Members(b) : StageOf(i)' = "none"
    BY <2>1, <2>3 DEF StageOf, Members
  <2>5. \A i \in Items \ Members(b) : item'[i] = item[i]
    BY <1>5 DEF Create
  <2>6. \A i \in Items \ Members(b) : StageOf(i)' = StageOf(i)
    BY <2>1, <2>5 DEF StageOf, Members
  <2>7. \A i \in Items : StageOf(i)' = StageOf(i)
    BY <2>2, <2>4, <2>6
  <2>8. QED
    BY <2>1, <2>7 DEF Effects!vars
<1>6. ASSUME NEW w \in Workers, TransferOk(w) \/ ShareOk(w) \/ ReuseValid(w)
      PROVE  worker[w].item \in Items
  BY <1>6 DEF TransferOk, ShareOk, ReuseValid, Answer, Calls, TypeOK
<1>7. QED
  BY <1>1, <1>2, <1>3, <1>4, <1>5, <1>6, OtherStepsStill, StillStutters

(* With one worker, and for any number of batches, items, requests,        *)
(* crashes and retries, EffectsInv holds in every reachable state.         *)
LEMMA EffectsAlways == OneWorker => (Spec => []EffectsInv)
<1> SUFFICES ASSUME OneWorker PROVE Spec => []EffectsInv
  OBVIOUS
<1>1. TypeOK /\ EffectsInv /\ [Next]_vars => EffectsInv'
  BY EffectsInvStep
<1>2. QED
  BY <1>1, EffectsInvInit, TypeCorrect, PTL DEF Spec

(* A staging copy and a share recorded for an item are never made a second *)
(* time, whatever retries, cancellations, recycled locks and crashes the   *)
(* item goes through, as long as there is one worker: the snapshot and the *)
(* share of the row decide which call is made first, and nothing but       *)
(* deleting the batch forgets them.                                        *)
THEOREM EffectsNeverRepeated == OneWorker => (Spec => []EffectsNotRepeated)
<1> SUFFICES ASSUME OneWorker PROVE Spec => []EffectsNotRepeated
  OBVIOUS
<1>1. EffectsInv => EffectsNotRepeated
  BY DEF EffectsInv, RowMatchesTally, EffectsNotRepeated
<1>2. QED
  BY <1>1, EffectsAlways, PTL

(* With one worker the queue implements ShareEffects: every step records   *)
(* one effect in the order the abstract specification allows, forgets the  *)
(* items of a deleted batch, or changes nothing that is recorded.          *)
THEOREM QueueImplementsEffects == OneWorker => (Spec => ImplementsEffects)
<1> SUFFICES ASSUME OneWorker PROVE Spec => ImplementsEffects
  OBVIOUS
<1>1. Init => Effects!Init
  BY BatchOfAssumption DEF Init, StartsEmpty, Effects!Init, StageOf, Vacant
<1>2. TypeOK /\ EffectsInv /\ [Next]_vars => [Effects!Next]_(Effects!vars)
  BY EffectsStep
<1>3. QED
  BY <1>1, <1>2, EffectsAlways, TypeCorrect, PTL
     DEF Spec, ImplementsEffects, Effects!Spec

(***************************************************************************)
(* Runs: how often an item is executed between two manual retries.  Every  *)
(* claim counts one run; it is paid for by the attempt that the worker     *)
(* records when it finishes, or by the crash that loses it.                *)
(***************************************************************************)
InHand(i) == \E w \in Workers : /\ worker[w].pc \notin {"idle", "polled"}
                                /\ worker[w].item = i

Requeued(i) == \E w \in Workers : /\ worker[w].pc = "polled"
                                  /\ i \in worker[w].requeue

Claims(i) == IF InHand(i) THEN 1 ELSE 0

CountedRow(i) ==
    /\ tally[i].runs <= MaxAttempts + crashes
    /\ Present(i) => tally[i].runs <= item[i].attempts + crashes + Claims(i)
    /\ /\ Present(i)
       /\ item[i].status \in Active \/ InHand(i) \/ Requeued(i)
       => \/ item[i].attempts < MaxAttempts
          \/ tally[i].runs <= crashes + Claims(i)
    /\ batch[BatchOf[i]] = "absent" => tally[i].runs = 0

(* The worker counts from the attempts of the row as it stands.            *)
CountsFromRow(w) ==
    worker[w].pc \notin {"idle", "polled"} /\ Present(worker[w].item)
        => worker[w].attempts = item[worker[w].item].attempts

RunsInv == /\ \A i \in Items : CountedRow(i)
           /\ \A w \in Workers : CountsFromRow(w)

(* A step that neither claims nor finishes the item: it lets no row become *)
(* active without need, and takes it out of the worker's hands only if a   *)
(* crash is counted.                                                       *)
LEMMA CountedKept ==
    ASSUME TypeOK, TypeOK', RunsInv, NEW i \in Items,
           tally'[i].runs = tally[i].runs,
           Present(i)' => Present(i) /\ item'[i].attempts = item[i].attempts,
           batch'[BatchOf[i]] = "absent" => batch[BatchOf[i]] = "absent",
           crashes <= crashes',
           Present(i)' => crashes + Claims(i) <= crashes' + Claims(i)',
           Present(i)' /\ (item[i].status \in Active \/ InHand(i) \/ Requeued(i))'
              => item[i].status \in Active \/ InHand(i) \/ Requeued(i)
    PROVE  CountedRow(i)'
<1>1. /\ tally[i].runs \in Nat /\ crashes \in Nat /\ crashes' \in Nat
      /\ item[i].attempts \in Nat
  BY DEF TypeOK, Tally, ItemRow
<1>2. Claims(i) \in {0, 1} /\ Claims(i)' \in {0, 1}
  BY DEF Claims
<1>3. CountedRow(i)
  BY DEF RunsInv
<1>4. MaxAttempts \in Nat
  BY AttemptsAssumption
<1>5. QED
  BY <1>1, <1>2, <1>3, <1>4 DEF CountedRow

(* No claim is made in the step: a refused one, or one that finds nothing. *)
LEMMA RecycledCounts ==
    ASSUME TypeOK, NEW m, NEW i \in Items
    PROVE  /\ Recycled(m)[i].attempts = item[i].attempts
           /\ Recycled(m)[i] # item[i] => i \in m.requeue \cup m.drop
           /\ Recycled(m)[i].status \in Active
                 => item[i].status \in Active \/ i \in m.requeue
<1>1. item[i] \in ItemRow
  BY DEF TypeOK
<1>2. QED
  BY <1>1 DEF Recycled, ItemRow, Active

LEMMA RefreshedPresent ==
    ASSUME NEW m, NEW rows, NEW b \in Batches
    PROVE  LET s == Refreshed(m, rows)
           IN  /\ s[b] \notin NoRow <=> batch[b] \notin NoRow
               /\ s[b] = "absent" => batch[b] = "absent"
BY RefreshedStill DEF NoRow

LEMMA ClaimCounts ==
    ASSUME OneWorker, TypeOK, TypeOK', EffectsInv, RunsInv,
           NEW w \in Workers, ClaimStep(w)
    PROVE  RunsInv'
<1> USE BatchOfAssumption
<1> DEFINE rows == Recycled(worker[w])
           stat == Refreshed(worker[w], rows)
<1>one. \A v \in Workers : v = w
  BY DEF OneWorker
<1>pc. worker[w].pc = "polled"
  BY DEF ClaimStep, Claim, ClaimRefused, ClaimNothing
<1>rows. /\ rows \in [Items -> ItemRow]
         /\ \A i \in Items :
               /\ rows[i].attempts = item[i].attempts
               /\ rows[i].status \in Active
                     => item[i].status \in Active \/ i \in worker[w].requeue
  BY RecycledType, RecycledCounts
<1>stat. /\ stat \in [Batches -> BatchStatus]
         /\ \A b \in Batches : /\ stat[b] \notin NoRow <=> batch[b] \notin NoRow
                               /\ stat[b] = "absent" => batch[b] = "absent"
  BY RefreshedType, RefreshedPresent
<1>nat. \A i \in Items : /\ tally[i].runs \in Nat /\ crashes \in Nat
                         /\ item[i].attempts \in Nat
  BY DEF TypeOK, Tally, ItemRow
<1>hand. \A i \in Items : ~InHand(i)
  BY <1>one, <1>pc DEF InHand
<1>req. \A i \in Items : Requeued(i) <=> i \in worker[w].requeue
  BY <1>one, <1>pc DEF Requeued
<1>cr. crashes' = crashes
  BY DEF ClaimStep, Claim, ClaimRefused, ClaimNothing
<1>b. \A i \in Items : BatchOf[i] \in Batches
  OBVIOUS
<1>max. MaxAttempts \in Nat \ {0}
  BY AttemptsAssumption
<1>able. ASSUME NEW i \in Items, i \in Claimable(rows, stat)
         PROVE  /\ rows[i].status \in Active
                /\ stat[BatchOf[i]] = "running" /\ Present(i)
  <2>1. rows[i].status \in Active /\ stat[BatchOf[i]] = "running"
    BY <1>able DEF Claimable, Active
  <2>2. QED
    BY <2>1, <1>stat, <1>b DEF Present, NoRow
<1> HIDE DEF rows, stat
<1>idle. ASSUME worker' = [worker EXCEPT ![w] = Idle]
         PROVE  /\ \A i \in Items : ~InHand(i)' /\ ~Requeued(i)'
                /\ CountsFromRow(w)'
  <2>1. worker'[w].pc = "idle"
    BY <1>idle DEF TypeOK, Idle
  <2>2. QED
    BY <1>one, <2>1 DEF InHand, Requeued, CountsFromRow
<1>1. CASE ClaimNothing(w)
  <2>1. /\ item' = rows /\ batch' = stat /\ UNCHANGED tally
        /\ worker' = [worker EXCEPT ![w] = Idle]
    BY <1>1 DEF ClaimNothing, rows, stat
  <2>2. ASSUME NEW i \in Items PROVE CountedRow(i)'
    <3>1. Present(i)' <=> Present(i)
      BY <2>1, <1>stat, <1>b DEF Present
    <3>2. batch'[BatchOf[i]] = "absent" => batch[BatchOf[i]] = "absent"
      BY <2>1, <1>stat, <1>b
    <3>3. /\ item'[i].attempts = item[i].attempts
          /\ item'[i].status \in Active
                => item[i].status \in Active \/ Requeued(i)
      BY <2>1, <1>rows, <1>req
    <3>4. Claims(i) = 0 /\ Claims(i)' = 0
      BY <2>1, <1>hand, <1>idle DEF Claims
    <3>5. QED
      BY <2>1, <3>1, <3>2, <3>3, <3>4, <1>cr, <1>nat, <1>idle, CountedKept
  <2>3. QED
    BY <2>1, <2>2, <1>idle, <1>one DEF RunsInv
<1>2. ASSUME NEW i \in Items, Claim(w, i) PROVE RunsInv'
  <2>1. /\ item' = [rows EXCEPT ![i] =
                      [rows[i] EXCEPT !.status = "processing", !.locked = TRUE,
                                      !.stale = FALSE, !.due = FALSE]]
        /\ batch' = stat
        /\ worker' = [worker EXCEPT ![w] =
                        [Idle EXCEPT !.pc = FirstCall(i, rows[i]),
                                     !.item = i,
                                     !.attempts = rows[i].attempts,
                                     !.replaced = rows[i].replaced]]
        /\ tally' = [tally EXCEPT ![i].runs = @ + 1]
        /\ i \in Claimable(rows, stat)
    BY <1>2 DEF Claim, rows, stat
  <2>2. rows[i].status \in Active /\ Present(i)
    BY <2>1, <1>able
  <2>3. /\ worker'[w].item = i
        /\ worker'[w].pc = FirstCall(i, rows[i])
        /\ worker'[w].attempts = rows[i].attempts
    BY <2>1 DEF TypeOK, Idle
  <2>4. FirstCall(i, rows[i]) \notin {"idle", "polled"}
    BY DEF FirstCall
  <2>5. item'[i].attempts = item[i].attempts
    BY <2>1, <1>rows DEF ItemRow
  <2>6. CountsFromRow(w)'
    BY <2>3, <2>5, <1>rows DEF CountsFromRow
  <2>7. \A j \in Items : ~Requeued(j)' /\ (InHand(j)' <=> j = i)
    BY <2>3, <2>4, <1>one DEF Requeued, InHand
  <2>8. CountedRow(i)'
    <3>1. tally'[i].runs = tally[i].runs + 1
      BY <2>1 DEF TypeOK, Tally
    <3>2. \/ item[i].attempts < MaxAttempts
          \/ tally[i].runs <= crashes
      BY <2>2, <1>rows, <1>req, <1>hand, <1>nat
         DEF RunsInv, CountedRow, Claims
    <3>3. tally[i].runs <= item[i].attempts + crashes
      BY <2>2, <1>hand, <1>nat DEF RunsInv, CountedRow, Claims
    <3>4. Claims(i)' = 1
      BY <2>7 DEF Claims
    <3>5. batch'[BatchOf[i]] # "absent"
      BY <2>1, <2>2, <1>stat, <1>b DEF Present, NoRow
    <3>6. QED
      BY <3>1, <3>2, <3>3, <3>4, <3>5, <2>5, <1>cr, <1>nat, <1>max
         DEF CountedRow
  <2>9. ASSUME NEW j \in Items \ {i} PROVE CountedRow(j)'
    <3>1. Present(j)' <=> Present(j)
      BY <2>1, <1>stat, <1>b DEF Present
    <3>2. batch'[BatchOf[j]] = "absent" => batch[BatchOf[j]] = "absent"
      BY <2>1, <1>stat, <1>b
    <3>3. /\ item'[j].attempts = item[j].attempts
          /\ item'[j].status \in Active
                => item[j].status \in Active \/ Requeued(j)
          /\ tally'[j].runs = tally[j].runs
      BY <2>1, <1>rows, <1>req DEF TypeOK
    <3>4. Claims(j) = 0 /\ Claims(j)' = 0
      BY <2>7, <1>hand DEF Claims
    <3>5. QED
      BY <2>7, <3>1, <3>2, <3>3, <3>4, <1>cr, <1>nat, CountedKept
  <2>10. QED
    BY <2>6, <2>8, <2>9, <1>one DEF RunsInv
<1>3. ASSUME NEW i \in Items, ClaimRefused(w, i) PROVE RunsInv'
  <2> DEFINE r == [rows[i] EXCEPT !.status = "failed", !.locked = FALSE,
                                  !.stale = FALSE, !.due = FALSE,
                                  !.attempts = rows[i].attempts + 1]
             done == [rows EXCEPT ![i] = r]
             next == Summary("running", StatusesIn(done, BatchOf[i]))
  <2>1. /\ item' = done
        /\ batch' = [stat EXCEPT ![BatchOf[i]] = next]
        /\ worker' = [worker EXCEPT ![w] = Idle]
        /\ tally' = [tally EXCEPT ![i].runs = @ + 1]
        /\ i \in Claimable(rows, stat)
    BY <1>3 DEF ClaimRefused, rows, stat
  <2>2. rows[i].status \in Active /\ Present(i) /\ stat[BatchOf[i]] = "running"
    BY <2>1, <1>able
  <2>3. next \notin NoRow
    BY SummaryType
  <2>4. r.attempts = item[i].attempts + 1 /\ r.status = "failed"
    BY <1>rows DEF ItemRow
  <2>5. item'[i] = r /\ \A j \in Items \ {i} : item'[j] = rows[j]
    BY <2>1, <1>rows
  <2> HIDE DEF r, done, next
  <2>6. \A j \in Items : /\ Present(j)' <=> Present(j)
                         /\ batch'[BatchOf[j]] = "absent"
                               => batch[BatchOf[j]] = "absent"
    BY <2>1, <2>2, <2>3, <1>stat, <1>b DEF Present, NoRow
  <2>7. CountedRow(i)'
    <3>1. tally'[i].runs = tally[i].runs + 1
      BY <2>1 DEF TypeOK, Tally
    <3>2. \/ item[i].attempts < MaxAttempts
          \/ tally[i].runs <= crashes
      BY <2>2, <1>rows, <1>req, <1>hand, <1>nat
         DEF RunsInv, CountedRow, Claims
    <3>3. tally[i].runs <= item[i].attempts + crashes
      BY <2>2, <1>hand, <1>nat DEF RunsInv, CountedRow, Claims
    <3>4. Claims(i)' = 0 /\ ~InHand(i)' /\ ~Requeued(i)'
      BY <2>1, <1>idle DEF Claims
    <3>5. batch'[BatchOf[i]] # "absent"
      BY <2>2, <2>6 DEF Present, NoRow
    <3>6. "failed" \notin Active
      BY DEF Active
    <3>7. QED
      BY <3>1, <3>2, <3>3, <3>4, <3>5, <3>6, <2>4, <2>5, <1>cr, <1>nat, <1>max
         DEF CountedRow
  <2>8. ASSUME NEW j \in Items \ {i} PROVE CountedRow(j)'
    <3>1. /\ item'[j].attempts = item[j].attempts
          /\ item'[j].status \in Active
                => item[j].status \in Active \/ Requeued(j)
          /\ tally'[j].runs = tally[j].runs
      BY <2>1, <2>5, <1>rows, <1>req DEF TypeOK
    <3>2. Claims(j) = 0 /\ Claims(j)' = 0 /\ ~InHand(j)' /\ ~Requeued(j)'
      BY <2>1, <1>hand, <1>idle DEF Claims
    <3>3. QED
      BY <2>6, <3>1, <3>2, <1>cr, <1>nat, CountedKept
  <2>9. QED
    BY <2>1, <2>7, <2>8, <1>idle, <1>one DEF RunsInv
<1>4. QED
  BY <1>1, <1>2, <1>3 DEF ClaimStep

(* Every other step: a worker ends its attempt, a crash loses one, or the  *)
(* item is created, retried, cancelled or deleted.                         *)
LEMMA RunsInvStep ==
    ASSUME OneWorker, TypeOK, TypeOK', EffectsInv, RunsInv, [Next]_vars
    PROVE  RunsInv'
<1> USE BatchOfAssumption
<1>b. \A i \in Items : BatchOf[i] \in Batches
  OBVIOUS
<1>row. \A i \in Items : item[i] \in ItemRow /\ tally[i] \in Tally
  BY DEF TypeOK
<1>nat. \A i \in Items : /\ tally[i].runs \in Nat /\ crashes \in Nat
                         /\ item[i].attempts \in Nat
  BY DEF TypeOK, Tally, ItemRow
<1>max. MaxAttempts \in Nat \ {0}
  BY AttemptsAssumption
<1>1. ASSUME NEW w \in Workers, ClaimStep(w) PROVE RunsInv'
  BY <1>1, ClaimCounts
<1>2. ASSUME NEW w \in Workers, Poll(w) PROVE RunsInv'
  <2>one. \A v \in Workers : v = w
    BY DEF OneWorker
  <2>1. /\ worker[w].pc = "idle" /\ worker'[w].pc = "polled"
        /\ worker'[w].requeue \subseteq StaleRows
        /\ UNCHANGED <<batch, item, tally, crashes>>
    BY <1>2 DEF Poll, Idle, TypeOK
  <2>2. \A i \in Items : /\ ~InHand(i) /\ ~InHand(i)'
                         /\ Requeued(i)' => item[i].status \in Active
    BY <2>1, <2>one DEF InHand, Requeued, StaleRows, Active
  <2>3. ASSUME NEW i \in Items PROVE CountedRow(i)'
    <3>1. Claims(i) = 0 /\ Claims(i)' = 0
      BY <2>2 DEF Claims
    <3>2. QED
      BY <2>1, <2>2, <3>1, <1>nat, CountedKept DEF Present
  <2>4. QED
    BY <2>1, <2>3, <2>one DEF RunsInv, CountsFromRow
<1>3. ASSUME NEW w \in Workers,
             AnswerStep(w) \/ FinishRead(w) \/ FinishCount(w)
      PROVE  RunsInv'
  <2>one. \A v \in Workers : v = w
    BY DEF OneWorker
  <2>1. /\ worker[w].pc \notin {"idle", "polled"}
        /\ worker'[w].pc \notin {"idle", "polled"}
        /\ worker'[w].item = worker[w].item
        /\ worker'[w].attempts = worker[w].attempts
    <3>1. CASE AnswerStep(w)
      BY <3>1 DEF AnswerStep, TransferOk, ReuseValid, ReuseInvalid, ShareOk,
                  ValidateOk, CallFails, Answer, Calls, TypeOK, WorkerState
    <3>2. CASE FinishRead(w) \/ FinishCount(w)
      BY <3>2 DEF FinishRead, FinishCount, TypeOK, WorkerState
    <3>3. QED
      BY <1>3, <3>1, <3>2
  <2>2. /\ UNCHANGED <<batch, crashes>>
        /\ \A i \in Items : /\ item'[i].attempts = item[i].attempts
                            /\ item'[i].status = item[i].status
                            /\ tally'[i].runs = tally[i].runs
    <3>1. CASE AnswerStep(w)
      <4>1. \/ UNCHANGED item
            \/ item' = [item EXCEPT ![worker[w].item] =
                                     [@ EXCEPT !.staged = TRUE]]
            \/ item' = [item EXCEPT ![worker[w].item] =
                                     [@ EXCEPT !.shared = TRUE]]
        BY <3>1 DEF AnswerStep, TransferOk, ReuseValid, ReuseInvalid, ShareOk,
                    ValidateOk, CallFails
      <4>2. \A i \in Items : /\ item'[i].attempts = item[i].attempts
                             /\ item'[i].status = item[i].status
        BY SMTT(30), <4>1, <1>row DEF TypeOK, ItemRow
      <4>3. \A i \in Items : tally'[i].runs = tally[i].runs
        BY <3>1, <1>row DEF AnswerStep, TransferOk, ReuseValid, ReuseInvalid,
                    ShareOk, ValidateOk, CallFails, TypeOK, Tally
      <4>4. QED
        BY <3>1, <4>2, <4>3 DEF AnswerStep, TransferOk, ReuseValid,
                    ReuseInvalid, ShareOk, ValidateOk, CallFails
    <3>2. CASE FinishRead(w) \/ FinishCount(w)
      BY <3>2 DEF FinishRead, FinishCount
    <3>3. QED
      BY <1>3, <3>1, <3>2
  <2>3. \A i \in Items : /\ InHand(i)' <=> InHand(i)
                         /\ ~Requeued(i)' /\ ~Requeued(i)
                         /\ Present(i)' <=> Present(i)
    BY <2>1, <2>2, <2>one DEF InHand, Requeued, Present
  <2>4. ASSUME NEW i \in Items PROVE CountedRow(i)'
    <3>1. Claims(i)' = Claims(i)
      BY <2>3 DEF Claims
    <3>2. Claims(i) \in Nat
      BY DEF Claims
    <3>3. QED
      BY <2>2, <2>3, <3>1, <3>2, <1>nat, CountedKept
  <2>5. CountsFromRow(w)'
    BY <2>1, <2>2, <2>3 DEF RunsInv, CountsFromRow, TypeOK
  <2>6. QED
    BY <2>4, <2>5, <2>one DEF RunsInv
<1>4. ASSUME NEW w \in Workers, FinishCommit(w) PROVE RunsInv'
  <2>one. \A v \in Workers : v = w
    BY DEF OneWorker
  <2> DEFINE m == worker[w]
  <2>p. PICK i \in Items : i = worker[w].item
    BY <1>4 DEF FinishCommit, TypeOK
  <2>1. /\ m.pc = "counted" /\ i \in Items /\ Present(i)
        /\ m.next \notin NoRow
        /\ worker' = [worker EXCEPT ![w] = Idle]
        /\ UNCHANGED <<tally, crashes>>
    BY <1>4, <2>p DEF FinishCommit, TypeOK, EffectsInv
  <2>2. worker'[w].pc = "idle"
    BY <2>1 DEF TypeOK, Idle
  <2>3. \A j \in Items : ~InHand(j)' /\ ~Requeued(j)' /\ (InHand(j) => j = i)
    BY <2>1, <2>2, <2>p, <2>one DEF InHand, Requeued
  <2>4. InHand(i) /\ m.attempts = item[i].attempts
    BY <2>1, <2>p DEF InHand, RunsInv, CountsFromRow
  <2>5. batch' = batch \/ batch' = [batch EXCEPT ![BatchOf[i]] = m.next]
    BY <1>4, <2>p DEF FinishCommit
  <2>6. \A j \in Items : /\ Present(j)' <=> Present(j)
                         /\ batch'[BatchOf[j]] = "absent"
                               => batch[BatchOf[j]] = "absent"
    BY <2>1, <2>5, <1>b DEF Present, NoRow, TypeOK
  <2>7. /\ item'[i].attempts = m.attempts + 1
        /\ item'[i].status = FinalStatus(m)
        /\ \A j \in Items \ {i} : item'[j] = item[j]
    BY <1>4, <2>1, <2>p, <1>row DEF FinishCommit, Finished, ItemRow, TypeOK
  <2>8. FinalStatus(m) \in Active => m.attempts + 1 < MaxAttempts
    BY DEF FinalStatus, Active
  <2> HIDE DEF m
  <2>9. CountedRow(i)'
    <3>1. tally[i].runs <= item[i].attempts + crashes + 1
      BY <2>1, <2>4 DEF RunsInv, CountedRow, Claims
    <3>2. Claims(i)' = 0
      BY <2>1, <2>3 DEF Claims
    <3>3. tally[i].runs <= MaxAttempts + crashes
      BY <2>1 DEF RunsInv, CountedRow
    <3>4. batch'[BatchOf[i]] # "absent"
      BY <2>1, <2>6 DEF Present, NoRow
    <3>5. QED
      BY <2>1, <2>3, <2>4, <2>7, <2>8, <3>1, <3>2, <3>3, <3>4, <1>nat, <1>max
         DEF CountedRow
  <2>10. ASSUME NEW j \in Items \ {i} PROVE CountedRow(j)'
    <3>1. Claims(j)' = 0 /\ Claims(j) = 0
      BY <2>3 DEF Claims
    <3>2. QED
      BY <2>1, <2>3, <2>6, <2>7, <3>1, <1>nat, CountedKept
  <2>11. QED
    BY <2>2, <2>9, <2>10, <2>one DEF RunsInv, CountsFromRow
<1>5. ASSUME NEW w \in Workers, Vanished(w) \/ Crash(w) PROVE RunsInv'
  <2>one. \A v \in Workers : v = w
    BY DEF OneWorker
  <2>1. /\ worker'[w].pc = "idle"
        /\ UNCHANGED <<batch, item, tally>>
    BY <1>5 DEF Vanished, Crash, Idle, TypeOK
  <2>2. \/ crashes' = crashes + 1
        \/ crashes' = crashes /\ ~Present(worker[w].item)
    BY <1>5 DEF Vanished, Crash
  <2>3. \A i \in Items : /\ ~InHand(i)' /\ ~Requeued(i)'
                         /\ InHand(i) => i = worker[w].item
    BY <2>1, <2>one DEF InHand, Requeued
  <2>4. ASSUME NEW i \in Items PROVE CountedRow(i)'
    <3>1. Claims(i)' = 0 /\ (Claims(i) = 1 \/ Claims(i) = 0)
      BY <2>3 DEF Claims
    <3>2. Claims(i) = 1 => i = worker[w].item
      BY <2>3 DEF Claims
    <3>3. Present(i)' <=> Present(i)
      BY <2>1 DEF Present
    <3>4. Present(i)' => crashes + Claims(i) <= crashes' + Claims(i)'
      BY <2>2, <3>1, <3>2, <3>3, <1>nat
    <3>5. QED
      BY <2>1, <2>2, <2>3, <3>3, <3>4, <1>nat, CountedKept
  <2>5. QED
    BY <2>1, <2>4, <2>one DEF RunsInv, CountsFromRow
<1>6. ASSUME UNCHANGED <<worker, crashes>>,
             ASSUME NEW i \in Items
             PROVE  /\ tally'[i].runs = tally[i].runs
                    /\ Present(i)' => Present(i)
                                      /\ item'[i].attempts = item[i].attempts
                    /\ batch'[BatchOf[i]] = "absent"
                          => batch[BatchOf[i]] = "absent"
                    /\ Present(i)' /\ item'[i].status \in Active
                          => item[i].status \in Active
      PROVE  RunsInv'
  <2>1. \A i \in Items : (InHand(i)' <=> InHand(i))
                         /\ (Requeued(i)' <=> Requeued(i))
    BY <1>6 DEF InHand, Requeued
  <2>2. ASSUME NEW i \in Items PROVE CountedRow(i)'
    <3>1. Claims(i)' = Claims(i) /\ Claims(i) \in Nat
      BY <2>1 DEF Claims
    <3>2. QED
      BY <1>6, <2>1, <3>1, <1>nat, CountedKept
  <2>3. ASSUME NEW w \in Workers PROVE CountsFromRow(w)'
    <3>1. CASE worker[w].pc \in {"idle", "polled"}
      BY <1>6, <3>1 DEF CountsFromRow
    <3>2. CASE worker[w].pc \notin {"idle", "polled"}
      BY <1>6, <3>2 DEF RunsInv, CountsFromRow, TypeOK
    <3>3. QED
      BY <3>1, <3>2
  <2>4. QED
    BY <2>2, <2>3 DEF RunsInv
<1>7. ASSUME NEW i \in Items, RetryFallsDue(i) \/ LockAges(i) PROVE RunsInv'
  <2>1. /\ UNCHANGED <<worker, crashes, tally, batch>>
        /\ \/ item' = [item EXCEPT ![i] = [@ EXCEPT !.due = TRUE]]
           \/ item' = [item EXCEPT ![i] = [@ EXCEPT !.stale = TRUE]]
    BY <1>7 DEF RetryFallsDue, LockAges
  <2>2. \A j \in Items : /\ item'[j].attempts = item[j].attempts
                         /\ item'[j].status = item[j].status
    BY <2>1, <1>row DEF TypeOK, ItemRow
  <2>3. \A j \in Items : Present(j)' <=> Present(j)
    BY <2>1 DEF Present
  <2>4. QED
    BY <2>1, <2>2, <2>3, <1>6
<1>8. ASSUME NEW b \in Batches, Create(b, "draft") \/ Create(b, "running")
      PROVE  RunsInv'
  <2>1. /\ batch[b] = "absent" /\ UNCHANGED <<worker, crashes, tally>>
        /\ \A c \in Batches \ {b} : batch'[c] = batch[c]
        /\ batch'[b] \in {"draft", "running"}
        /\ \A i \in Items : i \in Members(b)
              => item'[i] = [Vacant EXCEPT !.status = "queued"]
        /\ \A i \in Items : i \notin Members(b) => item'[i] = item[i]
    BY <1>8 DEF Create, TypeOK
  <2>2. \A i \in Items : InHand(i)' <=> InHand(i)
    BY <2>1 DEF InHand
  <2>3. \A i \in Items : Requeued(i)' <=> Requeued(i)
    BY <2>1 DEF Requeued
  <2>4. \A i \in Members(b) : ~InHand(i)
    BY <2>1 DEF Members, InHand, EffectsInv
  <2>5. ASSUME NEW i \in Items PROVE CountedRow(i)'
    <3>1. Claims(i)' = Claims(i) /\ Claims(i) \in Nat
      BY <2>2 DEF Claims
    <3>2. CASE i \in Members(b)
      <4>1. tally[i].runs = 0
        BY <2>1, <3>2 DEF RunsInv, CountedRow, Members
      <4>2. item'[i].attempts = 0
        BY <2>1, <3>2 DEF Vacant
      <4>3. QED
        BY <2>1, <3>1, <4>1, <4>2, <1>nat, <1>max DEF CountedRow
    <3>3. CASE i \notin Members(b)
      <4>1. batch'[BatchOf[i]] = batch[BatchOf[i]] /\ item'[i] = item[i]
        BY <2>1, <3>3, <1>b DEF Members
      <4>2. QED
        BY <2>1, <2>2, <2>3, <3>1, <4>1, <1>nat, CountedKept DEF Present
    <3>4. QED
      BY <3>2, <3>3
  <2>6. ASSUME NEW w \in Workers PROVE CountsFromRow(w)'
    <3>1. CASE worker[w].pc \in {"idle", "polled"}
      BY <2>1, <3>1 DEF CountsFromRow
    <3>2. CASE worker[w].pc \notin {"idle", "polled"}
      <4>1. worker[w].item \in Items /\ worker[w].item \notin Members(b)
        BY <2>4, <3>2 DEF InHand, TypeOK
      <4>2. /\ batch'[BatchOf[worker[w].item]] = batch[BatchOf[worker[w].item]]
            /\ item'[worker[w].item] = item[worker[w].item]
        BY <2>1, <4>1, <1>b DEF Members
      <4>3. QED
        BY <2>1, <4>2 DEF RunsInv, CountsFromRow, Present
    <3>3. QED
      BY <3>1, <3>2
  <2>7. QED
    BY <2>5, <2>6 DEF RunsInv
<1>9. ASSUME NEW b \in Batches, Delete(b) PROVE RunsInv'
  <2>1. /\ UNCHANGED <<worker, crashes, tally>>
        /\ \A i \in Items : \/ batch'[BatchOf[i]] = "deleted"
                            \/ /\ item'[i] = item[i]
                               /\ batch'[BatchOf[i]] = batch[BatchOf[i]]
    BY <1>9, <1>b DEF Delete, Members, TypeOK
  <2>2. QED
    BY <2>1, <1>6 DEF Present, NoRow
<1>10. ASSUME NEW b \in Batches, Start(b) PROVE RunsInv'
  <2> DEFINE s == Summary("running", StatusesIn(item, b))
  <2>1. /\ UNCHANGED <<worker, crashes, tally, item>>
        /\ batch[b] = "draft"
        /\ batch' = [batch EXCEPT ![b] = s]
    BY <1>10 DEF Start
  <2>2. s \notin NoRow
    BY SummaryType
  <2> HIDE DEF s
  <2>3. \A i \in Items : /\ Present(i)' <=> Present(i)
                         /\ batch'[BatchOf[i]] = "absent"
                               => batch[BatchOf[i]] = "absent"
    BY <2>1, <2>2, <1>b DEF Present, NoRow, TypeOK
  <2>4. QED
    BY <2>1, <2>3, <1>6
<1>11. ASSUME NEW b \in Batches, CancelRead(b) \/ RetryRead(b) PROVE RunsInv'
  <2>1. UNCHANGED <<worker, crashes, tally, item, batch>>
    BY <1>11 DEF CancelRead, RetryRead
  <2>2. QED
    BY <2>1, <1>6 DEF Present
<1>12. CASE CancelCommit
  <2>1. /\ UNCHANGED <<worker, crashes, tally>>
        /\ batch' = [batch EXCEPT ![api.on] = "cancelled"]
        /\ batch[api.on] \notin NoRow
    BY <1>12 DEF CancelCommit, EffectsInv
  <2>2. \A i \in Items : /\ item'[i].attempts = item[i].attempts
                         /\ item'[i].status \in Active
                               => item[i].status \in Active
    BY <1>12, <1>row DEF CancelCommit, ItemRow, Active
  <2>3. \A i \in Items : /\ Present(i)' <=> Present(i)
                         /\ batch'[BatchOf[i]] = "absent"
                               => batch[BatchOf[i]] = "absent"
    BY <2>1, <1>b DEF Present, NoRow, TypeOK
  <2>4. QED
    BY <2>1, <2>2, <2>3, <1>6
<1>13. CASE RetryCommit
  <2>1. /\ UNCHANGED <<worker, crashes>>
        /\ batch' = batch \/ batch' = [batch EXCEPT ![api.on] = "running"]
        /\ batch[api.on] \notin NoRow
    BY <1>13 DEF RetryCommit, EffectsInv
  <2>2. \A i \in Items : /\ Present(i)' <=> Present(i)
                         /\ batch'[BatchOf[i]] = "absent"
                               => batch[BatchOf[i]] = "absent"
    BY <2>1, <1>b DEF Present, NoRow, TypeOK
  <2>3. \A i \in Items : (InHand(i)' <=> InHand(i))
                         /\ (Requeued(i)' <=> Requeued(i))
    BY <2>1 DEF InHand, Requeued
  <2>4. \A i \in Items : item'[i].attempts = item[i].attempts
    <3> SUFFICES ASSUME NEW i \in Items
                 PROVE  item'[i].attempts = item[i].attempts
      OBVIOUS
    <3>1. CASE i \notin api.rows
      BY <1>13, <3>1 DEF RetryCommit
    <3>2. CASE i \in api.rows
      <4>1. PICK p, q, t : item'[i] = [item[i] EXCEPT
                !.status = "queued", !.locked = p, !.stale = q,
                !.due = FALSE, !.replaced = t]
        BY <1>13, <3>2 DEF RetryCommit
      <4>2. QED
        BY <1>row, <4>1 DEF ItemRow
    <3>3. QED
      BY <3>1, <3>2
  <2>5. ASSUME NEW i \in Items PROVE CountedRow(i)'
    <3>1. Claims(i)' = Claims(i) /\ Claims(i) \in Nat
      BY <2>3 DEF Claims
    <3>2. CASE i \in api.rows
      <4>1. tally'[i].runs = 0
        BY <1>13, <3>2, <1>row DEF RetryCommit, Tally
      <4>2. QED
        BY <2>1, <2>4, <3>1, <4>1, <1>nat, <1>max DEF CountedRow
    <3>3. CASE i \notin api.rows
      <4>1. tally'[i] = tally[i] /\ item'[i] = item[i]
        BY <1>13, <3>3 DEF RetryCommit
      <4>2. QED
        BY <2>1, <2>2, <2>3, <3>1, <4>1, <1>nat, CountedKept
    <3>4. QED
      BY <3>2, <3>3
  <2>6. ASSUME NEW w \in Workers PROVE CountsFromRow(w)'
    <3>1. CASE worker[w].pc \in {"idle", "polled"}
      BY <2>1, <3>1 DEF CountsFromRow
    <3>2. CASE worker[w].pc \notin {"idle", "polled"}
      BY <2>1, <2>2, <2>4, <3>2 DEF RunsInv, CountsFromRow, TypeOK
    <3>3. QED
      BY <3>1, <3>2
  <2>7. QED
    BY <2>5, <2>6 DEF RunsInv
<1>14. CASE ApiRollback \/ UNCHANGED vars
  <2>1. UNCHANGED <<worker, crashes, tally, item, batch>>
    BY <1>14 DEF ApiRollback, vars
  <2>2. QED
    BY <2>1, <1>6 DEF Present
<1>15. QED
  BY <1>1, <1>2, <1>3, <1>4, <1>5, <1>7, <1>8, <1>9, <1>10, <1>11, <1>12,
     <1>13, <1>14
     DEF Next, WorkerStep, FinishStep, ApiCommit

(* Between two manual retries an item is executed at most max_attempts     *)
(* times, and once more for every crash: a claim always follows a recorded *)
(* attempt, a crash that lost one, or a manual retry, however requests,    *)
(* recycled locks and the worker interleave                                *)
(* (claim_next_pan_transfer_batch_item, mark_pan_transfer_item_error).     *)
THEOREM RunsAlwaysBounded == OneWorker => (Spec => []RunsBounded)
<1> SUFFICES ASSUME OneWorker PROVE Spec => []RunsBounded
  OBVIOUS
<1>1. Init => RunsInv
  BY AttemptsAssumption
     DEF Init, StartsEmpty, RunsInv, CountedRow, CountsFromRow, Present, NoRow, Vacant,
         Idle, Claims, InHand
<1>2. RunsInv => RunsBounded
  BY DEF RunsInv, CountedRow, RunsBounded
<1>3. TypeOK /\ TypeOK' /\ EffectsInv /\ RunsInv /\ [Next]_vars => RunsInv'
  BY RunsInvStep
<1>4. QED
  BY <1>1, <1>2, <1>3, EffectsAlways, TypeCorrect, PTL DEF Spec

(***************************************************************************)
(* Batches and items: with one worker, the status of a batch that no       *)
(* transaction changes under another one that has read it follows from the *)
(* statuses of its items.                                                  *)
(***************************************************************************)
Waiting == {"queued", "retry_wait"}

(* An item with status t in a batch with status s.                         *)
Fits(s, t) ==
    /\ s \in NoRow <=> t = "none"
    /\ s = "draft" => t = "queued"
    /\ s \in {"completed", "failed"} => t = s
    /\ s = "completed_with_errors" => t \in Terminal
    /\ s = "cancelled" => t \notin Waiting

RowsFit(b)   == \A i \in Members(b) : Fits(batch[b], item[i].status)
RowsWhole(b) == \A i \in Members(b) : item[i].status = "completed"
                                         => item[i].replaced /\ item[i].shared
HasWork(b)   == batch[b] = "running" => \E i \in Members(b) : item[i].status \in Active
HasItems(b)  == batch[b] \notin NoRow => Members(b) # {}

(* The status an item will have when the worker's last transaction commits.*)
NextStatus(m, j) == IF j = m.item THEN FinalStatus(m) ELSE item[j].status

(* What the worker has in memory of a batch is what the database says.     *)
WorkerKnows(w, b) ==
    LET m == worker[w] IN
    /\ m.pc \notin {"idle", "polled"} /\ m.item \in Members(b) =>
          /\ item[m.item].status = "processing"
          /\ m.replaced => item[m.item].replaced
          /\ m.outcome = "ok" \/ m.pc = "validate" => item[m.item].shared
    /\ m.pc \in {"read", "counted"} /\ m.item \in Members(b) => m.seen = batch[b]
    /\ m.pc = "counted" /\ m.item \in Members(b) =>
          m.next = Summary(m.seen, {NextStatus(m, j) : j \in Members(b)})
    /\ m.pc = "polled" =>
          /\ \A i \in m.requeue \cap Members(b) : /\ item[i].status = "processing"
                                                  /\ batch[b] # "cancelled"
          /\ \A i \in m.drop \cap Members(b) : /\ item[i].status = "processing"
                                               /\ batch[b] = "cancelled"

(* What an open request has read is what the database says.                *)
RequestKnows(b) ==
    RequestReads(b) =>
        /\ batch[b] \notin NoRow /\ api.seen = batch[b]
        /\ api.op = "cancel" =>
              \A i \in Members(b) : item[i].status \in Waiting <=> i \in api.rows
        /\ api.op = "retry" =>
              api.rows # {} /\ \A i \in api.rows : item[i].status = "failed"

BatchHeld(b) == /\ RowsFit(b) /\ RowsWhole(b) /\ HasWork(b) /\ HasItems(b)
                /\ \A w \in Workers : WorkerKnows(w, b)
                /\ RequestKnows(b)

RequestRows == api.op # "none" => api.rows \subseteq Members(api.on)

QueueInv == RequestRows /\ \A b \in Batches \ raced : BatchHeld(b)

(* The step CancelSticks and CompletedIsFinal allow.                       *)
SticksAt(b) ==
    /\ batch[b] = "cancelled" => \/ batch'[b] \in {"cancelled", "deleted"}
                                 \/ api.op = "retry" /\ api.on = b
    /\ \A i \in Members(b) : item[i].status = "completed"
                                => item'[i].status \in {"completed", "none"}

(* The status that refresh_pan_transfer_batch_summary computes fits every  *)
(* item, and it is "running" only if one of them is active.                *)
LEMMA SummaryFits ==
    ASSUME NEW cur, NEW S \in SUBSET (ItemStatus \ {"none"}), S # {},
           cur = "cancelled" => S \cap Waiting = {}
    PROVE  LET s == Summary(cur, S) IN
           /\ \A t \in S : Fits(s, t)
           /\ s = "running" => \E t \in S : t \in Active
           /\ cur = "cancelled" => s = "cancelled"
<1>1. S \subseteq Active \cup Terminal
  BY DEF ItemStatus
<1>2. \A t \in S : Fits(Summary(cur, S), t)
  BY <1>1 DEF Summary, Fits, NoRow, Active, Terminal, Waiting
<1>3. Summary(cur, S) = "running" => \E t \in S : t \in Active
  BY <1>1 DEF Summary, Active, Terminal
<1>4. QED
  BY <1>2, <1>3 DEF Summary

(* The same for the rows of a batch.                                       *)
LEMMA SummaryFitsRows ==
    ASSUME NEW cur, NEW rows, NEW b \in Batches, Members(b) # {},
           \A i \in Members(b) : rows[i].status \in ItemStatus \ {"none"},
           cur = "cancelled" => \A i \in Members(b) : rows[i].status \notin Waiting
    PROVE  LET s == Summary(cur, StatusesIn(rows, b)) IN
           /\ \A i \in Members(b) : Fits(s, rows[i].status)
           /\ s = "running" => \E i \in Members(b) : rows[i].status \in Active
           /\ cur = "cancelled" => s = "cancelled"
<1>1. /\ \A i \in Members(b) : rows[i].status \in StatusesIn(rows, b)
      /\ \A t \in StatusesIn(rows, b) : \E i \in Members(b) : t = rows[i].status
  BY DEF StatusesIn
<1>2. /\ StatusesIn(rows, b) \in SUBSET (ItemStatus \ {"none"})
      /\ StatusesIn(rows, b) # {}
      /\ cur = "cancelled" => StatusesIn(rows, b) \cap Waiting = {}
  BY <1>1
<1>3. QED
  BY <1>1, <1>2, SummaryFits

LEMMA MembersOf ==
    ASSUME NEW i \in Items
    PROVE  BatchOf[i] \in Batches /\ i \in Members(BatchOf[i])
BY BatchOfAssumption DEF Members

(* The statuses the worker counts include its own update.                  *)
LEMMA FinishedStatus ==
    ASSUME TypeOK, NEW m, m.item \in Items
    PROVE  /\ \A j \in Items : Finished(m)[j].status = NextStatus(m, j)
           /\ \A j \in Items \ {m.item} : Finished(m)[j] = item[j]
           /\ Finished(m)[m.item].shared = item[m.item].shared
           /\ Finished(m)[m.item].replaced
                 <=> (item[m.item].replaced \/ (m.outcome = "ok" /\ ~m.replaced))
           /\ \A b \in Batches :
                StatusesIn(Finished(m), b) = {NextStatus(m, j) : j \in Members(b)}
<1>1. item \in [Items -> ItemRow]
  BY DEF TypeOK
<1>2. /\ \A j \in Items : Finished(m)[j].status = NextStatus(m, j)
      /\ \A j \in Items \ {m.item} : Finished(m)[j] = item[j]
      /\ Finished(m)[m.item].shared = item[m.item].shared
      /\ Finished(m)[m.item].replaced
            <=> (item[m.item].replaced \/ (m.outcome = "ok" /\ ~m.replaced))
  BY <1>1 DEF Finished, NextStatus, ItemRow
<1>3. \A b \in Batches : Members(b) \subseteq Items
  BY DEF Members
<1>4. QED
  BY <1>2, <1>3 DEF StatusesIn

(* A batch that is not raced after a step has not changed in it under a    *)
(* transaction that has read it and does not end.                          *)
LEMMA Unraced ==
    ASSUME TypeOK, [Next]_vars, NEW b \in Batches, b \notin raced'
    PROVE  /\ b \notin raced
           /\ RequestReads(b) /\ api' = api => ~Changes(b)
           /\ \A w \in Workers : WorkerReads(w, b) /\ worker'[w] = worker[w] => ~Changes(b)
<1>row. \A i \in Items : item[i] \in ItemRow
  BY DEF TypeOK
<1>1. CASE Races
  BY <1>1 DEF Races
<1>2. CASE UNCHANGED <<raced, batch>> /\ \A i \in Items : item'[i].status = item[i].status
  BY <1>2 DEF Changes, Members
<1>3. ASSUME UNCHANGED <<raced, batch, item>>
      PROVE  UNCHANGED <<raced, batch>> /\ \A i \in Items : item'[i].status = item[i].status
  BY <1>3
<1>4. ASSUME NEW w \in Workers, TransferOk(w) \/ ReuseValid(w) \/ ShareOk(w)
      PROVE  UNCHANGED <<raced, batch>> /\ \A i \in Items : item'[i].status = item[i].status
  <2>1. /\ UNCHANGED <<raced, batch>>
        /\ \/ item' = [item EXCEPT ![worker[w].item] = [@ EXCEPT !.staged = TRUE]]
           \/ item' = [item EXCEPT ![worker[w].item] = [@ EXCEPT !.shared = TRUE]]
    BY <1>4 DEF TransferOk, ReuseValid, ShareOk
  <2>. QED
    BY <2>1, <1>row DEF TypeOK, ItemRow
<1>5. ASSUME NEW j \in Items, RetryFallsDue(j) \/ LockAges(j)
      PROVE  UNCHANGED <<raced, batch>> /\ \A i \in Items : item'[i].status = item[i].status
  <2>1. /\ UNCHANGED <<raced, batch>>
        /\ \/ item' = [item EXCEPT ![j] = [@ EXCEPT !.due = TRUE]]
           \/ item' = [item EXCEPT ![j] = [@ EXCEPT !.stale = TRUE]]
    BY <1>5 DEF RetryFallsDue, LockAges
  <2>. QED
    BY <2>1, <1>row DEF TypeOK, ItemRow
<1>6. Next => \/ Races \/ UNCHANGED <<raced, batch, item>>
              \/ \E w \in Workers : TransferOk(w) \/ ReuseValid(w) \/ ShareOk(w)
              \/ \E j \in Items : RetryFallsDue(j) \/ LockAges(j)
  BY DEF Next, WorkerStep, ClaimStep, AnswerStep, FinishStep, ApiCommit, Poll, Claim,
         ClaimRefused, ClaimNothing, ReuseInvalid, ValidateOk, CallFails, FinishRead,
         FinishCount, FinishCommit, Vanished, Crash, Create, Start, CancelRead, RetryRead,
         Delete, CancelCommit, RetryCommit, ApiRollback
<1>7. UNCHANGED vars => UNCHANGED <<raced, batch, item>>
  BY DEF vars
<1>. QED
  BY <1>1, <1>2, <1>3, <1>4, <1>5, <1>6, <1>7

(* A worker that does not move goes on knowing what it knew.               *)
LEMMA WorkerKeepsKnowing ==
    ASSUME TypeOK, [Next]_vars, NEW b \in Batches, b \notin raced',
           NEW w \in Workers, WorkerKnows(w, b), worker'[w] = worker[w],
           worker[w].pc \notin {"idle", "polled"} /\ worker[w].item \in Members(b) =>
              LET i == worker[w].item IN
              /\ item'[i].status = item[i].status
              /\ item'[i].replaced = item[i].replaced
              /\ item[i].shared => item'[i].shared
    PROVE  WorkerKnows(w, b)'
<1> DEFINE m == worker[w]
<1>0. WorkerReads(w, b) => /\ batch'[b] = batch[b]
                           /\ \A i \in Members(b) : item'[i].status = item[i].status
  BY Unraced DEF Changes
<1>1. /\ m.requeue \subseteq Items /\ m.drop \subseteq Items /\ Members(b)' = Members(b)
      /\ m.pc \notin {"idle", "polled"} => m.item \in Items
  BY DEF TypeOK, WorkerState, Members
<1>2. CASE m.pc = "idle"
  BY <1>2 DEF WorkerKnows
<1>3. CASE m.pc = "polled"
  BY <1>0, <1>1, <1>3 DEF WorkerKnows, WorkerReads
<1>4. CASE m.pc \notin {"idle", "polled", "read", "counted"}
  BY <1>1, <1>4 DEF WorkerKnows
<1>5. CASE m.pc \in {"read", "counted"} /\ m.item \in Members(b)
  <2>0. BatchOf[m.item] = b
    BY <1>5 DEF Members
  <2>1. \A j \in Members(b) : NextStatus(worker[w], j)' = NextStatus(worker[w], j)
    BY <1>0, <1>5, <2>0 DEF NextStatus, FinalStatus, WorkerReads
  <2>2. {NextStatus(worker[w], j) : j \in Members(b)}'
          = {NextStatus(worker[w], j) : j \in Members(b)}
    BY <1>1, <2>1
  <2>3. QED
    BY <1>0, <1>1, <1>5, <2>0, <2>2 DEF WorkerKnows, WorkerReads
<1>6. CASE m.pc \in {"read", "counted"} /\ m.item \notin Members(b)
  BY <1>1, <1>6 DEF WorkerKnows
<1>7. QED
  BY <1>2, <1>3, <1>4, <1>5, <1>6

(* Nor is a request disturbed that does not end.                           *)
LEMMA RequestKeepsKnowing ==
    ASSUME TypeOK, [Next]_vars, NEW b \in Batches, b \notin raced', RequestKnows(b),
           api' = api, RequestRows
    PROVE  RequestKnows(b)'
<1>1. RequestReads(b) => /\ batch'[b] = batch[b]
                         /\ \A i \in Members(b) : item'[i].status = item[i].status
  BY Unraced DEF Changes
<1>2. Members(b)' = Members(b) /\ (RequestReads(b) => api.rows \subseteq Members(b))
  BY DEF Members, RequestReads, RequestRows
<1>. QED
  BY <1>1, <1>2 DEF RequestKnows, RequestReads

(* A step that leaves a batch, and what others know of it, alone.          *)
LEMMA BatchStays ==
    ASSUME NEW b \in Batches, BatchHeld(b), batch'[b] = batch[b],
           \A i \in Members(b) : /\ item'[i].status = item[i].status
                                 /\ item'[i].replaced = item[i].replaced
                                 /\ item[i].shared => item'[i].shared,
           \A w \in Workers : WorkerKnows(w, b)', RequestKnows(b)'
    PROVE  BatchHeld(b)' /\ SticksAt(b)
<1>1. Members(b)' = Members(b)
  BY DEF Members
<1>. QED
  BY <1>1 DEF BatchHeld, RowsFit, RowsWhole, HasWork, HasItems, SticksAt

(* Recycling puts the item of a cancelled batch into FAILED, every other   *)
(* one into QUEUED, and leaves the refreshed batch fitting its items.      *)
LEMMA RecycledFits ==
    ASSUME TypeOK, NEW b \in Batches, BatchHeld(b), NEW w \in Workers,
           worker[w].pc = "polled"
    PROVE  LET rows == Recycled(worker[w])
               stat == Refreshed(worker[w], rows)
           IN  /\ \A i \in Members(b) :
                    /\ rows[i].status \in ItemStatus
                    /\ Fits(stat[b], rows[i].status)
                    /\ rows[i].replaced = item[i].replaced
                    /\ rows[i].shared = item[i].shared
                    /\ rows[i].status = "completed" <=> item[i].status = "completed"
               /\ stat[b] = "running"
                     => \E i \in Members(b) : rows[i].status \in Active
               /\ stat[b] \notin NoRow <=> batch[b] \notin NoRow
               /\ batch[b] = "cancelled" => stat[b] = "cancelled"
<1> DEFINE m == worker[w]
           rows == Recycled(m)
           stat == Refreshed(m, rows)
           M == Members(b)
<1>knows. /\ \A i \in m.requeue \cap M : /\ item[i].status = "processing"
                                         /\ batch[b] # "cancelled"
          /\ \A i \in m.drop \cap M : /\ item[i].status = "processing"
                                      /\ batch[b] = "cancelled"
  BY DEF BatchHeld, WorkerKnows
<1>row. \A i \in M : item[i] \in ItemRow /\ i \in Items /\ BatchOf[i] = b
  BY DEF TypeOK, Members
<1>fit. \A i \in M : Fits(batch[b], item[i].status)
  BY DEF BatchHeld, RowsFit
<1>1. ASSUME NEW i \in M, i \in m.requeue \cup m.drop
      PROVE  /\ Present(i)
             /\ rows[i].status = IF i \in m.drop THEN "failed" ELSE "queued"
             /\ rows[i].replaced = item[i].replaced
             /\ rows[i].shared = item[i].shared
  <2>1. i \in Items /\ Present(i)
    BY <1>1, <1>row, <1>knows, <1>fit DEF Present, Fits
  <2>2. rows[i] = [item[i] EXCEPT !.status = IF i \in m.drop THEN "failed"
                                                           ELSE "queued",
                                  !.locked = FALSE, !.stale = FALSE]
    BY <1>1, <2>1 DEF Recycled
  <2>3. QED
    BY <2>1, <2>2, <1>row DEF ItemRow
<1>2. \A i \in M : i \notin m.requeue \cup m.drop => rows[i] = item[i]
  BY <1>row DEF Recycled
<1>3. ASSUME NEW i \in M
      PROVE  /\ rows[i].status \in ItemStatus
             /\ rows[i].replaced = item[i].replaced
             /\ rows[i].shared = item[i].shared
             /\ rows[i].status = "completed" <=> item[i].status = "completed"
             /\ rows[i].status = "none" <=> item[i].status = "none"
             /\ item[i].status \notin Waiting /\ rows[i].status \in Waiting
                   => i \in m.requeue
  <2>1. CASE i \in m.requeue \cup m.drop
    BY <1>1, <1>knows, <2>1 DEF ItemStatus, Active, Terminal, Waiting
  <2>2. CASE i \notin m.requeue \cup m.drop
    BY <1>2, <1>row, <2>2 DEF ItemRow
  <2>3. QED
    BY <2>1, <2>2
<1> HIDE DEF rows
<1>4. CASE M \cap (m.requeue \cup m.drop) # {}
  <2>1. PICK i \in M : i \in m.requeue \cup m.drop
    BY <1>4
  <2>2. batch[b] \notin NoRow
    BY <2>1, <1>1, <1>row DEF Present
  <2>3. stat[b] = Summary(batch[b], StatusesIn(rows, b))
    BY <1>4, <2>2 DEF Refreshed
  <2>4. \A j \in M : rows[j].status \in ItemStatus \ {"none"}
    BY <2>2, <1>3, <1>fit DEF Fits
  <2>5. batch[b] = "cancelled" => \A j \in M : rows[j].status \notin Waiting
    BY <1>3, <1>fit, <1>knows DEF Fits
  <2>6. stat[b] \notin NoRow
    BY <2>3, SummaryType
  <2> HIDE DEF stat
  <2>7. LET s == Summary(batch[b], StatusesIn(rows, b)) IN
           /\ \A j \in M : Fits(s, rows[j].status)
           /\ s = "running" => \E j \in M : rows[j].status \in Active
           /\ batch[b] = "cancelled" => s = "cancelled"
    BY <2>1, <2>4, <2>5, SummaryFitsRows
  <2>8. QED
    BY <1>3, <2>2, <2>3, <2>6, <2>7 DEF rows, stat
<1>5. CASE M \cap (m.requeue \cup m.drop) = {}
  <2>1. stat[b] = batch[b]
    BY <1>5 DEF Refreshed
  <2>2. \A i \in M : rows[i] = item[i]
    BY <1>5, <1>2
  <2> HIDE DEF stat
  <2>3. QED
    BY <1>3, <2>1, <2>2, <1>fit DEF BatchHeld, HasWork, rows, stat
<1>6. QED
  BY <1>4, <1>5

(* A claim, a refused claim, and a poll that finds nothing to claim.       *)
LEMMA ClaimKeeps ==
    ASSUME OneWorker, TypeOK, [Next]_vars, NEW b \in Batches, b \notin raced',
           BatchHeld(b), RequestRows, NEW w \in Workers, ClaimStep(w)
    PROVE  BatchHeld(b)' /\ SticksAt(b)
<1> DEFINE m == worker[w]
           rows == Recycled(m)
           stat == Refreshed(m, rows)
           M == Members(b)
<1>one. \A v \in Workers : v = w
  BY DEF OneWorker
<1>pc. m.pc = "polled" /\ api' = api
  BY DEF ClaimStep, Claim, ClaimRefused, ClaimNothing
<1>mem. Members(b)' = M /\ \A i \in M : i \in Items /\ BatchOf[i] = b
  BY DEF Members
<1>r. /\ \A i \in M :
           /\ rows[i].status \in ItemStatus
           /\ Fits(stat[b], rows[i].status)
           /\ rows[i].replaced = item[i].replaced
           /\ rows[i].shared = item[i].shared
           /\ rows[i].status = "completed" <=> item[i].status = "completed"
      /\ stat[b] = "running" => \E i \in M : rows[i].status \in Active
      /\ stat[b] \notin NoRow <=> batch[b] \notin NoRow
      /\ batch[b] = "cancelled" => stat[b] = "cancelled"
  BY <1>pc, RecycledFits
<1>t. rows \in [Items -> ItemRow] /\ stat \in [Batches -> BatchStatus]
  BY RecycledType, RefreshedType
<1>able. ASSUME NEW i \in Items, i \in Claimable(rows, stat)
         PROVE  rows[i].status \in Waiting /\ stat[BatchOf[i]] = "running"
  BY <1>able DEF Claimable, Waiting
<1>whole. \A i \in M : rows[i].status = "completed" => rows[i].replaced /\ rows[i].shared
  BY <1>r DEF BatchHeld, RowsWhole
<1>items. batch[b] \notin NoRow => M # {}
  BY DEF BatchHeld, HasItems
<1>request. RequestKnows(b)'
  BY <1>pc, RequestKeepsKnowing DEF BatchHeld
<1> HIDE DEF rows, stat
<1>idle. ASSUME worker' = [worker EXCEPT ![w] = Idle]
         PROVE  \A v \in Workers : WorkerKnows(v, b)'
  BY <1>idle, <1>one DEF WorkerKnows, Idle, TypeOK
(* What is left to show: the rows of the batch after the step.             *)
<1>rows. ASSUME \A i \in M : Fits(batch'[b], item'[i].status)
                             /\ (item'[i].status = "completed" =>
                                    item'[i].replaced /\ item'[i].shared)
                             /\ (item[i].status = "completed" =>
                                    item'[i].status = "completed"),
                batch'[b] = "running" => \E i \in M : item'[i].status \in Active,
                batch'[b] \notin NoRow => batch[b] \notin NoRow,
                batch[b] = "cancelled" => batch'[b] = "cancelled",
                \A v \in Workers : WorkerKnows(v, b)'
         PROVE  BatchHeld(b)' /\ SticksAt(b)
  BY <1>rows, <1>mem, <1>items, <1>request
     DEF BatchHeld, RowsFit, RowsWhole, HasWork, HasItems, SticksAt
<1>1. CASE ClaimNothing(w)
  <2>1. item' = rows /\ batch' = stat /\ worker' = [worker EXCEPT ![w] = Idle]
    BY <1>1 DEF ClaimNothing, rows, stat
  <2>2. QED
    BY <2>1, <1>r, <1>whole, <1>idle, <1>rows
<1>2. ASSUME NEW i \in Items, Claim(w, i) PROVE BatchHeld(b)' /\ SticksAt(b)
  <2>1. /\ item' = [rows EXCEPT ![i] =
                      [rows[i] EXCEPT !.status = "processing", !.locked = TRUE,
                                      !.stale = FALSE, !.due = FALSE]]
        /\ batch' = stat
        /\ worker' = [worker EXCEPT ![w] =
                        [Idle EXCEPT !.pc = FirstCall(i, rows[i]),
                                     !.item = i,
                                     !.attempts = rows[i].attempts,
                                     !.replaced = rows[i].replaced]]
        /\ i \in Claimable(rows, stat)
    BY <1>2 DEF Claim, rows, stat
  <2>2. rows[i].status \in Waiting /\ stat[BatchOf[i]] = "running"
    BY <2>1, <1>able
  <2>3. /\ item'[i].status = "processing"
        /\ item'[i].replaced = rows[i].replaced
        /\ item'[i].shared = rows[i].shared
        /\ \A j \in Items \ {i} : item'[j] = rows[j]
    BY <2>1, <1>t DEF ItemRow
  <2>4. \A j \in M : Fits(batch'[b], item'[j].status)
    <3>1. Fits("running", "processing")
      BY DEF Fits, NoRow, Waiting
    <3>2. QED
      BY <2>1, <2>2, <2>3, <3>1, <1>r, <1>mem
  <2>5. \A j \in M : /\ item'[j].status = "completed" => item'[j].replaced /\ item'[j].shared
                     /\ item[j].status = "completed" => item'[j].status = "completed"
    BY <2>2, <2>3, <1>r, <1>whole, <1>mem DEF Waiting
  <2>6. batch'[b] = "running" => \E j \in M : item'[j].status \in Active
    <3>1. ASSUME batch'[b] = "running"
          PROVE  \E j \in M : item'[j].status \in Active
      <4>1. PICK j \in M : rows[j].status \in Active
        BY <2>1, <3>1, <1>r
      <4>2. j \in Items /\ item'[j].status \in Active
        BY <2>3, <4>1, <1>mem DEF Active
      <4>3. QED
        BY <4>1, <4>2
    <3>2. QED
      BY <3>1
  <2>8. /\ worker'[w].item = i
        /\ worker'[w].pc = FirstCall(i, rows[i])
        /\ worker'[w].replaced = rows[i].replaced
        /\ worker'[w].outcome = "none"
    BY <2>1 DEF TypeOK, Idle
  <2>9. /\ FirstCall(i, rows[i])
              \notin {"idle", "polled", "finish", "read", "counted"}
        /\ FirstCall(i, rows[i]) = "validate" => rows[i].shared
    BY DEF FirstCall
  <2>10. \A v \in Workers : WorkerKnows(v, b)'
    BY <2>3, <2>8, <2>9, <1>one DEF WorkerKnows
  <2>11. QED
    BY <2>1, <2>4, <2>5, <2>6, <2>10, <1>r, <1>rows
<1>3. ASSUME NEW i \in Items, ClaimRefused(w, i) PROVE BatchHeld(b)' /\ SticksAt(b)
  <2> DEFINE r == [rows[i] EXCEPT !.status = "failed", !.locked = FALSE,
                                  !.stale = FALSE, !.due = FALSE,
                                  !.attempts = rows[i].attempts + 1]
             done == [rows EXCEPT ![i] = r]
             next == Summary("running", StatusesIn(done, BatchOf[i]))
  <2>1. /\ item' = done
        /\ batch' = [stat EXCEPT ![BatchOf[i]] = next]
        /\ worker' = [worker EXCEPT ![w] = Idle]
        /\ i \in Claimable(rows, stat)
    BY <1>3 DEF ClaimRefused, rows, stat
  <2>2. rows[i].status \in Waiting /\ stat[BatchOf[i]] = "running"
    BY <2>1, <1>able
  <2>3. r.status = "failed"
    BY <1>t DEF ItemRow
  <2>4. done[i] = r /\ \A j \in Items \ {i} : done[j] = rows[j]
    BY <1>t
  <2> HIDE DEF r, done
  <2>5. \A j \in M : /\ done[j].status = "completed" => done[j].replaced /\ done[j].shared
                     /\ item[j].status = "completed" => done[j].status = "completed"
    BY <2>2, <2>3, <2>4, <1>r, <1>whole, <1>mem DEF Waiting
  <2>6. CASE BatchOf[i] # b
    <3>1. batch'[b] = stat[b] /\ \A j \in M : done[j] = rows[j]
      BY <2>1, <2>4, <2>6, <1>t, <1>mem, MembersOf
    <3>2. QED
      BY <2>1, <2>5, <3>1, <1>r, <1>idle, <1>rows
  <2>7. CASE BatchOf[i] = b
    <3>0. i \in M
      BY <2>7, MembersOf
    <3>1. \A j \in M : done[j].status \in ItemStatus \ {"none"}
      <4>1. \A j \in M : rows[j].status # "none"
        BY <2>2, <2>7, <1>r DEF Fits, NoRow
      <4>2. QED
        BY <2>3, <2>4, <4>1, <1>r, <1>mem DEF ItemStatus, Terminal
    <3>2. /\ \A j \in M : Fits(next, done[j].status)
          /\ next = "running" => \E j \in M : done[j].status \in Active
      BY <2>7, <3>0, <3>1, SummaryFitsRows
    <3>3. next \notin NoRow
      BY SummaryType
    <3> HIDE DEF next
    <3>4. batch'[b] = next
      BY <2>1, <2>7, <1>t
    <3>5. batch[b] \notin NoRow /\ batch[b] # "cancelled"
      BY <2>2, <2>7, <1>r DEF NoRow
    <3>6. QED
      BY <2>1, <2>5, <3>2, <3>4, <3>5, <1>idle, <1>rows
  <2>8. QED
    BY <2>6, <2>7
<1>4. QED
  BY <1>1, <1>2, <1>3 DEF ClaimStep

(* The worker between its commits: a poll, an answer of the provider, the  *)
(* reads of the last transaction, and a worker that gives up or dies.      *)
LEMMA WorkKeeps ==
    ASSUME OneWorker, TypeOK, [Next]_vars, NEW b \in Batches, b \notin raced',
           BatchHeld(b), RequestRows, NEW w \in Workers,
           Poll(w) \/ AnswerStep(w) \/ FinishRead(w) \/ FinishCount(w)
              \/ Vanished(w) \/ Crash(w)
    PROVE  BatchHeld(b)' /\ SticksAt(b)
<1> DEFINE M == Members(b)
<1>one. \A v \in Workers : v = w
  BY DEF OneWorker
<1>row. \A i \in Items : item[i] \in ItemRow
  BY DEF TypeOK
<1>knows. WorkerKnows(w, b)
  BY DEF BatchHeld
<1>1. /\ UNCHANGED <<batch, api>>
      /\ \A i \in Items : /\ item'[i].status = item[i].status
                          /\ item'[i].replaced = item[i].replaced
                          /\ item[i].shared => item'[i].shared
  <2>1. CASE AnswerStep(w)
    <3>1. /\ UNCHANGED <<batch, api>>
          /\ \/ UNCHANGED item
             \/ item' = [item EXCEPT ![worker[w].item] =
                                      [@ EXCEPT !.staged = TRUE]]
             \/ item' = [item EXCEPT ![worker[w].item] =
                                      [@ EXCEPT !.shared = TRUE]]
      BY <2>1 DEF AnswerStep, TransferOk, ReuseValid, ReuseInvalid, ShareOk,
                  ValidateOk, CallFails
    <3>2. QED
      BY <3>1, <1>row DEF TypeOK, ItemRow
  <2>2. CASE ~AnswerStep(w)
    BY <2>2 DEF Poll, FinishRead, FinishCount, Vanished, Crash
  <2>3. QED
    BY <2>1, <2>2
<1>mem. Members(b)' = M /\ \A i \in M : i \in Items /\ BatchOf[i] = b
  BY DEF Members
<1>2. WorkerKnows(w, b)'
  <2>1. CASE Poll(w)
    <3>1. /\ worker'[w].pc = "polled"
          /\ worker'[w].requeue
               = StaleRows \ {i \in StaleRows : batch[BatchOf[i]] = "cancelled"}
          /\ worker'[w].drop
               = {i \in StaleRows : batch[BatchOf[i]] = "cancelled"}
      BY <2>1 DEF Poll, Idle, TypeOK
    <3>2. \A i \in StaleRows : i \in Items /\ item[i].status = "processing"
      BY DEF StaleRows
    <3>3. QED
      BY <1>1, <1>mem, <3>1, <3>2 DEF WorkerKnows
  <2>2. CASE AnswerStep(w)
    <3>1. /\ worker[w].pc \in Calls /\ worker[w].item \in Items
          /\ worker'[w].item = worker[w].item
          /\ worker'[w].replaced = worker[w].replaced
          /\ worker'[w].pc \in Calls \cup {"finish"}
      BY <2>2 DEF AnswerStep, TransferOk, ReuseValid, ReuseInvalid, ShareOk,
                  ValidateOk, CallFails, Answer, Calls, TypeOK, WorkerState
    <3>2. worker[w].item \in M /\ (worker'[w].outcome = "ok" \/ worker'[w].pc = "validate")
             => item'[worker[w].item].shared
      <4>1. CASE ReuseValid(w) \/ ShareOk(w)
        BY <4>1, <3>1, <1>row DEF ReuseValid, ShareOk, ItemRow, TypeOK
      <4>2. CASE TransferOk(w) \/ ReuseInvalid(w)
        <5>1. /\ worker'[w].outcome = worker[w].outcome
              /\ worker'[w].pc # "validate"
          BY <4>2 DEF TransferOk, ReuseInvalid, TypeOK, WorkerState
        <5>2. QED
          BY <3>1, <5>1, <1>1, <1>knows DEF WorkerKnows, Calls
      <4>3. CASE ValidateOk(w)
        <5>1. worker[w].pc = "validate"
          BY <4>3 DEF ValidateOk, Answer
        <5>2. QED
          BY <3>1, <5>1, <1>1, <1>knows DEF WorkerKnows
      <4>4. CASE CallFails(w)
        BY <4>4 DEF CallFails, TypeOK, WorkerState
      <4>5. QED
        BY <2>2, <4>1, <4>2, <4>3, <4>4 DEF AnswerStep
    <3>3. QED
      BY <3>1, <3>2, <1>1, <1>mem, <1>knows DEF WorkerKnows, Calls
  <2>3. CASE FinishRead(w)
    <3>1. /\ worker[w].pc = "finish" /\ worker'[w].pc = "read"
          /\ worker[w].item \in Items
          /\ worker'[w].item = worker[w].item
          /\ worker'[w].replaced = worker[w].replaced
          /\ worker'[w].outcome = worker[w].outcome
          /\ worker'[w].seen = batch[BatchOf[worker[w].item]]
      BY <2>3 DEF FinishRead, TypeOK, WorkerState
    <3>2. QED
      BY <1>1, <1>mem, <3>1, <1>knows DEF WorkerKnows
  <2>4. CASE FinishCount(w)
    <3> DEFINE m == worker[w]
               n == Summary(m.seen, StatusesIn(Finished(m), BatchOf[m.item]))
    <3>1. /\ m.pc = "read" /\ m.item \in Items
          /\ worker' = [worker EXCEPT ![w] =
                          [@ EXCEPT !.pc = "counted", !.next = n]]
          /\ UNCHANGED item
      BY <2>4 DEF FinishCount, TypeOK
    <3>2. m.item \in M => n = Summary(m.seen, {NextStatus(m, j) : j \in M})
      <4>1. \A c \in Batches : StatusesIn(Finished(worker[w]), c)
               = {NextStatus(worker[w], j) : j \in Members(c)}
        BY <3>1, FinishedStatus
      <4>2. QED
        BY <4>1, <1>mem
    <3> HIDE DEF n
    <3>3. /\ worker'[w].pc = "counted" /\ worker'[w].next = n
          /\ worker'[w].item = m.item /\ worker'[w].seen = m.seen
          /\ worker'[w].outcome = m.outcome /\ worker'[w].attempts = m.attempts
          /\ worker'[w].replaced = m.replaced
      BY <3>1 DEF TypeOK, WorkerState
    <3>4. \A j \in Items : NextStatus(worker[w], j)' = NextStatus(worker[w], j)
      BY <3>1, <3>3 DEF NextStatus, FinalStatus
    <3>5. {NextStatus(worker[w], j) : j \in Members(b)}'
            = {NextStatus(worker[w], j) : j \in Members(b)}
      BY <3>4, <1>mem
    <3>6. QED
      BY <3>1, <3>2, <3>3, <3>5, <1>1, <1>mem, <1>knows DEF WorkerKnows
  <2>5. CASE Vanished(w) \/ Crash(w)
    <3>1. worker'[w].pc = "idle" /\ worker'[w].outcome = "none"
      BY <2>5 DEF Vanished, Crash, Idle, TypeOK
    <3>2. QED
      BY <3>1 DEF WorkerKnows
  <2>6. QED
    BY <2>1, <2>2, <2>3, <2>4, <2>5
<1>3. RequestKnows(b)'
  BY <1>1, RequestKeepsKnowing DEF BatchHeld
<1>4. QED
  BY <1>1, <1>2, <1>3, <1>one, <1>mem, BatchStays

(* The worker's last commit: it overwrites nothing it has not read.        *)
LEMMA FinishKeeps ==
    ASSUME OneWorker, TypeOK, [Next]_vars, NEW b \in Batches, b \notin raced',
           BatchHeld(b), RequestRows, NEW w \in Workers, FinishCommit(w)
    PROVE  BatchHeld(b)' /\ SticksAt(b)
<1> DEFINE m == worker[w]
           M == Members(b)
<1>one. \A v \in Workers : v = w
  BY DEF OneWorker
<1>p. PICK i \in Items : i = worker[w].item
  BY DEF FinishCommit, TypeOK
<1>knows. WorkerKnows(w, b)
  BY DEF BatchHeld
<1>mem. Members(b)' = M /\ \A j \in M : j \in Items /\ BatchOf[j] = b
  BY DEF Members
<1>1. /\ m.pc = "counted" /\ Present(i)
      /\ item' = Finished(m)
      /\ worker'[w].pc = "idle" /\ worker'[w].outcome = "none"
      /\ api' = api
      /\ batch' = IF m.next = m.seen THEN batch
                  ELSE [batch EXCEPT ![BatchOf[i]] = m.next]
  BY <1>p DEF FinishCommit, Idle, TypeOK
<1>2. WorkerKnows(w, b)' /\ RequestKnows(b)'
  BY <1>1, RequestKeepsKnowing DEF BatchHeld, WorkerKnows
<1>3. /\ \A j \in Items \ {i} : item'[j] = item[j]
      /\ item'[i].status = FinalStatus(m)
      /\ item'[i].shared = item[i].shared
      /\ item'[i].replaced <=> (item[i].replaced \/ (m.outcome = "ok" /\ ~m.replaced))
  BY <1>1, <1>p, FinishedStatus DEF NextStatus
<1>4. CASE i \notin M
  <2>1. batch'[b] = batch[b] /\ \A j \in M : item'[j] = item[j]
    BY <1>1, <1>3, <1>4, <1>mem, MembersOf DEF TypeOK
  <2>2. QED
    BY <2>1, <1>2, <1>one, BatchStays
<1>5. CASE i \in M
  <2>b. BatchOf[i] = b
    BY <1>5, <1>mem
  <2>1. /\ item[i].status = "processing"
        /\ m.replaced => item[i].replaced
        /\ m.outcome = "ok" => item[i].shared
        /\ m.seen = batch[b]
        /\ m.next = Summary(m.seen, StatusesIn(Finished(m), b))
    <3>1. StatusesIn(Finished(worker[w]), b) = {NextStatus(worker[w], j) : j \in Members(b)}
      BY <1>p, FinishedStatus
    <3>2. QED
      BY <3>1, <1>1, <1>p, <1>5, <1>knows DEF WorkerKnows
  <2>2. /\ FinalStatus(m) \in {"completed", "failed", "retry_wait"}
        /\ FinalStatus(m) = "completed" <=> m.outcome = "ok"
        /\ m.seen = "cancelled" => FinalStatus(m) \notin Waiting
    BY DEF FinalStatus, Waiting
  <2>3. batch'[b] = m.next
    BY <1>1, <2>1, <2>b DEF TypeOK
  <2>4. m.next \notin NoRow /\ batch[b] \notin NoRow
    BY <1>1, <2>1, <2>b, SummaryType DEF Present
  <2>fit. \A j \in M : Fits(batch[b], item[j].status)
    BY DEF BatchHeld, RowsFit
  <2>5. \A j \in M : item'[j].status \in ItemStatus \ {"none"}
    <3>1. \A j \in M : item[j].status \in ItemStatus \ {"none"}
      BY <2>4, <2>fit, <1>mem DEF Fits, TypeOK, ItemRow
    <3>2. QED
      BY <1>3, <2>2, <3>1, <1>mem DEF ItemStatus, Active, Terminal
  <2>6. m.seen = "cancelled" => \A j \in M : item'[j].status \notin Waiting
    <3> SUFFICES ASSUME m.seen = "cancelled", NEW j \in M
                 PROVE  item'[j].status \notin Waiting
      OBVIOUS
    <3>1. CASE j = i
      BY <3>1, <1>3, <2>2
    <3>2. CASE j # i
      BY <3>2, <1>3, <1>mem, <2>1, <2>fit DEF Fits
    <3>3. QED
      BY <3>1, <3>2
  <2>7. \A j \in M : item'[j].status = Finished(m)[j].status
    BY <1>1
  <2> HIDE DEF m
  <2>8. /\ \A j \in M : Fits(m.next, item'[j].status)
        /\ m.next = "running" => \E j \in M : item'[j].status \in Active
        /\ m.seen = "cancelled" => m.next = "cancelled"
    BY <2>5, <2>6, <2>7, <2>1, <1>5, SummaryFitsRows
  <2>9. \A j \in M : /\ item'[j].status = "completed" => item'[j].replaced /\ item'[j].shared
                     /\ item[j].status = "completed" => item'[j].status = "completed"
    BY <1>3, <1>mem, <2>1, <2>2 DEF BatchHeld, RowsWhole
  <2>10. QED
    BY <1>2, <1>one, <1>mem, <1>5, <2>1, <2>3, <2>4, <2>8, <2>9
       DEF BatchHeld, RowsFit, RowsWhole, HasWork, HasItems, SticksAt
<1>6. QED
  BY <1>4, <1>5

(* A request names rows of its own batch only.                             *)
LEMMA RequestRowsKept ==
    ASSUME TypeOK, RequestRows, [Next]_vars
    PROVE  RequestRows'
<1>mem. \A b \in Batches : Members(b)' = Members(b)
  BY DEF Members
<1>1. CASE api' = api
  BY <1>1 DEF RequestRows, Members
<1>2. CASE api' = [op |-> "none"]
  BY <1>2 DEF RequestRows
<1>3. ASSUME NEW b \in Batches, CancelRead(b) \/ RetryRead(b)
      PROVE  RequestRows'
  <2>1. api'.on = b /\ api'.rows \subseteq Members(b)
    BY <1>3 DEF CancelRead, RetryRead
  <2>2. QED
    BY <1>mem, <2>1 DEF RequestRows
<1>4. Next => \/ api' = api \/ api' = [op |-> "none"]
              \/ \E b \in Batches : CancelRead(b) \/ RetryRead(b)
  BY DEF Next, WorkerStep, ClaimStep, AnswerStep, FinishStep, ApiCommit, Poll, Claim,
         ClaimRefused, ClaimNothing, TransferOk, ReuseValid, ReuseInvalid, ShareOk,
         ValidateOk, CallFails, FinishRead, FinishCount, FinishCommit, Vanished, Crash,
         RetryFallsDue, LockAges, Create, Start, Delete, CancelCommit, RetryCommit, ApiRollback
<1>5. QED
  BY <1>1, <1>2, <1>3, <1>4 DEF vars

(* A request, or the passing of time, that leaves the rows a worker is at. *)
LEMMA WorkersKeepKnowing ==
    ASSUME TypeOK, [Next]_vars, NEW b \in Batches, b \notin raced', BatchHeld(b),
           worker' = worker,
           \A i \in Members(b) : item[i].status = "processing" =>
              /\ item'[i].status = item[i].status
              /\ item'[i].replaced = item[i].replaced
              /\ item[i].shared => item'[i].shared
    PROVE  \A w \in Workers : WorkerKnows(w, b)'
<1> SUFFICES ASSUME NEW w \in Workers PROVE WorkerKnows(w, b)'
  OBVIOUS
<1>1. WorkerKnows(w, b)
  BY DEF BatchHeld
<1>2. worker[w].pc \notin {"idle", "polled"} /\ worker[w].item \in Members(b)
         => item[worker[w].item].status = "processing"
  BY <1>1 DEF WorkerKnows
<1>3. QED
  BY <1>1, <1>2, WorkerKeepsKnowing

(* The requests that end here write no row of another batch.               *)
LEMMA OthersUntouched ==
    ASSUME TypeOK, [Next]_vars, NEW b \in Batches, b \notin raced', BatchHeld(b),
           RequestRows, worker' = worker, batch'[b] = batch[b],
           \A i \in Members(b) : /\ item'[i].status = item[i].status
                                 /\ item'[i].replaced = item[i].replaced
                                 /\ item'[i].shared = item[i].shared,
           RequestKnows(b)'
    PROVE  BatchHeld(b)' /\ SticksAt(b)
<1>1. \A w \in Workers : WorkerKnows(w, b)'
  BY WorkersKeepKnowing
<1>2. QED
  BY <1>1, BatchStays

(* A batch is created, started or deleted, or a request reads it.          *)
LEMMA RequestKeeps ==
    ASSUME TypeOK, [Next]_vars, NEW b \in Batches, b \notin raced', BatchHeld(b),
           RequestRows, NEW c \in Batches,
           \/ \E s \in {"draft", "running"} : Create(c, s)
           \/ Start(c) \/ CancelRead(c) \/ RetryRead(c) \/ Delete(c)
    PROVE  BatchHeld(b)' /\ SticksAt(b)
<1> DEFINE M == Members(b)
<1>fit. \A i \in M : Fits(batch[b], item[i].status)
  BY DEF BatchHeld, RowsFit
<1>mem. Members(b)' = M /\ \A i \in M : i \in Items /\ BatchOf[i] = b
  BY DEF Members
<1>worker. worker' = worker
  BY DEF Create, Start, CancelRead, RetryRead, Delete
<1>items. batch[b] \notin NoRow => M # {}
  BY DEF BatchHeld, HasItems
(* What is left to show: the rows of the batch after the step.             *)
<1>rows. ASSUME \A i \in M : Fits(batch'[b], item'[i].status)
                             /\ (item'[i].status = "completed" =>
                                    item'[i].replaced /\ item'[i].shared)
                             /\ (item[i].status = "completed" =>
                                    item'[i].status \in {"completed", "none"})
                             /\ (item[i].status = "processing" => item'[i] = item[i]),
                batch'[b] = "running" => \E i \in M : item'[i].status \in Active,
                batch'[b] \notin NoRow => M # {},
                batch[b] = "cancelled" => batch'[b] \in {"cancelled", "deleted"},
                api' = api
         PROVE  BatchHeld(b)' /\ SticksAt(b)
  <2>1. \A w \in Workers : WorkerKnows(w, b)'
    BY <1>rows, <1>worker, WorkersKeepKnowing
  <2>2. RequestKnows(b)'
    BY <1>rows, RequestKeepsKnowing DEF BatchHeld
  <2>3. QED
    BY <1>rows, <1>mem, <2>1, <2>2
       DEF BatchHeld, RowsFit, RowsWhole, HasWork, HasItems, SticksAt
<1>other. ASSUME batch'[b] = batch[b], \A i \in M : item'[i] = item[i], api' = api
          PROVE  BatchHeld(b)' /\ SticksAt(b)
  <2>1. RequestKnows(b)'
    BY <1>other, RequestKeepsKnowing DEF BatchHeld
  <2>2. QED
    BY <1>other, <1>worker, <2>1, OthersUntouched
<1>1. ASSUME NEW s \in {"draft", "running"}, Create(c, s)
      PROVE  BatchHeld(b)' /\ SticksAt(b)
  <2>1. /\ batch[c] = "absent" /\ Members(c) # {} /\ api' = api
        /\ batch'[c] = s /\ \A d \in Batches \ {c} : batch'[d] = batch[d]
        /\ \A i \in Items \ Members(c) : item'[i] = item[i]
        /\ \A i \in Items \cap Members(c) : item'[i].status = "queued"
    BY <1>1 DEF Create, TypeOK, Vacant
  <2>2. CASE c # b
    BY <2>1, <2>2, <1>mem, <1>other DEF Members
  <2>3. CASE c = b
    <3>1. Fits(s, "queued")
      BY DEF Fits, NoRow
    <3>2. \A i \in M : item[i].status = "none" /\ item'[i].status = "queued"
      BY <2>1, <2>3, <1>fit, <1>mem DEF Fits, NoRow
    <3>3. QED
      BY <2>1, <2>3, <3>1, <3>2, <1>mem, <1>rows DEF Active
  <2>4. QED
    BY <2>2, <2>3
<1>2. CASE Start(c)
  <2> DEFINE s == Summary("running", StatusesIn(item, c))
  <2>1. /\ batch[c] = "draft" /\ UNCHANGED <<api, item>>
        /\ batch'[c] = s /\ \A d \in Batches \ {c} : batch'[d] = batch[d]
    BY <1>2 DEF Start, TypeOK
  <2>2. CASE c # b
    BY <2>1, <2>2, <1>other
  <2>3. CASE c = b
    <3>1. \A i \in M : item[i].status = "queued"
      BY <2>1, <2>3, <1>fit DEF Fits
    <3>2. M # {}
      BY <2>1, <2>3, <1>items DEF NoRow
    <3>3. \A i \in M : Fits(s, item[i].status)
      BY <2>3, <3>1, <3>2, SummaryFitsRows DEF ItemStatus, Active
    <3>4. \E i \in M : item[i].status \in Active
      BY <3>1, <3>2 DEF Active
    <3> HIDE DEF s
    <3>5. QED
      BY <2>1, <2>3, <3>1, <3>2, <3>3, <3>4, <1>rows
  <2>4. QED
    BY <2>2, <2>3
<1>3. CASE CancelRead(c) \/ RetryRead(c)
  <2>1. UNCHANGED <<batch, item>> /\ api'.op # "none" /\ api'.on = c
    BY <1>3 DEF CancelRead, RetryRead
  <2>2. RequestKnows(b)'
    <3>1. CASE c # b
      BY <2>1, <3>1 DEF RequestKnows, RequestReads
    <3>2. CASE c = b /\ CancelRead(c)
      BY <2>1, <3>2, <1>mem DEF CancelRead, RequestKnows, RequestReads, Waiting
    <3>3. CASE c = b /\ RetryRead(c)
      BY <2>1, <3>3, <1>mem DEF RetryRead, RequestKnows, RequestReads
    <3>4. QED
      BY <1>3, <3>1, <3>2, <3>3
  <2>3. QED
    BY <2>1, <2>2, <1>worker, OthersUntouched
<1>4. CASE Delete(c)
  <2>1. /\ batch[c] \notin NoRow /\ api' = api
        /\ batch'[c] = "deleted" /\ \A d \in Batches \ {c} : batch'[d] = batch[d]
        /\ \A i \in Members(c) : item[i].status \notin Active
        /\ \A i \in Items \ Members(c) : item'[i] = item[i]
        /\ \A i \in Items \cap Members(c) : item'[i].status = "none"
    BY <1>4 DEF Delete, TypeOK, StatusesIn, Vacant
  <2>2. CASE c # b
    BY <2>1, <2>2, <1>mem, <1>other DEF Members
  <2>3. CASE c = b
    <3>1. Fits("deleted", "none")
      BY DEF Fits, NoRow, Waiting
    <3>2. QED
      BY <2>1, <2>3, <3>1, <1>mem, <1>rows DEF NoRow, Active
  <2>4. QED
    BY <2>2, <2>3
<1>5. QED
  BY <1>1, <1>2, <1>3, <1>4

(* The open request commits what it decided from what it read.             *)
LEMMA CommitKeeps ==
    ASSUME TypeOK, [Next]_vars, NEW b \in Batches, b \notin raced', BatchHeld(b),
           RequestRows, CancelCommit \/ RetryCommit
    PROVE  BatchHeld(b)' /\ SticksAt(b)
<1> DEFINE M == Members(b)
<1>fit. \A i \in M : Fits(batch[b], item[i].status)
  BY DEF BatchHeld, RowsFit
<1>mem. Members(b)' = M /\ \A i \in M : i \in Items /\ BatchOf[i] = b /\ item[i] \in ItemRow
  BY DEF Members, TypeOK
<1>worker. worker' = worker
  BY DEF CancelCommit, RetryCommit
<1>op. api.op \in {"cancel", "retry"} /\ api' = [op |-> "none"]
  <2>1. CASE CancelCommit
    BY <2>1 DEF CancelCommit
  <2>2. CASE RetryCommit
    BY <2>2 DEF RetryCommit
  <2>3. QED
    BY <2>1, <2>2
<1>api. /\ api.op # "none" /\ api.on \in Batches /\ api.rows \subseteq Items
        /\ api.rows \subseteq Members(api.on)
  BY <1>op DEF TypeOK, ApiState, RequestRows
<1>request. RequestKnows(b)'
  BY <1>op DEF RequestKnows, RequestReads
<1>out. \A i \in Items \ api.rows : item'[i] = item[i]
  BY DEF CancelCommit, RetryCommit
<1>1. CASE api.on # b
  <2>1. batch'[b] = batch[b]
    BY <1>1, <1>api DEF CancelCommit, RetryCommit, TypeOK
  <2>2. \A i \in M : item'[i] = item[i]
    BY <1>1, <1>api, <1>out, <1>mem DEF Members
  <2>3. QED
    BY <2>1, <2>2, <1>worker, <1>request, OthersUntouched
<1>2. CASE api.on = b /\ CancelCommit
  <2>1. /\ api.op = "cancel" /\ batch'[b] = "cancelled"
    BY <1>2 DEF CancelCommit, TypeOK
  <2>2. /\ batch[b] \notin NoRow
        /\ \A i \in M : item[i].status \in Waiting <=> i \in api.rows
    BY <1>2, <2>1 DEF BatchHeld, RequestKnows, RequestReads
  <2>3. \A i \in api.rows : item'[i].status = "failed"
    BY <1>2, <1>api, <1>mem DEF CancelCommit, ItemRow
  <2>4. \A i \in M : item[i].status \notin Waiting => item'[i] = item[i]
    BY <2>2, <1>out, <1>mem
  <2>5. \A w \in Workers : WorkerKnows(w, b)'
    BY <2>4, <1>worker, WorkersKeepKnowing DEF Waiting
  <2>6. \A i \in M : Fits("cancelled", item'[i].status)
    BY <2>2, <2>3, <2>4, <1>fit DEF Fits, NoRow, Waiting
  <2>7. \A i \in M : item'[i].status = "completed" => item'[i] = item[i]
    BY <2>2, <2>3, <2>4
  <2>8. \A i \in M : item[i].status = "completed" => item'[i] = item[i]
    BY <2>4 DEF Waiting
  <2>9. QED
    BY <2>1, <2>2, <2>5, <2>6, <2>7, <2>8, <1>mem, <1>request
       DEF BatchHeld, RowsFit, RowsWhole, HasWork, HasItems, SticksAt
<1>3. CASE api.on = b /\ RetryCommit
  <2>1. api.op = "retry"
    BY <1>3 DEF RetryCommit
  <2>2. /\ batch[b] \notin NoRow /\ api.seen = batch[b] /\ api.rows # {}
        /\ \A i \in api.rows : item[i].status = "failed"
    BY <1>3, <2>1 DEF BatchHeld, RequestKnows, RequestReads
  <2>b. batch'[b] = "running"
    BY <1>3, <2>2 DEF RetryCommit, TypeOK
  <2>3. \A i \in api.rows : item'[i].status = "queued"
    <3> SUFFICES ASSUME NEW i \in api.rows PROVE item'[i].status = "queued"
      OBVIOUS
    <3>1. PICK p, q, t : item'[i] = [item[i] EXCEPT
              !.status = "queued", !.locked = p, !.stale = q,
              !.due = FALSE, !.replaced = t]
      BY <1>3, <1>api DEF RetryCommit
    <3>2. i \in M
      BY <1>3, <1>api
    <3>3. QED
      BY <3>1, <3>2, <1>mem DEF ItemRow
  <2>4. \A i \in M : i \in api.rows \/ item'[i] = item[i]
    BY <1>out, <1>mem
  <2>5. \A w \in Workers : WorkerKnows(w, b)'
    BY <2>2, <2>4, <1>worker, WorkersKeepKnowing
  <2>6. \A i \in M : Fits("running", item'[i].status)
    BY <2>2, <2>3, <2>4, <1>fit DEF Fits, NoRow
  <2>7. \E i \in M : item'[i].status \in Active
    BY <2>2, <2>3, <1>3, <1>api DEF Active
  <2>8. \A i \in M : /\ item'[i].status = "completed" => item'[i] = item[i]
                     /\ item[i].status = "completed" => item'[i] = item[i]
    BY <2>2, <2>3, <2>4
  <2>9. QED
    BY <2>1, <2>2, <2>b, <2>5, <2>6, <2>7, <2>8, <1>mem, <1>request, <1>3
       DEF BatchHeld, RowsFit, RowsWhole, HasWork, HasItems, SticksAt
<1>4. QED
  BY <1>1, <1>2, <1>3

(* Nothing but the clock, or the memory of a request, changes.             *)
LEMMA QuietKeeps ==
    ASSUME TypeOK, [Next]_vars, NEW b \in Batches, b \notin raced', BatchHeld(b),
           RequestRows,
           \/ \E i \in Items : RetryFallsDue(i) \/ LockAges(i)
           \/ ApiRollback
           \/ UNCHANGED vars
    PROVE  BatchHeld(b)' /\ SticksAt(b)
<1>mem. Members(b) \subseteq Items /\ \A i \in Items : item[i] \in ItemRow
  BY DEF Members, TypeOK
<1>1. CASE \E i \in Items : RetryFallsDue(i) \/ LockAges(i)
  <2>1. PICK i \in Items :
           /\ UNCHANGED <<batch, worker, api>>
           /\ \/ item' = [item EXCEPT ![i] = [@ EXCEPT !.due = TRUE]]
              \/ item' = [item EXCEPT ![i] = [@ EXCEPT !.stale = TRUE]]
    BY <1>1 DEF RetryFallsDue, LockAges
  <2>2. \A j \in Items : /\ item'[j].status = item[j].status
                         /\ item'[j].replaced = item[j].replaced
                         /\ item'[j].shared = item[j].shared
    BY <2>1, <1>mem DEF TypeOK, ItemRow
  <2>3. RequestKnows(b)'
    BY <2>1, RequestKeepsKnowing DEF BatchHeld
  <2>4. QED
    BY <2>1, <2>2, <2>3, <1>mem, OthersUntouched
<1>2. CASE ApiRollback
  <2>1. UNCHANGED <<batch, item, worker>> /\ api'.op = "none"
    BY <1>2 DEF ApiRollback
  <2>2. RequestKnows(b)'
    BY <2>1 DEF RequestKnows, RequestReads
  <2>3. QED
    BY <2>1, <2>2, OthersUntouched
<1>3. CASE UNCHANGED vars
  <2>1. UNCHANGED <<batch, item, worker, api>>
    BY <1>3 DEF vars
  <2>2. RequestKnows(b)'
    BY <2>1, RequestKeepsKnowing DEF BatchHeld
  <2>3. QED
    BY <2>1, <2>2, OthersUntouched
<1>4. QED
  BY <1>1, <1>2, <1>3

LEMMA QueueStep ==
    ASSUME OneWorker, TypeOK, QueueInv, [Next]_vars
    PROVE  QueueInv' /\ \A b \in Batches \ raced' : SticksAt(b)
<1>1. ASSUME NEW b \in Batches, b \notin raced'
      PROVE  BatchHeld(b)' /\ SticksAt(b)
  <2>1. BatchHeld(b) /\ RequestRows
    BY <1>1, Unraced DEF QueueInv
  <2>2. CASE \E w \in Workers : WorkerStep(w) \/ Crash(w)
    BY <1>1, <2>1, <2>2, ClaimKeeps, WorkKeeps, FinishKeeps DEF WorkerStep, FinishStep
  <2>3. CASE \E i \in Items : RetryFallsDue(i) \/ LockAges(i)
    BY <1>1, <2>1, <2>3, QuietKeeps
  <2>4. CASE \E c \in Batches : \/ Create(c, "draft") \/ Create(c, "running")
                                \/ Start(c) \/ CancelRead(c) \/ RetryRead(c) \/ Delete(c)
    BY <1>1, <2>1, <2>4, RequestKeeps
  <2>5. CASE ApiCommit
    BY <1>1, <2>1, <2>5, CommitKeeps DEF ApiCommit
  <2>6. CASE ApiRollback \/ UNCHANGED vars
    BY <1>1, <2>1, <2>6, QuietKeeps
  <2>7. QED
    BY <2>2, <2>3, <2>4, <2>5, <2>6 DEF Next
<1>2. RequestRows'
  BY RequestRowsKept DEF QueueInv
<1>3. QED
  BY <1>1, <1>2 DEF QueueInv

LEMMA QueueAlways == OneWorker => (Spec => []QueueInv)
<1> SUFFICES ASSUME OneWorker PROVE Spec => []QueueInv
  OBVIOUS
<1>1. Init => QueueInv
  <2> SUFFICES ASSUME Init PROVE QueueInv
    OBVIOUS
  <2>1. /\ api.op = "none"
        /\ \A b \in Batches : batch[b] = "absent"
        /\ \A i \in Items : item[i].status = "none"
        /\ \A w \in Workers : worker[w].pc = "idle"
    BY DEF Init, StartsEmpty, Vacant, Idle
  <2>2. ASSUME NEW b \in Batches PROVE BatchHeld(b)
    BY <2>1 DEF BatchHeld, RowsFit, RowsWhole, HasWork, HasItems, WorkerKnows,
                RequestKnows, RequestReads, Members, Fits, NoRow, Waiting
  <2>3. QED
    BY <2>1, <2>2 DEF QueueInv, RequestRows
<1>2. TypeOK /\ QueueInv /\ [Next]_vars => QueueInv'
  BY QueueStep
<1>3. QED
  BY <1>1, <1>2, TypeCorrect, PTL DEF Spec

(* A completed item has its old links replaced and its share recorded, and *)
(* a batch that is reported completed has no other items, through crashes, *)
(* recycled locks, cancellations and manual retries, whenever requests     *)
(* come: unless a commit changed the batch under another transaction that  *)
(* had read it (mark_pan_transfer_item_success,                            *)
(* refresh_pan_transfer_batch_summary).                                    *)
THEOREM CompletionsAlwaysWhole == OneWorker => (Spec => []CompletionsAreWhole)
<1> SUFFICES ASSUME OneWorker PROVE Spec => []CompletionsAreWhole
  OBVIOUS
<1>1. TypeOK /\ QueueInv => CompletionsAreWhole
  <2> SUFFICES ASSUME TypeOK, QueueInv PROVE CompletionsAreWhole
    OBVIOUS
  <2>1. CompletedIsReplaced
    BY MembersOf DEF QueueInv, BatchHeld, RowsWhole, CompletedIsReplaced
  <2>2. ASSUME NEW b \in Batches \ raced, batch[b] = "completed"
        PROVE  StatusesIn(item, b) = {"completed"}
    <3>1. Members(b) # {} /\ \A i \in Members(b) : item[i].status = "completed"
      BY <2>2 DEF QueueInv, BatchHeld, HasItems, RowsFit, Fits, NoRow
    <3>2. QED
      BY <3>1 DEF StatusesIn
  <2>3. QED
    BY <2>1, <2>2 DEF CompletionsAreWhole, CompletedBatchIsComplete
<1>2. QED
  BY <1>1, QueueAlways, TypeCorrect, PTL

(* A running batch has work left, and an item waits only in a batch that   *)
(* can still run it: neither waits for the other for ever, unless a commit *)
(* changed the batch under another transaction that had read it            *)
(* (refresh_pan_transfer_batch_summary, mark_pan_transfer_item_error).     *)
THEOREM BatchAndWorkAlwaysAgree == OneWorker => (Spec => []BatchAndWorkAgree)
<1> SUFFICES ASSUME OneWorker PROVE Spec => []BatchAndWorkAgree
  OBVIOUS
<1>1. TypeOK /\ QueueInv => BatchAndWorkAgree
  <2> SUFFICES ASSUME TypeOK, QueueInv PROVE BatchAndWorkAgree
    OBVIOUS
  <2>1. RunningBatchHasWork
    BY DEF QueueInv, BatchHeld, HasWork, RunningBatchHasWork, StatusesIn
  <2>2. WaitingIsReachable
    <3> SUFFICES ASSUME NEW i \in Items, item[i].status \in Waiting,
                        BatchOf[i] \notin raced
                 PROVE  batch[BatchOf[i]] \in {"draft", "running"}
      BY DEF WaitingIsReachable, Waiting
    <3>1. batch[BatchOf[i]] \in BatchStatus
      BY MembersOf DEF TypeOK
    <3>2. Fits(batch[BatchOf[i]], item[i].status)
      BY MembersOf DEF QueueInv, BatchHeld, RowsFit
    <3>3. QED
      BY <3>1, <3>2 DEF Fits, Waiting, BatchStatus, NoRow, Ended, Terminal
  <2>3. QED
    BY <2>1, <2>2 DEF BatchAndWorkAgree
<1>2. QED
  BY <1>1, QueueAlways, TypeCorrect, PTL

(* A cancelled batch stays cancelled until a manual retry or its deletion, *)
(* and a completed item completed until its batch is deleted: the worker,  *)
(* going on with rows it has read before, undoes neither, unless a commit  *)
(* changed the batch under another transaction that had read it            *)
(* (cancel_pan_transfer_batch, refresh_pan_transfer_batch_summary).        *)
THEOREM EndingsAlwaysStick == OneWorker => (Spec => EndingsStick)
<1> SUFFICES ASSUME OneWorker PROVE Spec => EndingsStick
  OBVIOUS
<1> DEFINE A == \A b \in Batches \ raced' : batch[b] = "cancelled"
                  => \/ batch'[b] \in {"cancelled", "deleted"}
                     \/ api.op = "retry" /\ api.on = b
           B == \A i \in Items : item[i].status = "completed"
                  => item'[i].status \in {"completed", "none"} \/ BatchOf[i] \in raced'
<1>1. TypeOK /\ QueueInv /\ [Next]_vars => [A]_vars /\ [B]_vars
  <2>1. TypeOK /\ QueueInv /\ [Next]_vars => \A b \in Batches \ raced' : SticksAt(b)
    BY QueueStep
  <2>2. (\A b \in Batches \ raced' : SticksAt(b)) => A /\ B
    BY MembersOf DEF SticksAt
  <2>3. QED
    BY <2>1, <2>2
<1> HIDE DEF A, B
<1>2. Spec => [][A]_vars /\ [][B]_vars
  BY <1>1, QueueAlways, TypeCorrect, PTL DEF Spec
<1>3. QED
  BY <1>2 DEF A, B, EndingsStick, CancelSticks, CompletedIsFinal
=============================================================================
