-------------------------- MODULE FollowSyncProofs --------------------------
(***************************************************************************)
(* FollowSync keeps its types and forgets no task, for any number of       *)
(* tasks, batches and requests.                                            *)
(***************************************************************************)
EXTENDS FollowSync, TLAPS

(* An UPDATE leaves a row a row, and each column as the session changed it *)
(* or as it was.                                                           *)
LEMMA FlushedRow ==
    ASSUME NEW row \in Row, NEW old \in Row, NEW new \in Row, NEW rewritten
    PROVE  /\ Flushed(row, old, new, rewritten) \in Row
           /\ Flushed(row, old, new, rewritten).status =
                IF new.status # old.status \/ "status" \in rewritten THEN new.status ELSE row.status
           /\ Flushed(row, old, new, rewritten).state =
                IF new.state # old.state \/ "state" \in rewritten THEN new.state ELSE row.state
           /\ Flushed(row, old, new, rewritten).next =
                IF new.next # old.next \/ "next" \in rewritten THEN new.next ELSE row.next
<1> DEFINE r == Flushed(row, old, new, rewritten)
<1>1. DOMAIN row = {"status", "state", "next", "auto", "cand"}
  BY DEF Row
<1>2. r = [status |-> r["status"], state |-> r["state"], next |-> r["next"], auto |-> r["auto"], cand |-> r["cand"]]
  BY <1>1 DEF Flushed
<1> QED BY <1>1, <1>2 DEF Flushed, Row

(* The changes the actions make keep a row a row.                          *)
LEMMA RowUpdates ==
    ASSUME NEW r \in Row
    PROVE  /\ Scheduled(r) \in Row
           /\ [r EXCEPT !.next = "now"] \in Row
           /\ [r EXCEPT !.state = "queued", !.next = "now"] \in Row
           /\ [r EXCEPT !.status = "paused", !.next = "never"] \in Row
           /\ [r EXCEPT !.status = "active", !.state = "queued", !.next = "now"] \in Row
           /\ WithoutCandidate(r) \subseteq Row
           /\ \A s \in States : [r EXCEPT !.state = s] \in Row
           /\ \A x \in BOOLEAN : [r EXCEPT !.cand = x] \in Row
           /\ \A x \in BOOLEAN : [r EXCEPT !.auto = x] \in Row
           /\ \A s \in States, x \in BOOLEAN : [r EXCEPT !.state = s, !.cand = x] \in Row
BY ZenonT(40) DEF Row, States, Scheduled, WithoutCandidate

(* The results of a check, as changes of the row it works on.              *)
LEMMA Outcomes ==
    ASSUME NEW r \in Row,
           NEW new \in WithoutCandidate(r) \cup
                        {[r EXCEPT !.state = "candidate_found", !.cand = TRUE]}
    PROVE  /\ new \in Row /\ new.state \in {"idle", "invalid", "candidate_found"}
           /\ new.status = r.status /\ new.next = r.next
<1>1. CASE new \in WithoutCandidate(r)
  BY <1>1 DEF WithoutCandidate, Row, States
<1>2. CASE new = [r EXCEPT !.state = "candidate_found", !.cand = TRUE]
  BY <1>2 DEF Row, States
<1> QED BY <1>1, <1>2

LEMMA BlankRow == Blank \in Row /\ [Blank EXCEPT !.status = "deleted"] \in Row
BY DEF Blank, Row, States

LEMMA BatchUpdates ==
    ASSUME NEW b \in Batch
    PROVE  /\ [b EXCEPT !.cancelled = TRUE] \in Batch
           /\ [b EXCEPT !.status = "queued", !.cancelled = FALSE] \in Batch
           /\ [b EXCEPT !.cancelled = TRUE, !.status = "failed"] \in Batch
           /\ \A s \in Active \cup {"completed", "failed"} : [b EXCEPT !.status = s] \in Batch
           /\ \A s \in {"waiting", "failed"}, n \in 0..MaxAttempts :
                [b EXCEPT !.status = s, !.attempts = n] \in Batch
BY DEF Batch, Active

LEMMA NewBatches ==
    /\ NoBatch \in Batch
    /\ [NoBatch EXCEPT !.status = "deleted"] \in Batch
    /\ \A t \in Tasks : [NoBatch EXCEPT !.status = "queued", !.of = t] \in Batch
<1>1. 0 \in 0..MaxAttempts
  BY AttemptsAssumption
<1> QED BY <1>1 DEF NoBatch, Batch, Active

LEMMA RecycledType ==
    ASSUME TypeOK
    PROVE  Recycled \in [Batches -> Batch]
<1>1. \A b \in Batches : batch[b] \in Batch
  BY DEF TypeOK
<1>2. {"queued", "failed"} \subseteq Active \cup {"completed", "failed"}
  BY DEF Active
<1> QED BY <1>1, <1>2, BatchUpdates DEF Recycled

LEMMA RecycledRows ==
    ASSUME TypeOK, NEW b \in Batches
    PROVE  /\ Recycled[b].of = batch[b].of
           /\ Recycled[b].cancelled = batch[b].cancelled
           /\ Recycled[b].status = IF batch[b].status # "stale" THEN batch[b].status
                                   ELSE IF batch[b].cancelled THEN "failed" ELSE "queued"
<1>1. batch[b] \in Batch
  BY DEF TypeOK
<1> QED BY <1>1 DEF Recycled, Batch

(***************************************************************************)
(* Types                                                                   *)
(***************************************************************************)
LEMMA TypeInit == Init => TypeOK
<1> SUFFICES ASSUME Init PROVE TypeOK
  OBVIOUS
<1>1. task \in [Tasks -> Row] /\ mem \in Row /\ seen \in Row /\ copy \in [Clients -> Row]
  BY BlankRow DEF Init
<1>2. batch \in [Batches -> Batch]
  BY NewBatches DEF Init
<1> QED BY <1>1, <1>2 DEF Init, TypeOK

LEMMA SavedType ==
    ASSUME TypeOK, NEW t \in Tasks, NEW row \in Row, NEW overtaken, Saves(t, row, overtaken)
    PROVE  task' \in [Tasks -> Row] /\ dropped' \subseteq Tasks
BY DEF TypeOK, Saves

LEMMA TypeReport ==
    ASSUME TypeOK, NEW t \in Tasks, NEW new \in Row, Report(t, new)
    PROVE  task' \in [Tasks -> Row] /\ dropped' \subseteq Tasks
<1> DEFINE row == Flushed(task[t], mem, Scheduled(new), Times(Scheduled(new)))
<1>1. CASE Saves(t, row, Resumed(t))
  <2>1. row \in Row
    BY FlushedRow, RowUpdates DEF TypeOK, States
  <2> HIDE DEF row
  <2> QED BY <1>1, <2>1, SavedType
<1>2. CASE LeaveBehind(t) /\ UNCHANGED task
  BY <1>2 DEF TypeOK, LeaveBehind
<1> QED BY <1>1, <1>2 DEF Report

LEMMA TypeCommits ==
    ASSUME TypeOK, NEW t \in Tasks, NEW new \in Row, NEW rewritten,
           Commits(t, new, rewritten)
    PROVE  task' \in [Tasks -> Row] /\ mem' \in Row /\ UNCHANGED <<turn, on>>
<1>1. Flushed(task[t], mem, new, rewritten) \in Row
  BY FlushedRow DEF TypeOK
<1> QED BY <1>1 DEF TypeOK, Commits

LEMMA TypeEnds ==
    ASSUME TypeOK, NEW t \in Tasks, NEW new \in Row, NEW rewritten,
           Ends(t, new, rewritten)
    PROVE  /\ task' \in [Tasks -> Row] /\ mem' \in Row
           /\ pc' = "idle" /\ turn' = "item" /\ on' = None
<1>1. Flushed(task[t], mem, Scheduled(new), rewritten) \in Row
  BY FlushedRow, RowUpdates DEF TypeOK, States
<1> QED BY <1>1, BlankRow DEF TypeOK, Ends, Rest

(* The steps of a worker that is at the task t of its copy.                *)
LEMMA Places ==
    ASSUME FollowInv
    PROVE  /\ \A b \in Batches : pc \in {"item", "report"} /\ on = b => batch[b].of \in Tasks
           /\ pc # "idle" /\ pc \notin {"item", "report"} => on \in Tasks
           /\ \A b \in Batches : batch[b].status \in Active => batch[b].of \in Tasks
BY DEF FollowInv, TypeOK, Placed, Owned, Active

LEMMA TypeWorks ==
    ASSUME FollowInv, Works
    PROVE  TypeOK'
<1> USE DEF api
<1>1. TypeOK /\ Recycled \in [Batches -> Batch] /\ Blank \in Row /\ mem \in Row
  BY RecycledType, BlankRow DEF FollowInv, TypeOK
<1>2. CASE PassItem
  BY <1>1, <1>2 DEF TypeOK, PassItem, Unreported
<1>3. CASE PassTask
  BY <1>1, <1>3 DEF TypeOK, PassTask
<1>4. ASSUME NEW b \in Batches, ClaimItem(b) PROVE TypeOK'
  <2>1. [Recycled[b] EXCEPT !.status = "processing"] \in Batch
    BY <1>1, BatchUpdates DEF Active
  <2>2. batch' \in [Batches -> Batch]
    BY <1>1, <1>4, <2>1 DEF ClaimItem
  <2> QED BY <1>1, <1>4, <2>2 DEF TypeOK, ClaimItem, Unreported
<1>5. ASSUME NEW b \in Batches, ItemSucceeds(b) PROVE TypeOK'
  <2>1. batch[b].of \in Tasks
    BY <1>5, Places DEF ItemSucceeds
  <2>2. [mem EXCEPT !.state = "idle", !.cand = FALSE] \in Row
    BY <1>1, RowUpdates DEF States
  <2>3. task' \in [Tasks -> Row] /\ dropped' \subseteq Tasks
    BY <1>1, <1>5, <2>1, <2>2, TypeReport DEF ItemSucceeds
  <2>4. [batch[b] EXCEPT !.status = "completed"] \in Batch
    BY <1>1, BatchUpdates DEF TypeOK
  <2>5. batch' \in [Batches -> Batch]
    BY <1>1, <1>5, <2>4 DEF TypeOK, ItemSucceeds
  <2> QED BY <1>1, <1>5, <2>3, <2>5 DEF TypeOK, ItemSucceeds, Rest
<1>6. ASSUME NEW b \in Batches, ItemFails(b) PROVE TypeOK'
  <2>1. batch[b].of \in Tasks
    BY <1>6, Places DEF ItemFails
  <2>2. [mem EXCEPT !.state = "error"] \in Row
    BY <1>1, RowUpdates DEF States
  <2>3. task' \in [Tasks -> Row] /\ dropped' \subseteq Tasks
    BY <1>1, <1>6, <2>1, <2>2, TypeReport DEF ItemFails
  <2>4. PICK end \in {"waiting", "failed"} :
            batch' = [batch EXCEPT ![b].status = end,
                        ![b].attempts = IF batch[b].attempts + 1 < MaxAttempts
                                        THEN batch[b].attempts + 1 ELSE MaxAttempts]
    BY <1>6 DEF ItemFails
  <2>5. batch[b] \in Batch /\ batch[b].attempts \in 0..MaxAttempts
    BY <1>1 DEF TypeOK, Batch
  <2>6. (IF batch[b].attempts + 1 < MaxAttempts
         THEN batch[b].attempts + 1 ELSE MaxAttempts) \in 0..MaxAttempts
    BY <2>5, AttemptsAssumption
  <2>7. batch' \in [Batches -> Batch]
    BY <1>1, <2>4, <2>5, <2>6, BatchUpdates DEF TypeOK
  <2> QED BY <1>1, <1>6, <2>3, <2>7 DEF TypeOK, ItemFails, Rest
<1>7. ASSUME NEW t \in Tasks, ClaimTask(t) PROVE TypeOK'
  <2>1. [task[t] EXCEPT !.state = "checking"] \in Row
    BY <1>1, RowUpdates DEF TypeOK, States
  <2> QED BY <1>1, <1>7, <2>1 DEF TypeOK, ClaimTask
<1>8. ASSUME NEW t \in Tasks, CheckFinds(t) PROVE TypeOK'
  <2>1. PICK new \in WithoutCandidate(mem) \cup
                   {[mem EXCEPT !.state = "candidate_found", !.cand = TRUE]},
             rewritten \in SUBSET {"auto", "cand"} : Commits(t, new, rewritten)
    BY <1>8 DEF CheckFinds
  <2>2. new \in Row
    BY <1>1, <2>1, RowUpdates DEF States
  <2>3. task' \in [Tasks -> Row] /\ mem' \in Row /\ UNCHANGED <<turn, on>>
    BY <1>1, <2>1, <2>2, TypeCommits
  <2> QED BY <1>1, <1>8, <2>3 DEF TypeOK, CheckFinds
<1>9. ASSUME NEW t \in Tasks, CheckEnds(t) PROVE TypeOK'
  <2>1. PICK new \in WithoutCandidate(mem) : Ends(t, new, {"auto"})
    BY <1>9 DEF CheckEnds
  <2>2. new \in Row
    BY <1>1, <2>1, RowUpdates
  <2>3. /\ task' \in [Tasks -> Row] /\ mem' \in Row
        /\ pc' = "idle" /\ turn' = "item" /\ on' = None
    BY <1>1, <2>1, <2>2, TypeEnds
  <2> QED BY <1>1, <1>9, <2>3 DEF TypeOK, CheckEnds
<1>10. ASSUME NEW t \in Tasks, CheckFails(t) PROVE TypeOK'
  <2> DEFINE new == Scheduled([mem EXCEPT !.state = "error"])
             row == Flushed(task[t], mem, new, Times(new))
  <2>1. [mem EXCEPT !.state = "error"] \in Row
    BY <1>1, RowUpdates DEF States
  <2>2. row \in Row
    BY <1>1, <2>1, FlushedRow, RowUpdates DEF TypeOK
  <2>3. Saves(t, row, Resumed(t))
    BY <1>10 DEF CheckFails
  <2> HIDE DEF row
  <2>4. task' \in [Tasks -> Row] /\ dropped' \subseteq Tasks
    BY <1>1, <2>2, <2>3, SavedType
  <2> QED BY <1>1, <1>10, <2>4 DEF TypeOK, CheckFails, Rest
<1>11. ASSUME NEW t \in Tasks, CheckLost(t) PROVE TypeOK'
  BY <1>1, <1>11 DEF TypeOK, CheckLost, Rest
<1>12. ASSUME NEW t \in Tasks, AutomationOff(t) PROVE TypeOK'
  <2>1. /\ task' \in [Tasks -> Row] /\ mem' \in Row
        /\ pc' = "idle" /\ turn' = "item" /\ on' = None
    BY <1>1, <1>12, TypeEnds DEF AutomationOff
  <2> QED BY <1>1, <1>12, <2>1 DEF TypeOK, AutomationOff
<1>13. ASSUME NEW t \in Tasks, AutomationEnds(t) PROVE TypeOK'
  <2>1. PICK new \in {mem} \cup WithoutCandidate(mem), enabled \in BOOLEAN :
            Ends(t, [new EXCEPT !.auto = enabled], {"auto"})
    BY <1>13 DEF AutomationEnds
  <2>2. [new EXCEPT !.auto = enabled] \in Row
    BY <1>1, <2>1, RowUpdates
  <2>3. /\ task' \in [Tasks -> Row] /\ mem' \in Row
        /\ pc' = "idle" /\ turn' = "item" /\ on' = None
    BY <1>1, <2>1, <2>2, TypeEnds
  <2> QED BY <1>1, <1>13, <2>3 DEF TypeOK, AutomationEnds
<1>14. ASSUME NEW t \in Tasks, NEW b \in Batches, AutomationSyncs(t, b) PROVE TypeOK'
  <2>1. PICK cand \in {mem.cand, FALSE} :
            Ends(t, [mem EXCEPT !.state = "sync_queued", !.cand = cand], {"auto"})
    BY <1>14 DEF AutomationSyncs
  <2>2. cand \in BOOLEAN
    BY <1>1 DEF Row
  <2>3. [mem EXCEPT !.state = "sync_queued", !.cand = cand] \in Row
    BY <1>1, <2>2, RowUpdates DEF States
  <2>4. /\ task' \in [Tasks -> Row] /\ mem' \in Row
        /\ pc' = "idle" /\ turn' = "item" /\ on' = None
    BY <1>1, <2>1, <2>3, TypeEnds
  <2>5. batch' \in [Batches -> Batch]
    BY <1>1, <1>14, NewBatches DEF TypeOK, AutomationSyncs, NewBatch
  <2> QED BY <1>1, <1>14, <2>4, <2>5 DEF TypeOK, AutomationSyncs
<1>15. ASSUME NEW b \in Batches, ItemReports(b) PROVE TypeOK'
  <2>1. task[batch[b].of] \in Row
    BY <1>1, <1>15, Places DEF ItemReports, TypeOK
  <2> QED BY <1>1, <1>15, <2>1 DEF TypeOK, ItemReports
<1>16. ASSUME NEW t \in Tasks, CheckRaises(t) PROVE TypeOK'
  BY <1>1, <1>16 DEF TypeOK, CheckRaises
<1> QED BY <1>2, <1>3, <1>4, <1>5, <1>6, <1>7, <1>8, <1>9, <1>10, <1>11, <1>12,
          <1>13, <1>14, <1>15, <1>16 DEF Works

(* What a request that changes a row commits: it writes no state that      *)
(* waits, and if the row has no next check afterwards, it had none before, *)
(* or the task is checked or syncs, or is now known to be left behind.     *)
LEMMA EditedRow ==
    ASSUME FollowInv, Edits
    PROVE  /\ edit \in Tasks /\ Exists(edit)
           /\ task' \in [Tasks -> Row] /\ dropped' \subseteq Tasks
           /\ \A u \in Tasks \ {edit} : task'[u] = task[u] /\ (u \in dropped' <=> u \in dropped)
           /\ task'[edit].status \in {"active", "paused"}
           /\ task'[edit].state \in {task[edit].state, "queued", "idle", "invalid"}
           /\ edit \notin dropped' =>
                \/ Settled(task'[edit])
                \/ /\ edit \notin dropped
                   /\ task'[edit].status = "active" /\ task'[edit].next = "never" =>
                        \/ Checked(edit) \/ Syncing(edit)
                        \/ task[edit].status = "active" /\ task[edit].next = "never"
           /\ EditDone
<1> DEFINE Kept(row) == row.status = "active" /\ row.next = "never" =>
                            \/ Checked(edit) \/ Syncing(edit)
                            \/ task[edit].status = "active" /\ task[edit].next = "never"
           Goal == /\ task' \in [Tasks -> Row] /\ dropped' \subseteq Tasks
                   /\ \A u \in Tasks \ {edit} :
                        task'[u] = task[u] /\ (u \in dropped' <=> u \in dropped)
                   /\ task'[edit].status \in {"active", "paused"}
                   /\ task'[edit].state \in {task[edit].state, "queued", "idle", "invalid"}
                   /\ edit \notin dropped' =>
                        Settled(task'[edit]) \/ (edit \notin dropped /\ Kept(task'[edit]))
                   /\ EditDone
<1>1. edit # None
  BY DEF Edits, QueueCheck, Pause, Resume, ClearCandidate, Settings, EditSaves, EditFails
<1>2. /\ TypeOK /\ edit \in Tasks /\ Exists(edit) /\ seen \in Row /\ task[edit] \in Row
      /\ seen.status = task[edit].status /\ task[edit].status \in {"active", "paused"}
  BY <1>1 DEF FollowInv, TypeOK, Read, Exists
<1>3. ASSUME NEW new \in Row, NEW rewritten, NEW overtaken, EditSaves(new, rewritten, overtaken),
             rewritten \subseteq {"auto", "next"},
             new.status \in {"active", "paused"},
             new.state \in {seen.state, "queued", "idle", "invalid"},
             overtaken \/ Kept(Flushed(task[edit], seen, new, rewritten))
      PROVE  Goal
  <2> DEFINE row == Flushed(task[edit], seen, new, rewritten)
  <2>1. /\ row \in Row /\ row.status \in {"active", "paused"}
        /\ row.state \in {task[edit].state, "queued", "idle", "invalid"}
    BY <1>2, <1>3, FlushedRow
  <2>2. Saves(edit, row, overtaken) /\ EditDone /\ (overtaken \/ Kept(row))
    BY <1>3 DEF EditSaves
  <2> HIDE DEF row
  <2>3. task' = [task EXCEPT ![edit] = row] /\ task'[edit] = row
    BY <1>2, <2>2 DEF Saves, TypeOK
  <2>4. task' \in [Tasks -> Row] /\ dropped' \subseteq Tasks
    BY <1>2, <2>1, <2>2, SavedType
  <2>5. /\ \A u \in Tasks \ {edit} : u \in dropped' <=> u \in dropped
        /\ edit \notin dropped' => Settled(row) \/ (edit \notin dropped /\ Kept(row))
    BY <2>2 DEF Saves
  <2> QED BY <1>2, <2>1, <2>2, <2>3, <2>4, <2>5 DEF TypeOK
<1>4. CASE QueueCheck
  <2> DEFINE new == [seen EXCEPT !.state = "queued", !.next = "now"]
  <2>1. new \in Row /\ new.status = seen.status /\ new.state = "queued" /\ new.next = "now"
    BY <1>2 DEF Row, States
  <2>2. EditSaves(new, {"next"}, FALSE)
    BY <1>4 DEF QueueCheck
  <2> HIDE DEF new
  <2>3. Flushed(task[edit], seen, new, {"next"}).next = "now"
    BY <1>2, <2>1, FlushedRow
  <2> QED BY <1>2, <1>3, <2>1, <2>2, <2>3
<1>5. CASE Pause
  <2> DEFINE new == [seen EXCEPT !.status = "paused", !.next = "never"]
  <2>1. new \in Row /\ new.status = "paused" /\ new.state = seen.state
    BY <1>2 DEF Row
  <2>2. EditSaves(new, {}, FALSE)
    BY <1>5 DEF Pause
  <2> HIDE DEF new
  <2>3. Flushed(task[edit], seen, new, {}).status = "paused"
    BY <1>2, <2>1, FlushedRow
  <2> QED BY <1>2, <1>3, <2>1, <2>2, <2>3
<1>6. CASE Resume
  <2> DEFINE new == [seen EXCEPT !.status = "active", !.state = "queued", !.next = "now"]
  <2>1. new \in Row /\ new.status = "active" /\ new.state = "queued" /\ new.next = "now"
    BY <1>2 DEF Row, States
  <2>2. EditSaves(new, {"next"}, FALSE)
    BY <1>6 DEF Resume
  <2> HIDE DEF new
  <2>3. Flushed(task[edit], seen, new, {"next"}).next = "now"
    BY <1>2, <2>1, FlushedRow
  <2> QED BY <1>2, <1>3, <2>1, <2>2, <2>3
<1>7. CASE ClearCandidate
  <2>1. PICK new \in WithoutCandidate(seen) : EditSaves(new, {}, FALSE)
    BY <1>7 DEF ClearCandidate
  <2>2. new \in Row /\ new.state \in {"idle", "invalid"} /\ new.status = seen.status /\ new.next = seen.next
    <3>1. new \in Row
      BY <1>2, RowUpdates
    <3> QED BY <1>2, <3>1 DEF WithoutCandidate, Row
  <2>3. /\ Flushed(task[edit], seen, new, {}).next = task[edit].next
        /\ Flushed(task[edit], seen, new, {}).status = task[edit].status
    BY <1>2, <2>2, FlushedRow
  <2> QED BY <1>2, <1>3, <2>1, <2>2, <2>3
<1>8. ASSUME NEW enabled \in BOOLEAN, NEW rewritten \in SUBSET {"auto"}, Settings(enabled, rewritten)
      PROVE  Goal
  <2> DEFINE new == [seen EXCEPT !.auto = enabled]
             end == Scheduled(new)
             over == /\ seen.state \in {"checking", "sync_queued"}
                     /\ ~Checked(edit) /\ ~Syncing(edit)
  <2>1. /\ new \in Row /\ new.state = seen.state /\ new.status = seen.status
        /\ new.next = seen.next
    BY <1>2 DEF Row
  <2>2. CASE seen.status = "active" /\ seen.state = "queued"
    <3>1. EditSaves(new, rewritten, FALSE)
      BY <1>8, <2>2 DEF Settings
    <3> HIDE DEF new
    <3>2. /\ Flushed(task[edit], seen, new, rewritten).next = task[edit].next
          /\ Flushed(task[edit], seen, new, rewritten).status = task[edit].status
      BY <1>2, <2>1, FlushedRow
    <3> QED BY <1>2, <1>3, <2>1, <3>1, <3>2
  <2>3. CASE ~(seen.status = "active" /\ seen.state = "queued")
    <3>1. EditSaves(end, rewritten \cup Times(end), over)
      BY <1>8, <2>3 DEF Settings
    <3>2. /\ end \in Row /\ end.state = seen.state /\ end.status = seen.status
          /\ end.next = IF seen.status = "active" /\ seen.state \notin {"checking", "sync_queued"}
                        THEN "later" ELSE "never"
      <4> HIDE DEF new
      <4>1. Scheduled(new) \in Row
        BY <2>1, RowUpdates
      <4> QED BY <2>1, <4>1 DEF Scheduled, Row
    <3> HIDE DEF new, end
    <3> DEFINE row == Flushed(task[edit], seen, end, rewritten \cup Times(end))
    <3>3. row.status = task[edit].status /\ (end.next = "later" => row.next = "later")
      BY <1>2, <3>2, FlushedRow DEF Times
    <3>4. over \/ Kept(row)
      <4> HIDE DEF row
      <4> QED BY <1>2, <3>2, <3>3
    <3>5. rewritten \cup Times(end) \subseteq {"auto", "next"}
      BY DEF Times
    <3> HIDE DEF over
    <3> QED BY <1>2, <1>3, <3>1, <3>2, <3>4, <3>5
  <2> QED BY <2>2, <2>3
<1>9. CASE EditFails
  BY <1>2, <1>9 DEF EditFails, TypeOK
<1>10. Goal
  BY <1>4, <1>5, <1>6, <1>7, <1>8, <1>9 DEF Edits
<1> QED BY <1>2, <1>10

LEMMA TypeRequests ==
    ASSUME FollowInv, Requests
    PROVE  TypeOK'
<1> USE DEF api, work
<1>1. /\ TypeOK /\ Blank \in Row /\ [Blank EXCEPT !.status = "deleted"] \in Row
      /\ \A t \in Tasks : task[t] \in Row
      /\ \A b \in Batches : batch[b] \in Batch
      /\ \A c \in Clients : copy[c] \in Row /\ aim[c] \in Tasks \cup {None}
  BY BlankRow DEF FollowInv, TypeOK
<1>3. ASSUME NEW t \in Tasks, NEW enabled \in BOOLEAN, CreateTask(t, enabled)
      PROVE  TypeOK'
  <2>1. [status |-> "active", state |-> "queued", next |-> "now",
         auto |-> enabled, cand |-> FALSE] \in Row
    BY DEF Row, States
  <2> QED BY <1>1, <1>3, <2>1 DEF TypeOK, CreateTask
<1>4. ASSUME NEW t \in Tasks, EditReads(t) PROVE TypeOK'
  BY <1>1, <1>4 DEF TypeOK, EditReads, Request
<1>5. CASE Edits
  BY <1>1, <1>5, EditedRow DEF TypeOK, EditDone
<1>9. ASSUME NEW t \in Tasks, DeleteTask(t) PROVE TypeOK'
  BY <1>1, <1>9 DEF TypeOK, DeleteTask, Request
<1>10. ASSUME NEW t \in Tasks, NEW c \in Clients, SyncBegin(c, t) PROVE TypeOK'
  BY <1>1, <1>10 DEF TypeOK, SyncBegin, Request
<1>11. ASSUME NEW c \in Clients, SyncAborts(c) PROVE TypeOK'
  BY <1>1, <1>11 DEF TypeOK, SyncAborts, Answered
<1>12. ASSUME NEW c \in Clients, NEW b \in Batches, SyncCommit(c, b) PROVE TypeOK'
  <2>1. aim[c] \in Tasks
    BY <1>1, <1>12 DEF SyncCommit
  <2>2. [copy[c] EXCEPT !.state = "sync_queued"] \in Row
    BY <1>1, RowUpdates DEF States
  <2>3. Flushed(task[aim[c]], copy[c],
                [copy[c] EXCEPT !.state = "sync_queued"], {"auto"}) \in Row
    BY <1>1, <2>1, <2>2, FlushedRow
  <2>4. task' \in [Tasks -> Row]
    BY <1>1, <1>12, <2>3 DEF TypeOK, SyncCommit
  <2>5. batch' \in [Batches -> Batch]
    BY <1>1, <1>12, <2>1, NewBatches DEF TypeOK, SyncCommit, NewBatch
  <2> QED BY <1>1, <1>12, <2>4, <2>5 DEF TypeOK, SyncCommit, Answered
<1>13. ASSUME NEW b \in Batches, CancelBatch(b) PROVE TypeOK'
  <2>1. batch[b].of \in Tasks
    BY <1>13, Places DEF CancelBatch
  <2>2. batch' \in [Batches -> Batch]
    BY <1>1, <1>13, BatchUpdates DEF TypeOK, CancelBatch, Cancelled
  <2>3. dropped' \subseteq Tasks
    BY <1>1, <1>13, <2>1 DEF TypeOK, CancelBatch, LeaveBehind
  <2> QED BY <1>1, <1>13, <2>2, <2>3 DEF TypeOK, CancelBatch, Request
<1>14. ASSUME NEW b \in Batches, RetryBatch(b) PROVE TypeOK'
  <2>1. [batch[b] EXCEPT !.status = "queued", !.cancelled = FALSE] \in Batch
    BY <1>1, BatchUpdates
  <2> QED BY <1>1, <1>14, <2>1 DEF TypeOK, RetryBatch, Request
<1>15. ASSUME NEW b \in Batches, DeleteBatch(b) PROVE TypeOK'
  <2>1. [NoBatch EXCEPT !.status = "deleted"] \in Batch
    BY NewBatches
  <2> QED BY <1>1, <1>15, <2>1 DEF TypeOK, DeleteBatch, Request
<1> QED BY <1>3, <1>4, <1>5, <1>9, <1>10, <1>11, <1>12, <1>13, <1>14, <1>15 DEF Requests

LEMMA TypeStep ==
    ASSUME FollowInv, [Next]_vars
    PROVE  TypeOK'
<1> USE DEF api, work
<1>1. TypeOK /\ Blank \in Row /\ mem \in Row
  BY BlankRow DEF FollowInv, TypeOK
<1>2. CASE Crash
  BY <1>1, <1>2, Places DEF TypeOK, Crash, Rest, LeaveBehind
<1>3. ASSUME NEW t \in Tasks, CheckWrites(t) PROVE TypeOK'
  <2>1. PICK cand \in {mem.cand, FALSE}, rewritten \in SUBSET {"auto"} :
            Commits(t, [mem EXCEPT !.cand = cand], rewritten)
    BY <1>3 DEF CheckWrites
  <2>2. [mem EXCEPT !.cand = cand] \in Row
    BY <1>1 DEF Row
  <2>3. task' \in [Tasks -> Row] /\ mem' \in Row /\ UNCHANGED <<turn, on>>
    BY <1>1, <2>1, <2>2, TypeCommits
  <2> QED BY <1>1, <1>3, <2>3 DEF TypeOK, CheckWrites
<1>4. ASSUME NEW t \in Tasks, AutomationWrites(t) PROVE TypeOK'
  <2>1. PICK cand \in {mem.cand, FALSE} :
            Commits(t, [mem EXCEPT !.cand = cand], {"auto"})
    BY <1>4 DEF AutomationWrites
  <2>2. [mem EXCEPT !.cand = cand] \in Row
    BY <1>1 DEF Row
  <2>3. task' \in [Tasks -> Row] /\ mem' \in Row /\ UNCHANGED <<turn, on>>
    BY <1>1, <2>1, <2>2, TypeCommits
  <2> QED BY <1>1, <1>4, <2>3 DEF TypeOK, AutomationWrites
<1>5. ASSUME NEW t \in Tasks, Tick(t) PROVE TypeOK'
  <2>1. [task[t] EXCEPT !.next = "now"] \in Row
    BY <1>1, RowUpdates DEF TypeOK
  <2> QED BY <1>1, <1>5, <2>1 DEF TypeOK, Tick
<1>6. ASSUME NEW b \in Batches, TickBatch(b) PROVE TypeOK'
  <2>1. [batch[b] EXCEPT !.status = "due"] \in Batch /\ [batch[b] EXCEPT !.status = "stale"] \in Batch
    BY <1>1, BatchUpdates DEF TypeOK, Active
  <2> QED BY <1>1, <1>6, <2>1 DEF TypeOK, TickBatch
<1>7. CASE UNCHANGED vars
  BY <1>1, <1>7 DEF TypeOK, vars
<1> QED BY <1>2, <1>3, <1>4, <1>5, <1>6, <1>7, TypeWorks, TypeRequests DEF Next

(***************************************************************************)
(* Batches belong to tasks                                                 *)
(***************************************************************************)
LEMMA OwnedStep ==
    ASSUME FollowInv, [Next]_vars
    PROVE  Owned'
<1>1. TypeOK /\ Owned
  BY DEF FollowInv
<1> USE DEF Active
<1>2. ASSUME \A b \in Batches :
                \/ batch'[b].of = batch[b].of
                   /\ batch[b].status \notin {"absent", "deleted"}
                \/ batch'[b].status \in {"absent", "deleted"}
                \/ batch'[b].of \in Tasks
      PROVE  Owned'
  BY <1>1, <1>2 DEF Owned
<1>3. ASSUME UNCHANGED batch PROVE Owned'
  BY <1>1, <1>3 DEF Owned
<1>4. ASSUME NEW t \in Tasks, NEW b \in Batches, NewBatch(b, t) PROVE Owned'
  BY <1>1, <1>4 DEF TypeOK, Batch, Owned, NewBatch, NoBatch
<1>5. Works => Owned'
  <2>1. CASE PassItem
    BY <1>1, <1>2, <2>1, RecycledRows DEF Owned, PassItem
  <2>6. ASSUME NEW c \in Batches, ClaimItem(c) PROVE Owned'
    <3>1. batch[c].status \notin {"absent", "deleted"}
      BY <1>1, <2>6, RecycledRows DEF ClaimItem, Claimable
    <3>2. ASSUME NEW b \in Batches
          PROVE  batch'[b].of = batch[b].of /\ (b # c => batch'[b].status = Recycled[b].status)
      BY <1>1, <2>6, RecycledRows, RecycledType DEF ClaimItem, Batch
    <3> QED BY <1>1, <1>2, <3>1, <3>2, RecycledRows
  <2>2. CASE \E b \in Batches : ItemSucceeds(b)
    BY <1>1, <2>2 DEF TypeOK, Batch, Owned, FollowInv, Placed, ItemSucceeds
  <2>3. CASE \E b \in Batches : ItemFails(b)
    BY <1>1, <2>3 DEF TypeOK, Batch, Owned, FollowInv, Placed, ItemFails
  <2>4. CASE \E t \in Tasks, b \in Batches : AutomationSyncs(t, b)
    BY <1>4, <2>4 DEF AutomationSyncs
  <2>5. CASE PassTask \/ \E t \in Tasks :
                \/ ClaimTask(t) \/ CheckFinds(t) \/ CheckEnds(t) \/ CheckRaises(t)
                \/ CheckFails(t) \/ CheckLost(t) \/ AutomationOff(t) \/ AutomationEnds(t)
    BY <1>3, <2>5 DEF PassTask, ClaimTask, CheckFinds, CheckEnds, CheckRaises, CheckFails,
                     CheckLost, AutomationOff, AutomationEnds
  <2>7. CASE \E b \in Batches : ItemReports(b)
    BY <1>3, <2>7 DEF ItemReports
  <2> QED BY <2>1, <2>2, <2>3, <2>4, <2>5, <2>6, <2>7 DEF Works
<1>6. Requests => Owned'
  <2>1. CASE \E c \in Clients, b \in Batches : SyncCommit(c, b)
    BY <1>1, <1>4, <2>1 DEF TypeOK, SyncCommit
  <2>2. CASE \E b \in Batches : RetryBatch(b) \/ DeleteBatch(b)
    BY <1>1, <2>2 DEF TypeOK, Batch, Owned, RetryBatch, DeleteBatch, NoBatch
  <2>4. ASSUME NEW b \in Batches, CancelBatch(b) PROVE Owned'
    <3>1. batch[b].status \notin {"absent", "deleted"}
      BY <2>4 DEF CancelBatch
    <3>2. \A a \in Batches : batch'[a].of = batch[a].of /\ (a # b => batch'[a] = batch[a])
      BY <1>1, <2>4 DEF TypeOK, Batch, CancelBatch, Cancelled
    <3> QED BY <1>1, <3>1, <3>2 DEF Owned
  <2>3. CASE \/ \E t \in Tasks :
                \/ EditReads(t) \/ DeleteTask(t)
                \/ \E enabled \in BOOLEAN : CreateTask(t, enabled)
                \/ \E c \in Clients : SyncBegin(c, t)
            \/ \E c \in Clients : SyncAborts(c)
    BY <1>3, <2>3 DEF EditReads, DeleteTask, CreateTask, SyncBegin, SyncAborts
  <2>5. CASE Edits
    BY <1>3, <2>5, EditedRow DEF EditDone
  <2> QED BY <2>1, <2>2, <2>3, <2>4, <2>5 DEF Requests
<1>7. ASSUME NEW b \in Batches, TickBatch(b) PROVE Owned'
  BY <1>1, <1>7 DEF TypeOK, Batch, Owned, TickBatch
<1>8. ASSUME \/ Crash \/ UNCHANGED vars
            \/ \E t \in Tasks : CheckWrites(t) \/ AutomationWrites(t) \/ Tick(t)
      PROVE  Owned'
  BY <1>3, <1>8 DEF Crash, CheckWrites, AutomationWrites, Tick, vars
<1> QED BY <1>5, <1>6, <1>7, <1>8 DEF Next

(***************************************************************************)
(* The worker is where pc says                                             *)
(***************************************************************************)
(* What requests leave alone: what the worker executes, and the rows it    *)
(* depends on.                                                             *)
LEMMA RequestFrame ==
    ASSUME FollowInv, Requests
    PROVE  /\ UNCHANGED work
           /\ \A b \in Batches :
                batch[b].status = "processing" => batch'[b].status = "processing"
           /\ \A t \in Tasks :
                /\ task[t].status # "absent" => task'[t].status # "absent"
                /\ task[t].status = "deleted" => task'[t].status = "deleted"
                /\ task'[t].state \in {"checking", "error"} =>
                    task[t].state = task'[t].state \/ task'[t].status = "deleted"
<1> DEFINE Goal(t) ==
             /\ task[t].status # "absent" => task'[t].status # "absent"
             /\ task[t].status = "deleted" => task'[t].status = "deleted"
             /\ task'[t].state \in {"checking", "error"} =>
                 task[t].state = task'[t].state \/ task'[t].status = "deleted"
           Same == UNCHANGED work /\ UNCHANGED batch
<1>1. /\ TypeOK
      /\ \A t \in Tasks : task[t] \in Row
      /\ \A b \in Batches : batch[b] \in Batch
      /\ \A c \in Clients : copy[c] \in Row /\ aim[c] \in Tasks \cup {None}
  BY DEF FollowInv, TypeOK
<1> USE DEF work
<1>2. CASE Edits
  BY <1>1, <1>2, EditedRow DEF EditDone, Exists
<1>3. ASSUME NEW t \in Tasks, EditReads(t) \/ \E enabled \in BOOLEAN : CreateTask(t, enabled)
      PROVE  Same /\ \A u \in Tasks : Goal(u)
  BY <1>1, <1>3 DEF TypeOK, EditReads, CreateTask
<1>4. ASSUME NEW t \in Tasks, DeleteTask(t)
      PROVE  Same /\ \A u \in Tasks : Goal(u)
  BY <1>1, <1>4 DEF TypeOK, DeleteTask, Blank
<1>5. ASSUME NEW c \in Clients, SyncAborts(c) \/ \E t \in Tasks : SyncBegin(c, t)
      PROVE  Same /\ \A u \in Tasks : Goal(u)
  BY <1>1, <1>5 DEF TypeOK, SyncBegin, SyncAborts, Answered
<1>6. ASSUME NEW c \in Clients, NEW b \in Batches, SyncCommit(c, b)
      PROVE  /\ UNCHANGED work
             /\ \A a \in Batches : batch[a].status = "processing" => batch'[a] = batch[a]
             /\ \A u \in Tasks : Goal(u)
  <2> DEFINE t == aim[c]
             new == [copy[c] EXCEPT !.state = "sync_queued"]
             row == Flushed(task[t], copy[c], new, {"auto"})
  <2>1. t \in Tasks /\ Exists(t)
    BY <1>1, <1>6 DEF SyncCommit
  <2>2. new \in Row /\ new.status = copy[c].status /\ new.state = "sync_queued"
    BY <1>1 DEF Row, States
  <2>3. row.status = task[t].status /\ row.state \in {"sync_queued", task[t].state}
    <3> HIDE DEF new
    <3> QED BY <1>1, <2>1, <2>2, FlushedRow
  <2>4. task' = [task EXCEPT ![t] = row]
    BY <1>6 DEF SyncCommit
  <2>5. \A u \in Tasks : Goal(u)
    <3> HIDE DEF row
    <3> QED BY <1>1, <2>1, <2>3, <2>4 DEF TypeOK
  <2> QED BY <1>1, <1>6, <2>5 DEF TypeOK, SyncCommit, Answered, NewBatch
<1>7. ASSUME NEW b \in Batches, CancelBatch(b) \/ RetryBatch(b) \/ DeleteBatch(b)
      PROVE  /\ UNCHANGED work
             /\ \A a \in Batches :
                  batch[a].status = "processing" => batch'[a].status = "processing"
             /\ \A u \in Tasks : Goal(u)
  <2>1. UNCHANGED task /\ UNCHANGED work
    BY <1>7 DEF CancelBatch, RetryBatch, DeleteBatch
  <2>2. \A a \in Batches :
          batch[a].status = "processing" => batch'[a].status = "processing"
    BY <1>1, <1>7 DEF TypeOK, Batch, CancelBatch, Cancelled, RetryBatch, DeleteBatch
  <2> QED BY <2>1, <2>2
<1> QED BY <1>2, <1>3, <1>4, <1>5, <1>6, <1>7 DEF Requests

LEMMA PlacedStep ==
    ASSUME FollowInv, [Next]_vars
    PROVE  Placed'
<1>1. TypeOK /\ Placed /\ mem \in Row /\ None \notin Tasks \cup Batches
  BY NoneAssumption DEF FollowInv, TypeOK
<1>2. ASSUME NEW next, Rest(next) PROVE Placed'
  BY <1>2 DEF Rest, Placed, Checked
<1>3. ASSUME UNCHANGED work,
             \A b \in Batches : batch[b].status = "processing" /\ pc \in {"item", "report"} /\ on = b
                                 => batch'[b].status = "processing",
             \A t \in Tasks :
                /\ task[t].status # "absent" => task'[t].status # "absent"
                /\ task[t].status = "deleted" => task'[t].status = "deleted"
                /\ task'[t].state \in {"checking", "error"} =>
                    task[t].state = task'[t].state \/ task'[t].status = "deleted"
      PROVE  Placed'
  <2>1. \A t \in Tasks : Checked(t)' => Checked(t) /\ task[t].status # "absent"
    BY <1>1, <1>3 DEF Checked, work, Placed
  <2>2. \A t \in Tasks : Checked(t)' /\ Exists(t)' =>
          Exists(t) /\ (task'[t].state \in {"checking", "error"} => task[t].state = task'[t].state)
    BY <1>1, <1>3, <2>1 DEF Exists, TypeOK, Row
  <2> QED BY <1>1, <1>3, <2>1, <2>2 DEF work, Placed
<1>4. Requests => Placed'
  BY <1>3, RequestFrame
<1>5. ASSUME NEW t \in Tasks, Tick(t) PROVE Placed'
  BY <1>1, <1>3, <1>5 DEF Tick, TypeOK, Row
<1>6. ASSUME NEW b \in Batches, TickBatch(b) PROVE Placed'
  BY <1>1, <1>3, <1>6 DEF TickBatch, TypeOK, Batch
<1>7. CASE UNCHANGED vars
  BY <1>3, <1>7 DEF vars
<1>8. CASE PassItem \/ PassTask
  BY <1>1, <1>8 DEF PassItem, PassTask, Placed, Checked
<1>9. ASSUME NEW b \in Batches, ClaimItem(b) PROVE Placed'
  <2>1. batch'[b].status = "processing"
    BY <1>1, <1>9, RecycledType DEF ClaimItem, Batch
  <2> QED BY <1>9, <2>1 DEF ClaimItem, Placed, Checked
<1>10. ASSUME NEW b \in Batches, ItemSucceeds(b) \/ ItemFails(b) PROVE Placed'
  BY <1>2, <1>10 DEF ItemSucceeds, ItemFails
<1>11. ASSUME NEW t \in Tasks, ClaimTask(t) PROVE Placed'
  <2>1. /\ mem' = task'[t] /\ mem'.state = "checking"
        /\ mem'.status = "active" /\ mem'.next = "now"
    BY <1>1, <1>11 DEF ClaimTask, Due, TypeOK, Row
  <2>2. pc' = "check" /\ on' = t
    BY <1>11 DEF ClaimTask
  <2> QED BY <2>1, <2>2 DEF Placed, Checked
<1>12. ASSUME NEW t \in Tasks, CheckFinds(t) PROVE Placed'
  <2>1. PICK new \in WithoutCandidate(mem) \cup
                   {[mem EXCEPT !.state = "candidate_found", !.cand = TRUE]},
             rewritten \in SUBSET {"auto", "cand"} : Commits(t, new, rewritten)
    BY <1>12 DEF CheckFinds
  <2>2. /\ new \in Row /\ new.state \in {"idle", "invalid", "candidate_found"}
        /\ new.status = mem.status /\ new.next = mem.next
    BY <1>1, <2>1, Outcomes
  <2>3. /\ Exists(t) /\ Checked(t) /\ mem.status = "active" /\ mem.next = "now"
        /\ mem.state = "checking" /\ task[t] \in Row
    BY <1>1, <1>12 DEF CheckFinds, At, Placed, Checked, TypeOK
  <2>4. Flushed(task[t], mem, new, rewritten).state = new.state
    BY <1>1, <2>2, <2>3, FlushedRow
  <2>5. Flushed(task[t], mem, new, rewritten).status = task[t].status
    BY <1>1, <2>1, <2>2, <2>3, FlushedRow
  <2>6. task'[t].state = new.state /\ task'[t].status = task[t].status /\ mem' = new
    BY <1>1, <2>1, <2>4, <2>5 DEF Commits, TypeOK
  <2>7. pc' = "automate" /\ on' = t
    BY <1>12, <2>1 DEF CheckFinds, At, Commits
  <2> QED BY <2>2, <2>3, <2>6, <2>7 DEF Placed, Checked, Exists
<1>13. ASSUME NEW t \in Tasks, CheckWrites(t) \/ AutomationWrites(t) PROVE Placed'
  <2>1. PICK cand \in {mem.cand, FALSE}, rewritten \in SUBSET {"auto"} :
            Commits(t, [mem EXCEPT !.cand = cand], rewritten)
    <3>1. {"auto"} \in SUBSET {"auto"}
      OBVIOUS
    <3> QED BY <1>13, <3>1 DEF CheckWrites, AutomationWrites
  <2> DEFINE new == [mem EXCEPT !.cand = cand]
  <2>2. /\ new \in Row /\ new.state = mem.state
        /\ new.status = mem.status /\ new.next = mem.next
    BY <1>1 DEF Row
  <2>3. /\ Exists(t) /\ Checked(t) /\ task[t] \in Row /\ UNCHANGED <<pc, on>>
        /\ on = t /\ mem' = new /\ task' = [task EXCEPT ![t] = Flushed(task[t], mem, new, rewritten)]
    BY <1>1, <1>13, <2>1 DEF CheckWrites, AutomationWrites, At, Checked, TypeOK, Commits
  <2>4. /\ Flushed(task[t], mem, new, rewritten).state = task[t].state
        /\ Flushed(task[t], mem, new, rewritten).status = task[t].status
    <3> HIDE DEF new
    <3> QED BY <1>1, <2>2, <2>3, FlushedRow
  <2>5. task'[t].state = task[t].state /\ task'[t].status = task[t].status
    <3> HIDE DEF new
    <3> QED BY <1>1, <2>3, <2>4 DEF TypeOK
  <2> HIDE DEF new
  <2> QED BY <1>1, <2>2, <2>3, <2>5 DEF Placed, Checked, Exists
<1>14. ASSUME NEW t \in Tasks,
              \/ CheckEnds(t) \/ CheckFails(t) \/ CheckLost(t)
              \/ AutomationOff(t) \/ AutomationEnds(t)
              \/ \E b \in Batches : AutomationSyncs(t, b)
       PROVE  Placed'
  BY <1>2, <1>14 DEF CheckEnds, CheckFails, CheckLost, AutomationOff, AutomationEnds,
                    AutomationSyncs, Ends
<1>15. CASE Crash
  BY <1>2, <1>15 DEF Crash
<1>16. ASSUME NEW b \in Batches, ItemReports(b) PROVE Placed'
  BY <1>1, <1>16 DEF ItemReports, Placed, Checked
<1>17. ASSUME NEW t \in Tasks, CheckRaises(t) PROVE Placed'
  <2>1. Checked(t) /\ Exists(t)
    BY <1>17 DEF CheckRaises, At, Checked
  <2>2. task[t].status # "absent" /\ task[t].state # "error"
    BY <1>1, <2>1 DEF Placed
  <2>3. pc' = "failing" /\ on' = t /\ mem' = task[t] /\ UNCHANGED <<task, batch>>
    BY <1>17 DEF CheckRaises, At
  <2> QED BY <2>2, <2>3 DEF Placed, Checked
<1> QED BY <1>4, <1>5, <1>6, <1>7, <1>8, <1>9, <1>10, <1>11, <1>12, <1>13, <1>14, <1>15, <1>16, <1>17
       DEF Next, Works

(***************************************************************************)
(* No task is forgotten                                                    *)
(***************************************************************************)
LEMMA SyncingKept ==
    ASSUME NEW t \in Tasks,
           \A b \in Batches : batch[b].of = t /\ batch[b].status \in Active =>
                              batch'[b].of = t /\ batch'[b].status \in Active
    PROVE  Syncing(t) => Syncing(t)'
BY DEF Syncing

(* A step that leaves the row of t alone and ends no check and no batch of *)
(* it unseen.                                                              *)
LEMMA Bystander ==
    ASSUME NEW t \in Tasks, Exists(t) /\ t \notin dropped => Attended(t),
           task'[t] = task[t],
           Exists(t) /\ t \in dropped => t \in dropped',
           Exists(t) /\ t \notin dropped' =>
                (Checked(t) => Checked(t)') /\ (Syncing(t) => Syncing(t)')
    PROVE  (Exists(t) /\ t \notin dropped => Attended(t))'
BY DEF Attended, Exists

(* The commit that ends a check schedules the next one, whatever requests  *)
(* have changed the row in the meantime: both the state and the time that  *)
(* it writes differ from those the worker has read, or the state was       *)
(* written before.                                                         *)
LEMMA EndedRow ==
    ASSUME FollowInv, NEW t \in Tasks, At(t, "check") \/ At(t, "automate"),
           NEW new \in Row, new.status = "active", new.state # "checking",
           NEW rewritten, rewritten \subseteq {"auto", "cand"},
           Ends(t, new, rewritten)
    PROVE  /\ task'[t].status = task[t].status
           /\ task'[t].state \in {new.state, task[t].state} \ {"checking"}
           /\ new.state # "sync_queued" => task'[t].next = "later"
           /\ \A u \in Tasks \ {t} : task'[u] = task[u]
<1> DEFINE row == Flushed(task[t], mem, Scheduled(new), rewritten)
<1>1. TypeOK /\ mem \in Row /\ task[t] \in Row
  BY DEF FollowInv, TypeOK
<1>2. /\ mem.status = "active" /\ mem.next = "now"
      /\ mem.state = "checking" \/ task[t].state # "checking"
  BY DEF FollowInv, Placed, Checked, At
<1>3. /\ Scheduled(new) \in Row /\ Scheduled(new).status = "active"
      /\ Scheduled(new).state = new.state
      /\ Scheduled(new).next = IF new.state = "sync_queued" THEN "never" ELSE "later"
  BY DEF Scheduled, Row
<1>4. /\ row.status = task[t].status
      /\ row.state \in {new.state, task[t].state} \ {"checking"}
      /\ new.state # "sync_queued" => row.next = "later"
  <2> DEFINE end == Scheduled(new)
  <2> HIDE DEF end
  <2>1. end \in Row /\ end.status = "active" /\ end.state = new.state
        /\ end.next = IF new.state = "sync_queued" THEN "never" ELSE "later"
    BY <1>3 DEF end
  <2>2. /\ Flushed(task[t], mem, end, rewritten).status = task[t].status
        /\ Flushed(task[t], mem, end, rewritten).state \in {new.state, task[t].state} \ {"checking"}
        /\ new.state # "sync_queued" => Flushed(task[t], mem, end, rewritten).next = "later"
    BY <1>1, <1>2, <2>1, FlushedRow
  <2> QED BY <2>2 DEF end
<1>5. task' = [task EXCEPT ![t] = row]
  BY DEF Ends
<1> HIDE DEF row
<1> QED BY <1>1, <1>4, <1>5 DEF TypeOK

(* The commit of a hook or of a failed check: the task is scheduled, also  *)
(* if it was resumed since, unless it is known to be left behind; only a   *)
(* state that it does not change may still wait.                           *)
LEMMA ReportedRow ==
    ASSUME FollowInv, NEW t \in Tasks, mem.status \in {"active", "paused"}, Exists(t),
           NEW new \in Row, new.status = mem.status, new.state \in {"idle", "error"},
           Saves(t, Flushed(task[t], mem, Scheduled(new), Times(Scheduled(new))), Resumed(t))
    PROVE  /\ \A u \in Tasks \ {t} : task'[u] = task[u] /\ (u \in dropped' <=> u \in dropped)
           /\ task'[t].status = task[t].status
           /\ \/ task'[t].state = new.state
              \/ mem.state = new.state /\ task'[t].state = task[t].state
           /\ t \notin dropped' =>
                \/ Settled(task'[t])
                \/ /\ t \notin dropped /\ task'[t].state \in {"checking", "sync_queued"}
                   /\ ~(task'[t].status = "active" /\ task'[t].next = "never")
<1> DEFINE end == Scheduled(new)
           row == Flushed(task[t], mem, end, Times(end))
<1>1. TypeOK /\ mem \in Row /\ task[t] \in Row /\ task[t].status \in {"active", "paused"}
  BY DEF FollowInv, TypeOK, Exists
<1>2. /\ end \in Row /\ end.state = new.state /\ end.status = mem.status
      /\ mem.status = "active" => end.next = "later"
  <2>1. end \in Row
    BY RowUpdates
  <2> QED BY <2>1 DEF Scheduled, Row
<1>3. Saves(t, row, Resumed(t))
  OBVIOUS
<1> HIDE DEF end
<1>4. /\ row.status = task[t].status
      /\ row.state = new.state \/ (mem.state = new.state /\ row.state = task[t].state)
      /\ mem.status = "active" => row.next = "later"
  BY <1>1, <1>2, FlushedRow DEF Times
<1> HIDE DEF row
<1>5. task'[t] = row /\ \A u \in Tasks \ {t} : task'[u] = task[u] /\ (u \in dropped' <=> u \in dropped)
  BY <1>1, <1>3 DEF Saves, TypeOK
<1>6. row.status = "active" /\ row.next = "never" => Resumed(t)
  BY <1>1, <1>4 DEF Resumed
<1>7. t \notin dropped' => Settled(row) \/ (t \notin dropped /\ ~Resumed(t))
  BY <1>3 DEF Saves
<1>8. Settled(row) \/ row.state \in {"checking", "sync_queued"} \/ (row.status = "active" /\ row.next = "never")
  BY DEF Settled
<1> QED BY <1>4, <1>5, <1>6, <1>7, <1>8

LEMMA SettledRow ==
    ASSUME NEW t \in Tasks, Settled(task'[t])
    PROVE  Attended(t)'
BY DEF Settled, Attended

LEMMA EndedCheck ==
    ASSUME FollowInv, NEW t \in Tasks, At(t, "check") \/ At(t, "automate"),
           NEW new \in Row, new.status = "active", new.state # "checking",
           NEW rewritten, rewritten \subseteq {"auto", "cand"},
           Ends(t, new, rewritten), UNCHANGED dropped,
           \A u \in Tasks : Syncing(u) => Syncing(u)',
           new.state = "sync_queued" => Syncing(t)'
    PROVE  NotForgotten'
<1>1. /\ task'[t].status = task[t].status
      /\ task'[t].state \in {new.state, task[t].state} \ {"checking"}
      /\ new.state # "sync_queued" => task'[t].next = "later"
      /\ \A u \in Tasks \ {t} : task'[u] = task[u]
  BY EndedRow
<1>2. \A u \in Tasks : Exists(u) /\ u \notin dropped => Attended(u)
  BY DEF FollowInv, NotForgotten
<1>3. (Exists(t) /\ t \notin dropped => Attended(t))'
  BY <1>1, <1>2 DEF Attended, Exists
<1>4. ASSUME NEW u \in Tasks \ {t} PROVE (Exists(u) /\ u \notin dropped => Attended(u))'
  BY <1>1, <1>2, Bystander DEF Checked, At
<1> QED BY <1>3, <1>4 DEF NotForgotten

(* The worker's steps. *)
LEMMA AttendedWorks ==
    ASSUME FollowInv, Works
    PROVE  NotForgotten'
<1> DEFINE Good(t) == Exists(t) /\ t \notin dropped => Attended(t)
<1>1. /\ TypeOK /\ Placed /\ mem \in Row /\ \A t \in Tasks : task[t] \in Row /\ Good(t)
      /\ Recycled \in [Batches -> Batch]
  BY RecycledType DEF FollowInv, TypeOK, NotForgotten
<1>2. ASSUME NEW t \in Tasks, Exists(t), t \notin Unreported,
             \A b \in Batches : /\ batch'[b].of = Recycled[b].of
                                /\ Recycled[b].status \in Active => batch'[b].status \in Active
      PROVE  Syncing(t) => Syncing(t)'
  <2>1. ASSUME NEW b \in Batches, batch[b].of = t, batch[b].status \in Active
        PROVE  batch'[b].of = t /\ batch'[b].status \in Active
    BY <1>1, <1>2, <2>1, RecycledRows DEF Unreported, Active
  <2> QED BY <2>1, SyncingKept
<1>3. CASE PassItem
  <2>1. ASSUME NEW t \in Tasks PROVE Good(t)'
    <3>1. task'[t] = task[t] /\ dropped' = dropped \cup Unreported /\ (Checked(t) => Checked(t)')
      BY <1>3 DEF PassItem, Checked
    <3>2. Exists(t) /\ t \notin dropped' => (Syncing(t) => Syncing(t)')
      BY <1>2, <1>3, <3>1 DEF PassItem
    <3> QED BY <1>1, <3>1, <3>2, Bystander
  <2> QED BY <2>1 DEF NotForgotten
<1>4. ASSUME NEW c \in Batches, ClaimItem(c) PROVE NotForgotten'
  <2>1. \A b \in Batches : /\ batch'[b].of = Recycled[b].of
                           /\ Recycled[b].status \in Active => batch'[b].status \in Active
    BY <1>1, <1>4 DEF ClaimItem, Batch, Active
  <2>2. ASSUME NEW t \in Tasks PROVE Good(t)'
    <3>1. task'[t] = task[t] /\ dropped' = dropped \cup Unreported /\ ~Checked(t)
      BY <1>4 DEF ClaimItem, Checked
    <3>2. Exists(t) /\ t \notin dropped' => (Syncing(t) => Syncing(t)')
      BY <1>2, <2>1, <3>1
    <3> QED BY <1>1, <3>1, <3>2, Bystander
  <2> QED BY <2>2 DEF NotForgotten
<1>5. ASSUME NEW b \in Batches, NEW new \in Row, pc = "report", on = b, new.status = mem.status,
             new.state \in {"idle", "error"}, Report(batch[b].of, new),
             \A c \in Batches \ {b} : batch'[c] = batch[c]
      PROVE  NotForgotten'
  <2>1. PICK t \in Tasks : t = batch[b].of
    BY <1>5, Places
  <2>2. CASE LeaveBehind(t) /\ UNCHANGED task
    <3>1. ASSUME NEW u \in Tasks \ {t} PROVE Good(u)'
      <4>1. Syncing(u) => Syncing(u)'
        BY <1>5, <2>1, SyncingKept
      <4>2. ~Checked(u) /\ (u \in dropped' <=> u \in dropped)
        BY <1>5, <2>2 DEF Checked, LeaveBehind
      <4> QED BY <1>1, <2>2, <4>1, <4>2, Bystander
    <3>2. Good(t)'
      BY <2>2 DEF LeaveBehind, Exists
    <3> QED BY <3>1, <3>2 DEF NotForgotten
  <2>3. CASE /\ Exists(t) /\ mem.status \in {"active", "paused"}
             /\ Saves(t, Flushed(task[t], mem, Scheduled(new), Times(Scheduled(new))), Resumed(t))
    <3>1. /\ \A u \in Tasks \ {t} : task'[u] = task[u] /\ (u \in dropped' <=> u \in dropped)
          /\ task'[t].status = task[t].status
          /\ \/ task'[t].state = new.state
             \/ mem.state = new.state /\ task'[t].state = task[t].state
          /\ t \notin dropped' =>
                \/ Settled(task'[t])
                \/ /\ t \notin dropped /\ task'[t].state \in {"checking", "sync_queued"}
                   /\ ~(task'[t].status = "active" /\ task'[t].next = "never")
      BY <1>5, <2>3, ReportedRow
    <3>2. ASSUME NEW u \in Tasks \ {t} PROVE Good(u)'
      <4>1. Syncing(u) => Syncing(u)'
        BY <1>5, <2>1, SyncingKept
      <4>2. ~Checked(u)
        BY <1>5 DEF Checked
      <4> QED BY <1>1, <3>1, <4>1, <4>2, Bystander
    <3>3. ASSUME t \notin dropped', ~Settled(task'[t]) PROVE Attended(t)'
      <4>1. /\ t \notin dropped /\ mem.state = new.state /\ task'[t].state = task[t].state
            /\ task[t].state \in {"checking", "sync_queued"}
            /\ ~(task'[t].status = "active" /\ task'[t].next = "never")
        BY <1>5, <3>1, <3>3
      <4>2. task[t].state = "sync_queued"
        BY <1>1, <1>5, <2>3, <4>1 DEF Attended, Checked
      <4>3. PICK c \in Batches \ {b} : batch[c].of = t /\ batch[c].status \in Active
        BY <1>5, <2>1, <2>3, <4>1, <4>2 DEF FollowInv, SyncsItself
      <4>4. Syncing(t)'
        BY <1>5, <4>3 DEF Syncing
      <4> QED BY <4>1, <4>2, <4>4 DEF Attended
    <3>4. Good(t)'
      BY <3>3, SettledRow
    <3> QED BY <3>2, <3>4 DEF NotForgotten
  <2> QED BY <1>5, <2>1, <2>2, <2>3 DEF Report
<1>6. ASSUME NEW b \in Batches, ItemSucceeds(b) PROVE NotForgotten'
  <2> DEFINE new == [mem EXCEPT !.state = "idle", !.cand = FALSE]
  <2>1. new \in Row /\ new.state = "idle" /\ new.status = mem.status
    BY <1>1 DEF Row, States
  <2>2. pc = "report" /\ on = b /\ Report(batch[b].of, new)
    BY <1>6 DEF ItemSucceeds
  <2>3. \A c \in Batches \ {b} : batch'[c] = batch[c]
    BY <1>1, <1>6 DEF ItemSucceeds, TypeOK
  <2> HIDE DEF new
  <2> QED BY <1>5, <2>1, <2>2, <2>3
<1>7. ASSUME NEW b \in Batches, ItemFails(b) PROVE NotForgotten'
  <2> DEFINE new == [mem EXCEPT !.state = "error"]
  <2>1. new \in Row /\ new.state = "error" /\ new.status = mem.status
    BY <1>1 DEF Row, States
  <2>2. pc = "report" /\ on = b /\ Report(batch[b].of, new)
    BY <1>7 DEF ItemFails
  <2>3. \A c \in Batches \ {b} : batch'[c] = batch[c]
    BY <1>1, <1>7 DEF ItemFails, TypeOK
  <2> HIDE DEF new
  <2> QED BY <1>5, <2>1, <2>2, <2>3
<1>8. ASSUME UNCHANGED batch, NEW t \in Tasks,
             \A u \in Tasks \ {t} :
                task'[u] = task[u] /\ (u \in dropped' <=> u \in dropped) /\ ~Checked(u),
             Good(t)'
      PROVE  NotForgotten'
  <2>1. ASSUME NEW u \in Tasks \ {t} PROVE Good(u)'
    <3>1. Syncing(u) => Syncing(u)'
      BY <1>8 DEF Syncing
    <3> QED BY <1>1, <1>8, <3>1, Bystander
  <2> QED BY <1>8, <2>1 DEF NotForgotten
<1>9. ASSUME NEW t \in Tasks, ClaimTask(t) PROVE NotForgotten'
  <2>1. task'[t].state = "checking" /\ task'[t].next = "now" /\ Checked(t)'
    BY <1>1, <1>9 DEF ClaimTask, Due, TypeOK, Row, Checked
  <2>2. Good(t)'
    BY <2>1 DEF Attended
  <2> QED BY <1>1, <1>8, <1>9, <2>2 DEF ClaimTask, Checked, TypeOK
<1>10. CASE PassTask
  <2>1. ASSUME NEW t \in Tasks PROVE Good(t)'
    <3>1. Syncing(t) => Syncing(t)'
      BY <1>10 DEF PassTask, Syncing
    <3> QED BY <1>1, <1>10, <3>1, Bystander DEF PassTask, Checked
  <2> QED BY <2>1 DEF NotForgotten
<1>11. ASSUME NEW t \in Tasks, CheckFinds(t) PROVE NotForgotten'
  <2>1. PICK new \in WithoutCandidate(mem) \cup
                   {[mem EXCEPT !.state = "candidate_found", !.cand = TRUE]},
             rewritten \in SUBSET {"auto", "cand"} : Commits(t, new, rewritten)
    BY <1>11 DEF CheckFinds
  <2>2. /\ new \in Row /\ new.state \in {"idle", "invalid", "candidate_found"}
        /\ new.status = mem.status /\ new.next = mem.next
    BY <1>1, <2>1, Outcomes
  <2>3. Exists(t) /\ Checked(t) /\ mem.state = "checking" /\ pc' = "automate" /\ on' = t
    BY <1>1, <1>11, <2>1 DEF CheckFinds, At, Placed, Checked, Commits
  <2>4. Flushed(task[t], mem, new, rewritten).state = new.state
    BY <1>1, <2>2, <2>3, FlushedRow
  <2>5. task'[t].state = new.state
    BY <1>1, <2>1, <2>4 DEF Commits, TypeOK
  <2>6. Good(t)'
    BY <2>2, <2>3, <2>5 DEF Attended, Checked
  <2> QED BY <1>1, <1>8, <1>11, <2>1, <2>6 DEF CheckFinds, At, Commits, Checked, TypeOK
<1>12. ASSUME NEW t \in Tasks, CheckFails(t) PROVE NotForgotten'
  <2> DEFINE new == [mem EXCEPT !.state = "error"]
  <2>1. new \in Row /\ new.state = "error" /\ new.status = mem.status
    BY <1>1 DEF Row, States
  <2>2. /\ pc = "failing" /\ on = t /\ Exists(t) /\ Checked(t) /\ UNCHANGED batch
        /\ Saves(t, Flushed(task[t], mem, Scheduled(new), Times(Scheduled(new))), Resumed(t))
    BY <1>12 DEF CheckFails, At, Checked
  <2>3. mem.status \in {"active", "paused"} /\ mem.state # "error"
    BY <1>1, <2>2 DEF FollowInv, Read, Placed
  <2> HIDE DEF new
  <2>4. /\ \A u \in Tasks \ {t} : task'[u] = task[u] /\ (u \in dropped' <=> u \in dropped)
        /\ task'[t].state = "error"
        /\ t \notin dropped' => Settled(task'[t])
    BY <2>1, <2>2, <2>3, ReportedRow
  <2>5. Good(t)'
    BY <2>4, SettledRow
  <2> QED BY <1>8, <2>2, <2>4, <2>5 DEF Checked
<1>13. ASSUME NEW t \in Tasks, CheckLost(t) PROVE NotForgotten'
  BY <1>1, <1>8, <1>13 DEF CheckLost, Checked, Exists, TypeOK
<1>14. ASSUME NEW t \in Tasks, NEW new \in Row, NEW rewritten, At(t, "check") \/ At(t, "automate"),
              new.status = mem.status, new.state \notin {"checking", "sync_queued"},
              rewritten \subseteq {"auto", "cand"},
              Ends(t, new, rewritten), UNCHANGED <<batch, dropped>>
       PROVE  NotForgotten'
  <2>1. Checked(t) /\ Exists(t) /\ mem.status = "active"
    BY <1>1, <1>14 DEF At, Checked, Placed
  <2>2. \A u \in Tasks : Syncing(u) => Syncing(u)'
    BY <1>14 DEF Syncing
  <2> QED BY <1>14, <2>1, <2>2, EndedCheck
<1>15. ASSUME NEW t \in Tasks, CheckEnds(t) PROVE NotForgotten'
  <2>1. PICK new \in WithoutCandidate(mem) : Ends(t, new, {"auto"})
    BY <1>15 DEF CheckEnds
  <2>2. /\ new \in Row /\ new.status = mem.status
        /\ new.state \notin {"checking", "sync_queued"}
    BY <1>1, <2>1, Outcomes
  <2> QED BY <1>14, <1>15, <2>1, <2>2 DEF CheckEnds
<1>16. ASSUME NEW t \in Tasks, At(t, "automate")
       PROVE  mem.state \in {"idle", "invalid", "candidate_found"}
  BY <1>1, <1>16 DEF At, Placed, Checked
<1>17. ASSUME NEW t \in Tasks, AutomationOff(t) PROVE NotForgotten'
  BY <1>1, <1>14, <1>16, <1>17 DEF AutomationOff
<1>18. ASSUME NEW t \in Tasks, AutomationEnds(t) PROVE NotForgotten'
  <2>1. PICK new \in {mem} \cup WithoutCandidate(mem), enabled \in BOOLEAN :
            Ends(t, [new EXCEPT !.auto = enabled], {"auto"})
    BY <1>18 DEF AutomationEnds
  <2>2. /\ new \in Row /\ new.status = mem.status
        /\ new.state \notin {"checking", "sync_queued"}
    BY <1>1, <1>16, <1>18, <2>1, Outcomes DEF AutomationEnds
  <2> DEFINE end == [new EXCEPT !.auto = enabled]
  <2>3. end \in Row /\ end.status = new.status /\ end.state = new.state
    BY <2>2 DEF Row
  <2>4. Ends(t, end, {"auto"})
    BY <2>1
  <2> HIDE DEF end
  <2> QED BY <1>14, <1>18, <2>2, <2>3, <2>4 DEF AutomationEnds
<1>19. ASSUME NEW t \in Tasks, NEW b \in Batches, AutomationSyncs(t, b) PROVE NotForgotten'
  <2>1. PICK cand \in {mem.cand, FALSE} :
            Ends(t, [mem EXCEPT !.state = "sync_queued", !.cand = cand], {"auto"})
    BY <1>19 DEF AutomationSyncs
  <2> DEFINE end == [mem EXCEPT !.state = "sync_queued", !.cand = cand]
  <2>2. end \in Row /\ end.status = mem.status /\ end.state = "sync_queued"
    BY <1>1 DEF Row, States
  <2>3. At(t, "automate") /\ mem.status = "active"
    BY <1>1, <1>19 DEF AutomationSyncs, At, Checked, Placed
  <2>4. Syncing(t)'
    BY <1>1, <1>19 DEF AutomationSyncs, NewBatch, NoBatch, Syncing, TypeOK, Active
  <2>5. \A u \in Tasks : Syncing(u) => Syncing(u)'
    BY <1>1, <1>19, SyncingKept DEF AutomationSyncs, NewBatch, TypeOK, Active
  <2>6. Ends(t, end, {"auto"}) /\ UNCHANGED dropped
    BY <1>19, <2>1 DEF AutomationSyncs
  <2> HIDE DEF end
  <2> QED BY <2>2, <2>3, <2>4, <2>5, <2>6, EndedCheck
<1>20. ASSUME NEW t \in Tasks, CheckRaises(t) PROVE NotForgotten'
  <2>1. Checked(t) /\ Checked(t)' /\ UNCHANGED <<task, batch, dropped, on>>
    BY <1>20 DEF CheckRaises, At, Checked
  <2>2. ASSUME NEW u \in Tasks PROVE Good(u)'
    <3>1. (Checked(u) => Checked(u)') /\ (Syncing(u) => Syncing(u)')
      BY <2>1 DEF Checked, Syncing
    <3> QED BY <1>1, <2>1, <3>1, Bystander
  <2> QED BY <2>2 DEF NotForgotten
<1>21. ASSUME NEW b \in Batches, ItemReports(b) PROVE NotForgotten'
  <2>1. ASSUME NEW u \in Tasks PROVE Good(u)'
    <3>1. (Checked(u) => Checked(u)') /\ (Syncing(u) => Syncing(u)')
      BY <1>21 DEF ItemReports, Checked, Syncing
    <3> QED BY <1>1, <1>21, <3>1, Bystander DEF ItemReports
  <2> QED BY <2>1 DEF NotForgotten
<1> QED BY <1>3, <1>4, <1>6, <1>7, <1>9, <1>10, <1>11, <1>12, <1>13, <1>15, <1>17,
          <1>18, <1>19, <1>20, <1>21 DEF Works

(* The requests. *)
LEMMA AttendedRequests ==
    ASSUME FollowInv, Requests
    PROVE  NotForgotten'
<1> DEFINE Good(t) == Exists(t) /\ t \notin dropped => Attended(t)
<1>1. /\ TypeOK
      /\ \A t \in Tasks : task[t] \in Row /\ Good(t)
      /\ \A b \in Batches : batch[b] \in Batch
      /\ \A c \in Clients : copy[c] \in Row /\ aim[c] \in Tasks \cup {None}
  BY DEF FollowInv, TypeOK, NotForgotten
<1>2. \A t \in Tasks : Checked(t) => Checked(t)'
  BY RequestFrame DEF Checked, work
<1>3. ASSUME UNCHANGED batch PROVE \A t \in Tasks : Syncing(t) => Syncing(t)'
  BY <1>3 DEF Syncing
<1>4. ASSUME NEW t \in Tasks, UNCHANGED batch, Good(t)',
             \A u \in Tasks \ {t} : task'[u] = task[u] /\ (u \in dropped' <=> u \in dropped)
      PROVE  NotForgotten'
  <2>1. ASSUME NEW u \in Tasks \ {t} PROVE Good(u)'
    BY <1>1, <1>2, <1>3, <1>4, Bystander
  <2> QED BY <1>4, <2>1 DEF NotForgotten
<1>5. CASE Edits
  <2>1. PICK t \in Tasks : t = edit
    BY <1>5, EditedRow
  <2>2. /\ Exists(t) /\ EditDone
        /\ \A u \in Tasks \ {t} : task'[u] = task[u] /\ (u \in dropped' <=> u \in dropped)
        /\ task'[t].state \in {task[t].state, "queued", "idle", "invalid"}
        /\ t \notin dropped' =>
             \/ Settled(task'[t])
             \/ /\ t \notin dropped
                /\ task'[t].status = "active" /\ task'[t].next = "never" =>
                     \/ Checked(t) \/ Syncing(t)
                     \/ task[t].status = "active" /\ task[t].next = "never"
    BY <1>5, <2>1, EditedRow
  <2>3. UNCHANGED batch
    BY <2>2 DEF EditDone
  <2>4. (Checked(t) => Checked(t)') /\ (Syncing(t) => Syncing(t)')
    BY <1>2, <1>3, <2>3
  <2>5. ASSUME t \notin dropped', ~Settled(task'[t]) PROVE Attended(t)'
    <3>1. Attended(t)
      BY <1>1, <2>2, <2>5
    <3> QED BY <2>2, <2>4, <2>5, <3>1 DEF Attended
  <2>6. Good(t)'
    BY <2>5, SettledRow
  <2> QED BY <1>4, <2>2, <2>3, <2>6
<1>8. ASSUME NEW t \in Tasks, NEW enabled \in BOOLEAN, CreateTask(t, enabled)
      PROVE  NotForgotten'
  <2>1. /\ task'[t].state = "queued" /\ task'[t].next = "now" /\ UNCHANGED <<batch, dropped>>
        /\ \A u \in Tasks \ {t} : task'[u] = task[u]
    BY <1>1, <1>8 DEF CreateTask, TypeOK
  <2>2. Good(t)'
    BY <2>1 DEF Attended
  <2> QED BY <1>4, <2>1, <2>2
<1>9. ASSUME NEW t \in Tasks, EditReads(t) PROVE NotForgotten'
  <2>1. ASSUME NEW u \in Tasks PROVE Good(u)'
    <3>1. UNCHANGED <<task, batch, dropped>>
      BY <1>9 DEF EditReads
    <3> QED BY <1>1, <1>2, <1>3, <3>1, Bystander
  <2> QED BY <2>1 DEF NotForgotten
<1>12. ASSUME NEW t \in Tasks, DeleteTask(t) PROVE NotForgotten'
  <2>1. task'[t] = [Blank EXCEPT !.status = "deleted"]
    BY <1>1, <1>12 DEF DeleteTask, TypeOK
  <2>2. task'[t].status = "deleted"
    BY <2>1 DEF Blank
  <2>3. Good(t)'
    BY <2>2 DEF Exists
  <2> QED BY <1>1, <1>4, <1>12, <2>3 DEF DeleteTask, TypeOK
<1>13. ASSUME NEW c \in Clients, SyncAborts(c) \/ \E t \in Tasks : SyncBegin(c, t)
       PROVE  NotForgotten'
  <2>1. UNCHANGED <<task, batch, dropped>>
    BY <1>13 DEF SyncAborts, SyncBegin, Answered
  <2>2. ASSUME NEW t \in Tasks PROVE Good(t)'
    BY <1>1, <1>2, <1>3, <2>1, Bystander
  <2> QED BY <2>2 DEF NotForgotten
<1>14. ASSUME NEW c \in Clients, NEW b \in Batches, SyncCommit(c, b) PROVE NotForgotten'
  <2>1. PICK t \in Tasks : t = aim[c]
    BY <1>1, <1>14 DEF SyncCommit
  <2> DEFINE new == [copy[c] EXCEPT !.state = "sync_queued"]
             row == Flushed(task[t], copy[c], new, {"auto"})
  <2>2. /\ new \in Row /\ new.status = copy[c].status
        /\ new.next = copy[c].next /\ new.state = "sync_queued"
    BY <1>1 DEF Row, States
  <2>3. /\ row.status = task[t].status /\ row.next = task[t].next
        /\ row.state \in {"sync_queued", task[t].state}
    <3> HIDE DEF new
    <3> QED BY <1>1, <2>2, FlushedRow
  <2>4. task' = [task EXCEPT ![t] = row] /\ Exists(t) /\ NewBatch(b, t) /\ UNCHANGED dropped
    BY <1>14, <2>1 DEF SyncCommit, Answered
  <2>5. Syncing(t)'
    BY <1>1, <2>4 DEF NewBatch, NoBatch, Syncing, TypeOK, Active
  <2>6. \A u \in Tasks : Syncing(u) => Syncing(u)'
    BY <1>1, <2>4, SyncingKept DEF NewBatch, TypeOK, Active
  <2> HIDE DEF row
  <2>7. task'[t] = row /\ \A u \in Tasks \ {t} : task'[u] = task[u]
    BY <1>1, <2>4 DEF TypeOK
  <2>8. Good(t)'
    BY <1>1, <1>2, <2>3, <2>4, <2>5, <2>7 DEF Attended
  <2>9. ASSUME NEW u \in Tasks \ {t} PROVE Good(u)'
    BY <1>1, <1>2, <2>4, <2>6, <2>7, Bystander
  <2> QED BY <2>8, <2>9 DEF NotForgotten
<1>15. ASSUME NEW b \in Batches, CancelBatch(b) PROVE NotForgotten'
  <2>1. PICK t \in Tasks : t = batch[b].of
    BY <1>15, Places DEF CancelBatch
  <2>2. UNCHANGED task
    BY <1>15 DEF CancelBatch
  <2>3. \A a \in Batches : batch'[a].of = batch[a].of /\ (a # b => batch'[a] = batch[a])
    BY <1>1, <1>15 DEF CancelBatch, Cancelled, TypeOK, Batch
  <2>4. ASSUME NEW u \in Tasks \ {t} PROVE Good(u)'
    <3>1. Syncing(u) => Syncing(u)'
      BY <2>1, <2>3, SyncingKept
    <3>2. u \in dropped' <=> u \in dropped
      BY <1>15, <2>1 DEF CancelBatch, LeaveBehind
    <3> QED BY <1>1, <1>2, <2>2, <3>1, <3>2, Bystander
  <2>5. Good(t)'
    <3>1. CASE batch[b].status \in {"processing", "stale"}
      <4>1. batch'[b].status = batch[b].status /\ UNCHANGED dropped
        BY <1>1, <1>15, <3>1 DEF CancelBatch, Cancelled, TypeOK, Batch
      <4>2. Syncing(t) => Syncing(t)'
        BY <2>3, <4>1, SyncingKept
      <4> QED BY <1>1, <1>2, <2>2, <4>1, <4>2, Bystander
    <3>2. CASE batch[b].status \notin {"processing", "stale"}
      <4>1. Exists(t) => t \in dropped'
        BY <1>15, <2>1, <3>2 DEF CancelBatch, LeaveBehind
      <4> QED BY <2>2, <4>1 DEF Exists
    <3> QED BY <3>1, <3>2
  <2> QED BY <2>4, <2>5 DEF NotForgotten
<1>16. ASSUME NEW b \in Batches, RetryBatch(b) \/ DeleteBatch(b) PROVE NotForgotten'
  <2>1. ASSUME NEW t \in Tasks PROVE Good(t)'
    <3>1. Syncing(t) => Syncing(t)'
      BY <1>1, <1>16, SyncingKept DEF RetryBatch, DeleteBatch, TypeOK, Batch, Active
    <3> QED BY <1>1, <1>2, <1>16, <3>1, Bystander DEF RetryBatch, DeleteBatch
  <2> QED BY <2>1 DEF NotForgotten
<1> QED BY <1>5, <1>8, <1>9, <1>12, <1>13, <1>14, <1>15, <1>16 DEF Requests

(***************************************************************************)
(* What is read is still there                                             *)
(***************************************************************************)
(* Only requests change the status of a row.                               *)
LEMMA StatusKept ==
    ASSUME FollowInv, [Next]_vars, ~Requests
    PROVE  UNCHANGED <<edit, seen>> /\ \A t \in Tasks : task'[t].status = task[t].status
<1>1. /\ TypeOK /\ Placed /\ mem \in Row /\ \A t \in Tasks : task[t] \in Row
  BY DEF FollowInv, TypeOK
<1> DEFINE Kept == \A t \in Tasks : task'[t].status = task[t].status
<1>2. ASSUME NEW t \in Tasks, NEW new \in Row, NEW rewritten, rewritten \subseteq {"auto", "cand"},
             new.status = mem.status, Commits(t, new, rewritten)
      PROVE  Kept
  <2>1. Flushed(task[t], mem, new, rewritten).status = task[t].status
    BY <1>1, <1>2, FlushedRow
  <2> QED BY <1>1, <1>2, <2>1 DEF Commits, TypeOK
<1>3. ASSUME NEW t \in Tasks, NEW new \in Row, NEW rewritten, rewritten \subseteq {"auto", "cand"},
             new.status = mem.status, Ends(t, new, rewritten)
      PROVE  Kept
  <2>1. Scheduled(new) \in Row /\ Scheduled(new).status = mem.status
    <3>1. Scheduled(new) \in Row
      BY <1>3, RowUpdates
    <3> QED BY <1>3, <3>1 DEF Scheduled, Row
  <2>2. Flushed(task[t], mem, Scheduled(new), rewritten).status = task[t].status
    BY <1>1, <1>3, <2>1, FlushedRow
  <2> QED BY <1>1, <1>3, <2>2 DEF Ends, TypeOK
<1>4. ASSUME NEW t \in Tasks, NEW new \in Row, new.status = mem.status, NEW overtaken,
             Saves(t, Flushed(task[t], mem, Scheduled(new), Times(Scheduled(new))), overtaken)
      PROVE  Kept
  <2>1. Scheduled(new) \in Row /\ Scheduled(new).status = mem.status
    <3>1. Scheduled(new) \in Row
      BY <1>4, RowUpdates
    <3> QED BY <1>4, <3>1 DEF Scheduled, Row
  <2>2. Flushed(task[t], mem, Scheduled(new), Times(Scheduled(new))).status = task[t].status
    BY <1>1, <2>1, FlushedRow DEF Times
  <2> QED BY <1>1, <1>4, <2>2 DEF Saves, TypeOK
<1>5. ASSUME NEW t \in Tasks, NEW new \in Row, new.status = mem.status, Report(t, new)
      PROVE  Kept
  BY <1>4, <1>5 DEF Report
<1>6. Works => Kept
  <2>1. ASSUME NEW b \in Batches, ItemSucceeds(b) PROVE Kept
    <3> DEFINE new == [mem EXCEPT !.state = "idle", !.cand = FALSE]
    <3>1. new \in Row /\ new.status = mem.status /\ batch[b].of \in Tasks
      BY <1>1, <2>1, Places DEF ItemSucceeds, Row, States
    <3>2. Report(batch[b].of, new)
      BY <2>1 DEF ItemSucceeds
    <3> HIDE DEF new
    <3> QED BY <1>5, <3>1, <3>2
  <2>2. ASSUME NEW b \in Batches, ItemFails(b) PROVE Kept
    <3> DEFINE new == [mem EXCEPT !.state = "error"]
    <3>1. new \in Row /\ new.status = mem.status /\ batch[b].of \in Tasks
      BY <1>1, <2>2, Places DEF ItemFails, Row, States
    <3>2. Report(batch[b].of, new)
      BY <2>2 DEF ItemFails
    <3> HIDE DEF new
    <3> QED BY <1>5, <3>1, <3>2
  <2>3. ASSUME NEW t \in Tasks, CheckFinds(t) PROVE Kept
    <3>1. PICK new \in WithoutCandidate(mem) \cup
                     {[mem EXCEPT !.state = "candidate_found", !.cand = TRUE]},
               rewritten \in SUBSET {"auto", "cand"} : Commits(t, new, rewritten)
      BY <2>3 DEF CheckFinds
    <3>2. new \in Row /\ new.status = mem.status
      BY <1>1, <3>1, Outcomes
    <3> QED BY <1>2, <3>1, <3>2
  <2>4. ASSUME NEW t \in Tasks, CheckEnds(t) PROVE Kept
    <3>1. PICK new \in WithoutCandidate(mem) : Ends(t, new, {"auto"})
      BY <2>4 DEF CheckEnds
    <3>2. new \in Row /\ new.status = mem.status
      BY <1>1, <3>1, Outcomes
    <3> QED BY <1>3, <3>1, <3>2
  <2>5. ASSUME NEW t \in Tasks, AutomationOff(t) PROVE Kept
    BY <1>1, <1>3, <2>5 DEF AutomationOff
  <2>6. ASSUME NEW t \in Tasks, AutomationEnds(t) PROVE Kept
    <3>1. PICK new \in {mem} \cup WithoutCandidate(mem), enabled \in BOOLEAN :
              Ends(t, [new EXCEPT !.auto = enabled], {"auto"})
      BY <2>6 DEF AutomationEnds
    <3>2. new \in Row /\ new.status = mem.status
      BY <1>1, <3>1, Outcomes
    <3> DEFINE end == [new EXCEPT !.auto = enabled]
    <3>3. end \in Row /\ end.status = mem.status /\ Ends(t, end, {"auto"})
      BY <3>1, <3>2 DEF Row
    <3> HIDE DEF end
    <3> QED BY <1>3, <3>3
  <2>7. ASSUME NEW t \in Tasks, NEW b \in Batches, AutomationSyncs(t, b) PROVE Kept
    <3>1. PICK cand \in {mem.cand, FALSE} :
              Ends(t, [mem EXCEPT !.state = "sync_queued", !.cand = cand], {"auto"})
      BY <2>7 DEF AutomationSyncs
    <3> DEFINE end == [mem EXCEPT !.state = "sync_queued", !.cand = cand]
    <3>2. end \in Row /\ end.status = mem.status /\ Ends(t, end, {"auto"})
      BY <1>1, <3>1 DEF Row, States
    <3> HIDE DEF end
    <3> QED BY <1>3, <3>2
  <2>8. ASSUME NEW t \in Tasks, CheckFails(t) PROVE Kept
    <3> DEFINE new == [mem EXCEPT !.state = "error"]
    <3>1. new \in Row /\ new.status = mem.status
      BY <1>1 DEF Row, States
    <3>2. Saves(t, Flushed(task[t], mem, Scheduled(new), Times(Scheduled(new))), Resumed(t))
      BY <2>8 DEF CheckFails
    <3> HIDE DEF new
    <3> QED BY <1>4, <3>1, <3>2
  <2>9. ASSUME NEW t \in Tasks, ClaimTask(t) PROVE Kept
    BY <1>1, <2>9 DEF ClaimTask, TypeOK, Row
  <2>10. ASSUME \/ PassItem \/ PassTask
                \/ \E b \in Batches : ClaimItem(b) \/ ItemReports(b)
                \/ \E t \in Tasks : CheckRaises(t) \/ CheckLost(t)
         PROVE  Kept
    BY <2>10 DEF PassItem, PassTask, ClaimItem, ItemReports, CheckRaises, CheckLost
  <2> QED BY <2>1, <2>2, <2>3, <2>4, <2>5, <2>6, <2>7, <2>8, <2>9, <2>10 DEF Works
<1>7. Works => UNCHANGED <<edit, seen>>
  BY DEF Works, PassItem, PassTask, ClaimItem, ItemReports, ItemSucceeds, ItemFails, ClaimTask,
         CheckFinds, CheckEnds, CheckRaises, CheckFails, CheckLost, AutomationOff, AutomationEnds,
         AutomationSyncs, api
<1>8. ASSUME NEW t \in Tasks, CheckWrites(t) \/ AutomationWrites(t) PROVE Kept
  <2>1. PICK cand \in {mem.cand, FALSE}, rewritten \in SUBSET {"auto"} :
            Commits(t, [mem EXCEPT !.cand = cand], rewritten)
    <3>1. {"auto"} \in SUBSET {"auto"}
      OBVIOUS
    <3> QED BY <1>8, <3>1 DEF CheckWrites, AutomationWrites
  <2> DEFINE new == [mem EXCEPT !.cand = cand]
  <2>2. new \in Row /\ new.status = mem.status /\ Commits(t, new, rewritten)
    BY <1>1, <2>1 DEF Row
  <2> HIDE DEF new
  <2> QED BY <1>2, <2>2
<1>9. ASSUME \/ Crash \/ UNCHANGED vars \/ \E b \in Batches : TickBatch(b)
             \/ \E t \in Tasks : Tick(t)
      PROVE  Kept /\ UNCHANGED <<edit, seen>>
  BY <1>1, <1>9 DEF Crash, vars, TickBatch, Tick, api, TypeOK, Row
<1>10. ASSUME NEW t \in Tasks, CheckWrites(t) \/ AutomationWrites(t) PROVE UNCHANGED <<edit, seen>>
  BY <1>10 DEF CheckWrites, AutomationWrites, api
<1> QED BY <1>6, <1>7, <1>8, <1>9, <1>10 DEF Next

LEMMA ReadStep ==
    ASSUME FollowInv, [Next]_vars
    PROVE  Read'
<1>1. /\ TypeOK /\ Read /\ \A t \in Tasks : task[t] \in Row
      /\ pc = "failing" => on \in Tasks
  BY DEF FollowInv, TypeOK, Placed
<1>2. Requests => Read'
  <2>1. CASE Edits
    <3>1. EditDone /\ (\A u \in Tasks \ {edit} : task'[u] = task[u]) /\ Exists(edit)
      BY <2>1, EditedRow
    <3> QED BY <1>1, <3>1 DEF EditDone, Read, Exists, work
  <2>2. ASSUME NEW t \in Tasks, EditReads(t) PROVE Read'
    BY <1>1, <2>2 DEF EditReads, Read, Exists, work
  <2>3. ASSUME NEW t \in Tasks, DeleteTask(t) PROVE Read'
    BY <1>1, <2>3 DEF DeleteTask, Request, Read, Exists, work, api, TypeOK, Blank
  <2>4. ASSUME NEW t \in Tasks, NEW enabled \in BOOLEAN, CreateTask(t, enabled) PROVE Read'
    <3>1. pc = "failing" => on # t
      BY <1>1, <2>4 DEF FollowInv, Placed, Checked, CreateTask
    <3> QED BY <1>1, <2>4, <3>1 DEF CreateTask, Read, Exists, work, api, TypeOK
  <2>5. ASSUME NEW c \in Clients, SyncAborts(c) \/ \E t \in Tasks : SyncBegin(c, t) PROVE Read'
    BY <1>1, <2>5 DEF SyncAborts, SyncBegin, Answered, Request, Read, Exists, work
  <2>6. ASSUME NEW c \in Clients, NEW b \in Batches, SyncCommit(c, b) PROVE Read'
    BY <1>1, <2>6, RequestFrame DEF SyncCommit, Answered, Read, Exists, work, TypeOK
  <2>7. ASSUME NEW b \in Batches, CancelBatch(b) \/ RetryBatch(b) \/ DeleteBatch(b) PROVE Read'
    BY <1>1, <2>7 DEF CancelBatch, RetryBatch, DeleteBatch, Request, Read, Exists, work, api
  <2> QED BY <2>1, <2>2, <2>3, <2>4, <2>5, <2>6, <2>7 DEF Requests
<1>3. ASSUME ~Requests PROVE edit' # None => Exists(edit)' /\ seen' .status = task'[edit'].status
  <2>1. UNCHANGED <<edit, seen>> /\ \A t \in Tasks : task'[t].status = task[t].status
    BY <1>3, StatusKept
  <2> QED BY <1>1, <2>1 DEF Read, Exists, TypeOK
<1>4. ASSUME ~Requests, pc' = "failing", Exists(on)' PROVE mem'.status \in {"active", "paused"}
  <2>1. \A t \in Tasks : task'[t].status = task[t].status
    BY <1>4, StatusKept
  <2>2. CASE \E t \in Tasks : CheckRaises(t)
    BY <2>2 DEF CheckRaises, At, Exists
  <2>3. CASE UNCHANGED work
    BY <1>1, <1>4, <2>1, <2>3 DEF work, Read, Exists
  <2>4. CASE \/ \E b \in Batches : TickBatch(b)
             \/ \E t \in Tasks : Tick(t)
             \/ UNCHANGED vars
    BY <2>3, <2>4 DEF TickBatch, Tick, vars
  <2>5. CASE \E t \in Tasks : CheckWrites(t) \/ AutomationWrites(t)
    BY <1>4, <2>5 DEF CheckWrites, AutomationWrites, At
  <2>6. CASE Crash
    BY <1>4, <2>6 DEF Crash, Rest
  <2>7. CASE Works /\ ~\E t \in Tasks : CheckRaises(t)
    BY <1>4, <2>7 DEF Works, PassItem, PassTask, ClaimItem, ItemReports, ItemSucceeds, ItemFails,
       ClaimTask, CheckFinds, CheckEnds, CheckFails, CheckLost, AutomationOff, AutomationEnds,
       AutomationSyncs, Ends, Rest
  <2> QED BY <1>4, <2>2, <2>4, <2>5, <2>6, <2>7 DEF Next
<1> QED BY <1>2, <1>3, <1>4 DEF Read

(* While a hook is open, a task gets to sync_queued only with a new batch. *)
LEMMA SyncsStep ==
    ASSUME FollowInv, [Next]_vars
    PROVE  SyncsItself'
<1> DEFINE Other(t) == \E b \in Batches \ {on} : batch[b].of = t /\ batch[b].status \in Active
           Due1(t) == /\ pc = "report" /\ batch[on].of = t /\ Exists(t)
                      /\ mem.state # "sync_queued" /\ task[t].state = "sync_queued" /\ t \notin dropped
<1>1. /\ TypeOK /\ \A t \in Tasks : task[t] \in Row /\ (Due1(t) => Other(t))
      /\ \A b \in Batches : batch[b] \in Batch
      /\ pc = "report" => on \in Batches /\ batch[on].status = "processing"
  BY DEF FollowInv, TypeOK, SyncsItself, Placed
<1>2. ASSUME pc = "report", UNCHANGED work, NEW t \in Tasks, batch'[on].of = batch[on].of,
             Due1(t)' => Due1(t), Other(t) => Other(t)'
      PROVE  Due1(t)' => Other(t)'
  BY <1>1, <1>2
<1>3. ASSUME pc' = "report", Requests PROVE \A t \in Tasks : Due1(t)' => Other(t)'
  <2>1. UNCHANGED work /\ pc = "report" /\ on \in Batches /\ batch[on].status = "processing"
    BY <1>1, <1>3, RequestFrame DEF work
  <2>2. ASSUME UNCHANGED batch, NEW t \in Tasks, Exists(t)' /\ t \notin dropped' /\ task'[t].state = "sync_queued"
                => Exists(t) /\ t \notin dropped /\ task[t].state = "sync_queued"
        PROVE  Due1(t)' => Other(t)'
    BY <1>1, <2>1, <2>2 DEF work
  <2>3. CASE Edits
    BY <2>2, <2>3, EditedRow DEF EditDone, Settled, Exists
  <2>4. ASSUME NEW u \in Tasks, EditReads(u) \/ DeleteTask(u)
                 \/ \E enabled \in BOOLEAN : CreateTask(u, enabled)
        PROVE  \A t \in Tasks : Due1(t)' => Other(t)'
    BY <1>1, <2>2, <2>4 DEF EditReads, DeleteTask, CreateTask, Exists, TypeOK, Blank
  <2>5. ASSUME NEW c \in Clients, SyncAborts(c) \/ \E t \in Tasks : SyncBegin(c, t)
        PROVE  \A t \in Tasks : Due1(t)' => Other(t)'
    BY <2>2, <2>5 DEF SyncAborts, SyncBegin, Answered, Exists
  <2>6. ASSUME NEW c \in Clients, NEW b \in Batches, SyncCommit(c, b), NEW t \in Tasks
        PROVE  Due1(t)' => Other(t)'
    <3>1. PICK u \in Tasks : u = aim[c]
      BY <1>1, <2>6 DEF SyncCommit, TypeOK
    <3>2. /\ b # on /\ batch[b].status = "absent" /\ batch'[b].of = u /\ batch'[b].status = "queued"
          /\ \A a \in Batches \ {b} : batch'[a] = batch[a]
          /\ \A v \in Tasks \ {u} : task'[v] = task[v]
          /\ UNCHANGED dropped
      BY <1>1, <2>1, <2>6, <3>1 DEF SyncCommit, NewBatch, NoBatch, TypeOK, Answered
    <3>3. CASE t = u
      BY <2>1, <3>2, <3>3 DEF work, Active
    <3>4. CASE t # u
      <4>1. Due1(t)' => Due1(t)
        BY <2>1, <3>2, <3>4 DEF work, Exists
      <4>2. Other(t) => Other(t)'
        BY <2>1, <3>2 DEF work, Active
      <4> QED BY <1>1, <4>1, <4>2
    <3> QED BY <3>3, <3>4
  <2>7. ASSUME NEW b \in Batches, CancelBatch(b), NEW t \in Tasks
        PROVE  Due1(t)' => Other(t)'
    <3>1. /\ \A a \in Batches : batch'[a].of = batch[a].of /\ (a # b => batch'[a] = batch[a])
          /\ UNCHANGED task
          /\ t \notin dropped' => t \notin dropped
      BY <1>1, <2>7 DEF CancelBatch, Cancelled, LeaveBehind, TypeOK, Batch
    <3>2. Due1(t)' => Due1(t)
      BY <2>1, <3>1 DEF work, Exists
    <3>3. ASSUME Due1(t)' , NEW a \in Batches \ {on}, batch[a].of = t, batch[a].status \in Active
          PROVE  batch'[a].status \in Active
      <4>1. CASE a = b /\ batch[b].status \in {"processing", "stale"}
        BY <1>1, <2>7, <4>1 DEF CancelBatch, Cancelled, TypeOK, Batch, Active
      <4>2. CASE a = b /\ batch[b].status \notin {"processing", "stale"}
        BY <2>7, <3>1, <3>3, <4>2 DEF CancelBatch, LeaveBehind, Exists
      <4>3. CASE a # b
        BY <3>1, <3>3, <4>3
      <4> QED BY <4>1, <4>2, <4>3
    <3> QED BY <1>1, <2>1, <3>1, <3>2, <3>3 DEF work
  <2>8. ASSUME NEW b \in Batches, RetryBatch(b) \/ DeleteBatch(b), NEW t \in Tasks
        PROVE  Due1(t)' => Other(t)'
    <3>1. /\ b # on /\ \A a \in Batches \ {b} : batch'[a] = batch[a]
          /\ UNCHANGED <<task, dropped>> /\ batch[b].status \notin Active
      BY <1>1, <2>1, <2>8 DEF RetryBatch, DeleteBatch, TypeOK, Active
    <3>2. (Due1(t)' => Due1(t)) /\ (Other(t) => Other(t)')
      BY <2>1, <3>1 DEF work, Exists
    <3> QED BY <1>1, <3>2
  <2> QED BY <1>3, <2>3, <2>4, <2>5, <2>6, <2>7, <2>8 DEF Requests
<1>4. ASSUME NEW b \in Batches, ItemReports(b) PROVE \A t \in Tasks : ~Due1(t)'
  BY <1>4 DEF ItemReports
<1>5. ASSUME NEW b \in Batches, TickBatch(b), pc' = "report", NEW t \in Tasks
      PROVE  Due1(t)' => Other(t)'
  <2>1. /\ UNCHANGED work /\ UNCHANGED <<task, dropped>>
        /\ \A a \in Batches : batch'[a].of = batch[a].of
                              /\ (batch[a].status \in Active => batch'[a].status \in Active)
    BY <1>1, <1>5 DEF TickBatch, TypeOK, Batch, Active
  <2>2. (Due1(t)' => Due1(t)) /\ (Other(t) => Other(t)')
    BY <1>1, <2>1 DEF work, Exists
  <2> QED BY <1>1, <2>2
<1>6. ASSUME NEW u \in Tasks, Tick(u), NEW t \in Tasks PROVE Due1(t)' => Other(t)'
  <2>1. /\ UNCHANGED <<batch, dropped>> /\ UNCHANGED work
        /\ task'[t].status = task[t].status /\ task'[t].state = task[t].state
    BY <1>1, <1>6 DEF Tick, TypeOK, Row
  <2>2. (Due1(t)' => Due1(t)) /\ (Other(t) => Other(t)')
    BY <2>1 DEF work, Exists
  <2> QED BY <1>1, <2>2
<1>7. ASSUME UNCHANGED vars, NEW t \in Tasks PROVE Due1(t)' => Other(t)'
  <2>1. (Due1(t)' => Due1(t)) /\ (Other(t) => Other(t)')
    BY <1>7 DEF vars, work, Exists
  <2> QED BY <1>1, <2>1
<1>8. ASSUME \/ Crash \/ \E t \in Tasks : CheckWrites(t) \/ AutomationWrites(t)
             \/ Works /\ ~\E b \in Batches : ItemReports(b)
      PROVE  pc' # "report"
  BY <1>8 DEF Crash, CheckWrites, AutomationWrites, At, Works, PassItem, PassTask, ClaimItem,
     ItemSucceeds, ItemFails, ClaimTask, CheckFinds, CheckEnds, CheckRaises, CheckFails, CheckLost,
     AutomationOff, AutomationEnds, AutomationSyncs, Ends, Rest
<1>9. ASSUME pc' = "report", NEW t \in Tasks PROVE Due1(t)' => Other(t)'
  <2> HIDE DEF Due1, Other
  <2> QED BY <1>3, <1>4, <1>5, <1>6, <1>7, <1>8, <1>9 DEF Next
<1> QED BY <1>9 DEF SyncsItself

LEMMA AttendedStep ==
    ASSUME FollowInv, [Next]_vars
    PROVE  NotForgotten'
<1> DEFINE Good(t) == Exists(t) /\ t \notin dropped => Attended(t)
<1>1. /\ TypeOK /\ Placed /\ mem \in Row
      /\ \A t \in Tasks : task[t] \in Row /\ Good(t)
      /\ \A b \in Batches : batch[b] \in Batch
  BY DEF FollowInv, TypeOK, NotForgotten
<1> USE DEF api, work
<1>2. CASE Crash
  <2>1. UNCHANGED <<task, batch>>
    BY <1>2 DEF Crash
  <2>2. ASSUME NEW t \in Tasks PROVE Good(t)'
    <3>1. Syncing(t) => Syncing(t)'
      BY <2>1 DEF Syncing
    <3>2. dropped \subseteq dropped' /\ (Checked(t) /\ Exists(t) => t \in dropped')
      BY <1>2 DEF Crash, LeaveBehind, Checked
    <3> QED BY <1>1, <2>1, <3>1, <3>2, Bystander
  <2> QED BY <2>2 DEF NotForgotten
<1>3. ASSUME NEW t \in Tasks, CheckWrites(t) \/ AutomationWrites(t) PROVE NotForgotten'
  <2>1. PICK cand \in {mem.cand, FALSE}, rewritten \in SUBSET {"auto"} :
            Commits(t, [mem EXCEPT !.cand = cand], rewritten)
    <3>1. {"auto"} \in SUBSET {"auto"}
      OBVIOUS
    <3> QED BY <1>3, <3>1 DEF CheckWrites, AutomationWrites
  <2> DEFINE new == [mem EXCEPT !.cand = cand]
             row == Flushed(task[t], mem, new, rewritten)
  <2>2. /\ new \in Row /\ new.state = mem.state
        /\ new.status = mem.status /\ new.next = mem.next
    BY <1>1 DEF Row
  <2>3. row.state = task[t].state /\ row.status = task[t].status /\ row.next = task[t].next
    <3> HIDE DEF new
    <3> QED BY <1>1, <2>1, <2>2, FlushedRow
  <2>4. /\ task' = [task EXCEPT ![t] = row] /\ UNCHANGED <<batch, dropped>>
        /\ on = t /\ UNCHANGED <<pc, on>>
    BY <1>3, <2>1 DEF CheckWrites, AutomationWrites, Commits, At
  <2> HIDE DEF row
  <2>5. \A u \in Tasks : (Checked(u) => Checked(u)') /\ (Syncing(u) => Syncing(u)')
    BY <2>4 DEF Checked, Syncing
  <2>6. ASSUME NEW u \in Tasks PROVE Good(u)'
    <3>1. /\ task'[u].state = task[u].state /\ task'[u].status = task[u].status
          /\ task'[u].next = task[u].next
      BY <1>1, <2>3, <2>4 DEF TypeOK
    <3> QED BY <1>1, <2>4, <2>5, <3>1 DEF Attended, Exists
  <2> QED BY <2>6 DEF NotForgotten
<1>4. ASSUME NEW t \in Tasks, Tick(t) PROVE NotForgotten'
  <2>1. ASSUME NEW u \in Tasks PROVE Good(u)'
    <3>1. /\ task'[u].state = task[u].state /\ task'[u].status = task[u].status
          /\ task'[u].next = "never" => task[u].next = "never"
      BY <1>1, <1>4 DEF TypeOK, Tick, Row
    <3>2. UNCHANGED dropped /\ (Checked(u) => Checked(u)') /\ (Syncing(u) => Syncing(u)')
      BY <1>4 DEF Tick, Checked, Syncing
    <3> QED BY <1>1, <3>1, <3>2 DEF Attended, Exists
  <2> QED BY <2>1 DEF NotForgotten
<1>5. ASSUME NEW b \in Batches, TickBatch(b) PROVE NotForgotten'
  <2>1. ASSUME NEW t \in Tasks PROVE Good(t)'
    <3>1. Syncing(t) => Syncing(t)'
      BY <1>1, <1>5, SyncingKept DEF TickBatch, TypeOK, Batch, Active
    <3>2. UNCHANGED <<task, dropped>> /\ (Checked(t) => Checked(t)')
      BY <1>5 DEF TickBatch, Checked
    <3> QED BY <1>1, <3>1, <3>2, Bystander
  <2> QED BY <2>1 DEF NotForgotten
<1>6. CASE UNCHANGED vars
  <2>1. ASSUME NEW t \in Tasks PROVE Good(t)'
    <3>1. UNCHANGED <<task, dropped>> /\ (Checked(t) => Checked(t)') /\ (Syncing(t) => Syncing(t)')
      BY <1>6 DEF vars, Checked, Syncing
    <3> QED BY <1>1, <3>1, Bystander
  <2> QED BY <2>1 DEF NotForgotten
<1> QED BY <1>2, <1>3, <1>4, <1>5, <1>6, AttendedWorks, AttendedRequests DEF Next

LEMMA FollowInvInit == Init => FollowInv
<1> SUFFICES ASSUME Init PROVE FollowInv
  OBVIOUS
<1>1. TypeOK
  BY TypeInit
<1>2. \A t \in Tasks : ~Exists(t) /\ ~Checked(t)
  BY DEF Init, Exists, Blank, Checked
<1>3. Placed
  BY <1>2 DEF Init, Placed
<1>4. Owned
  BY DEF Init, Owned, NoBatch
<1>5. Read /\ SyncsItself
  BY DEF Init, Read, SyncsItself
<1> QED BY <1>1, <1>2, <1>3, <1>4, <1>5 DEF FollowInv, NotForgotten

(* The rows and the worker's copies of them keep their types.              *)
THEOREM FollowTypeCorrect == Spec => []TypeOK
<1>1. FollowInv /\ [Next]_vars => FollowInv'
  BY TypeStep, PlacedStep, OwnedStep, ReadStep, SyncsStep, AttendedStep DEF FollowInv
<1>2. FollowInv => TypeOK
  BY DEF FollowInv
<1> QED BY <1>1, <1>2, FollowInvInit, PTL DEF Spec

(* However the worker's checks, which write back what they read before     *)
(* they waited, meet requests, batches and crashes, a task of which no     *)
(* report was lost is scheduled, checked or has a batch to be executed.    *)
THEOREM NeverForgotten == Spec => []NotForgotten
<1>1. FollowInv /\ [Next]_vars => FollowInv'
  BY TypeStep, PlacedStep, OwnedStep, ReadStep, SyncsStep, AttendedStep DEF FollowInv
<1>2. FollowInv => NotForgotten
  BY DEF FollowInv
<1> QED BY <1>1, <1>2, FollowInvInit, PTL DEF Spec
=============================================================================
