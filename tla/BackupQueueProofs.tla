--------------------------- MODULE BackupQueueProofs ---------------------------
(***************************************************************************)
(* One backup thread executes at a time, what is marked running is being   *)
(* executed, a pending run is served, and the artifacts of runs stay, for  *)
(* any number of targets, runs, threads and disturbances.                  *)
(*                                                                         *)
(* Executing is holding the lock (Locks), which one thread does (OneLock). *)
(* While no thread was replaced before it was started, whoever is alive is *)
(* the current thread (Sole): it gets the lock, and it looks at the queue  *)
(* again when it has given it up.                                          *)
(***************************************************************************)
EXTENDS BackupQueue, TLAPS

Locks == \A w \in BackupWorkers :
    /\ Executes(w) => threads[w].lock
    /\ threads[w].lock => Executes(w) \/ threads[w].pc = "release"

OneLock == \A v, w \in BackupWorkers : threads[v].lock /\ threads[w].lock => v = w

Sole == overlapped \/ \A w \in BackupWorkers :
    /\ threads[w].pc \notin {"dead", "recheck"} => current = w
    /\ threads[w].pc # "leave"
    /\ threads[w].pc = "release" => threads[w].lock

WithRun == {"work", "save", "fail", "prune", "pruned"}

AtRun == \A w \in BackupWorkers :
    /\ IF threads[w].pc \in WithRun THEN threads[w].run \in RunIds
       ELSE threads[w].run = NoThread
    /\ threads[w].pc \in {"prune", "pruned"} =>
          backups[threads[w].run].status \in {"success", "deleted"}

BackupInv ==
    /\ BackupTypeOK /\ Locks /\ OneLock /\ Sole /\ AtRun
    /\ RunningIsExecuted /\ PendingIsServed

LEMMA DeadTyped == Dead \in ThreadState /\ Dead.pc = "dead" /\ ~Dead.lock
                                        /\ Dead.run = NoThread
BY DEF Dead, ThreadState, ThreadPC

LEMMA BackupInitInv == BackupInit => BackupInv
<1>. SUFFICES ASSUME BackupInit PROVE BackupInv
  OBVIOUS
<1>1. (CHOOSE t \in BackupTargets : TRUE) \in BackupTargets
  BY BackupAssumption
<1>2. 0 \in 0..MaxSeconds
  BY BackupAssumption
<1>3. backups \in [RunIds -> BackupRow] /\ \A r \in RunIds : backups[r].status = "none"
  BY <1>1, <1>2 DEF BackupInit, BackupRow
<1>4. BackupTypeOK
  BY <1>2, <1>3, DeadTyped DEF BackupInit, BackupTypeOK, TargetRow
<1>5. \A w \in BackupWorkers : threads[w] = Dead
  BY DEF BackupInit
<1>6. Locks /\ OneLock /\ Sole /\ AtRun
  BY <1>5, DeadTyped DEF Locks, OneLock, Sole, AtRun, WithRun, Executes, Executing
<1>7. RunningIsExecuted /\ PendingIsServed
  BY <1>3, <1>5, DeadTyped DEF RunningIsExecuted, PendingIsServed, Pending, Executes, Executing
<1>. QED
  BY <1>4, <1>6, <1>7 DEF BackupInv

(***************************************************************************)
(* Requests: no thread moves                                               *)
(***************************************************************************)
LEMMA QuietKeeps ==
    ASSUME BackupInv, BackupTypeOK',
           UNCHANGED <<threads, current, overlapped, backupFaults>>,
           \A r \in RunIds :
              /\ backups'[r].status = "running" =>
                    backups[r].status = "running" /\ backups'[r].target = backups[r].target
              /\ backups[r].status \in {"success", "deleted"} =>
                    backups'[r].status \in {"success", "deleted"},
           \A t \in BackupTargets : targets'[t].exists => targets[t].exists,
           dispatching' > 0 \/ (dispatching' = dispatching /\ Pending' \subseteq Pending)
    PROVE  BackupInv'
<1>. USE DEF BackupInv
<1>1. Locks' /\ OneLock' /\ Sole'
  BY DEF Locks, OneLock, Sole, Executes
<1>2. AtRun'
  BY DEF AtRun, WithRun
<1>3. \A r \in RunIds : backups[r].target \in BackupTargets
  BY DEF BackupTypeOK, BackupRow
<1>4. RunningIsExecuted'
  BY <1>3 DEF RunningIsExecuted, Executes
<1>5. PendingIsServed'
  BY DEF PendingIsServed
<1>. QED
  BY <1>1, <1>2, <1>4, <1>5

(* New rows are pending, the others as they were.                          *)
LEMMA InsertedSound ==
    ASSUME BackupTypeOK, NEW ts \in SUBSET BackupTargets, NEW new \in NextIds(ts)
    PROVE  /\ Inserted(new) \in [RunIds -> BackupRow]
           /\ \A r \in RunIds : Inserted(new)[r].status = "running" \/
                                backups[r].status \in {"success", "deleted"} =>
                Inserted(new)[r] = backups[r]
           /\ ts = {} => Inserted(new) = backups
<1>1. new \in [ts -> FreeRunIds] /\ DOMAIN new = ts
  BY DEF NextIds
<1>2. ASSUME NEW r \in RunIds, \E t \in DOMAIN new : new[t] = r
      PROVE  /\ Inserted(new)[r] \in BackupRow /\ Inserted(new)[r].status = "pending"
             /\ backups[r].status = "none"
  <2>1. (CHOOSE t \in DOMAIN new : new[t] = r) \in BackupTargets
    BY <1>1, <1>2
  <2>2. 0 \in 0..MaxSeconds
    BY BackupAssumption
  <2>3. r \in FreeRunIds
    BY <1>1, <1>2
  <2>. QED
    BY <1>2, <2>1, <2>2, <2>3 DEF Inserted, BackupRow, FreeRunIds
<1>3. ASSUME NEW r \in RunIds, ~\E t \in DOMAIN new : new[t] = r
      PROVE  Inserted(new)[r] = backups[r]
  BY <1>3 DEF Inserted
<1>4. Inserted(new) \in [RunIds -> BackupRow]
  <2>1. \A r \in RunIds : Inserted(new)[r] \in BackupRow
    BY <1>2, <1>3 DEF BackupTypeOK
  <2>. QED
    BY <2>1 DEF Inserted
<1>5. ts = {} => Inserted(new) = backups
  BY <1>1, <1>3, <1>4 DEF BackupTypeOK
<1>6. ASSUME NEW r \in RunIds,
             Inserted(new)[r].status = "running" \/ backups[r].status \in {"success", "deleted"}
      PROVE  Inserted(new)[r] = backups[r]
  <2>1. ~\E t \in DOMAIN new : new[t] = r
    BY <1>2, <1>6
  <2>. QED
    BY <1>3, <2>1
<1>. QED
  BY <1>4, <1>5, <1>6

LEMMA StartBackupKeeps ==
    ASSUME BackupInv, NEW t \in BackupTargets, StartBackup(t) PROVE BackupInv'
<1>1. PICK new \in NextIds({t}) : backups' = Inserted(new)
  BY DEF StartBackup
<1>2. dispatching' > 0 /\ dispatching' \in Nat
  BY DEF BackupInv, BackupTypeOK, StartBackup
<1>3. BackupTypeOK'
  BY <1>1, <1>2, InsertedSound DEF BackupInv, BackupTypeOK, StartBackup
<1>. QED
  BY <1>1, <1>2, <1>3, InsertedSound, QuietKeeps DEF BackupInv, StartBackup

LEMMA ClaimDueKeeps == ASSUME BackupInv, ClaimDue PROVE BackupInv'
<1>. DEFINE idle == {t \in DueTargets : ~HasActive(t)}
<1>1. idle \in SUBSET BackupTargets
  BY DEF DueTargets
<1>2. PICK new \in NextIds(idle) : backups' = Inserted(new)
  BY DEF ClaimDue
<1>3. targets' \in [BackupTargets -> TargetRow]
      /\ \A t \in BackupTargets : targets'[t].exists => targets[t].exists
  BY DEF ClaimDue, BackupInv, BackupTypeOK, TargetRow
<1>4. dispatching' = dispatching + (IF idle = {} THEN 0 ELSE 1)
      /\ UNCHANGED <<files, seconds, threads, current, halfway, overlapped, early,
                     edits, backupFaults>>
  BY DEF ClaimDue
<1>. HIDE DEF idle
<1>5. dispatching' \in Nat /\ (dispatching' > 0 \/ (idle = {} /\ dispatching' = dispatching))
  BY <1>4 DEF BackupInv, BackupTypeOK
<1>6. BackupTypeOK'
  BY <1>1, <1>2, <1>3, <1>4, <1>5, InsertedSound DEF BackupInv, BackupTypeOK
<1>7. idle = {} => Pending' = Pending
  BY <1>1, <1>2, InsertedSound DEF Pending, BackupInv
<1>8. \A r \in RunIds :
              /\ backups'[r].status = "running" =>
                    backups[r].status = "running" /\ backups'[r].target = backups[r].target
              /\ backups[r].status \in {"success", "deleted"} =>
                    backups'[r].status \in {"success", "deleted"}
  BY <1>1, <1>2, InsertedSound DEF BackupInv
<1>. QED
  BY <1>3, <1>4, <1>5, <1>6, <1>7, <1>8, QuietKeeps

(* Settings, schedules, and the first half of a deletion.                  *)
LEMMA TargetsKeep ==
    ASSUME BackupInv, NEW t \in BackupTargets,
           ComesDue(t) \/ DeleteTargetCheck(t) \/ DeleteTarget(t)
             \/ \E on \in BOOLEAN : SaveTarget(t, on)
    PROVE  BackupInv'
<1>. USE DEF BackupInv
<1>1. CASE ComesDue(t)
  <2>1. targets' \in [BackupTargets -> TargetRow]
        /\ \A u \in BackupTargets : targets'[u].exists => targets[u].exists
    BY <1>1 DEF ComesDue, BackupTypeOK, TargetRow
  <2>2. BackupTypeOK'
    BY <1>1, <2>1 DEF ComesDue, Edit, BackupTypeOK
  <2>. QED
    BY <1>1, <2>1, <2>2, QuietKeeps DEF ComesDue, Pending
<1>2. CASE DeleteTargetCheck(t)
  <2>1. targets' \in [BackupTargets -> TargetRow]
        /\ \A u \in BackupTargets : targets'[u].exists => targets[u].exists
    BY <1>2 DEF DeleteTargetCheck, BackupTypeOK, TargetRow
  <2>2. BackupTypeOK'
    BY <1>2, <2>1 DEF DeleteTargetCheck, Edit, BackupTypeOK
  <2>. QED
    BY <1>2, <2>1, <2>2, QuietKeeps DEF DeleteTargetCheck, Pending
<1>3. CASE DeleteTarget(t)
  <2>1. targets' \in [BackupTargets -> TargetRow]
        /\ \A u \in BackupTargets : targets'[u].exists => targets[u].exists
    BY <1>3 DEF DeleteTarget, BackupTypeOK, TargetRow
  <2>2. BackupTypeOK'
    BY <1>3, <2>1 DEF DeleteTarget, Edit, BackupTypeOK
  <2>. QED
    BY <1>3, <2>1, <2>2, QuietKeeps DEF DeleteTarget, Pending
<1>4. ASSUME NEW on \in BOOLEAN, SaveTarget(t, on) PROVE BackupInv'
  <2>. DEFINE row == [targets[t] EXCEPT !.scheduled = on, !.due = FALSE]
  <2>0. targets' = [targets EXCEPT ![t] = row]
    BY <1>4 DEF SaveTarget
  <2>3. row \in TargetRow /\ row.exists = targets[t].exists
    BY DEF BackupTypeOK, TargetRow
  <2>. HIDE DEF row
  <2>1. targets' \in [BackupTargets -> TargetRow]
        /\ \A u \in BackupTargets : targets'[u].exists => targets[u].exists
    BY <2>0, <2>3 DEF BackupTypeOK
  <2>4. /\ UNCHANGED <<backups, files, seconds, threads, current, dispatching,
                         halfway, overlapped, early, backupFaults>>
        /\ edits' = edits + 1
    BY <1>4, ZenonT(30) DEF SaveTarget, Edit
  <2>2. BackupTypeOK'
    BY <2>1, <2>4 DEF BackupTypeOK
  <2>. QED
    BY <2>1, <2>2, <2>4, QuietKeeps DEF Pending
<1>. QED
  BY <1>1, <1>2, <1>3, <1>4

LEMMA FilesKeep ==
    ASSUME BackupInv, NEW f \in Files, DeleteRemoteFile(f) \/ ClearRemotePaths(f)
    PROVE  BackupInv'
<1>. USE DEF BackupInv
<1>1. CASE DeleteRemoteFile(f)
  <2>1. BackupTypeOK'
    BY <1>1 DEF DeleteRemoteFile, Edit, BackupTypeOK
  <2>. QED
    BY <1>1, <2>1, QuietKeeps DEF DeleteRemoteFile, Pending
<1>2. CASE ClearRemotePaths(f)
  <2>1. backups' \in [RunIds -> BackupRow]
        /\ \A r \in RunIds : /\ backups'[r].status = backups[r].status
                             /\ backups'[r].target = backups[r].target
    BY <1>2 DEF ClearRemotePaths, BackupTypeOK, BackupRow
  <2>2. BackupTypeOK'
    BY <1>2, <2>1 DEF ClearRemotePaths, BackupTypeOK
  <2>. QED
    BY <1>2, <2>1, <2>2, QuietKeeps DEF ClearRemotePaths, Pending
<1>. QED
  BY <1>1, <1>2

LEMMA DeleteRunKeeps ==
    ASSUME BackupInv, NEW r \in RunIds, DeleteRun(r) PROVE BackupInv'
<1>. USE DEF BackupInv
<1>1. /\ backups' \in [RunIds -> BackupRow]
      /\ backups'[r].status = "deleted"
      /\ \A q \in RunIds \ {r} : backups'[q] = backups[q]
  BY DEF DeleteRun, BackupTypeOK, BackupRow
<1>2. BackupTypeOK'
  BY <1>1 DEF DeleteRun, Edit, BackupTypeOK
<1>. QED
  BY <1>1, <1>2, QuietKeeps DEF DeleteRun, Pending

LEMMA SecondKeeps == ASSUME BackupInv, SecondPasses PROVE BackupInv'
<1>1. BackupTypeOK'
  BY BackupAssumption DEF SecondPasses, BackupInv, BackupTypeOK
<1>. QED
  BY <1>1, QuietKeeps DEF SecondPasses, BackupInv, Pending

(***************************************************************************)
(* The threads                                                             *)
(***************************************************************************)
LEMMA DispatchKeeps == ASSUME BackupInv, DispatchSteps PROVE BackupInv'
<1>. USE DEF BackupInv
<1>1. CASE DispatchNothing
  <2>1. BackupTypeOK'
    BY <1>1 DEF DispatchNothing, BackupTypeOK
  <2>2. Locks' /\ OneLock' /\ Sole' /\ AtRun' /\ RunningIsExecuted'
    BY <1>1 DEF DispatchNothing, Locks, OneLock, Sole, AtRun, RunningIsExecuted, Executes
  <2>3. PendingIsServed'
    <3>1. PICK w \in BackupWorkers : w = current /\ threads[w].pc \notin {"dead", "created"}
      BY <1>1 DEF DispatchNothing, CurrentAlive
    <3>2. overlapped \/ threads[w].pc \in Executing \cup {"try", "recheck", "clear"}
            \/ (threads[w].pc = "release" /\ threads[w].lock)
      BY <3>1 DEF Sole, BackupTypeOK, ThreadState, ThreadPC, Executing
    <3>. QED
      BY <1>1, <3>1, <3>2 DEF DispatchNothing, PendingIsServed
  <2>. QED
    BY <2>1, <2>2, <2>3
<1>2. ASSUME NEW w \in BackupWorkers, Dispatch(w) PROVE BackupInv'
  <2>. USE <1>2
  <2>1. /\ threads'[w].pc = "created" /\ threads'[w].lock = threads[w].lock
        /\ threads'[w].run = threads[w].run
        /\ \A v \in BackupWorkers \ {w} : threads'[v] = threads[v]
        /\ threads' \in [BackupWorkers -> ThreadState]
    BY DEF Dispatch, BackupTypeOK, ThreadState, ThreadPC
  <2>2. BackupTypeOK'
    BY <2>1 DEF Dispatch, BackupTypeOK
  <2>3. ~threads[w].lock
    BY DEF Dispatch, Locks, Executes, Executing
  <2>4. Locks' /\ OneLock'
    BY <2>1, <2>3 DEF Locks, OneLock, Executes, Executing
  <2>5. AtRun'
    BY <2>1 DEF AtRun, WithRun, Dispatch
  <2>6. RunningIsExecuted'
    BY <2>1 DEF RunningIsExecuted, Executes, Executing, Dispatch
  <2>7. PendingIsServed'
    BY <2>1 DEF PendingIsServed
  <2>8. Sole'
    <3>1. ASSUME ~overlapped', NEW v \in BackupWorkers \ {w}
          PROVE  threads[v].pc \in {"dead", "recheck"}
      BY <3>1 DEF Sole, Dispatch, CurrentAlive
    <3>. QED
      BY <2>1, <3>1 DEF Sole, Dispatch
  <2>. QED
    BY <2>2, <2>4, <2>5, <2>6, <2>7, <2>8
<1>. QED
  BY <1>1, <1>2 DEF DispatchSteps

(* A thread that goes on without its lock changing hands.                  *)
LEMMA ThreadMoves ==
    ASSUME BackupInv, BackupTypeOK', NEW w \in BackupWorkers, NEW s \in ThreadState,
           threads' = [threads EXCEPT ![w] = s],
           s.lock = threads[w].lock, s.pc \notin {"dead", "recheck", "leave", "clear", "created"},
           Executes(w), s.pc \in Executing \cup {"release"},
           UNCHANGED <<current, overlapped, dispatching>>,
           backupFaults' \in {backupFaults, backupFaults + 1},
           IF s.pc \in WithRun THEN s.run \in RunIds ELSE s.run = NoThread,
           s.pc \in {"prune", "pruned"} => backups'[s.run].status \in {"success", "deleted"},
           Pending' \subseteq Pending,
           s.pc = "release" => Pending = {} \/ backupFaults' > 0,
           \A r \in RunIds : backups'[r].status = "running" =>
              \/ backups[r].status = "running" /\ r # threads[w].run
              \/ s.pc \in Executing /\ s.run = r
              \/ backupFaults' > 0 \/ ~targets[backups'[r].target].exists,
           \A r \in RunIds : backups'[r].target = backups[r].target,
           UNCHANGED targets
    PROVE  BackupInv'
<1>. USE DEF BackupInv
<1>1. threads'[w] = s /\ \A v \in BackupWorkers \ {w} : threads'[v] = threads[v]
  BY DEF BackupTypeOK
<1>2. Locks' /\ OneLock'
  BY <1>1 DEF Locks, OneLock, Executes
<1>3. threads[w].lock /\ threads[w].pc \notin {"dead", "recheck"}
  BY DEF Locks, Executes, Executing
<1>4. Sole'
  BY <1>1, <1>3 DEF Sole
<1>5. AtRun'
  <2>1. ASSUME NEW v \in BackupWorkers \ {w}
        PROVE  /\ IF threads[v].pc \in WithRun THEN threads[v].run \in RunIds
                  ELSE threads[v].run = NoThread
               /\ threads[v].pc \in {"prune", "pruned"} =>
                     backups'[threads[v].run].status \in {"success", "deleted"}
    <3>1. IF threads[v].pc \in WithRun THEN threads[v].run \in RunIds
          ELSE threads[v].run = NoThread
      BY <2>1 DEF AtRun
    <3>2. ~Executes(v)
      BY <2>1 DEF Locks, OneLock
    <3>. QED
      BY <3>1, <3>2 DEF Executes, Executing
  <2>. QED
    BY <1>1, <2>1 DEF AtRun
<1>6. backupFaults' > 0 \/ (backupFaults' = backupFaults /\ backupFaults = 0)
  BY DEF BackupTypeOK
<1>7. PendingIsServed'
  <2>1. CASE s.pc \in Executing
    BY <1>1, <2>1 DEF PendingIsServed
  <2>2. CASE s.pc = "release"
    BY <2>2 DEF PendingIsServed
  <2>. QED
    BY <2>1, <2>2
<1>8. \A u, v \in BackupWorkers : Executes(u)' /\ Executes(v)' => u = v
  BY <1>2 DEF Locks, OneLock
<1>9. ASSUME NEW r \in RunIds, backups'[r].status = "running"
      PROVE  \/ \E v \in BackupWorkers : Executes(v)' /\ threads'[v].run = r
             \/ backupFaults' > 0 \/ ~targets'[backups'[r].target].exists
  <2>1. CASE s.pc \in Executing /\ s.run = r
    BY <1>1, <2>1 DEF Executes
  <2>2. CASE backups[r].status = "running" /\ r # threads[w].run
    <3>1. CASE backupFaults = 0 /\ targets[backups[r].target].exists
      <4>1. PICK v \in BackupWorkers : Executes(v) /\ threads[v].run = r
        BY <2>2, <3>1 DEF RunningIsExecuted
      <4>2. v # w
        BY <2>2, <4>1
      <4>. QED
        BY <1>1, <4>1, <4>2 DEF Executes
    <3>. QED
      BY <1>6, <3>1
  <2>. QED
    BY <1>9, <2>1, <2>2
<1>10. RunningIsExecuted'
  BY <1>8, <1>9 DEF RunningIsExecuted
<1>. QED
  BY <1>2, <1>4, <1>5, <1>7, <1>10
LEMMA RunsApart == NoThread \notin RunIds
<1>1. NoThread \notin Nat /\ MaxBackups \in Nat
  BY BackupAssumption
<1>. QED
  BY <1>1 DEF RunIds

LEMMA ClaimRunKeeps == ASSUME BackupInv, NEW w \in BackupWorkers, ClaimRun(w) PROVE BackupInv'
<1>. USE DEF BackupInv
<1>1. /\ threads[w] \in ThreadState /\ threads[w].pc = "claim" /\ Executes(w)
      /\ threads[w].run = NoThread
  BY DEF ClaimRun, BackupTypeOK, AtRun, WithRun, Executes, Executing
<1>2. CASE Pending = {} /\ PcMoves(w, "release") /\ UNCHANGED backups
  <2>. DEFINE s == [threads[w] EXCEPT !.pc = "release"]
  <2>1. s \in ThreadState /\ s.pc = "release" /\ s.lock = threads[w].lock /\ s.run = NoThread
    BY <1>1 DEF ThreadState, ThreadPC
  <2>2. threads' = [threads EXCEPT ![w] = s]
    BY <1>2 DEF PcMoves
  <2>. HIDE DEF s
  <2>3. BackupTypeOK'
    BY <1>2, <2>1, <2>2 DEF ClaimRun, BackupTypeOK
  <2>. QED
    BY <1>1, <1>2, <2>1, <2>2, <2>3, RunsApart, ThreadMoves
       DEF ClaimRun, Pending, WithRun
<1>3. ASSUME NEW r \in Pending, backups' = [backups EXCEPT ![r].status = "running"],
             threads' = [threads EXCEPT ![w].pc = "work", ![w].run = r]
      PROVE  BackupInv'
  <2>. DEFINE s == [threads[w] EXCEPT !.pc = "work", !.run = r]
  <2>1. r \in RunIds /\ backups[r].status = "pending"
    BY DEF Pending
  <2>2. s \in ThreadState /\ s.pc = "work" /\ s.lock = threads[w].lock /\ s.run = r
    BY <1>1, <2>1 DEF ThreadState, ThreadPC
  <2>3. threads' = [threads EXCEPT ![w] = s]
    BY <1>3
  <2>. HIDE DEF s
  <2>4. /\ backups' \in [RunIds -> BackupRow]
        /\ \A q \in RunIds : backups'[q].target = backups[q].target
        /\ \A q \in RunIds \ {r} : backups'[q] = backups[q]
        /\ backups'[r].status = "running"
    BY <1>3, <2>1 DEF BackupTypeOK, BackupRow
  <2>5. BackupTypeOK'
    BY <2>2, <2>3, <2>4 DEF ClaimRun, BackupTypeOK
  <2>7. Pending' \subseteq Pending
    BY <2>4 DEF Pending
  <2>8. \A q \in RunIds : backups'[q].status = "running" =>
              \/ backups[q].status = "running" /\ q # threads[w].run
              \/ s.pc \in Executing /\ s.run = q
              \/ backupFaults' > 0 \/ ~targets[backups'[q].target].exists
    BY <1>1, <2>2, <2>4, RunsApart DEF Executing
  <2>9. UNCHANGED <<current, overlapped, dispatching, backupFaults, targets>>
    BY DEF ClaimRun
  <2>10. /\ s.pc \in Executing /\ s.pc \in WithRun /\ s.run \in RunIds
         /\ s.pc \notin {"dead", "recheck", "leave", "clear", "created", "release"}
         /\ s.pc \notin {"prune", "pruned"}
         /\ IF s.pc \in WithRun THEN s.run \in RunIds ELSE s.run = NoThread
         /\ backupFaults' \in {backupFaults, backupFaults + 1}
    BY <2>1, <2>2, <2>9 DEF WithRun, Executing
  <2>. QED
    BY ONLY BackupInv, <1>1, <2>2, <2>3, <2>4, <2>5, <2>7, <2>8, <2>9, <2>10,
            ThreadMoves, w \in BackupWorkers
<1>. QED
  BY <1>2, <1>3 DEF ClaimRun

(* What the threads that execute have in common.                           *)
LEMMA AtWork ==
    ASSUME BackupInv, NEW w \in BackupWorkers, threads[w].pc \in WithRun
    PROVE  /\ threads[w] \in ThreadState /\ Executes(w) /\ threads[w].run \in RunIds
           /\ backups[threads[w].run] \in BackupRow
BY DEF BackupInv, BackupTypeOK, AtRun, WithRun, Executes, Executing

LEMMA PerformKeeps == ASSUME BackupInv, NEW w \in BackupWorkers, Perform(w) PROVE BackupInv'
<1>. DEFINE r == threads[w].run
            f == <<backups[r].target, seconds>>
<1>1. /\ threads[w] \in ThreadState /\ Executes(w) /\ r \in RunIds
      /\ backups[r] \in BackupRow
  BY AtWork DEF Perform, WithRun
<1>2. UNCHANGED <<targets, seconds, current, dispatching, halfway, overlapped, early,
                  edits, backupFaults>>
  BY DEF Perform
<1>3. CASE PcMoves(w, "save") /\ files' = files \cup {f}
           /\ backups' = [backups EXCEPT ![r].made = seconds]
  <2>. DEFINE s == [threads[w] EXCEPT !.pc = "save"]
  <2>1. s \in ThreadState /\ s.pc = "save" /\ s.lock = threads[w].lock /\ s.run = r
    BY <1>1 DEF ThreadState, ThreadPC
  <2>2. threads' = [threads EXCEPT ![w] = s]
    BY <1>3 DEF PcMoves
  <2>3. f \in Files
    BY <1>1 DEF BackupInv, BackupTypeOK, BackupRow, Files
  <2>4. /\ backups' \in [RunIds -> BackupRow]
        /\ \A q \in RunIds : /\ backups'[q].target = backups[q].target
                             /\ backups'[q].status = backups[q].status
    BY <1>1, <1>3 DEF BackupInv, BackupTypeOK, BackupRow
  <2>. HIDE DEF s, r, f
  <2>5. BackupTypeOK'
    BY <1>2, <1>3, <2>1, <2>2, <2>3, <2>4 DEF BackupInv, BackupTypeOK
  <2>6. s.run \in RunIds
    BY <1>1, <2>1
  <2>. QED
    BY ZenonT(40), <1>1, <1>2, <2>1, <2>2, <2>4, <2>5, <2>6, ThreadMoves
       DEF WithRun, Executing, Pending, r
<1>4. CASE PcMoves(w, "fail") /\ UNCHANGED <<files, backups>>
  <2>. DEFINE s == [threads[w] EXCEPT !.pc = "fail"]
  <2>1. s \in ThreadState /\ s.pc = "fail" /\ s.lock = threads[w].lock /\ s.run = r
    BY <1>1 DEF ThreadState, ThreadPC
  <2>2. threads' = [threads EXCEPT ![w] = s]
    BY <1>4 DEF PcMoves
  <2>. HIDE DEF s, f
  <2>3. BackupTypeOK'
    BY <1>2, <1>4, <2>1, <2>2 DEF BackupInv, BackupTypeOK
  <2>. QED
    BY <1>1, <1>2, <1>4, <2>1, <2>2, <2>3, ThreadMoves DEF WithRun, Executing, Pending
<1>. QED
  BY <1>3, <1>4 DEF Perform

LEMMA SaveResultKeeps == ASSUME BackupInv, NEW w \in BackupWorkers, SaveResult(w) PROVE BackupInv'
<1>. DEFINE r == threads[w].run
<1>1. /\ threads[w] \in ThreadState /\ Executes(w) /\ r \in RunIds
      /\ backups[r] \in BackupRow
  BY AtWork DEF SaveResult, WithRun
<1>2. UNCHANGED <<targets, files, seconds, current, dispatching, halfway, overlapped,
                  early, edits, backupFaults>>
  BY DEF SaveResult
<1>3. CASE targets[backups[r].target].exists
  <2>. DEFINE s == [threads[w] EXCEPT !.pc = "prune"]
  <2>1. s \in ThreadState /\ s.pc = "prune" /\ s.lock = threads[w].lock /\ s.run = r
    BY <1>1 DEF ThreadState, ThreadPC
  <2>2. threads' = [threads EXCEPT ![w] = s]
    BY <1>3 DEF SaveResult, PcMoves
  <2>3. backups' = [backups EXCEPT ![r].status = "success",
                                   ![r].path = <<backups[r].target, backups[r].made>>]
    BY <1>3 DEF SaveResult
  <2>4. <<backups[r].target, backups[r].made>> \in Files
    BY <1>1 DEF BackupRow, Files
  <2>5. /\ backups' \in [RunIds -> BackupRow]
        /\ \A q \in RunIds : backups'[q].target = backups[q].target
        /\ \A q \in RunIds \ {r} : backups'[q] = backups[q]
        /\ backups'[r].status = "success"
    BY <1>1, <2>3, <2>4 DEF BackupInv, BackupTypeOK, BackupRow
  <2>. HIDE DEF s, r
  <2>6. BackupTypeOK'
    BY <1>2, <2>1, <2>2, <2>5 DEF BackupInv, BackupTypeOK
  <2>7. s.run \in RunIds /\ backups'[s.run].status \in {"success", "deleted"}
    BY <1>1, <2>1, <2>5
  <2>8. Pending' \subseteq Pending
    BY <2>5 DEF Pending
  <2>. QED
    BY ZenonT(40), <1>1, <1>2, <2>1, <2>2, <2>5, <2>6, <2>7, <2>8, ThreadMoves
       DEF WithRun, Executing, r
<1>4. CASE ~targets[backups[r].target].exists
  <2>. DEFINE s == [threads[w] EXCEPT !.pc = "claim", !.run = NoThread]
  <2>1. s \in ThreadState /\ s.pc = "claim" /\ s.lock = threads[w].lock /\ s.run = NoThread
    BY <1>1 DEF ThreadState, ThreadPC
  <2>2. threads' = [threads EXCEPT ![w] = s] /\ UNCHANGED backups
    BY <1>4 DEF SaveResult
  <2>. HIDE DEF s
  <2>3. BackupTypeOK'
    BY <1>2, <2>1, <2>2 DEF BackupInv, BackupTypeOK
  <2>. QED
    BY <1>1, <1>2, <1>4, <2>1, <2>2, <2>3, ThreadMoves DEF WithRun, Executing, Pending
<1>. QED
  BY <1>3, <1>4

LEMMA SaveFailureKeeps == ASSUME BackupInv, NEW w \in BackupWorkers, SaveFailure(w) PROVE BackupInv'
<1>. DEFINE r == threads[w].run
            s == [threads[w] EXCEPT !.pc = "claim", !.run = NoThread]
<1>1. /\ threads[w] \in ThreadState /\ Executes(w) /\ r \in RunIds
      /\ backups[r] \in BackupRow
  BY AtWork DEF SaveFailure, WithRun
<1>2. UNCHANGED <<targets, files, seconds, current, dispatching, halfway, overlapped,
                  early, edits, backupFaults>>
  BY DEF SaveFailure
<1>3. s \in ThreadState /\ s.pc = "claim" /\ s.lock = threads[w].lock /\ s.run = NoThread
  BY <1>1 DEF ThreadState, ThreadPC
<1>4. threads' = [threads EXCEPT ![w] = s]
  BY DEF SaveFailure
<1>5. /\ backups' \in [RunIds -> BackupRow]
      /\ \A q \in RunIds : backups'[q].target = backups[q].target
      /\ \A q \in RunIds \ {r} : backups'[q] = backups[q]
      /\ backups'[r].status = "failed"
  BY <1>1 DEF SaveFailure, BackupInv, BackupTypeOK, BackupRow
<1>. HIDE DEF s, r
<1>6. BackupTypeOK'
  BY <1>2, <1>3, <1>4, <1>5 DEF BackupInv, BackupTypeOK
<1>7. Pending' \subseteq Pending
  BY <1>5 DEF Pending
<1>. QED
  BY <1>1, <1>2, <1>3, <1>4, <1>5, <1>6, <1>7, ThreadMoves DEF WithRun, Executing, r

LEMMA PruneKeeps == ASSUME BackupInv, NEW w \in BackupWorkers, Prune(w) PROVE BackupInv'
<1>. DEFINE r == threads[w].run
            withFile == {q \in Prunable(r) : backups[q].path # NoFile}
<1>1. /\ threads[w] \in ThreadState /\ Executes(w) /\ r \in RunIds
      /\ backups[r] \in BackupRow /\ backups[r].status \in {"success", "deleted"}
  BY AtWork DEF Prune, WithRun, BackupInv, AtRun
<1>2. UNCHANGED <<backups, targets, seconds, current, dispatching, halfway, overlapped,
                  early, edits, backupFaults>>
  BY DEF Prune
<1>3. PICK gone \in SUBSET withFile :
          /\ files' = files \ {backups[q].path : q \in gone}
          /\ threads' = [threads EXCEPT ![w].pc = "pruned", ![w].removed = gone]
  BY DEF Prune
<1>4. gone \subseteq RunIds
  BY <1>3 DEF Prunable, Successes, RunsOf
<1>. DEFINE s == [threads[w] EXCEPT !.pc = "pruned", !.removed = gone]
<1>5. s \in ThreadState /\ s.pc = "pruned" /\ s.lock = threads[w].lock /\ s.run = r
  BY <1>1, <1>4 DEF ThreadState, ThreadPC
<1>6. threads' = [threads EXCEPT ![w] = s]
  BY <1>3
<1>. HIDE DEF s, withFile
<1>7. BackupTypeOK'
  BY <1>2, <1>3, <1>5, <1>6 DEF BackupInv, BackupTypeOK
<1>. QED
  BY <1>1, <1>2, <1>5, <1>6, <1>7, ThreadMoves DEF WithRun, Executing, Pending

LEMMA SavePrunedKeeps == ASSUME BackupInv, NEW w \in BackupWorkers, SavePruned(w) PROVE BackupInv'
<1>. DEFINE r == threads[w].run
            s == [threads[w] EXCEPT !.pc = "claim", !.run = NoThread, !.removed = {}]
<1>1. /\ threads[w] \in ThreadState /\ Executes(w) /\ r \in RunIds
      /\ backups[r] \in BackupRow /\ backups[r].status \in {"success", "deleted"}
  BY AtWork DEF SavePruned, WithRun, BackupInv, AtRun
<1>2. UNCHANGED <<targets, files, seconds, current, dispatching, halfway, overlapped,
                  early, edits, backupFaults>>
  BY DEF SavePruned
<1>3. s \in ThreadState /\ s.pc = "claim" /\ s.lock = threads[w].lock /\ s.run = NoThread
  BY <1>1 DEF ThreadState, ThreadPC
<1>4. threads' = [threads EXCEPT ![w] = s]
  BY DEF SavePruned
<1>5. /\ backups' \in [RunIds -> BackupRow]
      /\ \A q \in RunIds : /\ backups'[q].target = backups[q].target
                           /\ backups'[q].status = backups[q].status
  BY DEF SavePruned, BackupInv, BackupTypeOK, BackupRow
<1>. HIDE DEF s
<1>6. BackupTypeOK'
  BY <1>2, <1>3, <1>4, <1>5 DEF BackupInv, BackupTypeOK
<1>7. Pending' \subseteq Pending
  BY <1>5 DEF Pending
<1>8. \A q \in RunIds : backups'[q].status = "running" =>
          backups[q].status = "running" /\ q # threads[w].run
  BY <1>1, <1>5
<1>. QED
  BY <1>1, <1>2, <1>3, <1>4, <1>5, <1>6, <1>7, <1>8, ThreadMoves DEF WithRun, Executing

LEMMA ErrorKeeps == ASSUME BackupInv, NEW w \in BackupWorkers, DatabaseError(w) PROVE BackupInv'
<1>1. UNCHANGED <<backups, targets, files, seconds, current, dispatching, halfway,
                  overlapped, early, edits>> /\ backupFaults' = backupFaults + 1
  BY DEF DatabaseError
<1>2. backupFaults' > 0 /\ backupFaults' \in Nat
  BY <1>1 DEF BackupInv, BackupTypeOK
<1>3. threads[w] \in ThreadState
  BY DEF BackupInv, BackupTypeOK
<1>4. ASSUME NEW s \in ThreadState, threads' = [threads EXCEPT ![w] = s],
             s.lock = threads[w].lock, Executes(w), s.pc \in {"fail", "release", "claim"},
             IF s.pc = "fail" THEN s.run \in RunIds ELSE s.run = NoThread
      PROVE  BackupInv'
  <2>1. BackupTypeOK'
    BY <1>1, <1>2, <1>4 DEF BackupInv, BackupTypeOK
  <2>. QED
    BY <1>1, <1>2, <1>4, <2>1, ThreadMoves DEF WithRun, Executing, Pending
<1>5. CASE threads[w].pc \in {"work", "save"} /\ PcMoves(w, "fail")
  <2>. DEFINE s == [threads[w] EXCEPT !.pc = "fail"]
  <2>1. threads' = [threads EXCEPT ![w] = s]
    BY <1>5 DEF PcMoves
  <2>2. Executes(w) /\ threads[w].run \in RunIds
    BY <1>5, AtWork DEF WithRun
  <2>3. s \in ThreadState /\ s.pc = "fail" /\ s.lock = threads[w].lock /\ s.run \in RunIds
    BY <1>3, <2>2 DEF ThreadState, ThreadPC
  <2>. HIDE DEF s
  <2>. QED
    BY <1>4, <2>1, <2>2, <2>3
<1>6. CASE threads[w].pc \in {"claim", "fail"}
           /\ threads' = [threads EXCEPT ![w].pc = "release", ![w].run = NoThread]
  <2>. DEFINE s == [threads[w] EXCEPT !.pc = "release", !.run = NoThread]
  <2>1. threads' = [threads EXCEPT ![w] = s] /\ Executes(w)
    BY <1>6 DEF Executes, Executing
  <2>2. s \in ThreadState /\ s.pc = "release" /\ s.lock = threads[w].lock
        /\ s.run = NoThread
    BY <1>3 DEF ThreadState, ThreadPC
  <2>. HIDE DEF s
  <2>. QED
    BY <1>4, <2>1, <2>2
<1>7. CASE threads[w].pc \in {"prune", "pruned"}
           /\ threads' = [threads EXCEPT ![w].pc = "claim", ![w].removed = {},
                                         ![w].run = NoThread]
  <2>. DEFINE s == [threads[w] EXCEPT !.pc = "claim", !.removed = {}, !.run = NoThread]
  <2>1. threads' = [threads EXCEPT ![w] = s] /\ Executes(w)
    BY <1>7 DEF Executes, Executing
  <2>2. s \in ThreadState /\ s.pc = "claim" /\ s.lock = threads[w].lock
        /\ s.run = NoThread
    BY <1>3 DEF ThreadState, ThreadPC
  <2>. HIDE DEF s
  <2>. QED
    BY <1>4, <2>1, <2>2
<1>. QED
  BY <1>5, <1>6, <1>7 DEF DatabaseError

(* A thread that does not execute and does not begin to.                   *)
LEMMA IdleMoves ==
    ASSUME BackupInv, NEW w \in BackupWorkers, NEW s \in ThreadState,
           threads' = [threads EXCEPT ![w] = s], ~Executes(w),
           s.pc \notin Executing \cup {"release"}, ~s.lock, s.run = NoThread,
           UNCHANGED <<backups, targets, files, seconds, halfway, overlapped, early, edits,
                       backupFaults>>,
           current' \in BackupWorkers \cup {NoThread}, dispatching' \in Nat
    PROVE  /\ threads'[w] = s /\ \A v \in BackupWorkers \ {w} : threads'[v] = threads[v]
           /\ BackupTypeOK' /\ Locks' /\ OneLock' /\ AtRun' /\ RunningIsExecuted'
<1>. USE DEF BackupInv
<1>1. threads'[w] = s /\ \A v \in BackupWorkers \ {w} : threads'[v] = threads[v]
  BY DEF BackupTypeOK
<1>2. BackupTypeOK'
  BY DEF BackupTypeOK
<1>3. Locks' /\ OneLock'
  BY <1>1 DEF Locks, OneLock, Executes
<1>4. AtRun'
  BY <1>1 DEF AtRun, WithRun, Executing
<1>5. RunningIsExecuted'
  BY <1>1 DEF RunningIsExecuted, Executes
<1>. QED
  BY <1>1, <1>2, <1>3, <1>4, <1>5

LEMMA StartThreadKeeps == ASSUME BackupInv, NEW w \in BackupWorkers, StartThread(w) PROVE BackupInv'
<1>. DEFINE s == [threads[w] EXCEPT !.pc = "try"]
<1>1. threads' = [threads EXCEPT ![w] = s]
      /\ UNCHANGED <<backups, targets, files, seconds, current, dispatching, halfway,
                     overlapped, early, edits, backupFaults>>
  BY DEF StartThread, PcMoves
<1>2. ~Executes(w) /\ ~threads[w].lock /\ threads[w].run = NoThread
      /\ threads[w].pc = "created"
  BY DEF StartThread, BackupInv, Locks, AtRun, WithRun, Executes, Executing
<1>3. s \in ThreadState /\ s.pc = "try" /\ ~s.lock /\ s.run = NoThread
  BY <1>2 DEF BackupInv, BackupTypeOK, ThreadState, ThreadPC
<1>. HIDE DEF s
<1>4. current' \in BackupWorkers \cup {NoThread} /\ dispatching' \in Nat
  BY <1>1 DEF BackupInv, BackupTypeOK
<1>5. /\ threads'[w] = s /\ \A v \in BackupWorkers \ {w} : threads'[v] = threads[v]
      /\ BackupTypeOK' /\ Locks' /\ OneLock' /\ AtRun' /\ RunningIsExecuted'
  BY <1>1, <1>2, <1>3, <1>4, IdleMoves DEF Executing
<1>6. Sole'
  BY <1>1, <1>2, <1>3, <1>5 DEF BackupInv, Sole
<1>7. PendingIsServed'
  BY <1>1, <1>3, <1>5 DEF PendingIsServed, Executing
<1>. QED
  BY <1>5, <1>6, <1>7 DEF BackupInv

LEMMA ReleaseLockKeeps == ASSUME BackupInv, NEW w \in BackupWorkers, ReleaseLock(w) PROVE BackupInv'
<1>. DEFINE s == [threads[w] EXCEPT !.lock = FALSE,
                                    !.pc = IF threads[w].lock THEN "clear" ELSE "leave"]
<1>1. threads' = [threads EXCEPT ![w] = s]
      /\ UNCHANGED <<backups, targets, files, seconds, current, dispatching, halfway,
                     overlapped, early, edits, backupFaults>>
  BY DEF ReleaseLock
<1>2. ~Executes(w) /\ threads[w].run = NoThread /\ threads[w].pc = "release"
  BY DEF ReleaseLock, BackupInv, AtRun, WithRun, Executes, Executing
<1>3. s \in ThreadState /\ ~s.lock /\ s.run = NoThread /\ s.pc \in {"clear", "leave"}
      /\ (threads[w].lock => s.pc = "clear")
  BY <1>2 DEF BackupInv, BackupTypeOK, ThreadState, ThreadPC
<1>. HIDE DEF s
<1>4. current' \in BackupWorkers \cup {NoThread} /\ dispatching' \in Nat
  BY <1>1 DEF BackupInv, BackupTypeOK
<1>5. /\ threads'[w] = s /\ \A v \in BackupWorkers \ {w} : threads'[v] = threads[v]
      /\ BackupTypeOK' /\ Locks' /\ OneLock' /\ AtRun' /\ RunningIsExecuted'
  BY <1>1, <1>2, <1>3, <1>4, IdleMoves DEF Executing
<1>6. Sole'
  BY <1>1, <1>2, <1>3, <1>5 DEF BackupInv, Sole
<1>7. PendingIsServed'
  BY <1>1, <1>2, <1>3, <1>5 DEF BackupInv, PendingIsServed, Pending, Executing
<1>. QED
  BY <1>5, <1>6, <1>7 DEF BackupInv

LEMMA ClearCurrentKeeps == ASSUME BackupInv, NEW w \in BackupWorkers, ClearCurrent(w) PROVE BackupInv'
<1>. DEFINE s == IF threads[w].pc = "clear" /\ current = w
                 THEN [Dead EXCEPT !.pc = "recheck"] ELSE Dead
<1>1. threads' = [threads EXCEPT ![w] = s]
      /\ current' = (IF current = w THEN NoThread ELSE current)
      /\ UNCHANGED <<backups, targets, files, seconds, dispatching, halfway, overlapped,
                     early, edits, backupFaults>>
  BY DEF ClearCurrent
<1>2. ~Executes(w) /\ threads[w].pc \in {"clear", "leave"}
  BY DEF ClearCurrent, Executes, Executing
<1>3. s \in ThreadState /\ ~s.lock /\ s.run = NoThread /\ s.pc \in {"dead", "recheck"}
      /\ (threads[w].pc = "clear" /\ current = w => s.pc = "recheck")
  BY DEF Dead, ThreadState, ThreadPC
<1>. HIDE DEF s
<1>4. current' \in BackupWorkers \cup {NoThread} /\ dispatching' \in Nat
  BY <1>1 DEF BackupInv, BackupTypeOK
<1>5. /\ threads'[w] = s /\ \A v \in BackupWorkers \ {w} : threads'[v] = threads[v]
      /\ BackupTypeOK' /\ Locks' /\ OneLock' /\ AtRun' /\ RunningIsExecuted'
  BY <1>1, <1>2, <1>3, <1>4, IdleMoves DEF Executing
<1>6. Sole'
  BY <1>1, <1>2, <1>3, <1>5 DEF BackupInv, Sole
<1>7. PendingIsServed'
  BY <1>1, <1>2, <1>3, <1>5 DEF BackupInv, PendingIsServed, Pending, Executing
<1>. QED
  BY <1>5, <1>6, <1>7 DEF BackupInv

LEMMA RecheckKeeps == ASSUME BackupInv, NEW w \in BackupWorkers, Recheck(w) PROVE BackupInv'
<1>1. threads' = [threads EXCEPT ![w] = Dead]
      /\ dispatching' = dispatching + (IF Pending = {} THEN 0 ELSE 1)
      /\ UNCHANGED <<backups, targets, files, seconds, current, halfway, overlapped,
                     early, edits, backupFaults>>
  BY DEF Recheck
<1>2. ~Executes(w)
  BY DEF Recheck, Executes, Executing
<1>3. current' \in BackupWorkers \cup {NoThread} /\ dispatching' \in Nat
      /\ (Pending # {} => dispatching' > 0)
  BY <1>1 DEF BackupInv, BackupTypeOK
<1>4. /\ threads'[w] = Dead /\ \A v \in BackupWorkers \ {w} : threads'[v] = threads[v]
      /\ BackupTypeOK' /\ Locks' /\ OneLock' /\ AtRun' /\ RunningIsExecuted'
  BY <1>1, <1>2, <1>3, DeadTyped, IdleMoves DEF Executing
<1>5. Sole'
  BY <1>1, <1>4, DeadTyped DEF BackupInv, Sole
<1>6. PendingIsServed'
  BY <1>1, <1>3 DEF PendingIsServed, Pending
<1>. QED
  BY <1>4, <1>5, <1>6 DEF BackupInv

(* While no thread was replaced, the one that tries finds the lock free.   *)
LEMMA TryLockKeeps == ASSUME BackupInv, NEW w \in BackupWorkers, TryLock(w) PROVE BackupInv'
<1>. DEFINE s == [threads[w] EXCEPT !.pc = IF LockFree THEN "claim" ELSE "release",
                                    !.lock = LockFree]
<1>1. threads' = [threads EXCEPT ![w] = s]
      /\ UNCHANGED <<backups, targets, files, seconds, current, dispatching, halfway,
                     overlapped, early, edits, backupFaults>>
  BY DEF TryLock
<1>2. ~Executes(w) /\ threads[w].pc = "try" /\ ~threads[w].lock /\ threads[w].run = NoThread
  BY DEF TryLock, BackupInv, Locks, AtRun, WithRun, Executes, Executing
<1>3. LockFree \in BOOLEAN
  BY DEF LockFree
<1>4. s \in ThreadState /\ s.run = NoThread
      /\ \/ LockFree /\ s.pc = "claim" /\ s.lock
         \/ ~LockFree /\ s.pc = "release" /\ ~s.lock
  BY <1>2, <1>3 DEF BackupInv, BackupTypeOK, ThreadState, ThreadPC
<1>. HIDE DEF s
<1>5. threads'[w] = s /\ \A v \in BackupWorkers \ {w} : threads'[v] = threads[v]
  BY <1>1 DEF BackupInv, BackupTypeOK
<1>6. BackupTypeOK'
  BY <1>1, <1>4 DEF BackupInv, BackupTypeOK
<1>7. Locks' /\ OneLock'
  BY <1>4, <1>5 DEF BackupInv, Locks, OneLock, LockFree, Executes, Executing
<1>8. AtRun'
  BY <1>1, <1>4, <1>5 DEF BackupInv, AtRun, WithRun
<1>9. RunningIsExecuted'
  <2>1. \A u, v \in BackupWorkers : Executes(u)' /\ Executes(v)' => u = v
    BY <1>7 DEF Locks, OneLock
  <2>. QED
    BY <1>1, <1>2, <1>5, <2>1 DEF BackupInv, RunningIsExecuted, Executes
<1>10. overlapped \/ LockFree
  <2>1. ASSUME ~overlapped, NEW v \in BackupWorkers, threads[v].lock PROVE FALSE
    <3>1. current = w /\ current = v
      BY <1>2, <2>1 DEF BackupInv, Sole, Locks, Executes, Executing
    <3>. QED
      BY <1>2, <2>1, <3>1
  <2>. QED
    BY <2>1 DEF LockFree
<1>11. Sole' /\ PendingIsServed'
  BY <1>1, <1>2, <1>4, <1>5, <1>10 DEF BackupInv, Sole, PendingIsServed, Executing
<1>. QED
  BY <1>6, <1>7, <1>8, <1>9, <1>11 DEF BackupInv

LEMMA CrashKeeps == ASSUME BackupInv, CrashBackup PROVE BackupInv'
<1>1. /\ threads' = [w \in BackupWorkers |-> Dead] /\ current' = NoThread
      /\ dispatching' = 0 /\ halfway' = {}
      /\ UNCHANGED <<backups, targets, files, seconds, overlapped, early, edits>>
  BY DEF CrashBackup
<1>2. backupFaults' > 0 /\ backupFaults' \in Nat
  BY DEF CrashBackup, BackupInv, BackupTypeOK
<1>3. BackupTypeOK'
  BY <1>1, <1>2, DeadTyped DEF BackupInv, BackupTypeOK
<1>4. Locks' /\ OneLock' /\ Sole' /\ AtRun' /\ RunningIsExecuted' /\ PendingIsServed'
  BY <1>1, <1>2, DeadTyped DEF Locks, OneLock, Sole, AtRun, WithRun, RunningIsExecuted,
                               PendingIsServed, Executes, Executing
<1>. QED
  BY <1>3, <1>4 DEF BackupInv

LEMMA BackupStepInv == BackupInv /\ [BackupNext]_backupVars => BackupInv'
<1>. SUFFICES ASSUME BackupInv, [BackupNext]_backupVars PROVE BackupInv'
  OBVIOUS
<1>1. CASE UNCHANGED backupVars
  BY <1>1 DEF backupVars, BackupInv, BackupTypeOK, Locks, OneLock, Sole, AtRun,
              RunningIsExecuted, PendingIsServed, Executes, Pending
<1>2. ASSUME NEW w \in BackupWorkers, ThreadSteps(w) \/ DatabaseError(w) PROVE BackupInv'
  BY <1>2, StartThreadKeeps, TryLockKeeps, ClaimRunKeeps, PerformKeeps, SaveResultKeeps,
     SaveFailureKeeps, PruneKeeps, SavePrunedKeeps, ReleaseLockKeeps, ClearCurrentKeeps,
     RecheckKeeps, ErrorKeeps DEF ThreadSteps
<1>. QED
  BY <1>1, <1>2, StartBackupKeeps, TargetsKeep, ClaimDueKeeps, FilesKeep, DeleteRunKeeps,
     DispatchKeeps, CrashKeeps, SecondKeeps DEF BackupNext

(***************************************************************************)
(* Theorems                                                                *)
(***************************************************************************)
LEMMA BackupAlwaysInv == BackupSpec => []BackupInv
<1>. QED
  BY BackupInitInv, BackupStepInv, PTL DEF BackupSpec

(* Every column of backup_runs, every thread and every artifact is of its  *)
(* type, whatever is requested, deleted or lost in a crash.                *)
THEOREM BackupTypeCorrect == BackupSpec => []BackupTypeOK
<1>1. BackupInv => BackupTypeOK
  BY DEF BackupInv
<1>. QED
  BY <1>1, BackupAlwaysInv, PTL

(* One thread executes backups at a time, and a run marked running is the  *)
(* one it executes, unless a fault or the deletion of its target left it.  *)
THEOREM RunningAlwaysExecuted == BackupSpec => []RunningIsExecuted
<1>1. BackupInv => RunningIsExecuted
  BY DEF BackupInv
<1>. QED
  BY <1>1, BackupAlwaysInv, PTL

(* While a run is pending, somebody will still look at the queue, unless a *)
(* fault happened or a thread was replaced before it was started.          *)
THEOREM PendingAlwaysServed == BackupSpec => []PendingIsServed
<1>1. BackupInv => PendingIsServed
  BY DEF BackupInv
<1>. QED
  BY <1>1, BackupAlwaysInv, PTL

(***************************************************************************)
(* The artifacts                                                           *)
(*                                                                         *)
(* A row names its artifact once its result is saved (PathsHeld), and then *)
(* its artifact is there (WorkHeld).  What removes it later is a request   *)
(* that has still to clear the path, retention that has still to record    *)
(* it, or retention on behalf of a twin: an ended run of the same target   *)
(* and second, whose artifact has the same name (ArtifactsHeld).           *)
(***************************************************************************)
Ended(r) == backups[r].status \in {"success", "deleted"}
ArtifactOf(r) == <<backups[r].target, backups[r].made>>
Twin(r) == \E q \in RunIds \ {r} : Ended(q) /\ ArtifactOf(q) = ArtifactOf(r)

PathsHeld == \A r \in RunIds : backups[r].path # NoFile =>
    backups[r].status = "success" /\ backups[r].path = ArtifactOf(r)

WorkHeld == \A w \in BackupWorkers :
    /\ threads[w].pc \in {"work", "save", "fail"} => backups[threads[w].run].status = "running"
    /\ threads[w].pc = "save" => ArtifactOf(threads[w].run) \in files \cup early
    /\ threads[w].pc # "pruned" => threads[w].removed = {}

Accounted(r) ==
    \/ backups[r].path \in files
    \/ \E w \in BackupWorkers : r \in threads[w].removed
    \/ <<"file", backups[r].path>> \in halfway
    \/ Twin(r) \/ backupFaults > 0
    \/ backups[r].path \in early
ArtifactsHeld == \A r \in RunIds : backups[r].path # NoFile => Accounted(r)

KeptInv == BackupInv /\ PathsHeld /\ WorkHeld /\ ArtifactsHeld

LEMMA KeptParts ==
    KeptInv =>
        /\ backups \in [RunIds -> BackupRow] /\ threads \in [BackupWorkers -> ThreadState]
        /\ files \subseteq Files /\ early \subseteq Files
        /\ \A r \in RunIds : backups[r] \in BackupRow
        /\ \A w \in BackupWorkers : threads[w] \in ThreadState
        /\ \A w \in BackupWorkers : threads[w].pc \in WithRun => threads[w].run \in RunIds
        /\ \A v, w \in BackupWorkers : Executes(v) /\ Executes(w) => v = w
        /\ edits \in Nat /\ backupFaults \in Nat
BY DEF KeptInv, BackupInv, BackupTypeOK, AtRun, RunningIsExecuted

(* A twin stays one as long as what has ended stays as it is.              *)
LEMMA TwinStays ==
    ASSUME \A q \in RunIds : Ended(q) => Ended(q)' /\ backups'[q].target = backups[q].target
                                                   /\ backups'[q].made = backups[q].made,
           NEW r \in RunIds, Twin(r),
           backups'[r].target = backups[r].target, backups'[r].made = backups[r].made
    PROVE  Twin(r)'
BY DEF Twin, ArtifactOf

(* Nothing but a fault takes an artifact, or the record of its removal.    *)
LEMMA ArtifactsStay ==
    ASSUME KeptInv, files \subseteq files', early \subseteq early',
           \/ backupFaults' > 0
           \/ /\ halfway \subseteq halfway' /\ backupFaults' = backupFaults
              /\ \A w \in BackupWorkers : threads[w].removed \subseteq threads'[w].removed,
           \A r \in RunIds : backups'[r].path # NoFile => backups'[r] = backups[r],
           \A q \in RunIds : Ended(q) => Ended(q)' /\ backups'[q].target = backups[q].target
                                                   /\ backups'[q].made = backups[q].made
    PROVE  PathsHeld' /\ ArtifactsHeld'
<1>1. PathsHeld'
  BY DEF KeptInv, PathsHeld, ArtifactOf
<1>2. ASSUME NEW r \in RunIds, backups'[r].path # NoFile
      PROVE  Accounted(r)'
  <2>1. backups'[r] = backups[r] /\ Accounted(r)
    BY <1>2 DEF KeptInv, ArtifactsHeld
  <2>2. Twin(r) => Twin(r)'
    BY <2>1, TwinStays
  <2>3. CASE backupFaults' > 0
    BY <2>3 DEF Accounted
  <2>4. CASE /\ halfway \subseteq halfway' /\ backupFaults' = backupFaults
             /\ \A w \in BackupWorkers : threads[w].removed \subseteq threads'[w].removed
    BY <2>1, <2>2, <2>4 DEF Accounted
  <2>. QED
    BY <2>3, <2>4
<1>. QED
  BY <1>1, <1>2 DEF ArtifactsHeld

(* No thread gets at a run, and what a thread works on stays as it is.     *)
LEMMA WorkStays ==
    ASSUME KeptInv, files \subseteq files', early \subseteq early',
           \A w \in BackupWorkers :
              /\ threads'[w].pc \in {"work", "save", "fail"} =>
                    /\ threads'[w].run = threads[w].run
                    /\ \/ threads'[w].pc = threads[w].pc
                       \/ threads'[w].pc = "fail" /\ threads[w].pc \in {"work", "save"}
              /\ threads'[w].pc # "pruned" => threads'[w].removed = {},
           \A r \in RunIds : backups[r].status = "running" =>
              /\ backups'[r].status = "running" /\ backups'[r].target = backups[r].target
              /\ backups'[r].made = backups[r].made
    PROVE  WorkHeld'
<1> SUFFICES ASSUME NEW w \in BackupWorkers, threads'[w].pc \in {"work", "save", "fail"}
             PROVE  /\ backups'[threads'[w].run].status = "running"
                    /\ threads'[w].pc = "save" => ArtifactOf(threads[w].run)' \in files \cup early
                    /\ threads'[w].run = threads[w].run
  BY DEF WorkHeld, ArtifactOf
<1>1. /\ threads'[w].run = threads[w].run /\ threads[w].pc \in {"work", "save", "fail"}
      /\ threads'[w].pc = "save" => threads[w].pc = "save"
  OBVIOUS
<1>2. PICK r \in RunIds : r = threads[w].run
  BY <1>1, KeptParts DEF WithRun
<1>3. /\ backups[r].status = "running"
      /\ threads[w].pc = "save" => <<backups[r].target, backups[r].made>> \in files \cup early
  BY <1>1, <1>2 DEF KeptInv, WorkHeld, ArtifactOf
<1>. QED
  BY <1>1, <1>2, <1>3 DEF ArtifactOf

(* Requests, schedules, time, a crash, and the steps of a thread that      *)
(* touch neither a run nor an artifact.                                    *)
LEMMA OthersAccounted ==
    ASSUME KeptInv,
           \/ \E t \in BackupTargets :
                 \/ StartBackup(t) \/ ComesDue(t) \/ DeleteTargetCheck(t)
                 \/ DeleteTarget(t) \/ \E on \in BOOLEAN : SaveTarget(t, on)
           \/ ClaimDue \/ (\E r \in RunIds : DeleteRun(r)) \/ DispatchNothing
           \/ SecondPasses \/ CrashBackup \/ UNCHANGED backupVars
    PROVE  PathsHeld' /\ WorkHeld' /\ ArtifactsHeld'
<1>1. /\ UNCHANGED <<files, early>>
      /\ \/ /\ backupFaults' > 0
            /\ \A w \in BackupWorkers : threads'[w] = Dead
         \/ /\ UNCHANGED <<threads, backupFaults>>
            /\ halfway \subseteq halfway' \/ (\E t : halfway' = halfway \ {<<"target", t>>})
  <2>1. CASE CrashBackup
    BY <2>1, KeptParts DEF CrashBackup
  <2>2. CASE UNCHANGED backupVars \/ SecondPasses \/ DispatchNothing \/ ClaimDue
    BY <2>2 DEF backupVars, SecondPasses, DispatchNothing, ClaimDue
  <2>3. CASE \E r \in RunIds : DeleteRun(r)
    BY <2>3 DEF DeleteRun, Edit
  <2>4. ASSUME NEW t \in BackupTargets, StartBackup(t) \/ ComesDue(t) \/ DeleteTargetCheck(t)
        PROVE  /\ UNCHANGED <<files, early, threads, backupFaults>>
               /\ halfway \subseteq halfway'
    BY <2>4 DEF StartBackup, ComesDue, DeleteTargetCheck, Edit
  <2>5. ASSUME NEW t \in BackupTargets, DeleteTarget(t)
        PROVE  /\ UNCHANGED <<files, early, threads, backupFaults>>
               /\ halfway' = halfway \ {<<"target", t>>}
    BY <2>5 DEF DeleteTarget
  <2>6. ASSUME NEW t \in BackupTargets, NEW on \in BOOLEAN, SaveTarget(t, on)
        PROVE  UNCHANGED <<files, early, threads, backupFaults, halfway>>
    BY <2>6, ZenonT(30) DEF SaveTarget
  <2>. QED
    BY <2>1, <2>2, <2>3, <2>4, <2>5, <2>6
<1>2. \A r \in RunIds :
         /\ backups'[r].path # NoFile => backups'[r] = backups[r]
         /\ Ended(r) => Ended(r)' /\ backups'[r].target = backups[r].target
                                  /\ backups'[r].made = backups[r].made
         /\ backups[r].status = "running" =>
               /\ backups'[r].status = "running" /\ backups'[r].target = backups[r].target
               /\ backups'[r].made = backups[r].made
  <2>1. ASSUME NEW ts \in SUBSET BackupTargets, NEW new \in NextIds(ts), backups' = Inserted(new),
               NEW r \in RunIds
        PROVE  /\ backups'[r].path # NoFile => backups'[r] = backups[r]
               /\ backups[r].status # "none" => backups'[r] = backups[r]
    <3>1. CASE \E t \in DOMAIN new : new[t] = r
      <4>1. backups[r].status = "none"
        BY <3>1 DEF NextIds, FreeRunIds
      <4>2. backups'[r].path = NoFile
        BY <2>1, <3>1 DEF Inserted
      <4>. QED
        BY <4>1, <4>2
    <3>2. CASE ~\E t \in DOMAIN new : new[t] = r
      BY <2>1, <3>2 DEF Inserted
    <3>. QED
      BY <3>1, <3>2
  <2>2. ASSUME NEW t \in BackupTargets, StartBackup(t)
        PROVE  \E ts \in SUBSET BackupTargets : \E new \in NextIds(ts) : backups' = Inserted(new)
    <3>1. {t} \in SUBSET BackupTargets
      OBVIOUS
    <3>. QED
      BY <2>2, <3>1 DEF StartBackup
  <2>3. ASSUME ClaimDue
        PROVE  \E ts \in SUBSET BackupTargets : \E new \in NextIds(ts) : backups' = Inserted(new)
    <3>1. {t \in DueTargets : ~HasActive(t)} \in SUBSET BackupTargets
      BY DEF DueTargets
    <3>. QED
      BY <2>3, <3>1 DEF ClaimDue
  <2>4. CASE \E ts \in SUBSET BackupTargets : \E new \in NextIds(ts) : backups' = Inserted(new)
    BY <2>1, <2>4 DEF Ended
  <2>5. ASSUME NEW q \in RunIds, DeleteRun(q), NEW r \in RunIds
        PROVE  /\ r # q => backups'[r] = backups[r]
               /\ backups'[q].path = NoFile /\ backups'[q].status = "deleted"
               /\ backups'[q].target = backups[q].target /\ backups'[q].made = backups[q].made
               /\ backups[q].status # "running"
    BY <2>5, KeptParts DEF DeleteRun, BackupRow
  <2>6. CASE \E q \in RunIds : DeleteRun(q)
    BY <2>5, <2>6 DEF Ended
  <2>7. CASE UNCHANGED backups
    BY <2>7 DEF Ended
  <2>8. \/ \E t \in BackupTargets : StartBackup(t)
        \/ ClaimDue \/ (\E r \in RunIds : DeleteRun(r)) \/ UNCHANGED backups
    <3>1. ASSUME NEW t \in BackupTargets, NEW on \in BOOLEAN, SaveTarget(t, on)
          PROVE  UNCHANGED backups
      BY <3>1, ZenonT(30) DEF SaveTarget
    <3>. QED
      BY <3>1 DEF ComesDue, DeleteTargetCheck, DeleteTarget, DispatchNothing, SecondPasses,
         CrashBackup, backupVars
  <2>. QED
    BY <2>2, <2>3, <2>4, <2>6, <2>7, <2>8
<1>3. WorkHeld'
  <2>1. \A w \in BackupWorkers :
           /\ threads'[w].pc \in {"work", "save", "fail"} =>
                 threads'[w].run = threads[w].run /\ threads'[w].pc = threads[w].pc
           /\ threads'[w].pc # "pruned" => threads'[w].removed = {}
    BY <1>1, DeadTyped DEF KeptInv, WorkHeld, Dead
  <2>. QED
    BY <1>1, <1>2, <2>1, WorkStays
<1>4. CASE backupFaults' > 0 \/ (halfway \subseteq halfway' /\ UNCHANGED <<threads, backupFaults>>)
  BY <1>1, <1>2, <1>3, <1>4, ArtifactsStay
<1>5. CASE /\ UNCHANGED <<threads, backupFaults>>
           /\ \E t : halfway' = halfway \ {<<"target", t>>}
  <2>1. \A f : <<"file", f>> \in halfway => <<"file", f>> \in halfway'
    BY <1>5
  <2>2. PathsHeld'
    BY <1>2 DEF KeptInv, PathsHeld, ArtifactOf
  <2>3. ASSUME NEW r \in RunIds, backups'[r].path # NoFile
        PROVE  Accounted(r)'
    <3>1. backups'[r] = backups[r] /\ Accounted(r)
      BY <1>2, <2>3 DEF KeptInv, ArtifactsHeld
    <3>2. Twin(r) => Twin(r)'
      BY <1>2, <3>1, TwinStays
    <3>. QED
      BY <1>1, <1>5, <2>1, <3>1, <3>2 DEF Accounted
  <2>. QED
    BY <1>3, <2>2, <2>3 DEF ArtifactsHeld
<1>. QED
  BY <1>1, <1>4, <1>5

(* A request removes a remote file, and clears the paths that name it.     *)
LEMMA RequestAccounted ==
    ASSUME KeptInv, NEW f \in Files, DeleteRemoteFile(f) \/ ClearRemotePaths(f)
    PROVE  PathsHeld' /\ WorkHeld' /\ ArtifactsHeld'
<1>1. CASE DeleteRemoteFile(f)
  <2>1. /\ files' = files \ {f} /\ halfway' = halfway \cup {<<"file", f>>}
        /\ UNCHANGED <<backups, threads, backupFaults>>
    BY <1>1 DEF DeleteRemoteFile
  <2>2. /\ early \subseteq early'
        /\ \A w \in BackupWorkers : threads[w].pc = "save" /\ ArtifactOf(threads[w].run) = f
             => f \in early'
    BY <1>1 DEF DeleteRemoteFile, ArtifactOf
  <2>3. PathsHeld'
    BY <2>1 DEF KeptInv, PathsHeld, ArtifactOf
  <2>4. WorkHeld'
    <3> SUFFICES ASSUME NEW w \in BackupWorkers
                 PROVE  /\ threads[w].pc \in {"work", "save", "fail"} =>
                              backups[threads[w].run].status = "running"
                        /\ threads[w].pc = "save" => ArtifactOf(threads[w].run) \in files' \cup early'
                        /\ threads[w].pc # "pruned" => threads[w].removed = {}
      BY <2>1 DEF WorkHeld, ArtifactOf
    <3>1. threads[w].pc = "save" => ArtifactOf(threads[w].run) \in files \cup early
      BY DEF KeptInv, WorkHeld
    <3>. QED
      BY <2>1, <2>2, <3>1 DEF KeptInv, WorkHeld
  <2>5. \A r \in RunIds : Twin(r) => Twin(r)'
    BY <2>1 DEF Twin, Ended, ArtifactOf
  <2>6. ArtifactsHeld'
    BY <2>1, <2>2, <2>5 DEF KeptInv, ArtifactsHeld, Accounted
  <2>. QED
    BY <2>3, <2>4, <2>6
<1>2. CASE ClearRemotePaths(f)
  <2>1. /\ UNCHANGED <<files, threads, early, backupFaults>>
        /\ halfway' = halfway \ {<<"file", f>>}
    BY <1>2 DEF ClearRemotePaths
  <2>2. \A r \in RunIds :
           /\ backups'[r].status = backups[r].status /\ backups'[r].target = backups[r].target
           /\ backups'[r].made = backups[r].made
           /\ backups'[r].path # NoFile => backups'[r] = backups[r] /\ backups[r].path # f
    BY <1>2, KeptParts DEF ClearRemotePaths, BackupRow, Files, NoFile
  <2>3. PathsHeld'
    BY <2>2 DEF KeptInv, PathsHeld, ArtifactOf
  <2>4. WorkHeld'
    BY <2>1, <2>2, WorkStays DEF KeptInv, WorkHeld
  <2>5. \A r \in RunIds : Twin(r) => Twin(r)'
    BY <2>2 DEF Twin, Ended, ArtifactOf
  <2>6. ASSUME NEW r \in RunIds, backups'[r].path # NoFile
        PROVE  Accounted(r)'
    <3>1. backups'[r] = backups[r] /\ backups[r].path # f /\ Accounted(r)
      BY <2>2, <2>6 DEF KeptInv, ArtifactsHeld
    <3>2. <<"file", backups[r].path>> # <<"file", f>>
      BY <3>1
    <3>. QED
      BY <2>1, <2>5, <3>1, <3>2 DEF Accounted
  <2>. QED
    BY <2>3, <2>4, <2>6 DEF ArtifactsHeld
<1>. QED
  BY <1>1, <1>2

(* A thread that ends, waits, claims a run or fails it: none has removed   *)
(* anything that is not recorded, unless a statement raised.               *)
LEMMA ThreadAccounted ==
    ASSUME KeptInv, NEW w \in BackupWorkers,
           \/ Dispatch(w) \/ StartThread(w) \/ TryLock(w) \/ ClaimRun(w) \/ SaveFailure(w)
           \/ ReleaseLock(w) \/ ClearCurrent(w) \/ Recheck(w) \/ DatabaseError(w)
    PROVE  PathsHeld' /\ WorkHeld' /\ ArtifactsHeld'
<1>1. UNCHANGED <<files, early, halfway>>
  BY DEF Dispatch, StartThread, TryLock, ClaimRun, SaveFailure, ReleaseLock, ClearCurrent,
     Recheck, DatabaseError
<1>2. \A v \in BackupWorkers \ {w} : threads'[v] = threads[v]
  BY KeptParts DEF Dispatch, StartThread, TryLock, ClaimRun, SaveFailure, ReleaseLock,
     ClearCurrent, Recheck, DatabaseError, PcMoves
<1>3. /\ threads'[w].removed = {}
      /\ backupFaults' > 0 \/ (backupFaults' = backupFaults /\ threads[w].pc # "pruned")
  <2>1. CASE DatabaseError(w)
    <3>1. backupFaults' > 0
      BY <2>1, KeptParts DEF DatabaseError
    <3>2. threads[w].pc # "pruned" => threads[w].removed = {}
      BY DEF KeptInv, WorkHeld
    <3>3. threads'[w].removed = {}
      BY <2>1, <3>2, KeptParts DEF DatabaseError, PcMoves, ThreadState
    <3>. QED
      BY <3>1, <3>3
  <2>2. CASE ~DatabaseError(w)
    <3>1. /\ threads[w].pc # "pruned" /\ backupFaults' = backupFaults
      BY <2>2 DEF Dispatch, StartThread, TryLock, ClaimRun, SaveFailure, ReleaseLock,
         ClearCurrent, Recheck
    <3>2. threads[w].removed = {}
      BY <3>1 DEF KeptInv, WorkHeld
    <3>3. threads'[w].removed \in {threads[w].removed, {}}
      BY <2>2, KeptParts DEF Dispatch, StartThread, TryLock, ClaimRun, SaveFailure, ReleaseLock,
         ClearCurrent, Recheck, PcMoves, ThreadState, Dead
    <3>. QED
      BY <3>1, <3>2, <3>3
  <2>. QED
    BY <2>1, <2>2
<1>4. \/ /\ UNCHANGED backups
         /\ threads'[w].pc \in {"work", "save", "fail"} =>
               /\ threads'[w].run = threads[w].run /\ threads'[w].pc = "fail"
               /\ threads[w].pc \in {"work", "save"}
      \/ SaveFailure(w) \/ \E r \in Pending : backups' = [backups EXCEPT ![r].status = "running"]
                                              /\ threads'[w].pc = "work" /\ threads'[w].run = r
                                              /\ threads[w].pc = "claim"
  BY KeptParts DEF Dispatch, StartThread, TryLock, ClaimRun, ReleaseLock,
     ClearCurrent, Recheck, DatabaseError, PcMoves, ThreadState, Dead
<1>5. \A v \in BackupWorkers : threads[v].removed # {} => threads[v].pc = "pruned"
  BY DEF KeptInv, WorkHeld
<1>6. \/ backupFaults' > 0
      \/ /\ backupFaults' = backupFaults
         /\ \A v \in BackupWorkers : threads[v].removed \subseteq threads'[v].removed
  BY <1>2, <1>3, <1>5
<1>7. \A v \in BackupWorkers : threads'[v].pc # "pruned" => threads'[v].removed = {}
  BY <1>2, <1>3, <1>5
<1>8. CASE /\ UNCHANGED backups
           /\ threads'[w].pc \in {"work", "save", "fail"} =>
                 /\ threads'[w].run = threads[w].run /\ threads'[w].pc = "fail"
                 /\ threads[w].pc \in {"work", "save"}
  <2>1. WorkHeld'
    BY <1>1, <1>2, <1>7, <1>8, WorkStays
  <2>2. PathsHeld' /\ ArtifactsHeld'
    BY <1>1, <1>6, <1>8, ArtifactsStay DEF Ended
  <2>. QED
    BY <2>1, <2>2
<1>9. CASE SaveFailure(w)
  <2>1. PICK r \in RunIds : r = threads[w].run
    BY <1>9, KeptParts DEF SaveFailure, WithRun
  <2>2. /\ backups[r].status = "running" /\ threads[w].pc = "fail" /\ threads'[w].pc = "claim"
        /\ backups' = [backups EXCEPT ![r].status = "failed"]
    BY <1>9, <2>1, KeptParts DEF SaveFailure, KeptInv, WorkHeld, ThreadState
  <2>3. backups[r].path = NoFile
    BY <2>2 DEF KeptInv, PathsHeld
  <2>4. /\ backups'[r].path = NoFile
        /\ \A q \in RunIds \ {r} : backups'[q] = backups[q]
    BY <2>2, <2>3, KeptParts DEF BackupRow
  <2>5. WorkHeld'
    <3>1. \A v \in BackupWorkers \ {w} : threads[v].pc \notin {"work", "save", "fail"}
      BY <2>2, KeptParts DEF Executes, Executing
    <3>. QED
      BY <1>2, <1>7, <2>2, <3>1 DEF WorkHeld
  <2>6. PathsHeld' /\ ArtifactsHeld'
    BY <1>1, <1>6, <2>2, <2>4, ArtifactsStay DEF Ended
  <2>. QED
    BY <2>5, <2>6
<1>10. ASSUME NEW r \in Pending, backups' = [backups EXCEPT ![r].status = "running"],
              threads'[w].pc = "work", threads'[w].run = r, threads[w].pc = "claim"
       PROVE  PathsHeld' /\ WorkHeld' /\ ArtifactsHeld'
  <2>1. r \in RunIds /\ backups[r].status = "pending"
    BY DEF Pending
  <2>2. backups[r].path = NoFile
    BY <2>1 DEF KeptInv, PathsHeld
  <2>3. /\ backups'[r].path = NoFile /\ backups'[r].status = "running"
        /\ \A q \in RunIds \ {r} : backups'[q] = backups[q]
    BY <1>10, <2>1, <2>2, KeptParts DEF BackupRow
  <2>4. WorkHeld'
    <3>1. \A v \in BackupWorkers \ {w} : threads[v].pc \notin {"work", "save", "fail"}
      BY <1>10, KeptParts DEF Executes, Executing
    <3>. QED
      BY <1>2, <1>7, <1>10, <2>3, <3>1 DEF WorkHeld
  <2>5. PathsHeld' /\ ArtifactsHeld'
    BY <1>1, <1>6, <2>1, <2>3, ArtifactsStay DEF Ended
  <2>. QED
    BY <2>4, <2>5
<1>. QED
  BY <1>4, <1>8, <1>9, <1>10

(* The artifact of a run is made, and named by the row.                    *)
LEMMA PerformAccounted ==
    ASSUME KeptInv, NEW w \in BackupWorkers, Perform(w)
    PROVE  PathsHeld' /\ WorkHeld' /\ ArtifactsHeld'
<1>1. PICK r \in RunIds : r = threads[w].run
  BY KeptParts DEF Perform, WithRun
<1>2. /\ threads[w].pc = "work" /\ UNCHANGED <<early, halfway, backupFaults>>
      /\ \/ /\ PcMoves(w, "save") /\ files' = files \cup {<<backups[r].target, seconds>>}
            /\ backups' = [backups EXCEPT ![r].made = seconds]
         \/ PcMoves(w, "fail") /\ UNCHANGED <<files, backups>>
  BY <1>1 DEF Perform
<1>3. backups[r].status = "running" /\ backups[r].path = NoFile
  <2>1. backups[r].status = "running"
    BY <1>1, <1>2 DEF KeptInv, WorkHeld
  <2>. QED
    BY <2>1 DEF KeptInv, PathsHeld
<1>4. /\ threads'[w].pc \in {"save", "fail"} /\ threads'[w].run = r /\ threads'[w].removed = {}
      /\ \A v \in BackupWorkers \ {w} :
            threads'[v] = threads[v] /\ threads[v].pc \notin {"work", "save", "fail"}
  <2>1. threads[w].removed = {}
    BY <1>2 DEF KeptInv, WorkHeld
  <2>2. \A v \in BackupWorkers \ {w} : threads[v].pc \notin {"work", "save", "fail"}
    BY <1>2, KeptParts DEF Executes, Executing
  <2>. QED
    BY <1>1, <1>2, <2>1, <2>2, KeptParts DEF PcMoves, ThreadState
<1>5. /\ backups'[r].status = "running" /\ backups'[r].path = NoFile
      /\ backups'[r].target = backups[r].target
      /\ threads'[w].pc = "save" => backups'[r].made = seconds /\ <<backups[r].target, seconds>> \in files'
      /\ \A q \in RunIds \ {r} : backups'[q] = backups[q]
      /\ files \subseteq files'
  BY <1>2, <1>3, KeptParts DEF BackupRow, PcMoves, ThreadState
<1>6. WorkHeld'
  <2>1. \A v \in BackupWorkers \ {w} : threads[v].pc # "pruned" => threads[v].removed = {}
    BY DEF KeptInv, WorkHeld
  <2>. QED
    BY <1>4, <1>5, <2>1 DEF WorkHeld, ArtifactOf
<1>7. \A v \in BackupWorkers : threads[v].removed \subseteq threads'[v].removed
  BY <1>2, <1>4 DEF KeptInv, WorkHeld
<1>8. PathsHeld' /\ ArtifactsHeld'
  BY <1>2, <1>3, <1>5, <1>7, ArtifactsStay DEF Ended
<1>. QED
  BY <1>6, <1>8

LEMMA ResultAccounted ==
    ASSUME KeptInv, NEW w \in BackupWorkers, SaveResult(w)
    PROVE  PathsHeld' /\ WorkHeld' /\ ArtifactsHeld'
<1>1. PICK r \in RunIds : r = threads[w].run
  BY KeptParts DEF SaveResult, WithRun
<1>2. /\ threads[w].pc = "save" /\ UNCHANGED <<files, early, halfway, backupFaults>>
      /\ \/ /\ PcMoves(w, "prune")
            /\ backups' = [backups EXCEPT ![r].status = "success", ![r].path = ArtifactOf(r)]
         \/ /\ threads' = [threads EXCEPT ![w].pc = "claim", ![w].run = NoThread]
            /\ UNCHANGED backups
  BY <1>1 DEF SaveResult, ArtifactOf
<1>3. /\ backups[r].status = "running" /\ ArtifactOf(r) \in files \cup early
      /\ threads[w].removed = {}
  BY <1>1, <1>2 DEF KeptInv, WorkHeld
<1>4. /\ threads'[w].pc \in {"prune", "claim"} /\ threads'[w].removed = {}
      /\ \A v \in BackupWorkers \ {w} :
            threads'[v] = threads[v] /\ threads[v].pc \notin {"work", "save", "fail"}
  <2>1. \A v \in BackupWorkers \ {w} : threads[v].pc \notin {"work", "save", "fail"}
    BY <1>2, KeptParts DEF Executes, Executing
  <2>. QED
    BY <1>2, <1>3, <2>1, KeptParts DEF PcMoves, ThreadState
<1>5. WorkHeld'
  <2>1. \A v \in BackupWorkers \ {w} : threads[v].pc # "pruned" => threads[v].removed = {}
    BY DEF KeptInv, WorkHeld
  <2>. QED
    BY <1>4, <2>1 DEF WorkHeld
<1>6. \A v \in BackupWorkers : threads[v].removed \subseteq threads'[v].removed
  BY <1>3, <1>4
<1>7. CASE UNCHANGED backups
  BY <1>2, <1>5, <1>6, <1>7, ArtifactsStay DEF Ended
<1>8. CASE backups' = [backups EXCEPT ![r].status = "success", ![r].path = ArtifactOf(r)]
  <2>1. /\ backups'[r].status = "success" /\ backups'[r].path = ArtifactOf(r)
        /\ backups'[r].target = backups[r].target /\ backups'[r].made = backups[r].made
        /\ \A q \in RunIds \ {r} : backups'[q] = backups[q]
    BY <1>8, KeptParts DEF BackupRow
  <2>2. PathsHeld'
    BY <2>1 DEF KeptInv, PathsHeld, ArtifactOf
  <2>3. \A q \in RunIds : Ended(q) => Ended(q)' /\ backups'[q].target = backups[q].target
                                               /\ backups'[q].made = backups[q].made
    BY <2>1 DEF Ended
  <2>4. ASSUME NEW q \in RunIds, backups'[q].path # NoFile
        PROVE  Accounted(q)'
    <3>1. CASE q = r
      BY <1>2, <1>3, <2>1, <3>1 DEF Accounted
    <3>2. CASE q # r
      <4>1. backups'[q] = backups[q] /\ Accounted(q)
        BY <2>1, <2>4, <3>2 DEF KeptInv, ArtifactsHeld
      <4>2. Twin(q) => Twin(q)'
        BY <2>3, <4>1, TwinStays
      <4>. QED
        BY <1>2, <1>6, <4>1, <4>2 DEF Accounted
    <3>. QED
      BY <3>1, <3>2
  <2>. QED
    BY <1>5, <2>2, <2>4 DEF ArtifactsHeld
<1>. QED
  BY <1>2, <1>7, <1>8

(* Retention removes artifacts, and then clears the paths that name them.  *)
LEMMA PruneTaken ==
    ASSUME KeptInv, NEW w \in BackupWorkers, Prune(w)
    PROVE  \E gone \in SUBSET Prunable(threads[w].run) :
              /\ \A q \in gone : backups[q].path # NoFile /\ q \in RunIds
              /\ files' = files \ {backups[q].path : q \in gone}
              /\ threads'[w].pc = "pruned" /\ threads'[w].removed = gone
              /\ \A v \in BackupWorkers \ {w} : threads'[v] = threads[v]
              /\ threads[w].pc = "prune"
              /\ UNCHANGED <<backups, halfway, early, backupFaults>>
<1>1. PICK gone \in SUBSET {q \in Prunable(threads[w].run) : backups[q].path # NoFile} :
         /\ files' = files \ {backups[q].path : q \in gone}
         /\ threads' = [threads EXCEPT ![w].pc = "pruned", ![w].removed = gone]
  BY DEF Prune
<1>2. Prunable(threads[w].run) \subseteq RunIds
  BY DEF Prunable, Successes, RunsOf
<1>3. /\ threads'[w].pc = "pruned" /\ threads'[w].removed = gone
      /\ \A v \in BackupWorkers \ {w} : threads'[v] = threads[v]
  BY <1>1, KeptParts DEF ThreadState
<1>. QED
  BY <1>1, <1>2, <1>3 DEF Prune

LEMMA PruneAccounted ==
    ASSUME KeptInv, NEW w \in BackupWorkers, Prune(w)
    PROVE  PathsHeld' /\ WorkHeld' /\ ArtifactsHeld'
<1>1. PICK gone \in SUBSET Prunable(threads[w].run) :
         /\ \A q \in gone : backups[q].path # NoFile /\ q \in RunIds
         /\ files' = files \ {backups[q].path : q \in gone}
         /\ threads'[w].pc = "pruned" /\ threads'[w].removed = gone
         /\ \A v \in BackupWorkers \ {w} : threads'[v] = threads[v]
         /\ threads[w].pc = "prune"
         /\ UNCHANGED <<backups, halfway, early, backupFaults>>
  BY PruneTaken
<1>2. /\ \A v \in BackupWorkers \ {w} : threads[v].pc \notin {"work", "save", "fail"}
      /\ threads[w].removed = {}
  BY <1>1, KeptParts DEF Executes, Executing, KeptInv, WorkHeld
<1>3. PathsHeld'
  BY <1>1 DEF KeptInv, PathsHeld, ArtifactOf
<1>4. WorkHeld'
  <2>1. \A v \in BackupWorkers \ {w} : threads[v].pc # "pruned" => threads[v].removed = {}
    BY DEF KeptInv, WorkHeld
  <2>. QED
    BY <1>1, <1>2, <2>1 DEF WorkHeld
<1>5. \A q \in gone : backups[q].status = "success" /\ backups[q].path = ArtifactOf(q)
  BY <1>1 DEF KeptInv, PathsHeld
<1>6. ASSUME NEW r \in RunIds, backups[r].path # NoFile
      PROVE  Accounted(r)'
  <2>1. Accounted(r)
    BY <1>6 DEF KeptInv, ArtifactsHeld
  <2>2. Twin(r) => Twin(r)'
    BY <1>1 DEF Twin, Ended, ArtifactOf
  <2>3. CASE backups[r].path \in files /\ backups[r].path \notin files'
    <3>1. PICK q \in gone : backups[q].path = backups[r].path
      BY <1>1, <2>3
    <3>2. CASE q = r
      BY <1>1, <3>2 DEF Accounted
    <3>3. CASE q # r
      <4>1. ArtifactOf(q) = ArtifactOf(r) /\ Ended(q) /\ q \in RunIds
        BY <1>1, <1>5, <1>6, <3>1 DEF Ended, KeptInv, PathsHeld
      <4>2. Twin(r)
        BY <3>3, <4>1 DEF Twin
      <4>. QED
        BY <2>2, <4>2 DEF Accounted
    <3>. QED
      BY <3>2, <3>3
  <2>4. CASE ~(backups[r].path \in files /\ backups[r].path \notin files')
    BY <1>1, <1>2, <2>1, <2>2, <2>4 DEF Accounted
  <2>. QED
    BY <2>3, <2>4
<1>. QED
  BY <1>1, <1>3, <1>4, <1>6 DEF ArtifactsHeld

LEMMA PrunedAccounted ==
    ASSUME KeptInv, NEW w \in BackupWorkers, SavePruned(w)
    PROVE  PathsHeld' /\ WorkHeld' /\ ArtifactsHeld'
<1>1. /\ threads[w].pc = "pruned" /\ UNCHANGED <<files, early, halfway, backupFaults>>
      /\ backups' = [q \in RunIds |-> IF q \in threads[w].removed
                                      THEN [backups[q] EXCEPT !.path = NoFile]
                                      ELSE backups[q]]
  BY DEF SavePruned
<1>2. /\ threads'[w].pc = "claim" /\ threads'[w].removed = {}
      /\ \A v \in BackupWorkers \ {w} : threads'[v] = threads[v]
  BY KeptParts DEF SavePruned, ThreadState
<1>3. \A q \in RunIds :
         /\ backups'[q].path # NoFile => backups'[q] = backups[q] /\ q \notin threads[w].removed
         /\ backups'[q].status = backups[q].status /\ backups'[q].target = backups[q].target
         /\ backups'[q].made = backups[q].made
  BY <1>1, KeptParts DEF BackupRow
<1>4. PathsHeld'
  BY <1>3 DEF KeptInv, PathsHeld, ArtifactOf
<1>5. WorkHeld'
  <2>1. \A v \in BackupWorkers : threads'[v].pc # "pruned" => threads'[v].removed = {}
    BY <1>2 DEF KeptInv, WorkHeld
  <2>. QED
    BY <1>1, <1>2, <1>3, <2>1, WorkStays
<1>6. ASSUME NEW r \in RunIds, backups'[r].path # NoFile
      PROVE  Accounted(r)'
  <2>1. backups'[r] = backups[r] /\ r \notin threads[w].removed /\ Accounted(r)
    BY <1>3, <1>6 DEF KeptInv, ArtifactsHeld
  <2>2. Twin(r) => Twin(r)'
    BY <1>3 DEF Twin, Ended, ArtifactOf
  <2>. QED
    BY <1>1, <1>2, <2>1, <2>2 DEF Accounted
<1>. QED
  BY <1>4, <1>5, <1>6 DEF ArtifactsHeld

LEMMA KeptInitially == BackupInit => KeptInv
<1> SUFFICES ASSUME BackupInit PROVE KeptInv
  OBVIOUS
<1>1. /\ \A r \in RunIds : backups[r].path = NoFile
      /\ \A w \in BackupWorkers : threads[w].pc = "dead" /\ threads[w].removed = {}
  BY DEF BackupInit, Dead
<1>2. PathsHeld /\ WorkHeld /\ ArtifactsHeld
  BY <1>1 DEF PathsHeld, WorkHeld, ArtifactsHeld
<1>. QED
  BY <1>2, BackupInitInv DEF KeptInv

LEMMA KeptStep == KeptInv /\ [BackupNext]_backupVars => KeptInv'
<1> SUFFICES ASSUME KeptInv, [BackupNext]_backupVars PROVE KeptInv'
  OBVIOUS
<1>1. BackupInv'
  BY BackupStepInv DEF KeptInv
<1>2. CASE \/ \E t \in BackupTargets :
                 \/ StartBackup(t) \/ ComesDue(t) \/ DeleteTargetCheck(t)
                 \/ DeleteTarget(t) \/ \E on \in BOOLEAN : SaveTarget(t, on)
           \/ ClaimDue \/ (\E r \in RunIds : DeleteRun(r)) \/ DispatchNothing
           \/ SecondPasses \/ CrashBackup \/ UNCHANGED backupVars
  BY <1>1, <1>2, OthersAccounted DEF KeptInv
<1>3. CASE \E f \in Files : DeleteRemoteFile(f) \/ ClearRemotePaths(f)
  BY <1>1, <1>3, RequestAccounted DEF KeptInv
<1>4. ASSUME NEW w \in BackupWorkers, Dispatch(w) \/ ThreadSteps(w) \/ DatabaseError(w)
      PROVE  KeptInv'
  BY <1>1, <1>4, ThreadAccounted, PerformAccounted, ResultAccounted, PruneAccounted,
     PrunedAccounted DEF KeptInv, ThreadSteps
<1>. QED
  BY <1>2, <1>3, <1>4 DEF BackupNext, DispatchSteps

(* A step takes the artifact of a kept run only on request, or because     *)
(* another run names the same file.                                        *)
NewestStays == \A t \in BackupTargets : \A r \in Newest(t) :
    backups[r].path \in files \ files' =>
        <<"file", backups[r].path>> \in halfway' \/ SameFile(r)

LEMMA StepKeepsNewest == KeptInv /\ [BackupNext]_backupVars => NewestStays
<1> SUFFICES ASSUME KeptInv, [BackupNext]_backupVars, NEW t \in BackupTargets,
                    NEW r \in Newest(t), backups[r].path \in files, backups[r].path \notin files'
             PROVE  <<"file", backups[r].path>> \in halfway' \/ SameFile(r)
  BY DEF NewestStays
<1>1. r \in RunIds /\ backups[r].status = "success" /\ backups[r].target = t
  BY DEF Newest, Successes, RunsOf
<1>2. CASE \E f \in Files : DeleteRemoteFile(f)
  BY <1>2 DEF DeleteRemoteFile
<1>3. ASSUME NEW w \in BackupWorkers, Prune(w)
      PROVE  SameFile(r)
  <2>1. PICK gone \in SUBSET Prunable(threads[w].run) :
           /\ \A q \in gone : backups[q].path # NoFile /\ q \in RunIds
           /\ files' = files \ {backups[q].path : q \in gone}
    BY <1>3, PruneTaken
  <2>2. PICK q \in gone : backups[q].path = backups[r].path
    BY <2>1
  <2>3. /\ q \in Prunable(threads[w].run) /\ q \in RunIds /\ backups[q].path # NoFile
    BY <2>1, <2>2
  <2>4. q # r
    BY <1>1, <2>3 DEF Prunable, Successes, RunsOf
  <2>5. ArtifactOf(q) = ArtifactOf(r) /\ backups[q].status = "success"
    BY <1>1, <2>2, <2>3 DEF KeptInv, PathsHeld
  <2>. QED
    BY <2>3, <2>4, <2>5 DEF SameFile, ArtifactOf
<1>4. CASE files \subseteq files'
  BY <1>4
<1>5. \/ \E f \in Files : DeleteRemoteFile(f)
      \/ \E w \in BackupWorkers : Prune(w)
      \/ files \subseteq files'
  <2>1. ASSUME NEW u \in BackupTargets, NEW on \in BOOLEAN, SaveTarget(u, on)
        PROVE  UNCHANGED files
    BY <2>1, ZenonT(30) DEF SaveTarget
  <2>2. ASSUME NEW u \in BackupTargets,
               \/ StartBackup(u) \/ ComesDue(u) \/ DeleteTargetCheck(u) \/ DeleteTarget(u)
               \/ \E on \in BOOLEAN : SaveTarget(u, on)
        PROVE  UNCHANGED files
    BY <2>1, <2>2 DEF StartBackup, ComesDue, DeleteTargetCheck, DeleteTarget
  <2>3. ASSUME NEW w \in BackupWorkers, Dispatch(w) \/ ThreadSteps(w) \/ DatabaseError(w), ~Prune(w)
        PROVE  files \subseteq files'
    BY <2>3 DEF Dispatch, ThreadSteps, DatabaseError, StartThread, TryLock, ClaimRun, Perform,
       SaveResult, SaveFailure, SavePruned, ReleaseLock, ClearCurrent, Recheck
  <2>4. ASSUME \/ ClaimDue \/ (\E q \in RunIds : DeleteRun(q)) \/ DispatchNothing \/ SecondPasses
               \/ CrashBackup \/ (\E f \in Files : ClearRemotePaths(f)) \/ UNCHANGED backupVars
        PROVE  UNCHANGED files
    BY <2>4 DEF ClaimDue, DeleteRun, DispatchNothing, SecondPasses, CrashBackup,
       ClearRemotePaths, backupVars
  <2>. QED
    BY <2>2, <2>3, <2>4 DEF BackupNext, DispatchSteps
<1>. QED
  BY <1>2, <1>3, <1>4, <1>5

(* A success that names an artifact has it, but for what a request, a      *)
(* fault or a twin took, and retention never takes one of the newest       *)
(* (_apply_retention, delete_backup_target_remote_file), for any number of *)
(* targets and runs and any retention_count.                               *)
THEOREM BackupsAlwaysKept == BackupSpec => BackupsAreKept
<1>1. KeptInv => ArtifactExists
  BY DEF KeptInv, ArtifactsHeld, Accounted, ArtifactExists, Twin, Ended, ArtifactOf, SameFile
<1>2. KeptInv /\ [BackupNext]_backupVars =>
        [\A t \in BackupTargets : \A r \in Newest(t) :
            backups[r].path \in files \ files' =>
                <<"file", backups[r].path>> \in halfway' \/ SameFile(r)]_backupVars
  BY StepKeepsNewest DEF NewestStays
<1>. QED
  BY <1>1, <1>2, KeptInitially, KeptStep, PTL DEF BackupSpec, BackupsAreKept, NewestKept
=============================================================================
