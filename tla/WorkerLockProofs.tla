--------------------------- MODULE WorkerLockProofs ---------------------------
(***************************************************************************)
(* For any processes, any number of connections and any bounds: the types, *)
(* and that two processes execute only after a connection that held the    *)
(* lock was replaced.  The inductive invariant says where the lock is.     *)
(***************************************************************************)
EXTENDS WorkerLock, SequenceTheorems, TLAPS

(* A task in progress is one of the iteration's.                           *)
Counting == \A p \in Procs : pc[p] \in {"work", "task"} => task[p] < Tasks

(* No two connections hold the lock.                                       *)
OneHolder ==
    \A p, q \in Procs : \A r, s \in Slots :
        hold[p][r] > 0 /\ hold[q][s] > 0 => p = q /\ r = s

(* While none was replaced, a process that executes holds it.  WorkerLock  *)
(* shows that this is not so without the condition.                        *)
WorkingHolds ==
    lost = 0 => \A p \in Procs : Working(p) => \E s \in Slots : hold[p][s] > 0

LockInv == TypeOK /\ Counting /\ OneHolder /\ WorkingHolds

(***************************************************************************)
(* The pool                                                                *)
(***************************************************************************)
(* The pool hands out a connection that exists, and stays one.             *)
LEMMA CheckOutType ==
    ASSUME TypeOK, NEW p \in Procs, NEW t \in Threads, NEW s \in Slots,
           NEW replaced \in BOOLEAN, CheckOut(p, t, s, replaced)
    PROVE  /\ pool' \in [Procs -> Seq(Slots)]
           /\ uses' \in [Procs -> [Threads -> Slots \cup {NoSlot}]]
           /\ lost' \in Nat
           /\ Held(p, s, replaced) \in Nat
<1>1. pool' \in [Procs -> Seq(Slots)]
  <2>1. CASE pool[p] = <<>>
    BY <2>1 DEF TypeOK, CheckOut
  <2>2. CASE pool[p] # <<>>
    <3>1. pool[p] \in Seq(Slots)
      BY DEF TypeOK
    <3>2. SubSeq(pool[p], 1, Len(pool[p]) - 1) \in Seq(Slots)
      <4>1. Len(pool[p]) \in Nat /\ Len(pool[p]) > 0
        BY <2>2, <3>1, EmptySeq, LenProperties
      <4>2. \A k \in 1..(Len(pool[p]) - 1) : pool[p][k] \in Slots
        BY <3>1, <4>1, ElementOfSeq
      <4> QED
        BY <3>1, <4>1, <4>2, SubSeqProperties
    <3> QED
      BY <2>2, <3>2 DEF TypeOK, CheckOut
  <2> QED
    BY <2>1, <2>2
<1>2. uses' \in [Procs -> [Threads -> Slots \cup {NoSlot}]]
  BY DEF TypeOK, CheckOut, Threads
<1>3. lost' \in Nat
  BY DEF TypeOK, CheckOut
<1>4. Held(p, s, replaced) \in Nat
  BY DEF TypeOK, Held
<1> QED
  BY <1>1, <1>2, <1>3, <1>4

(* A connection that a thread has can be given back.                       *)
LEMMA CheckInType ==
    ASSUME TypeOK, NEW p \in Procs, NEW t \in Threads, CheckIn(p, t)
    PROVE  /\ pool' \in [Procs -> Seq(Slots)]
           /\ uses' \in [Procs -> [Threads -> Slots \cup {NoSlot}]]
           /\ lost' = lost
<1>1. uses[p][t] \in Slots /\ pool[p] \in Seq(Slots)
  BY DEF TypeOK, CheckIn
<1>2. Append(pool[p], uses[p][t]) \in Seq(Slots)
  BY <1>1, AppendProperties
<1> QED
  BY <1>2 DEF TypeOK, CheckIn

(***************************************************************************)
(* The steps of a process                                                  *)
(***************************************************************************)
(* Any thread that takes a connection may lose the lock with it.           *)
LEMMA Dropping ==
    ASSUME LockInv, NEW p \in Procs, NEW t \in Threads, NEW s \in Slots,
           NEW replaced \in BOOLEAN, CheckOut(p, t, s, replaced),
           hold' = [hold EXCEPT ![p][s] = Held(p, s, replaced)],
           \A q \in Procs : Working(q)' => Working(q)
    PROVE  OneHolder' /\ WorkingHolds'
<1> USE DEF LockInv
<1>1. \A q \in Procs, r \in Slots :
          hold'[q][r] = IF replaced /\ q = p /\ r = s THEN 0 ELSE hold[q][r]
  BY DEF TypeOK, Held
<1>2. OneHolder'
  BY <1>1 DEF OneHolder
<1>3. CASE replaced
  <2>1. lost' # 0
    BY <1>3 DEF CheckOut, TypeOK
  <2> QED
    BY <1>2, <2>1 DEF WorkingHolds
<1>4. CASE ~replaced
  <2>1. lost' = lost
    BY <1>4 DEF CheckOut
  <2>2. \A q \in Procs, r \in Slots : hold'[q][r] = hold[q][r]
    BY <1>1, <1>4
  <2> QED
    BY <1>2, <2>1, <2>2 DEF WorkingHolds
<1> QED
  BY <1>3, <1>4

(* A step that leaves the locks alone and starts no work.                  *)
LEMMA Keeping ==
    ASSUME LockInv, hold' = hold, lost' = lost,
           \A q \in Procs : Working(q)' => Working(q)
    PROVE  OneHolder' /\ WorkingHolds'
BY DEF LockInv, OneHolder, WorkingHolds

(* The process that is granted the lock is the one that holds it.          *)
LEMMA Locking ==
    ASSUME LockInv, NEW p \in Procs, TryLock(p)
    PROVE  LockInv'
<1>1. PICK s \in Slots, replaced \in BOOLEAN :
          /\ pc[p] = "acquire" /\ ~stop[p]
          /\ CheckOut(p, "main", s, replaced)
          /\ hold' = [hold EXCEPT ![p][s] =
                        Held(p, s, replaced) + (IF Free(p, s) THEN 1 ELSE 0)]
          /\ pc' = [pc EXCEPT ![p] = IF Free(p, s) THEN "granted" ELSE "denied"]
          /\ UNCHANGED <<task, stop, failures>>
  BY DEF TryLock
<1>0. TypeOK
  BY DEF LockInv
<1>2. "main" \in Threads
  BY DEF Threads
<1>3. Held(p, s, replaced) \in Nat
  BY <1>0, <1>1, <1>2, CheckOutType
<1>4. TypeOK'
  <2>1. /\ pool' \in [Procs -> Seq(Slots)]
        /\ uses' \in [Procs -> [Threads -> Slots \cup {NoSlot}]]
        /\ lost' \in Nat
    BY <1>0, <1>1, <1>2, CheckOutType
  <2>2. hold' \in [Procs -> [Slots -> Nat]]
    BY <1>0, <1>1, <1>3 DEF TypeOK
  <2>3. pc' \in [Procs -> PC]
    BY <1>0, <1>1 DEF TypeOK, PC
  <2> QED
    BY <1>0, <1>1, <2>1, <2>2, <2>3 DEF TypeOK
<1>10. Counting'
  BY <1>0, <1>1 DEF LockInv, Counting, TypeOK
<1>5. \A q \in Procs, r \in Slots :
          ~(q = p /\ r = s) => hold'[q][r] = hold[q][r]
  BY <1>0, <1>1 DEF TypeOK
<1>6. hold'[p][s] = Held(p, s, replaced) + (IF Free(p, s) THEN 1 ELSE 0)
  BY <1>0, <1>1 DEF TypeOK
<1>7. lost' = 0 => lost = 0 /\ ~replaced
  BY <1>0, <1>1 DEF CheckOut, TypeOK
<1>8. CASE Free(p, s)
  <2>1. OneHolder'
    BY <1>5, <1>8 DEF OneHolder, Free
  <2>2. hold'[p][s] > 0
    BY <1>3, <1>6, <1>8
  <2>3. \A q \in Procs : q # p /\ Working(q)' => Working(q)
    BY <1>0, <1>1 DEF Working, TypeOK
  <2>4. WorkingHolds'
    BY <1>5, <1>7, <2>2, <2>3 DEF LockInv, WorkingHolds
  <2> QED
    BY <1>4, <1>10, <2>1, <2>4 DEF LockInv
<1>9. CASE ~Free(p, s)
  <2>1. hold' = [hold EXCEPT ![p][s] = Held(p, s, replaced)]
    <3>1. Held(p, s, replaced) + 0 = Held(p, s, replaced)
      BY <1>3
    <3> QED
      BY <1>1, <1>9, <3>1
  <2>2. \A q \in Procs : Working(q)' => Working(q)
    BY <1>0, <1>1, <1>9 DEF Working, TypeOK
  <2> QED
    BY <1>1, <1>2, <1>4, <1>10, <2>1, <2>2, Dropping DEF LockInv
<1> QED
  BY <1>8, <1>9

(* The three other places where the process takes a connection.            *)
LEMMA Opening ==
    ASSUME LockInv, NEW p \in Procs, Open(p) \/ Report(p) \/ Tick(p)
    PROVE  LockInv'
<1>0. TypeOK
  BY DEF LockInv
<1>1. PICK s \in Slots, replaced \in BOOLEAN, t \in Threads :
          /\ CheckOut(p, t, s, replaced)
          /\ hold' = [hold EXCEPT ![p][s] = Held(p, s, replaced)]
          /\ \/ /\ pc[p] = "task" \/ (pc[p] = "loop" /\ task[p] < Tasks)
                /\ pc' = [pc EXCEPT ![p] = "work"]
             \/ pc' = [pc EXCEPT ![p] = "report"]
             \/ pc' = pc
          /\ UNCHANGED <<task, stop, failures>>
  BY DEF Open, Report, Tick, Threads
<1>2. TypeOK'
  <2>1. /\ pool' \in [Procs -> Seq(Slots)]
        /\ uses' \in [Procs -> [Threads -> Slots \cup {NoSlot}]]
        /\ lost' \in Nat
        /\ Held(p, s, replaced) \in Nat
    BY <1>0, <1>1, CheckOutType
  <2>2. hold' \in [Procs -> [Slots -> Nat]]
    BY <1>0, <1>1, <2>1 DEF TypeOK
  <2>3. pc' \in [Procs -> PC]
    BY <1>0, <1>1 DEF TypeOK, PC
  <2> QED
    BY <1>0, <1>1, <2>1, <2>2, <2>3 DEF TypeOK
<1>3. \A q \in Procs : Working(q)' => Working(q)
  BY <1>0, <1>1 DEF Working, TypeOK
<1>4. Counting'
  BY <1>0, <1>1 DEF LockInv, Counting, TypeOK
<1> QED
  BY <1>1, <1>2, <1>3, <1>4, Dropping DEF LockInv

(* The places where a connection is given back.                            *)
LEMMA Closing ==
    ASSUME LockInv, NEW p \in Procs,
           \/ Enter(p) \/ Wait(p) \/ Commit(p) \/ Close(p) \/ Fail(p)
           \/ Reported(p) \/ ReportFails(p) \/ Unlocked(p) \/ TickEnds(p)
    PROVE  LockInv'
<1>0. TypeOK
  BY DEF LockInv
<1>1. PICK t \in Threads : CheckIn(p, t)
  BY DEF Enter, Wait, Commit, Close, Fail, Reported, ReportFails, Unlocked,
         TickEnds, Threads
<1>2. hold' = hold /\ stop' = stop
  BY DEF Enter, Wait, Commit, Close, Fail, Reported, ReportFails, Unlocked,
         TickEnds
<1>3. PICK c \in PC : pc' = [pc EXCEPT ![p] = c] \/ pc' = pc
  BY DEF PC, Enter, Wait, Commit, Close, Fail, Reported, ReportFails,
         Unlocked, TickEnds
<1>8. failures' \in Nat
  BY <1>0 DEF TypeOK, Enter, Wait, Commit, Close, Fail, Reported,
              ReportFails, Unlocked, TickEnds
<1>4. task' \in [Procs -> 0..Tasks] /\ Counting'
  <2>1. CASE Close(p)
    <3>1. task[p] \in 0..Tasks /\ task[p] < Tasks
      BY <1>0, <2>1 DEF LockInv, Counting, TypeOK, Close
    <3>2. task[p] + 1 \in 0..Tasks
      BY <3>1, TasksAssumption
    <3> QED
      BY <1>0, <2>1, <3>2 DEF LockInv, Counting, TypeOK, Close
  <2>2. CASE Commit(p)
    BY <1>0, <2>2 DEF LockInv, Counting, TypeOK, Commit
  <2>3. CASE Fail(p)
    BY <1>0, <2>3, TasksAssumption DEF LockInv, Counting, TypeOK, Fail
  <2>4. CASE ~(Close(p) \/ Commit(p) \/ Fail(p))
    BY <1>0, <2>4 DEF LockInv, Counting, TypeOK, Enter, Wait, Reported,
                      ReportFails, Unlocked, TickEnds
  <2> QED
    BY <2>1, <2>2, <2>3, <2>4
<1>5. /\ pool' \in [Procs -> Seq(Slots)]
      /\ uses' \in [Procs -> [Threads -> Slots \cup {NoSlot}]]
      /\ lost' = lost
  BY <1>0, <1>1, CheckInType
<1>6. TypeOK'
  BY <1>0, <1>2, <1>3, <1>4, <1>5, <1>8 DEF TypeOK
<1>7. \A q \in Procs : Working(q)' => Working(q)
  BY <1>0 DEF TypeOK, Working, Enter, Wait, Commit, Close, Fail, Reported,
              ReportFails, Unlocked, TickEnds
<1> QED
  BY <1>2, <1>4, <1>5, <1>6, <1>7, Keeping DEF LockInv

(* The unlock takes the lock off the connection it runs on or off none.    *)
LEMMA Unlocking ==
    ASSUME LockInv, NEW p \in Procs, Unlock(p)
    PROVE  LockInv'
<1>0. TypeOK
  BY DEF LockInv
<1>1. PICK s \in Slots, replaced \in BOOLEAN, h \in Nat :
          /\ CheckOut(p, "main", s, replaced)
          /\ h <= hold[p][s]
          /\ hold' = [hold EXCEPT ![p][s] = h]
          /\ pc[p] = "unlock"
          /\ pc' = [pc EXCEPT ![p] = "unlocked"]
          /\ UNCHANGED <<task, stop, failures>>
  <2>1. PICK s \in Slots, replaced \in BOOLEAN :
            /\ pc[p] = "unlock"
            /\ CheckOut(p, "main", s, replaced)
            /\ hold' = [hold EXCEPT ![p][s] =
                          IF Held(p, s, replaced) > 0
                          THEN Held(p, s, replaced) - 1 ELSE 0]
            /\ pc' = [pc EXCEPT ![p] = "unlocked"]
            /\ UNCHANGED <<task, stop, failures>>
    BY DEF Unlock
  <2> DEFINE h == IF Held(p, s, replaced) > 0
                  THEN Held(p, s, replaced) - 1 ELSE 0
  <2>2. h \in Nat /\ h <= hold[p][s]
    BY <1>0 DEF TypeOK, Held
  <2> HIDE DEF h
  <2>3. hold' = [hold EXCEPT ![p][s] = h]
    BY <2>1 DEF h
  <2> QED
    BY <2>1, <2>2, <2>3
<1>2. TypeOK'
  <2>1. /\ pool' \in [Procs -> Seq(Slots)]
        /\ uses' \in [Procs -> [Threads -> Slots \cup {NoSlot}]]
        /\ lost' \in Nat
    BY <1>0, <1>1, CheckOutType DEF Threads
  <2>2. hold' \in [Procs -> [Slots -> Nat]]
    BY <1>0, <1>1 DEF TypeOK
  <2>3. pc' \in [Procs -> PC]
    BY <1>0, <1>1 DEF TypeOK, PC
  <2> QED
    BY <1>0, <1>1, <2>1, <2>2, <2>3 DEF TypeOK
<1>3. Counting'
  BY <1>0, <1>1 DEF LockInv, Counting, TypeOK
<1>4. \A q \in Procs, r \in Slots :
          hold'[q][r] \in Nat /\ (hold'[q][r] > 0 => hold[q][r] > 0)
  BY <1>0, <1>1 DEF TypeOK
<1>5. OneHolder'
  BY <1>4 DEF LockInv, OneHolder
<1>6. WorkingHolds'
  <2> SUFFICES ASSUME lost' = 0, NEW q \in Procs, Working(q)'
               PROVE  \E r \in Slots : hold'[q][r] > 0
    BY DEF WorkingHolds
  <2>1. q # p /\ Working(q)
    BY <1>0, <1>1 DEF Working, TypeOK
  <2>2. lost = 0
    BY <1>0, <1>1 DEF CheckOut, TypeOK
  <2>3. PICK r \in Slots : hold[q][r] > 0
    BY <2>1, <2>2 DEF LockInv, WorkingHolds
  <2>4. hold'[q][r] = hold[q][r]
    BY <1>0, <1>1, <2>1 DEF TypeOK
  <2> QED
    BY <2>3, <2>4
<1> QED
  BY <1>2, <1>3, <1>5, <1>6 DEF LockInv

(* The end of a process takes its locks along.                             *)
LEMMA Ending ==
    ASSUME LockInv, NEW p \in Procs, Closed(p)
    PROVE  LockInv'
<1>0. TypeOK
  BY DEF LockInv
<1>1. TypeOK'
  <2>1. hold' \in [Procs -> [Slots -> Nat]]
    BY <1>0 DEF TypeOK, Closed, NoLock
  <2>2. uses' \in [Procs -> [Threads -> Slots \cup {NoSlot}]]
    BY <1>0 DEF TypeOK, Closed, NoConnection
  <2>3. pool' \in [Procs -> Seq(Slots)]
    BY <1>0, EmptySeq DEF TypeOK, Closed
  <2> QED
    BY <1>0, <2>1, <2>2, <2>3, TasksAssumption DEF TypeOK, Closed, PC
<1>2. Counting'
  BY <1>0 DEF LockInv, Counting, TypeOK, Closed
<1>3. \A q \in Procs, r \in Slots :
          hold'[q][r] = IF q = p THEN 0 ELSE hold[q][r]
  BY <1>0 DEF TypeOK, Closed, NoLock
<1>4. OneHolder'
  BY <1>3 DEF LockInv, OneHolder
<1>5. lost' = lost /\ \A q \in Procs : Working(q)' => q # p /\ Working(q)
  BY <1>0 DEF TypeOK, Closed, Working
<1>6. WorkingHolds'
  BY <1>3, <1>5 DEF LockInv, WorkingHolds
<1> QED
  BY <1>1, <1>2, <1>4, <1>6 DEF LockInv

(* The steps that touch no connection.                                     *)
LEMMA Moving ==
    ASSUME LockInv, NEW p \in Procs,
           Start(p) \/ Iterate(p) \/ Leave(p) \/ Signal(p)
    PROVE  LockInv'
<1>0. TypeOK
  BY DEF LockInv
<1>1. UNCHANGED <<pool, uses, hold, lost, failures>>
  BY DEF Start, Iterate, Leave, Signal
<1>2. TypeOK'
  <2>1. PICK c \in PC : pc' = [pc EXCEPT ![p] = c] \/ pc' = pc
    BY DEF PC, Start, Iterate, Leave, Signal
  <2>2. task' = [task EXCEPT ![p] = 0] \/ task' = task
    BY DEF Start, Iterate, Leave, Signal
  <2>3. PICK b \in BOOLEAN : stop' = [stop EXCEPT ![p] = b] \/ stop' = stop
    BY DEF Start, Iterate, Leave, Signal
  <2>4. 0 \in 0..Tasks
    BY TasksAssumption
  <2> QED
    BY <1>0, <1>1, <2>1, <2>2, <2>3, <2>4 DEF TypeOK
<1>3. Counting'
  BY <1>0 DEF LockInv, Counting, TypeOK, Start, Iterate, Leave, Signal
<1>4. \A q \in Procs : Working(q)' => Working(q)
  BY <1>0 DEF TypeOK, Working, Start, Iterate, Leave, Signal
<1> QED
  BY <1>1, <1>2, <1>3, <1>4, Keeping DEF LockInv

(***************************************************************************)
(* The theorems                                                            *)
(***************************************************************************)
LEMMA LockInvInit == Init => LockInv
<1> SUFFICES ASSUME Init
             PROVE  LockInv
  OBVIOUS
<1>1. TypeOK
  BY EmptySeq, TasksAssumption DEF Init, TypeOK, PC, NoConnection, NoLock
<1>2. Counting /\ OneHolder /\ WorkingHolds
  BY DEF Init, Counting, OneHolder, WorkingHolds, Working, NoLock
<1> QED
  BY <1>1, <1>2 DEF LockInv

LEMMA LockInvStep == LockInv /\ [Next]_vars => LockInv'
<1> SUFFICES ASSUME LockInv, [Next]_vars
             PROVE  LockInv'
  OBVIOUS
<1>1. CASE Next
  <2>1. PICK p \in Procs :
            \/ Start(p) \/ MainStep(p) \/ Fail(p) \/ ReportFails(p)
            \/ Kill(p) \/ Signal(p) \/ Tick(p) \/ TickEnds(p)
    BY <1>1 DEF Next
  <2>2. CASE TryLock(p)
    BY <2>2, Locking
  <2>3. CASE Open(p) \/ Report(p) \/ Tick(p)
    BY <2>3, Opening
  <2>4. CASE \/ Enter(p) \/ Wait(p) \/ Commit(p) \/ Close(p) \/ Fail(p)
             \/ Reported(p) \/ ReportFails(p) \/ Unlocked(p) \/ TickEnds(p)
    BY <2>4, Closing
  <2>5. CASE Unlock(p)
    BY <2>5, Unlocking
  <2>6. CASE Exit(p) \/ Kill(p)
    BY <2>6, Ending DEF Exit, Kill
  <2>7. CASE Start(p) \/ Iterate(p) \/ Leave(p) \/ Signal(p)
    BY <2>7, Moving
  <2> QED
    BY <2>1, <2>2, <2>3, <2>4, <2>5, <2>6, <2>7 DEF MainStep
<1>2. CASE UNCHANGED vars
  BY <1>2 DEF vars, LockInv, TypeOK, Counting, OneHolder, WorkingHolds,
              Working
<1> QED
  BY <1>1, <1>2

LEMMA Exclusion == LockInv => ExclusiveUnlessLost
BY DEF LockInv, TypeOK, OneHolder, WorkingHolds, ExclusiveUnlessLost

(* Every state of the main loop, the pools and the locks is well typed.    *)
THEOREM LockTypeCorrect == Spec => []TypeOK
<1>1. LockInv => TypeOK
  BY DEF LockInv
<1> QED
  BY <1>1, LockInvInit, LockInvStep, PTL DEF Spec

(* Two processes execute only after a connection that held the advisory    *)
(* lock was replaced, for any number of processes and connections, and     *)
(* whatever is killed, stopped or fails.                                   *)
THEOREM Exclusive == Spec => []ExclusiveUnlessLost
<1> QED
  BY LockInvInit, LockInvStep, Exclusion, PTL DEF Spec
=============================================================================
