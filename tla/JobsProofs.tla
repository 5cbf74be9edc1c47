------------------------------ MODULE JobsProofs ------------------------------
(***************************************************************************)
(* The deduplication and its schedule and the directories of the drives,   *)
(* for any messages, timestamps, hours, shares, requests and failures, and *)
(* the types of all the jobs beside each other.                            *)
(*                                                                         *)
(* What the pass dooms had its links on a keeper: it goes from new to old, *)
(* so every keeper is newer than what is left (Ordered); a keeper that     *)
(* gives way to an older message then does so only because that one has    *)
(* more links, and what the keeper covers is covered by its successor      *)
(* (CoversOn).  What the pass has read of a message is what the message    *)
(* has, but for the links that others have moved since (Watched); so a     *)
(* link of a message that goes is still on the keeper.                     *)
(*                                                                         *)
(* One pass executes at a time, and no setting is lost but to a stale      *)
(* copy: the lock of the run is held by whoever executes (RunIsLocked), is *)
(* taken before the pass, and is given up by the transaction's end alone.  *)
(***************************************************************************)
EXTENDS MCJobs, BackupQueueProofs, RecognitionQueueProofs, FiniteSetTheorems

(***************************************************************************)
(* The pass                                                                *)
(***************************************************************************)
PassPlaced ==
    /\ ~running => left = {} /\ kept = {} /\ doomed = {}
    /\ left \cap kept = {} /\ (left \cup kept) \cap doomed = {}

Ordered == \A n \in left, k \in kept : Newer(k, n)

Has(m, u) == m \in table /\ u \in urls[m]

Watched ==
    \A m \in left \cup kept \cup doomed : \A u \in Urls :
        (Has(m, u) <=> u \in seen[m]) \/ <<m, u>> \in moved

PassInv == PassTypeOK /\ PassPlaced /\ Ordered /\ DoomedIsCovered /\ Watched

(* Of two messages one at most is the newer one (_is_newer).               *)
LEMMA NewerAsymmetric ==
    ASSUME PassTypeOK, NEW a \in Ids, NEW b \in Ids, Newer(a, b)
    PROVE  ~Newer(b, a)
<1>1. time[a] \in Times /\ time[b] \in Times
  BY DEF PassTypeOK
<1>2. Ids \subseteq Nat /\ Times \subseteq Int
  BY DedupPassAssumption
<1>3. time[a] \in Int /\ time[b] \in Int
  BY <1>1, <1>2
<1>4. a \in Int /\ b \in Int
  BY <1>2
<1>. QED
  BY <1>3, <1>4 DEF Newer

(* An older message beats a keeper by the number of its links alone        *)
(* (_should_prefer).                                                       *)
LEMMA LoserHasFewer ==
    ASSUME PassInv, NEW m \in left, NEW k \in Losers(m)
    PROVE  k \in kept /\ seen[k] \subseteq seen[m] /\ seen[k] # seen[m]
<1>1. k \in kept /\ seen[k] \subseteq seen[m] /\ Prefer(m, k)
  BY DEF Losers, Overlapping, Covers
<1>2. m \in Ids /\ k \in Ids /\ Newer(k, m)
  BY <1>1 DEF PassInv, PassTypeOK, Ordered
<1>3. ~Newer(m, k)
  BY <1>2, NewerAsymmetric DEF PassInv
<1>4. Cardinality(seen[m]) # Cardinality(seen[k])
  BY <1>1, <1>3 DEF Prefer
<1>. QED
  BY <1>1, <1>4

(* The successor of a keeper covers what the keeper covered.               *)
LEMMA CoversOn ==
    ASSUME NEW A, NEW B, NEW C, A \subseteq B, B \subseteq C, B # C
    PROVE  A \subseteq C /\ A # C
OBVIOUS

LEMMA PassInitInv == PassInit => PassInv
<1>. SUFFICES ASSUME PassInit PROVE PassInv
  OBVIOUS
<1>1. PassTypeOK
  <2>1. urls \in [Ids -> SUBSET Urls]
    BY DEF PassInit
  <2>2. seen \in [Ids -> SUBSET Urls]
    BY DEF PassInit, NothingSeen
  <2>3. rewrites \in 0..MaxRewrites /\ passes \in Nat
    BY DedupPassAssumption DEF PassInit
  <2>. QED
    BY <2>1, <2>2, <2>3 DEF PassInit, PassTypeOK
<1>2. PassPlaced /\ Ordered /\ DoomedIsCovered /\ Watched
  BY DEF PassInit, PassPlaced, Ordered, DoomedIsCovered, Watched
<1>. QED
  BY <1>1, <1>2 DEF PassInv

LEMMA BeginKeeps ==
    ASSUME PassInv, NEW cutoff \in Times, Begin(cutoff)
    PROVE  PassInv'
<1>1. PassTypeOK'
  BY DEF PassInv, PassTypeOK, Begin
<1>2. PassPlaced' /\ Ordered' /\ DoomedIsCovered'
  BY DEF PassPlaced, Ordered, DoomedIsCovered, Begin
<1>3. Watched'
  BY DEF Watched, Has, Begin
<1>. QED
  BY <1>1, <1>2, <1>3 DEF PassInv

LEMMA ScanKeeps ==
    ASSUME PassInv, NEW m \in Ids, Scan(m)
    PROVE  PassInv'
<1>. USE DEF PassInv
<1>1. m \in left /\ left' = left \ {m}
      /\ UNCHANGED <<urls, time, table, seen, passes, running, rewrites, moved>>
  BY DEF Scan
<1>2. \A n \in left' : Newer(m, n)
  BY DEF Scan
<1>w. ASSUME left' \cup kept' \cup doomed' \subseteq left \cup kept \cup doomed PROVE Watched'
  BY <1>w, <1>1 DEF Watched, Has
<1>3. CASE Beaten(m)
  <2>1. doomed' = doomed \cup {m} /\ kept' = kept
    BY <1>3 DEF Scan
  <2>2. PassTypeOK' /\ PassPlaced' /\ Ordered'
    BY <1>1, <2>1 DEF PassTypeOK, PassPlaced, Ordered, Newer, Scan
  <2>3. PICK k \in kept : seen[m] \subseteq seen[k]
    BY <1>3 DEF Beaten, Overlapping, Covers
  <2>4. Newer(k, m)
    BY <1>1 DEF Ordered
  <2>5. DoomedIsCovered'
    BY <1>1, <2>1, <2>3, <2>4 DEF DoomedIsCovered, Newer
  <2>. QED
    BY <1>1, <1>w, <2>1, <2>2, <2>5
<1>4. CASE ~Beaten(m)
  <2>1. doomed' = doomed \cup Losers(m) /\ kept' = (kept \ Losers(m)) \cup {m}
    BY <1>4 DEF Scan
  <2>2. Losers(m) \subseteq kept
    BY DEF Losers, Overlapping
  <2>3. PassTypeOK'
    BY <1>1, <2>1, <2>2 DEF PassTypeOK
  <2>4. PassPlaced'
    BY <1>1, <2>1, <2>2 DEF PassPlaced, Scan
  <2>5. Ordered'
    BY <1>1, <1>2, <2>1 DEF Ordered, Newer
  <2>6. ASSUME NEW d \in doomed'
        PROVE  \E k \in kept' : seen[d] \subseteq seen[k] /\ (Newer(k, d) \/ seen[d] # seen[k])
    <3>1. CASE d \in Losers(m)
      BY <1>1, <2>1, <3>1, LoserHasFewer
    <3>2. CASE d \in doomed
      <4>1. PICK k \in kept : seen[d] \subseteq seen[k] /\ (Newer(k, d) \/ seen[d] # seen[k])
        BY <3>2 DEF DoomedIsCovered
      <4>2. CASE k \notin Losers(m)
        BY <2>1, <4>1, <4>2
      <4>3. CASE k \in Losers(m)
        <5>1. seen[k] \subseteq seen[m] /\ seen[k] # seen[m]
          BY <1>1, <4>3, LoserHasFewer
        <5>2. seen[d] \subseteq seen[m] /\ seen[d] # seen[m]
          BY <4>1, <5>1, CoversOn
        <5>. QED
          BY <2>1, <5>2
      <4>. QED
        BY <4>2, <4>3
    <3>. QED
      BY <2>1, <3>1, <3>2
  <2>7. DoomedIsCovered'
    BY <1>1, <2>6 DEF DoomedIsCovered, Newer
  <2>8. left' \cup kept' \cup doomed' \subseteq left \cup kept \cup doomed
    BY <1>1, <2>1, <2>2
  <2>. QED
    BY <1>w, <2>3, <2>4, <2>5, <2>7, <2>8
<1>. QED
  BY <1>3, <1>4

LEMMA PassEndKeeps ==
    ASSUME PassInv, PassEnds, table' \subseteq table
    PROVE  PassInv'
<1>1. PassTypeOK'
  BY DEF PassInv, PassTypeOK, PassEnds, NothingSeen
<1>2. PassPlaced' /\ Ordered' /\ DoomedIsCovered' /\ Watched'
  BY DEF PassPlaced, Ordered, DoomedIsCovered, Watched, PassEnds
<1>. QED
  BY <1>1, <1>2 DEF PassInv

(* What others do to messages and links beside a pass is watched.          *)
LEMMA MovesKeeps ==
    ASSUME PassInv, NEW pairs, Moves(pairs), pairs \subseteq Ids \X Urls,
           table' \subseteq table, urls' \in [Ids -> SUBSET Urls],
           rewrites' \in 0..MaxRewrites,
           \A m \in Ids, u \in Urls : <<m, u>> \in pairs \/ (Has(m, u)' <=> Has(m, u))
    PROVE  PassInv'
<1>. USE DEF PassInv
<1>1. /\ moved' = IF running THEN moved \cup pairs ELSE moved
      /\ UNCHANGED <<time, seen, left, kept, doomed, passes, running>>
  BY DEF Moves
<1>2. PassTypeOK'
  BY <1>1 DEF PassTypeOK
<1>3. PassPlaced' /\ Ordered' /\ DoomedIsCovered'
  BY <1>1 DEF PassPlaced, Ordered, DoomedIsCovered, Newer
<1>4. ASSUME NEW m \in left \cup kept \cup doomed, NEW u \in Urls
      PROVE  (Has(m, u)' <=> u \in seen[m]) \/ <<m, u>> \in moved'
  <2>1. running /\ m \in Ids
    BY DEF PassPlaced, PassTypeOK
  <2>2. moved' = moved \cup pairs
    BY <1>1, <2>1
  <2>3. (Has(m, u) <=> u \in seen[m]) \/ <<m, u>> \in moved
    BY DEF Watched
  <2>. QED
    BY <2>1, <2>2, <2>3
<1>5. Watched'
  BY <1>1, <1>4 DEF Watched, Has
<1>. QED
  BY <1>2, <1>3, <1>5

LEMMA OtherDeletesKeeps ==
    ASSUME PassInv, NEW m \in Ids, OtherDeletes(m)
    PROVE  PassInv'
<1>1. urls[m] \subseteq Urls /\ urls \in [Ids -> SUBSET Urls]
  BY DEF PassInv, PassTypeOK
<1>2. {m} \X urls[m] \subseteq Ids \X Urls
  BY <1>1
<1>3. ASSUME NEW n \in Ids, NEW u \in Urls, <<n, u>> \notin {m} \X urls[m]
      PROVE  Has(n, u)' <=> Has(n, u)
  BY <1>3 DEF OtherDeletes, Has
<1>4. /\ Moves({m} \X urls[m]) /\ table' \subseteq table /\ urls' = urls
      /\ rewrites' = rewrites /\ rewrites \in 0..MaxRewrites
  BY DEF OtherDeletes, PassInv, PassTypeOK
<1>. QED
  BY <1>1, <1>2, <1>3, <1>4, MovesKeeps

LEMMA RewritesKeeps ==
    ASSUME PassInv, NEW links \in [Ids -> SUBSET Urls], Rewrites(links)
    PROVE  PassInv'
<1> DEFINE pairs == {p \in Ids \X Urls : (p[2] \in urls[p[1]]) # (p[2] \in links[p[1]])}
<1>1. /\ Moves(pairs) /\ table' = table /\ urls' = links /\ pairs \subseteq Ids \X Urls
  BY DEF Rewrites
<1>2. rewrites' \in 0..MaxRewrites
  BY DedupPassAssumption DEF Rewrites, PassInv, PassTypeOK
<1>3. ASSUME NEW n \in Ids, NEW u \in Urls, <<n, u>> \notin pairs
      PROVE  Has(n, u)' <=> Has(n, u)
  BY <1>1, <1>3 DEF Has
<1> HIDE DEF pairs
<1>. QED
  BY <1>1, <1>2, <1>3, MovesKeeps

LEMMA OthersKeepPass == ASSUME PassInv, OthersAct PROVE PassInv'
<1>0. urls \in [Ids -> SUBSET Urls]
  BY DEF PassInv, PassTypeOK
<1>1. ASSUME NEW m \in Ids, NEW invalid \in SUBSET Urls, Prunes(m, invalid) PROVE PassInv'
  <2>1. [urls EXCEPT ![m] = @ \ invalid] \in [Ids -> SUBSET Urls]
    BY <1>0
  <2>. QED
    BY <1>1, <2>1, RewritesKeeps DEF Prunes
<1>2. ASSUME NEW m \in Ids, NEW u \in Urls, Republishes(m, u) PROVE PassInv'
  <2>1. [urls EXCEPT ![m] = {u}] \in [Ids -> SUBSET Urls]
    BY <1>0
  <2>. QED
    BY <1>2, <2>1, RewritesKeeps DEF Republishes
<1>3. ASSUME NEW ms, NEW u \in Urls, NEW v \in Urls, Replaces(ms, u, v) PROVE PassInv'
  <2> DEFINE links == [m \in Ids |-> IF m \in ms THEN (urls[m] \ {u}) \cup {v} ELSE urls[m]]
  <2>1. links \in [Ids -> SUBSET Urls]
    BY <1>0
  <2>2. Rewrites(links)
    BY <1>3 DEF Replaces
  <2> HIDE DEF links
  <2>. QED
    BY <2>1, <2>2, RewritesKeeps
<1>. QED
  BY <1>1, <1>2, <1>3, OtherDeletesKeeps DEF OthersAct

LEMMA PassStepInv == PassInv /\ [PassNext]_passVars => PassInv'
<1>. SUFFICES ASSUME PassInv, [PassNext]_passVars PROVE PassInv'
  OBVIOUS
<1>1. CASE \E cutoff \in Times : Begin(cutoff)
  BY <1>1, BeginKeeps
<1>2. CASE \E m \in Ids : Scan(m)
  BY <1>2, ScanKeeps
<1>3. CASE OthersAct
  BY <1>3, OthersKeepPass
<1>4. CASE Commit \/ Abort
  BY <1>4, PassEndKeeps DEF Commit, Abort
<1>5. CASE UNCHANGED passVars
  BY <1>5 DEF PassInv, PassTypeOK, PassPlaced, Ordered, DoomedIsCovered, Watched, Has,
              Newer, passVars
<1>. QED
  BY <1>1, <1>2, <1>3, <1>4, <1>5 DEF PassNext

(* A message that goes has its links on a keeper, which stays.             *)
LEMMA CommitLeaves == ASSUME PassInv, Commit PROVE LinksRemain
<1>. USE DEF PassInv
<1>1. table' = table \ doomed /\ urls' = urls
  BY DEF Commit, PassEnds
<1>2. ASSUME NEW d \in table \ table', NEW u \in urls[d], <<d, u>> \notin moved
      PROVE  (\E m \in table' : u \in urls'[m]) \/ (\E k \in kept : <<k, u>> \in moved)
  <2>1. d \in doomed /\ d \in Ids /\ u \in Urls
    BY <1>1 DEF PassTypeOK
  <2>2. u \in seen[d]
    BY <1>2, <2>1 DEF Watched, Has
  <2>3. PICK k \in kept : seen[d] \subseteq seen[k]
    BY <2>1 DEF DoomedIsCovered
  <2>4. Has(k, u) \/ <<k, u>> \in moved
    BY <2>1, <2>2, <2>3 DEF Watched
  <2>5. k \notin doomed
    BY DEF PassPlaced
  <2>. QED
    BY <1>1, <2>4, <2>5 DEF Has
<1>. QED
  BY <1>2 DEF LinksRemain

LEMMA StepLeaves ==
    PassInv /\ [PassNext]_passVars => [DoomedIsCovered /\ LinksRemain]_passVars
<1>. SUFFICES ASSUME PassInv, PassNext PROVE DoomedIsCovered /\ LinksRemain
  OBVIOUS
<1>1. DoomedIsCovered
  BY DEF PassInv
<1>2. CASE Commit
  BY <1>1, <1>2, CommitLeaves
<1>3. CASE Abort
  BY <1>1, <1>3 DEF Abort, LinksRemain
<1>4. CASE running' = running \/ ~running
  BY <1>1, <1>4 DEF LinksRemain
<1>5. CASE OthersAct
  <2>1. running' = running
    BY <1>5 DEF OthersAct, OtherDeletes, Prunes, Republishes, Replaces, Rewrites, Moves
  <2>. QED
    BY <1>4, <2>1
<1>. QED
  BY <1>2, <1>3, <1>4, <1>5 DEF PassNext, Begin, Scan

(* Every reachable state of the deduplication satisfies its invariant.     *)
THEOREM PassAlwaysInv == PassSpec => []PassInv
BY PassInitInv, PassStepInv, PTL DEF PassSpec

(* What a pass holds in memory is well typed (execute_dedup_run).          *)
THEOREM PassTypeCorrect == PassSpec => []PassTypeOK
BY PassAlwaysInv, PTL DEF PassInv

(* What a pass dooms had its links on a keeper, and no pass takes a link   *)
(* from the table but one that others moved while it ran, with any scope   *)
(* and window and whatever others delete and rewrite (execute_dedup_run).  *)
THEOREM DedupAlwaysSafe == PassSpec => DedupIsSafe
BY PassAlwaysInv, StepLeaves, PTL DEF PassSpec, DedupIsSafe

(***************************************************************************)
(* The schedule                                                            *)
(***************************************************************************)
RunIsLocked == \A a \in Executors : Passing(a) => runLock = a

ScheduleInv == ScheduleTypeOK /\ RunIsLocked

LEMMA ActorsAre == Executors \subseteq Actors /\ "worker" \in Actors /\ "worker" \notin Executors
BY DEF Executors, Actors

(* The next time of the schedule is one that the type allows.              *)
LEMMA NextTyped ==
    ASSUME ScheduleTypeOK, NEW on \in BOOLEAN
    PROVE  ComputeNext(on) \in 0..MaxClock + 2
BY DedupScheduleAssumption DEF ScheduleTypeOK, ComputeNext, NoTime

LEMMA ReadsTyped ==
    ASSUME ScheduleTypeOK, NEW a \in Actors, NEW j \in Jobs, Reads(a, j)
    PROVE  job' \in [Actors -> Jobs] /\ copy' \in [Actors -> Row]
BY DEF ScheduleTypeOK, Reads

LEMMA MovesTyped ==
    ASSUME ScheduleTypeOK, NEW a \in Actors, NEW j \in Jobs, MovesOn(a, j)
    PROVE  job' \in [Actors -> Jobs] /\ copy' \in [Actors -> Row]
BY DEF ScheduleTypeOK, MovesOn

(* Who has given up or never had the lock does not execute.                *)
LEMMA ReleaseKeeps ==
    ASSUME ScheduleInv, NEW a \in Actors, NEW j \in Jobs \ {"executing", "deleted", "completed"},
           job' = [job EXCEPT ![a] = j], runLock' = Releases(runLock, a)
    PROVE  RunIsLocked' /\ runLock' \in Executors \cup {NoActor}
<1>1. runLock' \in Executors \cup {NoActor}
  BY DEF ScheduleInv, ScheduleTypeOK, Releases
<1>2. ASSUME NEW b \in Executors, Passing(b)' PROVE runLock' = b
  <2>1. b # a /\ Passing(b)
    BY <1>2, ActorsAre DEF Passing, ScheduleInv, ScheduleTypeOK
  <2>. QED
    BY <2>1 DEF ScheduleInv, RunIsLocked, Releases
<1>. QED
  BY <1>1, <1>2 DEF RunIsLocked

(* A step of an actor that is not a pass leaves the lock where it was.     *)
LEMMA MoveKeeps ==
    ASSUME ScheduleInv, NEW a \in Actors, NEW j \in Jobs,
           job' = [job EXCEPT ![a] = j], UNCHANGED runLock,
           j \in {"executing", "deleted", "completed"} => a \in Executors /\ Passing(a)
    PROVE  RunIsLocked'
<1>1. ASSUME NEW b \in Executors, Passing(b)' PROVE runLock' = b
  <2>1. Passing(b)
    BY <1>1, ActorsAre DEF Passing, ScheduleInv, ScheduleTypeOK
  <2>. QED
    BY <2>1 DEF ScheduleInv, RunIsLocked
<1>. QED
  BY <1>1 DEF RunIsLocked

LEMMA ScheduleInitInv == ScheduleInit => ScheduleInv
BY DedupScheduleAssumption
   DEF ScheduleInit, ScheduleInv, ScheduleTypeOK, RunIsLocked, Passing, Row, Jobs, Meta,
       Actors, Executors, NoActor, NoTime

LEMMA TickKeeps == ASSUME ScheduleInv, Tick PROVE ScheduleInv'
<1>. USE ActorsAre DEF ScheduleInv, Tick
<1>1. "scheduler" \in Actors /\ "scheduler" \in Executors
  BY DEF Actors, Executors
<1>2. ASSUME NEW j \in Jobs, Reads("scheduler", j), runLock' \in Executors \cup {NoActor}
      PROVE  ScheduleTypeOK'
  BY <1>1, <1>2, ReadsTyped DEF ScheduleTypeOK
<1>3. CASE Reads("scheduler", "ensure") /\ UNCHANGED runLock
  <2>1. ScheduleTypeOK'
    BY <1>2, <1>3 DEF Jobs, ScheduleTypeOK
  <2>2. RunIsLocked'
    BY <1>1, <1>3, MoveKeeps DEF Jobs, Reads
  <2>. QED
    BY <2>1, <2>2
<1>4. CASE Reads("scheduler", "executing") /\ runLock = NoActor /\ runLock' = "scheduler"
  <2>1. ScheduleTypeOK'
    BY <1>1, <1>2, <1>4 DEF Jobs
  <2>2. RunIsLocked'
    BY <1>1, <1>4 DEF RunIsLocked, Passing, Reads, ScheduleTypeOK, Executors, NoActor
  <2>. QED
    BY <2>1, <2>2
<1>5. CASE Reads("scheduler", "waiting") /\ UNCHANGED runLock
  <2>1. ScheduleTypeOK'
    BY <1>2, <1>5 DEF Jobs, Meta, ScheduleTypeOK
  <2>2. RunIsLocked'
    BY <1>1, <1>5, MoveKeeps DEF Jobs, Meta, Reads
  <2>. QED
    BY <2>1, <2>2
<1>. QED
  BY <1>3, <1>4, <1>5

LEMMA ManualRunKeeps == ASSUME ScheduleInv, ManualRun PROVE ScheduleInv'
<1>. USE DEF ScheduleInv, ManualRun
<1>1. "api" \in Actors /\ "api" \in Executors /\ "executing" \in Jobs
  BY DEF Actors, Executors, Jobs
<1>2. saves' \in 0..MaxSaves
  BY DedupScheduleAssumption DEF ScheduleTypeOK
<1>3. CASE runLock = NoActor
  <2>1. ScheduleTypeOK'
    BY <1>1, <1>2, <1>3, ReadsTyped DEF ScheduleTypeOK
  <2>2. RunIsLocked'
    <3>1. ASSUME NEW b \in Executors, Passing(b)' PROVE b = "api"
      <4>1. ~Passing(b)
        BY <1>3 DEF RunIsLocked, Executors, NoActor
      <4>. QED
        BY <1>3, <3>1, <4>1, ActorsAre DEF Passing, Reads, ScheduleTypeOK
    <3>. QED
      BY <1>3, <3>1 DEF RunIsLocked
  <2>. QED
    BY <2>1, <2>2
<1>4. CASE runLock # NoActor
  BY <1>2, <1>4 DEF ScheduleTypeOK, RunIsLocked, Passing
<1>. QED
  BY <1>3, <1>4

LEMMA DeletesKeeps ==
    ASSUME ScheduleInv, NEW a \in Executors, Deletes(a) PROVE ScheduleInv'
<1>. USE ActorsAre DEF ScheduleInv, Deletes
<1>1. ScheduleTypeOK'
  BY MovesTyped DEF ScheduleTypeOK, Jobs
<1>2. RunIsLocked'
  BY MoveKeeps DEF Jobs, MovesOn, Passing
<1>. QED
  BY <1>1, <1>2

LEMMA FinishesKeeps ==
    ASSUME ScheduleInv, NEW a \in Executors, Finishes(a) PROVE ScheduleInv'
<1>. USE ActorsAre DEF ScheduleInv, Finishes
<1>1. ScheduleTypeOK'
  BY ReadsTyped DEF ScheduleTypeOK, Jobs, Meta
<1>2. RunIsLocked'
  BY MoveKeeps DEF Jobs, Meta, Reads, Passing
<1>. QED
  BY <1>1, <1>2

LEMMA FailsWithKeeps ==
    ASSUME ScheduleInv, NEW a \in Executors, FailsWith(a), runFaults' \in 0..MaxRunFaults
    PROVE  ScheduleInv'
<1>. USE ActorsAre DEF ScheduleInv, FailsWith
<1>1. "failed" \in Jobs \ {"executing", "deleted", "completed"}
  BY DEF Jobs, Meta
<1>2. RunIsLocked' /\ runLock' \in Executors \cup {NoActor}
  BY <1>1, ReleaseKeeps DEF Reads
<1>3. targetLock' \in Actors \cup {NoActor}
  BY DEF Releases, ScheduleTypeOK
<1>. QED
  BY <1>1, <1>2, <1>3, ReadsTyped DEF ScheduleTypeOK

LEMMA FailsKeeps ==
    ASSUME ScheduleInv, NEW a \in Executors, Fails(a) PROVE ScheduleInv'
<1>1. runFaults' \in 0..MaxRunFaults
  BY DedupScheduleAssumption DEF ScheduleInv, ScheduleTypeOK, Fails
<1>. QED
  BY <1>1, FailsWithKeeps DEF Fails

(* What an actor writes is its copy but for the part it means to change.   *)
LEMMA WritesMetaKeeps ==
    ASSUME ScheduleInv, NEW a \in Executors, WritesMeta(a) PROVE ScheduleInv'
<1>. USE ActorsAre DEF ScheduleInv, WritesMeta, Writes
<1>1. "none" \in Jobs \ {"executing", "deleted", "completed"}
  BY DEF Jobs
<1>2. RunIsLocked' /\ runLock' \in Executors \cup {NoActor}
  BY <1>1, ReleaseKeeps DEF MovesOn
<1>3. targetLock' \in Actors \cup {NoActor}
  BY DEF Releases, ScheduleTypeOK
<1>4. copy[a] \in Row
  BY DEF ScheduleTypeOK
<1>5. NextAfter(a, copy[a]) \in 0..MaxClock + 2
  BY <1>4, NextTyped DEF NextAfter, Row
<1>6. row' \in Row
  BY <1>4, <1>5 DEF Row
<1>. QED
  BY <1>1, <1>2, <1>3, <1>6, MovesTyped DEF ScheduleTypeOK

LEMMA EnsuresNextKeeps == ASSUME ScheduleInv, EnsuresNext PROVE ScheduleInv'
<1>. USE DEF ScheduleInv, EnsuresNext, Writes
<1>1. "scheduler" \in Actors /\ "none" \in Jobs
  BY DEF Actors, Jobs
<1>2. copy["scheduler"] \in Row
  BY <1>1 DEF ScheduleTypeOK
<1>3. row' \in Row
  BY <1>2, NextTyped DEF Row
<1>4. RunIsLocked'
  BY <1>1, MoveKeeps DEF MovesOn
<1>. QED
  BY <1>1, <1>3, <1>4, MovesTyped DEF ScheduleTypeOK

LEMMA RequestReadsKeeps ==
    ASSUME ScheduleInv, NEW j \in {"on", "off", "auto", "sync"}, RequestReads(j)
    PROVE  ScheduleInv'
<1>. USE DEF ScheduleInv, RequestReads
<1>1. "api" \in Actors /\ j \in Jobs
  BY DEF Actors, Jobs
<1>2. saves' \in 0..MaxSaves
  BY DedupScheduleAssumption DEF ScheduleTypeOK
<1>3. RunIsLocked'
  BY <1>1, MoveKeeps DEF Reads
<1>. QED
  BY <1>1, <1>2, <1>3, ReadsTyped DEF ScheduleTypeOK

LEMMA RequestWritesKeeps == ASSUME ScheduleInv, RequestWrites PROVE ScheduleInv'
<1>. USE DEF ScheduleInv, RequestWrites, Writes
<1>1. "api" \in Actors /\ "none" \in Jobs
  BY DEF Actors, Jobs
<1>2. copy["api"] \in Row
  BY <1>1 DEF ScheduleTypeOK
<1>3. /\ ComputeNext(TRUE) \in 0..MaxClock + 2
      /\ ComputeNext(FALSE) \in 0..MaxClock + 2 /\ ComputeNext(FALSE) = NoTime
  <2>1. TRUE \in BOOLEAN /\ FALSE \in BOOLEAN
    OBVIOUS
  <2>. QED
    BY <2>1, NextTyped DEF ComputeNext
<1>4. row' \in Row
  BY <1>2, <1>3 DEF Requested, Row
<1>5. RunIsLocked'
  BY <1>1, MoveKeeps DEF MovesOn
<1>. QED
  BY <1>1, <1>4, <1>5, MovesTyped DEF ScheduleTypeOK

LEMMA WorkerEndsKeeps ==
    ASSUME ScheduleInv, NEW r \in Row, WorkerEnds(r) PROVE ScheduleInv'
<1>. USE ActorsAre DEF ScheduleInv, WorkerEnds
<1>1. "none" \in Jobs
  BY DEF Jobs
<1>2. RunIsLocked'
  BY <1>1, MoveKeeps DEF MovesOn
<1>3. targetLock' \in Actors \cup {NoActor}
  BY DEF Releases, ScheduleTypeOK
<1>. QED
  BY <1>1, <1>2, <1>3, MovesTyped DEF ScheduleTypeOK

LEMMA WorkerStepKeeps == ASSUME ScheduleInv, WorkerStep PROVE ScheduleInv'
<1>. USE ActorsAre DEF ScheduleInv
<1>1. {"none", "read", "running", "bound"} \subseteq Jobs
  BY DEF Jobs
<1>2. copy["worker"] \in Row /\ [copy["worker"] EXCEPT !.state = "idle"] \in Row
  BY DEF ScheduleTypeOK, Row
<1>3. CASE WorkerReads
  <2>1. RunIsLocked'
    BY <1>1, <1>3, MoveKeeps DEF WorkerReads, Reads
  <2>. QED
    BY <1>1, <1>3, <2>1, ReadsTyped DEF WorkerReads, ScheduleTypeOK
<1>4. CASE WorkerIsIdle
  <2>1. RunIsLocked'
    BY <1>1, <1>4, MoveKeeps DEF WorkerIsIdle, Writes, MovesOn
  <2>. QED
    BY <1>1, <1>2, <1>4, <2>1, MovesTyped DEF WorkerIsIdle, Writes, ScheduleTypeOK
<1>5. CASE WorkerClaims
  <2>1. RunIsLocked'
    BY <1>1, <1>5, MoveKeeps DEF WorkerClaims, MovesOn
  <2>. QED
    BY <1>1, <1>5, <2>1, MovesTyped DEF WorkerClaims, ScheduleTypeOK
<1>6. CASE WorkerBinds
  <2>1. RunIsLocked'
    BY <1>1, <1>6, MoveKeeps DEF WorkerBinds, MovesOn
  <2>. QED
    BY <1>1, <1>6, <2>1, MovesTyped DEF WorkerBinds, ScheduleTypeOK
<1>7. CASE WorkerCommits
  BY <1>2, <1>7, WorkerEndsKeeps DEF WorkerCommits
<1>. QED
  BY <1>3, <1>4, <1>5, <1>6, <1>7 DEF WorkerStep

LEMMA DeadlockKeeps ==
    ASSUME ScheduleInv, NEW a \in Executors, DeadlockDetected(a) PROVE ScheduleInv'
<1>1. CASE FailsWith(a) /\ UNCHANGED runFaults
  BY <1>1, FailsWithKeeps DEF ScheduleInv, ScheduleTypeOK
<1>2. CASE WorkerEnds(row)
  BY <1>2, WorkerEndsKeeps DEF ScheduleInv, ScheduleTypeOK
<1>. QED
  BY <1>1, <1>2 DEF DeadlockDetected

LEMMA HourKeeps == ASSUME ScheduleInv, HourPasses PROVE ScheduleInv'
BY DedupScheduleAssumption
   DEF ScheduleInv, ScheduleTypeOK, RunIsLocked, Passing, HourPasses

LEMMA ScheduleStepInv == ScheduleInv /\ [ScheduleNext]_schedVars => ScheduleInv'
<1>. SUFFICES ASSUME ScheduleInv, [ScheduleNext]_schedVars PROVE ScheduleInv'
  OBVIOUS
<1>1. CASE Tick \/ EnsuresNext \/ ManualRun
  BY <1>1, TickKeeps, EnsuresNextKeeps, ManualRunKeeps
<1>2. CASE \E a \in Executors : ExecutorStep(a) \/ Fails(a)
  BY <1>2, DeletesKeeps, FinishesKeeps, WritesMetaKeeps, DeadlockKeeps, FailsKeeps
     DEF ExecutorStep
<1>3. CASE \E j \in {"on", "off", "auto", "sync"} : RequestReads(j)
  BY <1>3, RequestReadsKeeps
<1>4. CASE RequestWrites \/ WorkerStep \/ HourPasses
  BY <1>4, RequestWritesKeeps, WorkerStepKeeps, HourKeeps
<1>5. CASE UNCHANGED schedVars
  BY <1>5 DEF ScheduleInv, ScheduleTypeOK, RunIsLocked, Passing, schedVars
<1>. QED
  BY <1>1, <1>2, <1>3, <1>4, <1>5 DEF ScheduleNext

(***************************************************************************)
(* A setting and the copies                                                *)
(***************************************************************************)
Excused ==
    row'.auto # row.auto =>
        job["api"] = "auto" \/ \E a \in Actors : Stale(a) /\ job'[a] = "none"

(* A write of a copy changes the setting only when the copy is stale.      *)
LEMMA WriteExcused ==
    ASSUME ScheduleInv, NEW a \in Actors, job[a] # "none", job'[a] = "none",
           row'.auto = copy[a].auto
    PROVE  Excused
BY DEF Excused, Stale

LEMMA MetaExcused ==
    ASSUME ScheduleInv, NEW a \in Executors, WritesMeta(a) PROVE Excused
<1>1. a \in Actors /\ job[a] # "none"
  BY ActorsAre DEF WritesMeta, Meta
<1>2. row'.auto = copy[a].auto /\ job'[a] = "none"
  BY <1>1 DEF WritesMeta, Writes, MovesOn, ScheduleInv, ScheduleTypeOK, Row
<1>. QED
  BY <1>1, <1>2, WriteExcused

LEMMA EnsureExcused == ASSUME ScheduleInv, EnsuresNext PROVE Excused
<1>1. "scheduler" \in Actors /\ job["scheduler"] # "none"
  BY DEF EnsuresNext, Actors
<1>2. row'.auto = copy["scheduler"].auto /\ job'["scheduler"] = "none"
  BY <1>1 DEF EnsuresNext, Writes, MovesOn, ScheduleInv, ScheduleTypeOK, Row
<1>. QED
  BY <1>1, <1>2, WriteExcused

LEMMA RequestExcused == ASSUME ScheduleInv, RequestWrites PROVE Excused
<1>1. CASE job["api"] = "auto"
  BY <1>1 DEF Excused
<1>2. CASE job["api"] \in {"on", "off", "sync"}
  <2>1. "api" \in Actors /\ job["api"] # "none"
    BY <1>2 DEF Actors
  <2>2. row'.auto = copy["api"].auto /\ job'["api"] = "none"
    BY <1>2, <2>1 DEF RequestWrites, Requested, Writes, MovesOn, ScheduleInv,
                      ScheduleTypeOK, Row
  <2>. QED
    BY <2>1, <2>2, WriteExcused
<1>. QED
  BY <1>1, <1>2 DEF RequestWrites

LEMMA WorkerExcused == ASSUME ScheduleInv, WorkerStep PROVE Excused
<1>1. ASSUME WorkerIsIdle \/ WorkerCommits PROVE Excused
  <2>1. "worker" \in Actors /\ job["worker"] # "none"
    BY <1>1 DEF WorkerIsIdle, WorkerCommits, Actors
  <2>2. row'.auto = copy["worker"].auto /\ job'["worker"] = "none"
    BY <1>1, <2>1 DEF WorkerIsIdle, WorkerCommits, WorkerEnds, Writes, MovesOn,
                      ScheduleInv, ScheduleTypeOK, Row
  <2>. QED
    BY <2>1, <2>2, WriteExcused
<1>2. ASSUME WorkerReads \/ WorkerClaims \/ WorkerBinds PROVE Excused
  BY <1>2 DEF WorkerReads, WorkerClaims, WorkerBinds, Excused
<1>. QED
  BY <1>1, <1>2 DEF WorkerStep

LEMMA StepExcused == ScheduleInv /\ [ScheduleNext]_schedVars => Excused
<1>. SUFFICES ASSUME ScheduleInv, [ScheduleNext]_schedVars PROVE Excused
  OBVIOUS
<1>1. ASSUME NEW a \in Executors, ExecutorStep(a) \/ Fails(a) PROVE Excused
  <2>1. CASE WritesMeta(a)
    BY <2>1, MetaExcused
  <2>2. CASE Deletes(a) \/ Finishes(a) \/ Fails(a)
    BY <2>2 DEF Deletes, Finishes, Fails, FailsWith, Excused
  <2>3. CASE DeadlockDetected(a)
    BY <2>3 DEF DeadlockDetected, FailsWith, WorkerEnds, Excused
  <2>. QED
    BY <1>1, <2>1, <2>2, <2>3 DEF ExecutorStep
<1>2. CASE Tick \/ ManualRun \/ HourPasses \/ UNCHANGED schedVars
  BY <1>2 DEF Tick, ManualRun, HourPasses, schedVars, Excused
<1>3. CASE \E j \in {"on", "off", "auto", "sync"} : RequestReads(j)
  BY <1>3 DEF RequestReads, Excused
<1>. QED
  BY <1>1, <1>2, <1>3, EnsureExcused, RequestExcused, WorkerExcused DEF ScheduleNext

(* The settings row, the copies of it and the locks are well typed.        *)
THEOREM ScheduleTypeCorrect == ScheduleSpec => []ScheduleTypeOK
BY ScheduleInitInv, ScheduleStepInv, PTL DEF ScheduleSpec, ScheduleInv

(* No two passes run at the same time, whoever starts them and whichever   *)
(* fails (run_dedup_with_session).                                         *)
THEOREM OneExecutes == ScheduleSpec => []OneDedupExecutes
<1>1. ScheduleInv => OneDedupExecutes
  BY DEF ScheduleInv, RunIsLocked, OneDedupExecutes
<1>. QED
  BY <1>1, ScheduleInitInv, ScheduleStepInv, PTL DEF ScheduleSpec

(* A setting changes by the request that saves it or by a stale copy.      *)
THEOREM SettingsStay == ScheduleSpec => SettingStays
<1>1. ScheduleSpec => []ScheduleInv
  BY ScheduleInitInv, ScheduleStepInv, PTL DEF ScheduleSpec
<1>2. ScheduleInv /\ [ScheduleNext]_schedVars => [Excused]_schedVars
  BY StepExcused
<1>3. [Excused]_schedVars =>
        [row'.auto # row.auto =>
          job["api"] = "auto" \/ \E a \in Actors : Stale(a) /\ job'[a] = "none"]_schedVars
  BY DEF Excused
<1>. QED
  BY <1>1, <1>2, <1>3, PTL DEF ScheduleSpec, SettingStays

(***************************************************************************)
(* The directory of a resource in a cloud drive                            *)
(*                                                                         *)
(* A place a transfer has to fill is filled or is being filled until it    *)
(* ends (WantedHeld).  What could undo it is a deletion of contents that   *)
(* is still under way, but such a deletion names only rows that have been  *)
(* seen to be gone (WipesHeld), and no save brings one of them again       *)
(* (PendingHeld).  As long as no save was given up nothing arrives behind  *)
(* a transfer's back (SavesHeld): a replacement then starts from nothing   *)
(* (ReplaceHeld), and a retry saves nothing twice (OnceHeld).              *)
(***************************************************************************)
DriveRows == [name : Entries, at : Places, copy : Nat]
HasParent(c) == c.at = DriveRoot \/ Held(c.at, DriveRoot)
InPlace == pc \in {"saving", "waiting", "done", "shared"}

DriveTypes ==
    /\ DriveTypeOK
    /\ exists \in BOOLEAN /\ mode \in {"standard", "incremental", "replace_all"}
    /\ plan \subseteq Group /\ awaited \subseteq DriveRows /\ before \in Nat
    /\ wipes \in Seq(SUBSET DriveRows)
    /\ requests \in Nat /\ mishaps \in Nat
    /\ out \in {"none"} \cup Places \cup Entries
    /\ preferred \in Places /\ lostSave \in BOOLEAN /\ lostWipe \in BOOLEAN
    /\ purge \in BOOLEAN /\ onTheWay \in BOOLEAN /\ dropped \in BOOLEAN

(* A row in a directory has its directory, and every row has the number of *)
(* a save that was posted.                                                 *)
ContentHeld ==
    /\ before <= Len(postings)
    /\ \A c \in content : HasParent(c) /\ c.copy <= Len(postings)
    /\ \A i \in DOMAIN wipes : \A r \in wipes[i] : r.copy <= Len(postings)

(* What is still to be saved is not there yet, nor in a deletion.          *)
Brought(s, j) == [name |-> s[1], at |-> s[2], copy |-> j]
PendingHeld ==
    \A j \in DOMAIN postings : \A s \in postings[j] :
        Brought(s, j) \notin content /\ \A i \in DOMAIN wipes : Brought(s, j) \notin wipes[i]

SavesHeld ==
    ~lostSave => /\ \A j \in DOMAIN postings :
                       postings[j] # {} => pc = "waiting" /\ j = Len(postings)
                 /\ pc = "waiting" => before < Len(postings)

(* A deletion of contents that is under way is the one a transfer waits    *)
(* for, or was given up; what one names is waited for, or is gone.         *)
WipesHeld ==
    /\ pc = "clearing" => mode = "replace_all" /\ wanted = {}
    /\ ~lostWipe /\ wipes # <<>> =>
          /\ pc = "clearing" /\ wipes = <<awaited>> /\ awaited \subseteq TopRows
          /\ awaited # {} \/ clash # {}
    /\ mode = "replace_all" =>
          /\ pc = "clearing" => \A i \in DOMAIN wipes : wipes[i] \cap TopRows \subseteq awaited
          /\ InPlace => \A i \in DOMAIN wipes : wipes[i] \cap TopRows = {}

ReplaceHeld ==
    mode = "replace_all" /\ ~lostSave =>
        /\ pc = "clearing" => TopRows \subseteq awaited
        /\ InPlace => \A c \in content : c.copy > before

OneCopy == \A c1, c2 \in content :
    c1.name = c2.name /\ c1.at = c2.at /\ c1.copy > before => c1.copy = c2.copy
OnceHeld ==
    mode = "incremental" /\ ~lostSave =>
        /\ \A j \in DOMAIN postings : \A s \in postings[j] : ~Held(s[1], s[2])
        /\ OneCopy

ComesBy(s, j) ==
    /\ s \in postings[j]
    /\ s[2] = DriveRoot \/ Held(s[2], DriveRoot) \/ <<s[2], DriveRoot>> \in postings[j]
Coming(s) == \E j \in DOMAIN postings : ComesBy(s, j)
DriveExcused ==
    \/ lostWipe /\ (platform = "baidu" \/ mode # "replace_all")
    \/ "given_up" \in unclear
WantedHeld ==
    InPlace \/ mode # "replace_all" =>
        \A s \in wanted : Held(s[1], s[2]) \/ Coming(s) \/ DriveExcused

(* A deletion of the directory that nobody gave up: the directory is on    *)
(* its way into the recycle bin, or there, until that is emptied.          *)
OnItsWay == (onTheWay \/ "ours" \in bin) /\ ~(onTheWay /\ "ours" \in bin)
DeletionHeld ==
    /\ dpc # "idle" => pc = "idle" /\ wanted = {}
    /\ dropped /\ "given_up" \notin unclear => dpc = "leaving" /\ exists
    /\ answer = "cleared" => pc = "idle" /\ dpc = "idle"
    /\ unclear = {} =>
          /\ "namesake" \notin bin
          /\ answer = "cleared" => ~exists
          /\ dpc = "idle" => ~onTheWay /\ "ours" \notin bin
          /\ dpc = "leaving" =>
                /\ purge
                /\ exists => dropped /\ ~onTheWay /\ "ours" \notin bin
                /\ ~exists => OnItsWay
          /\ dpc = "binning" => purge /\ ~exists /\ OnItsWay
          /\ dpc = "purging" => ~exists /\ ~onTheWay

DriveInv ==
    /\ DriveTypes /\ ContentHeld /\ PendingHeld /\ SavesHeld /\ WipesHeld
    /\ ReplaceHeld /\ OnceHeld /\ WantedHeld /\ DeletionHeld

LEMMA DriveParts ==
    DriveTypes =>
        /\ platform \in {"quark", "baidu"} /\ shared \in SUBSET Entries
        /\ clash \in SUBSET ShareDirs /\ content \in SUBSET DriveRows
        /\ postings \in Seq(SUBSET Slots) /\ wipes \in Seq(SUBSET DriveRows)
        /\ pc \in {"idle", "ready", "clearing", "saving", "waiting", "done", "shared", "failed"}
        /\ mode \in {"standard", "incremental", "replace_all"}
        /\ groups \in SUBSET Group /\ groups \subseteq plan /\ plan \in SUBSET Group
        /\ awaited \in SUBSET DriveRows /\ before \in Nat /\ wanted \in SUBSET Slots
        /\ requests \in Nat /\ mishaps \in Nat /\ preferred \in Places
        /\ out \in {"none"} \cup Places \cup Entries
        /\ dpc \in {"idle", "leaving", "binning", "purging"}
        /\ bin \in SUBSET {"ours", "namesake"}
        /\ answer \in {"none", "deleted", "cleared", "error"}
        /\ unclear \in SUBSET {"given_up", "unseen", "namesake"}
        /\ exists \in BOOLEAN /\ lostSave \in BOOLEAN /\ lostWipe \in BOOLEAN
        /\ purge \in BOOLEAN /\ onTheWay \in BOOLEAN /\ dropped \in BOOLEAN
BY DEF DriveTypes, DriveTypeOK, DriveRows

LEMMA DriveNames ==
    /\ DriveRoot \in Places /\ ShareDirs \subseteq Places /\ ShareDirs \subseteq Entries
    /\ DriveRoot \notin Entries
    /\ \A e \in Entries : At(e) \in Places
BY DriveConstants DEF Places, Entries, At

LEMMA DriveInitially == DriveInit => DriveInv
<1> SUFFICES ASSUME DriveInit PROVE DriveInv
  OBVIOUS
<1>1. /\ postings = <<>> /\ wipes = <<>> /\ DOMAIN postings = {} /\ DOMAIN wipes = {}
      /\ Len(postings) = 0 /\ before = 0
      /\ postings \in Seq(SUBSET Slots) /\ wipes \in Seq(SUBSET DriveRows)
  BY DEF DriveInit
<1>2. content \subseteq DriveRows /\ \A c \in content : c.at = DriveRoot /\ c.copy = 0
  BY DriveNames DEF DriveInit, DriveRows, Entries
<1>3. DriveTypes
  <2>1. /\ platform \in {"quark", "baidu"} /\ shared \subseteq Entries /\ clash \subseteq ShareDirs
        /\ groups = {} /\ plan = {} /\ awaited = {} /\ wanted = {} /\ bin \in {{}, {"namesake"}}
        /\ unclear = bin /\ exists \in BOOLEAN /\ preferred \in Places
        /\ pc = "idle" /\ mode = "standard" /\ dpc = "idle" /\ answer = "none" /\ out = "none"
        /\ lostSave = FALSE /\ lostWipe = FALSE /\ purge = FALSE /\ onTheWay = FALSE
        /\ dropped = FALSE /\ requests = 0 /\ mishaps = 0
    BY DEF DriveInit
  <2>2. DriveTypeOK
    BY <1>1, <1>2, <2>1 DEF DriveTypeOK, DriveRows
  <2>. QED
    BY <1>1, <2>1, <2>2 DEF DriveTypes
<1>4. ContentHeld
  BY <1>1, <1>2 DEF ContentHeld, HasParent
<1>5. PendingHeld /\ SavesHeld /\ WipesHeld
  BY <1>1 DEF PendingHeld, SavesHeld, WipesHeld, DriveInit, InPlace
<1>6. ReplaceHeld /\ OnceHeld /\ WantedHeld
  BY DEF ReplaceHeld, OnceHeld, WantedHeld, DriveInit
<1>7. DeletionHeld
  BY DEF DriveInit, DeletionHeld
<1>. QED
  BY <1>3, <1>4, <1>5, <1>6, <1>7 DEF DriveInv

(* What the directory holds does not change: what is said of its content   *)
(* alone stays.                                                            *)
LEMMA ContentStays ==
    ASSUME DriveInv, UNCHANGED <<content, postings, wipes>>,
           before' <= Len(postings)
    PROVE  ContentHeld' /\ PendingHeld'
BY DEF DriveInv, ContentHeld, PendingHeld, HasParent, Held, Brought

(* Nor does the transfer move.                                             *)
LEMMA TransferStays ==
    ASSUME DriveInv, DriveTypes', UNCHANGED <<platform, content, clash, postings, wipes>>,
           UNCHANGED <<pc, mode, awaited, wanted, before, lostSave, lostWipe>>,
           unclear \subseteq unclear', DeletionHeld'
    PROVE  DriveInv'
<1>1. ContentHeld' /\ PendingHeld'
  BY ContentStays DEF DriveInv, ContentHeld
<1>2. SavesHeld' /\ WipesHeld' /\ ReplaceHeld'
  BY DEF DriveInv, SavesHeld, WipesHeld, ReplaceHeld, TopRows, InPlace
<1>3. OnceHeld'
  BY DEF DriveInv, OnceHeld, OneCopy, Held
<1>4. WantedHeld'
  <2>1. \A s \in wanted : (Held(s[1], s[2]) => Held(s[1], s[2])') /\ (Coming(s) => Coming(s)')
    BY DEF Held, Coming, ComesBy
  <2>2. DriveExcused => DriveExcused'
    BY DEF DriveExcused
  <2>3. WantedHeld
    BY DEF DriveInv
  <2>. QED
    BY <2>1, <2>2, <2>3 DEF WantedHeld, InPlace
<1>. QED
  BY <1>1, <1>2, <1>3, <1>4 DEF DriveInv

LEMMA DeletionWatched ==
    ASSUME DriveInv, DeletionSeen \/ DeletionInBin \/ EmptyBin \/ EmptinessSeen \/ DeleteFails
    PROVE  DriveInv'
<1>1. /\ UNCHANGED <<platform, content, clash, postings, wipes>>
      /\ UNCHANGED <<pc, mode, awaited, wanted, before, lostSave, lostWipe>>
      /\ UNCHANGED <<shared, exists, groups, plan, requests, out, preferred>>
      /\ UNCHANGED <<purge, onTheWay, dropped>> /\ mishaps' \in Nat
      /\ bin' \in {bin, {}} /\ dpc' \in {"idle", "leaving", "binning", "purging"}
      /\ answer' \in {"none", "deleted", "cleared", "error"}
      /\ unclear' = unclear \/ unclear' = unclear \cup {"given_up"}
  BY DriveParts DEF DeletionSeen, DeletionInBin, EmptyBin, EmptinessSeen, DeleteFails,
     folderVars, transferVars, DriveInv
<1>2. DriveTypes'
  <2>1. unclear' \subseteq {"given_up", "unseen", "namesake"} /\ bin' \subseteq {"ours", "namesake"}
    BY <1>1, DriveParts DEF DriveInv
  <2>. QED
    BY <1>1, <2>1 DEF DriveInv, DriveTypes, DriveTypeOK
<1>3. unclear \subseteq unclear'
  BY <1>1
<1>4. DeletionHeld'
  <2>1. DeletionHeld
    BY DEF DriveInv
  <2>2. CASE DeletionSeen
    BY <2>1, <2>2 DEF DeletionSeen, DeletionHeld, OnItsWay, folderVars, transferVars
  <2>3. CASE DeletionInBin
    BY <2>1, <2>3 DEF DeletionInBin, DeletionHeld, OnItsWay, BinSeen, folderVars, transferVars
  <2>4. CASE EmptyBin
    BY <2>1, <2>4 DEF EmptyBin, DeletionHeld, OnItsWay, folderVars, transferVars
  <2>5. CASE EmptinessSeen
    BY <2>1, <2>5 DEF EmptinessSeen, DeletionHeld, OnItsWay, folderVars, transferVars
  <2>6. CASE DeleteFails
    <3>1. "given_up" \in unclear' /\ unclear' # {}
      BY <2>6 DEF DeleteFails
    <3>2. dpc' = "idle" /\ answer' = "error"
      BY <2>6 DEF DeleteFails
    <3>. QED
      BY <3>1, <3>2 DEF DeletionHeld
  <2>. QED
    BY <2>2, <2>3, <2>4, <2>5, <2>6
<1>. QED
  BY <1>1, <1>2, <1>3, <1>4, TransferStays

LEMMA OthersKeep ==
    ASSUME DriveInv, BinShows \/ (\E e \in Entries : SourceChanges(e)) \/ UNCHANGED driveVars
    PROVE  DriveInv'
<1>1. CASE BinShows
  <2>1. /\ UNCHANGED <<platform, content, clash, postings, wipes>>
        /\ UNCHANGED <<pc, mode, awaited, wanted, before, lostSave, lostWipe>>
        /\ UNCHANGED <<shared, exists, groups, plan, requests, out, preferred>>
        /\ UNCHANGED <<mishaps, dpc, purge, dropped, answer, unclear>>
        /\ onTheWay /\ onTheWay' = FALSE /\ bin' = bin \cup {"ours"}
    BY <1>1 DEF BinShows, folderVars, transferVars
  <2>2. bin' \subseteq {"ours", "namesake"} /\ onTheWay' \in BOOLEAN
    BY <2>1, DriveParts DEF DriveInv
  <2>3. DriveTypes'
    BY <2>1, <2>2 DEF DriveInv, DriveTypes, DriveTypeOK
  <2>4. DeletionHeld'
    <3>1. DeletionHeld
      BY DEF DriveInv
    <3>. QED
      BY <2>1, <3>1 DEF DeletionHeld, OnItsWay
  <2>. QED
    BY <2>1, <2>3, <2>4, TransferStays
<1>2. ASSUME NEW e \in Entries, SourceChanges(e)
      PROVE  DriveInv'
  <2>1. /\ UNCHANGED <<platform, content, clash, postings, wipes>>
        /\ UNCHANGED <<pc, mode, awaited, wanted, before, lostSave, lostWipe>>
        /\ UNCHANGED <<exists, groups, plan, requests, out, preferred>>
        /\ UNCHANGED <<dpc, purge, bin, onTheWay, dropped, answer, unclear>>
        /\ mishaps' \in Nat
    BY <1>2, DriveParts DEF SourceChanges, transferVars, deleteVars, DriveInv
  <2>2. shared' \subseteq Entries
    <3>1. At(e) \in Entries \cup {DriveRoot}
      BY DriveNames DEF Places, Entries
    <3>. QED
      BY <1>2, <3>1, DriveParts DEF SourceChanges, DriveInv
  <2>3. DriveTypes'
    BY <2>1, <2>2 DEF DriveInv, DriveTypes, DriveTypeOK
  <2>4. DeletionHeld'
    BY <2>1 DEF DriveInv, DeletionHeld, OnItsWay
  <2>. QED
    BY <2>1, <2>3, <2>4, TransferStays
<1>3. CASE UNCHANGED driveVars
  <2>1. DriveTypes'
    BY <1>3 DEF DriveInv, DriveTypes, DriveTypeOK, driveVars
  <2>2. DeletionHeld'
    BY <1>3 DEF DriveInv, DeletionHeld, OnItsWay, driveVars
  <2>. QED
    BY <1>3, <2>1, <2>2, TransferStays DEF driveVars
<1>. QED
  BY <1>1, <1>2, <1>3

(* A transfer that moves has no deletion of the directory beside it.       *)
LEMMA NoDeletionBeside ==
    ASSUME DriveInv, pc # "idle", UNCHANGED deleteVars
    PROVE  DeletionHeld'
<1>1. DeletionHeld
  BY DEF DriveInv
<1>2. dpc = "idle" /\ answer # "cleared" /\ (dropped => "given_up" \in unclear)
  BY <1>1 DEF DeletionHeld
<1>3. UNCHANGED <<dpc, purge, bin, onTheWay, dropped, answer, unclear>>
  BY DEF deleteVars
<1>. QED
  BY <1>1, <1>2, <1>3 DEF DeletionHeld

(* Without a save that was given up, none is under way but the awaited.    *)
LEMMA NothingComes ==
    ASSUME DriveInv, ~lostSave, pc = "waiting" => postings[Len(postings)] = {}
    PROVE  \A j \in DOMAIN postings : postings[j] = {}
BY DEF DriveInv, SavesHeld

LEMMA TransferMoves ==
    ASSUME DriveInv, DriveTypes', DeletionHeld',
           UNCHANGED <<platform, content, clash, postings, wipes, mode, before, unclear>>,
           wanted' \in {wanted, {}},
           pc' \notin {"waiting", "clearing"},
           lostSave => lostSave', lostWipe => lostWipe',
           ~lostSave' => \A j \in DOMAIN postings : postings[j] = {},
           ~lostWipe' => wipes = <<>>,
           InPlace' /\ mode = "replace_all" =>
              \/ InPlace
              \/ /\ \A i \in DOMAIN wipes : wipes[i] \cap TopRows = {}
                 /\ ~lostSave => \A c \in content : c.copy > before
                 /\ wanted' = {}
    PROVE  DriveInv'
<1>1. ContentHeld' /\ PendingHeld'
  BY ContentStays DEF DriveInv, ContentHeld
<1>2. SavesHeld'
  BY DEF SavesHeld
<1>3. WipesHeld'
  BY DEF DriveInv, WipesHeld, TopRows
<1>4. ReplaceHeld'
  BY DEF DriveInv, ReplaceHeld, TopRows
<1>5. OnceHeld'
  BY DEF DriveInv, OnceHeld, OneCopy, Held
<1>6. WantedHeld'
  <2>1. \A s \in wanted : (Held(s[1], s[2]) => Held(s[1], s[2])') /\ (Coming(s) => Coming(s)')
    BY DEF Held, Coming, ComesBy
  <2>2. DriveExcused => DriveExcused'
    BY DEF DriveExcused
  <2>3. WantedHeld
    BY DEF DriveInv
  <2>4. wanted' \subseteq wanted
    OBVIOUS
  <2>. QED
    BY <2>1, <2>2, <2>3, <2>4 DEF WantedHeld
<1>. QED
  BY <1>1, <1>2, <1>3, <1>4, <1>5, <1>6 DEF DriveInv

LEMMA WipesAwaited ==
    ASSUME DriveInv, ~lostWipe, pc # "clearing"
    PROVE  wipes = <<>>
BY DEF DriveInv, WipesHeld

(* A save is seen to be complete, the transfer ends, or it is shared.      *)
LEMMA TransferGoesOn ==
    ASSUME DriveInv, Saved \/ TransferEnds \/ Share
    PROVE  DriveInv'
<1>1. /\ UNCHANGED <<platform, content, clash, postings, wipes, mode, before, wanted, unclear>>
      /\ UNCHANGED <<shared, exists, groups, plan, requests, mishaps, lostSave, lostWipe>>
      /\ UNCHANGED deleteVars /\ pc' \in {"saving", "done", "shared"} /\ InPlace
      /\ (pc = "waiting" => postings[Len(postings)] = {})
      /\ awaited' \in {awaited, {}}
  BY DEF Saved, TransferEnds, Share, folderVars, deleteVars, InPlace
<1>2. /\ out' \in {"none"} \cup Places \cup Entries /\ preferred' \in Places
  <2>1. CASE out' = out /\ preferred' = preferred
    BY <2>1, DriveParts DEF DriveInv
  <2>2. CASE Share
    <3>1. \A c \in TopRows : c.name \in Entries
      BY DriveParts DEF DriveInv, DriveRows, TopRows
    <3>2. out' \in {DriveRoot} \cup Entries /\ ((preferred' = out' /\ out' \in ShareDirs) \/ preferred' = preferred)
      BY <2>2, <3>1 DEF Share
    <3>. QED
      BY <3>2, DriveNames, DriveParts DEF DriveInv
  <2>. QED
    BY <2>1, <2>2 DEF Saved, TransferEnds
<1>3. DriveTypes'
  <2>1. UNCHANGED <<dpc, purge, bin, onTheWay, dropped, answer>>
    BY <1>1 DEF deleteVars
  <2>2. awaited' \subseteq DriveRows
    BY <1>1, DriveParts DEF DriveInv
  <2>. QED
    BY <1>1, <1>2, <2>1, <2>2 DEF DriveInv, DriveTypes, DriveTypeOK
<1>4. pc # "idle" /\ pc # "clearing"
  BY <1>1 DEF InPlace
<1>5. DeletionHeld'
  BY <1>1, <1>4, NoDeletionBeside
<1>6. /\ ~lostSave' => \A j \in DOMAIN postings : postings[j] = {}
      /\ ~lostWipe' => wipes = <<>>
  BY <1>1, <1>4, NothingComes, WipesAwaited
<1>. QED
  BY <1>1, <1>3, <1>5, <1>6, TransferMoves

(* The rows a deletion of contents names are seen to be gone.              *)
LEMMA ClearedKeeps ==
    ASSUME DriveInv, RowsGone \/ PathsGone
    PROVE  DriveInv'
<1>1. /\ UNCHANGED <<platform, content, clash, postings, wipes, mode, before, wanted, unclear>>
      /\ UNCHANGED <<shared, exists, groups, plan, requests, mishaps, lostSave, lostWipe>>
      /\ UNCHANGED <<out, preferred, dpc, purge, bin, onTheWay, dropped, answer>>
      /\ UNCHANGED deleteVars /\ pc' = "saving" /\ pc = "clearing" /\ awaited' = {} /\ clash = {}
  BY DEF RowsGone, PathsGone, Cleared, folderVars, deleteVars
<1>2. awaited \cap TopRows = {}
  <2>1. CASE RowsGone
    BY <2>1 DEF RowsGone
  <2>2. CASE PathsGone
    BY <2>2 DEF PathsGone, SamePath
  <2>. QED
    BY <2>1, <2>2
<1>3. mode = "replace_all" /\ wanted = {}
  BY <1>1 DEF DriveInv, WipesHeld
<1>4. \A i \in DOMAIN wipes : wipes[i] \cap TopRows = {}
  BY <1>1, <1>2, <1>3 DEF DriveInv, WipesHeld
<1>5. ~lostSave => \A c \in content : c.copy > before
  <2>1. ASSUME ~lostSave
        PROVE  TopRows = {}
    BY <1>1, <1>2, <1>3, <2>1 DEF DriveInv, ReplaceHeld
  <2>2. TopRows = {} => content = {}
    BY DEF DriveInv, ContentHeld, HasParent, Held, TopRows
  <2>. QED
    BY <2>1, <2>2
<1>6. ~lostWipe => wipes = <<>>
  BY <1>1, <1>2 DEF DriveInv, WipesHeld
<1>7. ~lostSave => \A j \in DOMAIN postings : postings[j] = {}
  BY <1>1, NothingComes
<1>8. DriveTypes'
  BY <1>1 DEF DriveInv, DriveTypes, DriveTypeOK
<1>9. DeletionHeld'
  BY <1>1, NoDeletionBeside
<1>. QED
  BY <1>1, <1>3, <1>4, <1>5, <1>6, <1>7, <1>8, <1>9, TransferMoves

(* A call of a transfer fails: a save that is under way, or a deletion of  *)
(* contents, is given up.                                                  *)
LEMMA CallFailsKeeps ==
    ASSUME DriveInv, CallFails
    PROVE  DriveInv'
<1>1. /\ UNCHANGED <<platform, content, clash, postings, wipes, mode, before, wanted, unclear>>
      /\ UNCHANGED <<shared, exists, groups, plan, requests>>
      /\ UNCHANGED <<out, preferred, dpc, purge, bin, onTheWay, dropped, answer>>
      /\ UNCHANGED deleteVars /\ pc' \in {"ready", "failed"} /\ awaited' = {}
      /\ pc \in {"clearing", "saving", "waiting"} /\ mishaps' \in Nat
      /\ lostSave' = (lostSave \/ (pc = "waiting" /\ postings[Len(postings)] # {}))
      /\ lostWipe' = (lostWipe \/ (pc = "clearing" /\ wipes # <<>>))
  BY DriveParts DEF CallFails, Failing, folderVars, deleteVars, DriveInv
<1>2. /\ lostSave' \in BOOLEAN /\ (lostSave => lostSave')
      /\ (~lostSave' => ~lostSave /\ (pc = "waiting" => postings[Len(postings)] = {}))
      /\ lostWipe' \in BOOLEAN /\ (lostWipe => lostWipe')
      /\ (~lostWipe' => ~lostWipe /\ (pc = "clearing" => wipes = <<>>))
  <2>1. lostSave \in BOOLEAN /\ lostWipe \in BOOLEAN
    BY DriveParts DEF DriveInv
  <2>. QED
    BY Zenon, <1>1, <2>1
<1>3. /\ ~lostSave' => \A j \in DOMAIN postings : postings[j] = {}
      /\ ~lostWipe' => wipes = <<>>
  BY <1>2, NothingComes, WipesAwaited
<1>4. DriveTypes'
  BY <1>1, <1>2 DEF DriveInv, DriveTypes, DriveTypeOK
<1>5. DeletionHeld'
  BY <1>1, NoDeletionBeside
<1>6. pc' \notin {"waiting", "clearing"} /\ ~InPlace'
  BY <1>1 DEF InPlace
<1>. QED
  BY <1>1, <1>2, <1>3, <1>4, <1>5, <1>6, TransferMoves

(* Something new is asked for: a transfer, or the deletion.                *)
LEMMA NewlyAsked ==
    ASSUME DriveInv, DriveTypes', DeletionHeld',
           UNCHANGED <<platform, content, clash, postings, wipes, lostSave, lostWipe>>,
           pc \in {"idle", "done", "shared", "failed"}, pc' \in {"ready", "idle"}, wanted' = {},
           before' = Len(postings) \/ (UNCHANGED <<before, mode>>)
    PROVE  DriveInv'
<1>1. /\ ~lostSave => \A j \in DOMAIN postings : postings[j] = {}
      /\ ~lostWipe => wipes = <<>>
  BY NothingComes, WipesAwaited
<1>2. before <= Len(postings) /\ Len(postings) \in Nat
  BY DriveParts DEF DriveInv, ContentHeld
<1>3. ContentHeld' /\ PendingHeld'
  <2>1. before' <= Len(postings)
    BY <1>2
  <2>. QED
    BY <2>1, ContentStays
<1>4. SavesHeld'
  BY <1>1 DEF SavesHeld
<1>5. WipesHeld'
  BY <1>1 DEF WipesHeld, InPlace
<1>6. ReplaceHeld'
  BY DEF ReplaceHeld, InPlace
<1>7. OnceHeld'
  <2>1. ASSUME ~lostSave
        PROVE  \A j \in DOMAIN postings' : \A s \in postings'[j] : ~Held(s[1], s[2])'
    BY <1>1, <2>1
  <2>2. ASSUME ~lostSave, mode' = "incremental"
        PROVE  OneCopy'
    <3>1. CASE UNCHANGED <<before, mode>>
      BY <2>2, <3>1 DEF DriveInv, OnceHeld, OneCopy
    <3>2. CASE before' = Len(postings)
      <4>1. \A c \in content : c.copy <= Len(postings) /\ c.copy \in Nat
        BY DriveParts DEF DriveInv, ContentHeld, DriveRows
      <4>. QED
        BY <1>2, <3>2, <4>1 DEF OneCopy
    <3>. QED
      BY <3>1, <3>2
  <2>. QED
    BY <2>1, <2>2 DEF OnceHeld
<1>8. WantedHeld'
  BY DEF WantedHeld
<1>. QED
  BY <1>3, <1>4, <1>5, <1>6, <1>7, <1>8 DEF DriveInv

LEMMA DeleteAskedKeeps == ASSUME DriveInv, DeleteAsked PROVE DriveInv'
<1>1. /\ UNCHANGED <<platform, content, clash, postings, wipes, lostSave, lostWipe, before, mode>>
      /\ UNCHANGED <<shared, exists, groups, plan, awaited, mishaps, out, preferred>>
      /\ UNCHANGED <<bin, onTheWay>> /\ dpc = "idle"
      /\ pc \in {"idle", "done", "shared", "failed"} /\ pc' = "idle" /\ wanted' = {}
      /\ purge' \in BOOLEAN /\ requests' \in Nat /\ answer' = "none"
      /\ dpc' = IF exists THEN "leaving" ELSE IF purge' THEN "purging" ELSE "idle"
      /\ unclear' = unclear \cup (IF exists /\ ~purge' THEN {"unseen"} ELSE {})
      /\ dropped' = (dropped \/ exists)
  BY DriveParts DEF DeleteAsked, folderVars, DriveInv
<1>2. exists \in BOOLEAN /\ dropped \in BOOLEAN /\ unclear \subseteq {"given_up", "unseen", "namesake"}
  BY DriveParts DEF DriveInv
<1>3. dpc' \in {"idle", "leaving", "purging"} /\ unclear' \subseteq {"given_up", "unseen", "namesake"}
  BY <1>1, <1>2
<1>4. DriveTypes'
  <2>1. dropped' \in BOOLEAN
    BY Zenon, <1>1, <1>2
  <2>. QED
    BY <1>1, <1>2, <1>3, <2>1 DEF DriveInv, DriveTypes, DriveTypeOK
<1>5. DeletionHeld'
  <2>1. /\ dropped /\ "given_up" \notin unclear => dpc = "leaving" /\ exists
        /\ unclear = {} => "namesake" \notin bin /\ ~onTheWay /\ "ours" \notin bin
    BY <1>1 DEF DriveInv, DeletionHeld
  <2>2. CASE exists
    <3>1. dpc' = "leaving" /\ dropped' = TRUE /\ exists' = TRUE /\ (unclear' = {} => purge' /\ unclear = {})
      BY <1>1, <1>2, <2>2
    <3>. QED
      BY <1>1, <2>1, <3>1 DEF DeletionHeld
  <2>3. CASE ~exists
    <3>1. /\ dpc' \in {"idle", "purging"} /\ dropped' = dropped /\ exists' = FALSE
          /\ unclear' = unclear
      BY <1>1, <1>2, <2>3
    <3>. QED
      BY <1>1, <2>1, <3>1 DEF DeletionHeld
  <2>. QED
    BY <1>2, <2>2, <2>3
<1>. QED
  BY <1>1, <1>4, <1>5, NewlyAsked

LEMMA AsksForKeeps ==
    ASSUME DriveInv, NEW m \in {"standard", "incremental", "replace_all"},
           NEW gs \in SUBSET Group, AsksFor(m, gs)
    PROVE  DriveInv'
<1>1. /\ UNCHANGED <<platform, content, clash, postings, wipes, lostSave, lostWipe>>
      /\ UNCHANGED <<shared, exists, awaited, mishaps, out, preferred>>
      /\ UNCHANGED <<dpc, purge, bin, onTheWay, dropped, unclear>> /\ dpc = "idle"
      /\ pc \in {"idle", "done", "shared", "failed"} /\ pc' = "ready" /\ wanted' = {}
      /\ groups' = {} /\ plan' = gs /\ mode' = m /\ answer' = "none"
      /\ requests' \in Nat /\ before' = Len(postings)
  BY DriveParts DEF AsksFor, MayRequest, folderVars, DriveInv
<1>2. before' \in Nat
  BY <1>1, DriveParts DEF DriveInv
<1>3. DriveTypes'
  BY <1>1, <1>2 DEF DriveInv, DriveTypes, DriveTypeOK
<1>4. DeletionHeld'
  BY <1>1 DEF DriveInv, DeletionHeld
<1>. QED
  BY <1>1, <1>3, <1>4, NewlyAsked

LEMMA PreferenceHeld ==
    ASSUME NEW gs \in SUBSET Group, NEW remembered \in Places
    PROVE  Preference(gs, remembered) \in Places
<1> DEFINE named == {g.into : g \in gs} \ {DriveRoot}
<1>1. named \subseteq Places
  BY DEF Group
<1>2. Cardinality(named) = 1 => named # {}
  BY FS_EmptySet
<1>. QED
  BY <1>1, <1>2 DEF Preference

LEMMA RequestsKeep ==
    ASSUME DriveInv, RequestStandard \/ RequestIncremental \/ RequestReplacement
    PROVE  DriveInv'
<1>1. CASE RequestStandard
  <2>1. {[from |-> DriveRoot, into |-> DriveRoot, names |-> {}]} \in SUBSET Group
    BY DriveNames DEF Group
  <2>. QED
    BY <1>1, <2>1, AsksForKeeps DEF RequestStandard
<1>2. CASE RequestIncremental
  <2> DEFINE gs == Missing(Scope(Remembered))
  <2>1. Remembered \in Places
    BY DriveParts DEF DriveInv, Remembered
  <2>2. Scope(Remembered) \in Places
    BY <2>1, DriveNames DEF Scope
  <2>3. \A p \in Places : Lacks(p) \in SUBSET Entries
    BY DriveParts DEF DriveInv, Lacks, Listed
  <2>4. Compared(Scope(Remembered)) \subseteq Places
    BY <2>2, DriveNames DEF Compared
  <2>5. gs \in SUBSET Group
    BY <2>3, <2>4 DEF Missing, Group
  <2>6. Preference(gs, Remembered) \in Places
    BY <2>1, <2>5, PreferenceHeld
  <2>7. Augmented(gs, Remembered) \in SUBSET Group
    <3> HIDE DEF gs
    <3> SUFFICES ASSUME NEW g \in gs
                 PROVE  [g EXCEPT !.into = IF @ = DriveRoot THEN Preference(gs, Remembered) ELSE @]
                           \in Group
      BY DEF Augmented
    <3>. QED
      BY <2>5, <2>6 DEF Group
  <2>8. AsksFor("incremental", Augmented(gs, Remembered))
    BY <1>2 DEF RequestIncremental
  <2>. QED
    BY <2>7, <2>8, AsksForKeeps
<1>3. CASE RequestReplacement
  <2>0. PICK from \in Places : \E names \in SUBSET Listed(from) :
           AsksFor("replace_all", {[from |-> from, into |-> from, names |-> names]})
    BY <1>3 DEF RequestReplacement
  <2>1. PICK names \in SUBSET Listed(from) :
           AsksFor("replace_all", {[from |-> from, into |-> from, names |-> names]})
    BY <2>0
  <2>2. Listed(from) \subseteq Entries
    BY DriveParts DEF DriveInv, Listed
  <2>3. {[from |-> from, into |-> from, names |-> names]} \in SUBSET Group
    BY <2>2 DEF Group
  <2>. QED
    BY <2>1, <2>3, AsksForKeeps
<1>. QED
  BY <1>1, <1>2, <1>3

(* A transfer begins: the deletion it posts, if it replaces, names all     *)
(* there is.                                                               *)
LEMMA BeginTransferKeeps == ASSUME DriveInv, BeginTransfer PROVE DriveInv'
<1>1. /\ UNCHANGED <<platform, content, clash, postings, mode, before, unclear>>
      /\ UNCHANGED <<shared, plan, requests, mishaps, lostSave, lostWipe, out, preferred>>
      /\ UNCHANGED <<dpc, purge, bin, onTheWay, dropped, answer>> /\ UNCHANGED deleteVars
      /\ pc = "ready" /\ exists' = TRUE /\ groups' = plan
      /\ wanted' = IF mode = "replace_all" THEN {} ELSE wanted
  <2>1. /\ UNCHANGED <<platform, shared, content, clash, postings, mode, plan, before, requests>>
        /\ UNCHANGED <<mishaps, out, preferred, lostSave, lostWipe, deleteVars>>
    BY DEF BeginTransfer
  <2>2. UNCHANGED <<dpc, purge, bin, onTheWay, dropped, answer, unclear>>
    BY <2>1 DEF deleteVars
  <2>3. /\ pc = "ready" /\ exists' = TRUE /\ groups' = plan
        /\ wanted' = IF mode = "replace_all" THEN {} ELSE wanted
    BY DEF BeginTransfer
  <2>. QED
    BY <2>1, <2>2, <2>3
<1>2. DeletionHeld'
  BY <1>1, NoDeletionBeside
<1>3. /\ ~lostSave => \A j \in DOMAIN postings : postings[j] = {}
      /\ ~lostWipe => wipes = <<>>
  BY <1>1, NothingComes, WipesAwaited
<1>4. TopRows \in SUBSET DriveRows /\ TopRows' = TopRows /\ wanted' \subseteq Slots
  BY <1>1, DriveParts DEF DriveInv, TopRows
<1>5. CASE mode = "replace_all" /\ (TopRows # {} \/ clash # {})
  <2>1. pc' = "clearing" /\ awaited' = TopRows /\ wipes' = Append(wipes, TopRows)
    BY <1>5 DEF BeginTransfer
  <2>2. /\ wipes' \in Seq(SUBSET DriveRows) /\ DOMAIN wipes' = 1..(Len(wipes) + 1)
        /\ wipes'[Len(wipes) + 1] = TopRows
        /\ \A i \in DOMAIN wipes : wipes'[i] = wipes[i]
        /\ \A i \in DOMAIN wipes' : i \in DOMAIN wipes \/ i = Len(wipes) + 1
    BY <1>4, <2>1, DriveParts DEF DriveInv
  <2>3. DriveTypes'
    BY <1>1, <1>4, <2>1, <2>2 DEF DriveInv, DriveTypes, DriveTypeOK
  <2>4. ContentHeld'
    BY <1>1, <2>2 DEF DriveInv, ContentHeld, HasParent, Held, TopRows
  <2>5. PendingHeld'
    BY <1>1, <2>2 DEF DriveInv, PendingHeld, TopRows, Brought
  <2>6. SavesHeld'
    BY <1>1, <1>3, <2>1 DEF SavesHeld
  <2>7. WipesHeld'
    <3>1. wanted' = {}
      BY <1>1, <1>5
    <3>2. ~lostWipe => wipes' = <<TopRows>>
      BY <1>3, <2>1
    <3>3. \A i \in DOMAIN wipes' : wipes'[i] \cap TopRows' \subseteq awaited'
      BY <1>4, <2>1
    <3>. QED
      BY <1>1, <1>4, <1>5, <2>1, <3>1, <3>2, <3>3 DEF WipesHeld, InPlace
  <2>8. ReplaceHeld' /\ OnceHeld'
    BY <1>1, <1>4, <1>5, <2>1 DEF ReplaceHeld, OnceHeld, InPlace
  <2>9. WantedHeld'
    BY <1>1, <1>5 DEF WantedHeld
  <2>. QED
    BY <1>2, <2>3, <2>4, <2>5, <2>6, <2>7, <2>8, <2>9 DEF DriveInv
<1>6. CASE ~(mode = "replace_all" /\ (TopRows # {} \/ clash # {}))
  <2>1. pc' = "saving" /\ awaited' = {} /\ wipes' = wipes
    BY <1>6 DEF BeginTransfer
  <2>2. DriveTypes'
    BY <1>1, <1>4, <2>1 DEF DriveInv, DriveTypes, DriveTypeOK
  <2>3. mode = "replace_all" => TopRows = {} /\ content = {} /\ wanted' = {}
    BY <1>1, <1>6 DEF DriveInv, ContentHeld, HasParent, Held, TopRows
  <2>4. wanted' \in {wanted, {}} /\ pc' \notin {"waiting", "clearing"}
    BY <1>1, <2>1
  <2>. QED
    BY <1>1, <1>2, <1>3, <2>1, <2>2, <2>3, <2>4, TransferMoves
<1>. QED
  BY <1>5, <1>6

(* What a group of a selection is: its rows are in the share, and what it  *)
(* does not skip is not there.                                             *)
LEMMA GroupTaken ==
    ASSUME DriveInv, NEW g \in groups, Taken(g) \subseteq Listed(g.from),
           NEW rest, rest = Taken(g) \ Filtered(g),
           NEW fill, fill = Brings(rest, g.into)
    PROVE  /\ g.into \in Places /\ rest \subseteq Entries /\ fill \in SUBSET Slots
           /\ \A e \in Filtered(g) : Held(e, g.into) /\ <<e, g.into>> \in Slots
           /\ \A s \in fill :
                 \/ \E e \in rest : s = <<e, g.into>>
                 \/ g.into = DriveRoot /\ s[2] \in rest
           /\ \A e \in rest : <<e, g.into>> \in fill
           /\ mode = "incremental" => \A s \in fill : ~Held(s[1], s[2])
           /\ g.into # DriveRoot /\ ~Held(g.into, DriveRoot) => Filtered(g) = {}
<1>1. g \in Group /\ shared \subseteq Entries /\ content \subseteq DriveRows
  BY DriveParts DEF DriveInv
<1>2. g.into \in Places /\ Taken(g) \subseteq Entries
  BY <1>1 DEF Group, Listed
<1>3. rest \subseteq Entries /\ Filtered(g) \subseteq Entries
  BY <1>2 DEF Filtered
<1>4. \A f \in shared : At(f) \in Places /\ f \in Entries
  BY <1>1, DriveNames
<1>5. fill \in SUBSET Slots
  BY <1>2, <1>3, <1>4 DEF Brings, Slots
<1>6. \A e \in Filtered(g) : Held(e, g.into) /\ <<e, g.into>> \in Slots
  BY <1>2, <1>3 DEF Filtered, Slots
<1>7. \A s \in fill :
         \/ \E e \in rest : s = <<e, g.into>>
         \/ g.into = DriveRoot /\ s[2] \in rest
  BY DEF Brings
<1>8. \A e \in rest : <<e, g.into>> \in fill
  BY DEF Brings
<1>9. \A e, p : Held(e, p) => p = DriveRoot \/ Held(p, DriveRoot)
  BY DEF DriveInv, ContentHeld, HasParent, Held
<1>10. ASSUME mode = "incremental", NEW s \in fill
       PROVE  ~Held(s[1], s[2])
  <2>1. \A e \in rest : ~Held(e, g.into)
    BY <1>10 DEF Filtered
  <2>2. CASE \E e \in rest : s = <<e, g.into>>
    BY <2>1, <2>2
  <2>3. CASE g.into = DriveRoot /\ s[2] \in rest
    BY <1>3, <1>9, <2>1, <2>3, DriveNames
  <2>. QED
    BY <1>7, <2>2, <2>3
<1>11. g.into # DriveRoot /\ ~Held(g.into, DriveRoot) => Filtered(g) = {}
  BY <1>6, <1>9
<1>. QED
  BY <1>2, <1>3, <1>5, <1>6, <1>7, <1>8, <1>10, <1>11

(* A place stays filled, or stays one that will be, as long as the         *)
(* directory only grows and what is posted stays posted.                   *)
LEMMA FilledStays ==
    ASSUME content \subseteq content', NEW s,
           \A j \in DOMAIN postings : j \in DOMAIN postings' /\ postings'[j] = postings[j]
    PROVE  /\ \A e, p : Held(e, p) => Held(e, p)'
           /\ Coming(s) => Coming(s)'
<1>1. \A e, p : Held(e, p) => Held(e, p)'
  BY DEF Held
<1>2. \A j \in DOMAIN postings : ComesBy(s, j) => ComesBy(s, j)'
  BY <1>1 DEF ComesBy
<1>. QED
  BY <1>1, <1>2 DEF Coming

(* A group is taken: what it lacks is posted as one save.                  *)
LEMMA TakeGroupKeeps ==
    ASSUME DriveInv, NEW g \in groups, TakeGroup(g)
    PROVE  DriveInv'
<1> DEFINE rest == Taken(g) \ Filtered(g)
           fill == Brings(rest, g.into)
           n == Len(postings) + 1
           new == [name |-> g.into, at |-> DriveRoot, copy |-> n]
           created == ~(g.into = DriveRoot \/ Held(g.into, DriveRoot))
<1>1. /\ UNCHANGED <<platform, shared, exists, clash, wipes, mode, plan, before, requests>>
      /\ UNCHANGED <<mishaps, out, preferred, lostSave, lostWipe, deleteVars>>
      /\ UNCHANGED <<dpc, purge, bin, onTheWay, dropped, answer, unclear>>
      /\ pc = "saving" /\ groups' = groups \ {g} /\ awaited' = awaited
  BY DEF TakeGroup, deleteVars
<1>2. DeletionHeld'
  BY <1>1, NoDeletionBeside
<1>3. /\ ~lostSave => \A j \in DOMAIN postings : postings[j] = {}
      /\ ~lostWipe => wipes = <<>>
  BY <1>1, NothingComes, WipesAwaited
<1>4. CASE Taken(g) = {} \/ ~(Taken(g) \subseteq Listed(g.from))
  <2>1. pc' = "failed" /\ UNCHANGED <<content, postings, wanted, awaited>>
    BY <1>4 DEF TakeGroup
  <2>2. DriveTypes'
    BY <1>1, <2>1 DEF DriveInv, DriveTypes, DriveTypeOK
  <2>3. ~InPlace' /\ pc' \notin {"waiting", "clearing"} /\ wanted' \in {wanted, {}}
    BY <2>1 DEF InPlace
  <2>. QED
    BY <1>1, <1>2, <1>3, <2>1, <2>2, <2>3, TransferMoves
<1>5. CASE ~(Taken(g) = {} \/ ~(Taken(g) \subseteq Listed(g.from)))
  <2>1. /\ content' = IF created THEN content \cup {new} ELSE content
        /\ wanted' = wanted \cup fill \cup {<<e, g.into>> : e \in Filtered(g)}
        /\ rest = {} => UNCHANGED <<pc, postings>>
        /\ rest # {} => postings' = Append(postings, fill) /\ pc' = "waiting"
    BY <1>5 DEF TakeGroup
  <2>2. Taken(g) # {} /\ Taken(g) \subseteq Listed(g.from)
    BY <1>5
  <2>3. /\ g.into \in Places /\ rest \subseteq Entries /\ fill \in SUBSET Slots
        /\ \A e \in Filtered(g) : Held(e, g.into) /\ <<e, g.into>> \in Slots
        /\ \A s \in fill :
              \/ \E e \in rest : s = <<e, g.into>>
              \/ g.into = DriveRoot /\ s[2] \in rest
        /\ \A e \in rest : <<e, g.into>> \in fill
        /\ mode = "incremental" => \A s \in fill : ~Held(s[1], s[2])
        /\ g.into # DriveRoot /\ ~Held(g.into, DriveRoot) => Filtered(g) = {}
    BY <2>2, GroupTaken
  <2> HIDE DEF fill
  <2>4. wanted' \subseteq Slots
    <3>1. wanted \subseteq Slots
      BY DriveParts DEF DriveInv
    <3>. QED
      BY <2>1, <2>3, <3>1
  <2>5. wanted \subseteq wanted' /\ InPlace /\ InPlace' /\ pc' # "clearing"
    BY <1>1, <2>1 DEF InPlace
  <2>6. CASE rest = {}
    <3>1. fill = {}
      BY <2>3, <2>6
    <3>2. ~created
      BY <2>2, <2>3, <2>6
    <3>3. UNCHANGED <<content, postings, pc>>
      BY <2>1, <2>6, <3>2
    <3>4. DriveTypes'
      BY <1>1, <2>4, <3>3 DEF DriveInv, DriveTypes, DriveTypeOK
    <3>5. ContentHeld' /\ PendingHeld'
      BY <1>1, <3>3, ContentStays DEF DriveInv, ContentHeld
    <3>6. SavesHeld' /\ WipesHeld' /\ ReplaceHeld'
      BY <1>1, <2>5, <3>3 DEF DriveInv, SavesHeld, WipesHeld, ReplaceHeld, TopRows, InPlace
    <3>7. OnceHeld'
      BY <1>1, <3>3 DEF DriveInv, OnceHeld, OneCopy, Held
    <3>8. WantedHeld'
      <4>1. \A s : (Held(s[1], s[2]) => Held(s[1], s[2])') /\ (Coming(s) => Coming(s)')
        BY <3>3 DEF Held, Coming, ComesBy
      <4>2. DriveExcused => DriveExcused'
        BY <1>1 DEF DriveExcused
      <4>3. \A s \in wanted : Held(s[1], s[2]) \/ Coming(s) \/ DriveExcused
        BY <2>5 DEF DriveInv, WantedHeld
      <4>4. \A s \in wanted' : s \in wanted \/ Held(s[1], s[2])
        BY <2>1, <2>3, <3>1
      <4>. QED
        BY <4>1, <4>2, <4>3, <4>4 DEF WantedHeld
    <3>. QED
      BY <1>2, <3>4, <3>5, <3>6, <3>7, <3>8 DEF DriveInv
  <2>7. CASE rest # {}
    <3>1. postings' = Append(postings, fill) /\ pc' = "waiting"
      BY <2>1, <2>7
    <3>2. Len(postings) \in Nat /\ n \in Nat /\ n > Len(postings) /\ before \in Nat
      BY DriveParts DEF DriveInv
    <3>3. /\ postings' \in Seq(SUBSET Slots) /\ Len(postings') = n /\ postings'[n] = fill
          /\ \A j \in DOMAIN postings : j \in DOMAIN postings' /\ postings'[j] = postings[j] /\ j # n
          /\ \A j \in DOMAIN postings' : j \in DOMAIN postings \/ j = n
          /\ n \in DOMAIN postings'
      BY <2>3, <3>1, DriveParts DEF DriveInv
    <3>4. /\ content \subseteq content' /\ content' \subseteq content \cup {new}
          /\ created => new \in content'
          /\ new \in content' => new \in content \/ created
      BY <2>1
    <3>5. created => g.into \in Entries /\ new \in DriveRows
      BY <2>3, <3>2, DriveConstants DEF Places, Entries, DriveRows
    <3>6. /\ before <= Len(postings)
          /\ \A c \in content : HasParent(c) /\ c.copy <= Len(postings) /\ c.copy \in Nat
          /\ \A i \in DOMAIN wipes : \A r \in wipes[i] : r.copy <= Len(postings) /\ r.copy \in Nat
      BY DriveParts DEF DriveInv, ContentHeld, DriveRows
    <3>7. new \notin content /\ \A i \in DOMAIN wipes : new \notin wipes[i]
      BY <3>2, <3>6
    <3>8. \A e, p : Held(e, p) => Held(e, p)'
      BY <3>3, <3>4, FilledStays
    <3>9. DriveTypes'
      <4>1. content' \subseteq DriveRows
        BY <2>1, <3>5, DriveParts DEF DriveInv
      <4>. QED
        BY <1>1, <2>4, <3>1, <3>3, <4>1 DEF DriveInv, DriveTypes, DriveTypeOK, DriveRows
    <3>10. ContentHeld'
      <4>1. \A c \in content' : HasParent(c)' /\ c.copy <= n
        <5>1. \A c \in content : HasParent(c)' /\ c.copy <= n
          BY <3>2, <3>6, <3>8 DEF HasParent
        <5>2. new.at = DriveRoot /\ new.copy <= n
          BY <3>2
        <5>. QED
          BY <3>4, <5>1, <5>2 DEF HasParent
      <4>2. before' <= n /\ \A i \in DOMAIN wipes' : \A r \in wipes'[i] : r.copy <= n
        BY <1>1, <3>2, <3>6
      <4>. QED
        BY <3>3, <4>1, <4>2 DEF ContentHeld
    <3>11. PendingHeld'
      <4>1. \A s \in fill : Brought(s, n) \notin content'
        <5> SUFFICES ASSUME NEW s \in fill, Brought(s, n) \in content' PROVE FALSE
          OBVIOUS
        <5>1. Brought(s, n).copy = n /\ Brought(s, n).name = s[1] /\ Brought(s, n).at = s[2]
          BY DEF Brought
        <5>2. Brought(s, n) = new /\ created
          BY <3>2, <3>4, <3>6, <3>7, <5>1
        <5>3. s[2] = DriveRoot
          BY <5>1, <5>2
        <5>. QED
          BY <2>3, <5>2, <5>3
      <4>2. \A s \in fill : \A i \in DOMAIN wipes : Brought(s, n) \notin wipes[i]
        BY <3>2, <3>6 DEF Brought
      <4>3. \A j \in DOMAIN postings : \A s \in postings[j] : Brought(s, j) # new
        BY <3>3 DEF Brought
      <4>. QED
        BY <1>1, <3>3, <3>4, <4>1, <4>2, <4>3 DEF DriveInv, PendingHeld, Brought
    <3>12. SavesHeld'
      BY <1>1, <1>3, <3>1, <3>2, <3>3, <3>6 DEF SavesHeld
    <3>13. WipesHeld'
      <4>1. TopRows' \subseteq TopRows \cup {new}
        BY <3>4 DEF TopRows
      <4>2. mode = "replace_all" => \A i \in DOMAIN wipes : wipes[i] \cap TopRows = {}
        BY <2>5 DEF DriveInv, WipesHeld
      <4>3. mode = "replace_all" => \A i \in DOMAIN wipes : wipes[i] \cap TopRows' = {}
        BY <3>7, <4>1, <4>2
      <4>. QED
        BY <1>1, <1>3, <2>5, <4>3 DEF WipesHeld
    <3>14. ReplaceHeld'
      <4>1. mode = "replace_all" /\ ~lostSave => \A c \in content : c.copy > before
        BY <2>5 DEF DriveInv, ReplaceHeld
      <4>2. new.copy > before
        BY <3>2, <3>6
      <4>. QED
        BY <1>1, <2>5, <3>4, <4>1, <4>2 DEF ReplaceHeld
    <3>15. OnceHeld'
      <4> SUFFICES ASSUME mode = "incremental", ~lostSave
                   PROVE  /\ \A j \in DOMAIN postings' : \A s \in postings'[j] : ~Held(s[1], s[2])'
                          /\ OneCopy'
        BY <1>1 DEF OnceHeld
      <4>1. \A s \in fill : ~Held(s[1], s[2])'
        <5> SUFFICES ASSUME NEW s \in fill, Held(s[1], s[2])' PROVE FALSE
          OBVIOUS
        <5>1. PICK c \in content' : c.name = s[1] /\ c.at = s[2]
          BY DEF Held
        <5>2. ~Held(s[1], s[2])
          BY <2>3
        <5>3. c = new /\ created
          BY <3>4, <3>7, <5>1, <5>2 DEF Held
        <5>4. s[2] = DriveRoot
          BY <5>1, <5>3
        <5>. QED
          BY <2>3, <5>3, <5>4
      <4>2. OneCopy'
        <5>1. OneCopy
          BY DEF DriveInv, OnceHeld
        <5>2. created => \A c \in content : ~(c.name = new.name /\ c.at = new.at)
          BY DEF Held
        <5>3. \A c \in content' : c \in content \/ (c = new /\ created)
          BY <3>4, <3>7
        <5>. QED
          BY <1>1, <5>1, <5>2, <5>3 DEF OneCopy
      <4>. QED
        BY <1>3, <3>3, <4>1, <4>2
    <3>16. WantedHeld'
      <4>1. \A s \in wanted : Held(s[1], s[2]) \/ Coming(s) \/ DriveExcused
        BY <2>5 DEF DriveInv, WantedHeld
      <4>2. \A s : Coming(s) => Coming(s)'
        BY <3>3, <3>4, FilledStays
      <4>3. DriveExcused => DriveExcused'
        BY <1>1 DEF DriveExcused
      <4>4. \A s \in fill : Coming(s)'
        <5> SUFFICES ASSUME NEW s \in fill PROVE Coming(s)'
          OBVIOUS
        <5>0. PICK k \in DOMAIN postings' : k = n /\ postings'[k] = fill
          BY <3>3
        <5>1. created => Held(g.into, DriveRoot)'
          BY <3>4 DEF Held
        <5>2. g.into = DriveRoot \/ Held(g.into, DriveRoot)'
          BY <3>8, <5>1
        <5>3. CASE \E e \in rest : s = <<e, g.into>>
          BY <5>0, <5>2, <5>3 DEF Coming, ComesBy
        <5>4. CASE g.into = DriveRoot /\ s[2] \in rest
          <6>1. <<s[2], DriveRoot>> \in fill
            BY <2>3, <5>4
          <6>. QED
            BY <5>0, <6>1 DEF Coming, ComesBy
        <5>. QED
          BY <2>3, <5>3, <5>4
      <4>5. \A s \in wanted' : s \in wanted \/ s \in fill \/ Held(s[1], s[2])
        BY <2>1, <2>3
      <4>. QED
        BY <3>8, <4>1, <4>2, <4>3, <4>4, <4>5 DEF WantedHeld
    <3>. QED
      BY <1>2, <3>9, <3>10, <3>11, <3>12, <3>13, <3>14, <3>15, <3>16 DEF DriveInv
  <2>. QED
    BY <2>6, <2>7
<1>. QED
  BY <1>4, <1>5

(* An entry of a save lands.                                               *)
LEMMA SaveLandsKeeps ==
    ASSUME DriveInv, NEW j \in DOMAIN postings, SaveLands(j)
    PROVE  DriveInv'
<1>1. PICK s \in postings[j] :
         /\ s[2] # DriveRoot => <<s[2], DriveRoot>> \notin postings[j]
         /\ postings' = [postings EXCEPT ![j] = @ \ {s}]
         /\ content' = IF s[2] = DriveRoot \/ Held(s[2], DriveRoot)
                       THEN content \cup {Brought(s, j)} ELSE content
  BY DEF SaveLands, Brought
<1> DEFINE new == Brought(s, j)
<1>2. /\ UNCHANGED <<platform, shared, exists, clash, wipes, transferVars, mishaps, deleteVars>>
      /\ UNCHANGED <<pc, mode, groups, plan, awaited, wanted, before, requests>>
      /\ UNCHANGED <<out, preferred, lostSave, lostWipe>>
      /\ UNCHANGED <<dpc, purge, bin, onTheWay, dropped, answer, unclear>>
  BY DEF SaveLands, transferVars, deleteVars
<1>3. /\ postings \in Seq(SUBSET Slots) /\ j \in Nat /\ j <= Len(postings)
      /\ s \in Slots /\ Len(postings) \in Nat
  BY DriveParts DEF DriveInv
<1>4. /\ s[1] \in Entries /\ s[2] \in Places /\ s = <<s[1], s[2]>>
      /\ new \in DriveRows /\ new.copy = j /\ new.name = s[1] /\ new.at = s[2]
  BY <1>3 DEF Slots, DriveRows, Brought
<1>5. /\ postings' \in Seq(SUBSET Slots) /\ Len(postings') = Len(postings)
      /\ DOMAIN postings' = DOMAIN postings /\ postings'[j] = postings[j] \ {s}
      /\ \A k \in DOMAIN postings : k # j => postings'[k] = postings[k]
  BY <1>1, <1>3
<1>6. /\ content \subseteq content' /\ content' \subseteq content \cup {new}
      /\ s[2] = DriveRoot \/ Held(s[2], DriveRoot) => new \in content'
      /\ new \in content' => s[2] = DriveRoot \/ Held(s[2], DriveRoot)
      /\ new \notin content /\ \A i \in DOMAIN wipes : new \notin wipes[i]
  <2>1. new \notin content /\ \A i \in DOMAIN wipes : new \notin wipes[i]
    BY DEF DriveInv, PendingHeld
  <2>. QED
    BY <1>1, <2>1
<1> HIDE DEF new
<1>7. \A e, p : Held(e, p) => Held(e, p)'
  BY <1>6 DEF Held
<1>8. DriveTypes'
  <2>1. content' \subseteq DriveRows
    BY <1>4, <1>6, DriveParts DEF DriveInv
  <2>. QED
    BY <1>2, <1>5, <2>1 DEF DriveInv, DriveTypes, DriveTypeOK, DriveRows
<1>9. ContentHeld'
  <2>1. \A c \in content : HasParent(c)' /\ c.copy <= Len(postings)
    BY <1>7 DEF DriveInv, ContentHeld, HasParent
  <2>2. new \in content' => HasParent(new)' /\ new.copy <= Len(postings)
    <3>1. new \in content' => new.at = DriveRoot \/ Held(new.at, DriveRoot)'
      BY <1>4, <1>6, <1>7
    <3>. QED
      BY <1>3, <1>4, <3>1 DEF HasParent
  <2>3. \A c \in content' : HasParent(c)' /\ c.copy <= Len(postings)
    BY <1>6, <2>1, <2>2
  <2>. QED
    BY <1>2, <1>5, <2>3 DEF DriveInv, ContentHeld
<1>10. \A k \in DOMAIN postings : \A t \in postings'[k] :
          t \in postings[k] /\ t \in Slots /\ ~(k = j /\ t = s)
  BY <1>3, <1>5
<1>11. PendingHeld'
  <2>1. \A k \in DOMAIN postings : \A t \in postings'[k] : Brought(t, k) # new
    <3> SUFFICES ASSUME NEW k \in DOMAIN postings, NEW t \in postings'[k], Brought(t, k) = new
                 PROVE  FALSE
      OBVIOUS
    <3>1. k = j /\ t[1] = s[1] /\ t[2] = s[2]
      BY <1>4 DEF Brought
    <3>2. t = <<t[1], t[2]>>
      BY <1>10 DEF Slots
    <3>. QED
      BY <1>4, <1>10, <3>1, <3>2
  <2>2. \A k \in DOMAIN postings : \A t \in postings'[k] :
           Brought(t, k) \notin content' /\ \A i \in DOMAIN wipes : Brought(t, k) \notin wipes[i]
    BY <1>6, <1>10, <2>1 DEF DriveInv, PendingHeld
  <2>. QED
    BY <1>2, <1>5, <2>2 DEF PendingHeld, Brought
<1>12. ~lostSave => pc = "waiting" /\ j = Len(postings) /\ before < j
  BY DEF DriveInv, SavesHeld
<1>13. SavesHeld'
  <2>1. \A k \in DOMAIN postings : postings'[k] # {} => postings[k] # {}
    BY <1>10
  <2>. QED
    BY <1>2, <1>5, <2>1 DEF DriveInv, SavesHeld
<1>14. WipesHeld'
  <2>1. TopRows \subseteq TopRows' /\ TopRows' \subseteq TopRows \cup {new}
    BY <1>6 DEF TopRows
  <2>2. WipesHeld
    BY DEF DriveInv
  <2>. QED
    BY <1>2, <1>6, <2>1, <2>2 DEF WipesHeld, InPlace
<1>15. ReplaceHeld'
  <2> SUFFICES ASSUME mode = "replace_all", ~lostSave
               PROVE  \A c \in content' : c.copy > before
    BY <1>2, <1>12 DEF ReplaceHeld
  <2>1. \A c \in content : c.copy > before
    BY <1>12 DEF DriveInv, ReplaceHeld, InPlace
  <2>2. new.copy > before
    BY <1>3, <1>4, <1>12, DriveParts DEF DriveInv
  <2>. QED
    BY <1>6, <2>1, <2>2
<1>16. OnceHeld'
  <2> SUFFICES ASSUME mode = "incremental", ~lostSave
               PROVE  /\ \A k \in DOMAIN postings' : \A t \in postings'[k] : ~Held(t[1], t[2])'
                      /\ OneCopy'
    BY <1>2 DEF OnceHeld
  <2>1. /\ \A k \in DOMAIN postings : \A t \in postings[k] : ~Held(t[1], t[2])
        /\ OneCopy
    BY DEF DriveInv, OnceHeld
  <2>2. \A k \in DOMAIN postings : k # j => postings[k] = {}
    BY <1>12 DEF DriveInv, SavesHeld
  <2>3. \A k \in DOMAIN postings' : \A t \in postings'[k] : ~Held(t[1], t[2])'
    <3> SUFFICES ASSUME NEW k \in DOMAIN postings, NEW t \in postings'[k], Held(t[1], t[2])'
                 PROVE  FALSE
      BY <1>5
    <3>1. k = j /\ t \in Slots /\ t # s /\ ~Held(t[1], t[2])
      BY <1>10, <2>1, <2>2
    <3>2. new.name = t[1] /\ new.at = t[2]
      BY <1>6, <3>1 DEF Held
    <3>3. t = <<t[1], t[2]>>
      BY <3>1 DEF Slots
    <3>. QED
      BY <1>4, <3>1, <3>2, <3>3
  <2>4. OneCopy'
    <3>1. \A c \in content : ~(c.name = new.name /\ c.at = new.at)
      BY <1>4, <2>1 DEF Held
    <3>. QED
      BY <1>2, <1>6, <2>1, <3>1 DEF OneCopy
  <2>. QED
    BY <2>3, <2>4
<1>17. WantedHeld'
  <2> SUFFICES ASSUME InPlace \/ mode # "replace_all", NEW t \in wanted
               PROVE  Held(t[1], t[2])' \/ Coming(t)' \/ DriveExcused'
    BY <1>2 DEF WantedHeld, InPlace
  <2>1. Held(t[1], t[2]) \/ Coming(t) \/ DriveExcused
    BY DEF DriveInv, WantedHeld
  <2>2. DriveExcused => DriveExcused'
    BY <1>2 DEF DriveExcused
  <2>3. CASE Coming(t)
    <3>1. PICK k \in DOMAIN postings : ComesBy(t, k)
      BY <2>3 DEF Coming
    <3>2. CASE k = j /\ t = s
      <4>1. new \in content'
        BY <1>1, <1>6, <3>1, <3>2 DEF ComesBy
      <4>. QED
        BY <1>4, <3>2, <4>1 DEF Held
    <3>3. CASE ~(k = j /\ t = s)
      <4>1. t \in postings'[k]
        BY <1>5, <3>1, <3>3 DEF ComesBy
      <4>2. t[2] = DriveRoot \/ Held(t[2], DriveRoot)' \/ <<t[2], DriveRoot>> \in postings'[k]
        <5>1. CASE t[2] = DriveRoot \/ Held(t[2], DriveRoot)
          BY <1>7, <5>1
        <5>2. CASE <<t[2], DriveRoot>> \in postings[k] /\ ~(k = j /\ s = <<t[2], DriveRoot>>)
          BY <1>5, <5>2
        <5>3. CASE s = <<t[2], DriveRoot>>
          <6>1. s[1] = t[2] /\ s[2] = DriveRoot
            BY <5>3
          <6>. QED
            BY <1>4, <1>6, <6>1 DEF Held
        <5>. QED
          BY <3>1, <5>1, <5>2, <5>3 DEF ComesBy
      <4>. QED
        BY <1>5, <4>1, <4>2 DEF Coming, ComesBy
    <3>. QED
      BY <3>2, <3>3
  <2>. QED
    BY <1>7, <2>1, <2>2, <2>3
<1>18. DeletionHeld'
  BY <1>2 DEF DriveInv, DeletionHeld, OnItsWay
<1>. QED
  BY <1>8, <1>9, <1>11, <1>13, <1>14, <1>15, <1>16, <1>17, <1>18 DEF DriveInv

(* A deletion of contents lands: what a transfer wants is not what it      *)
(* names, unless it was given up and goes by path, or the transfer is not  *)
(* the one that posted it.                                                 *)
LEMMA WipeLandsKeeps == ASSUME DriveInv, WipeLands PROVE DriveInv'
<1> DEFINE wiped == IF platform = "quark" THEN Head(wipes) ELSE SamePath(Head(wipes))
<1>1. /\ wipes # <<>> /\ wipes' = Tail(wipes) /\ clash' = {}
      /\ content' = WithoutRows(wiped)
      /\ UNCHANGED <<platform, shared, exists, postings, transferVars, mishaps, deleteVars>>
  BY DEF WipeLands
<1>2. /\ UNCHANGED <<pc, mode, groups, plan, awaited, wanted, before, requests>>
      /\ UNCHANGED <<out, preferred, lostSave, lostWipe>>
      /\ UNCHANGED <<dpc, purge, bin, onTheWay, dropped, answer, unclear>>
  BY <1>1 DEF transferVars, deleteVars
<1>3. wipes \in Seq(SUBSET DriveRows) /\ content \in SUBSET DriveRows
  BY DriveParts DEF DriveInv
<1>4. /\ wipes' \in Seq(SUBSET DriveRows)
      /\ \A i \in DOMAIN wipes' : \E k \in DOMAIN wipes : wipes'[i] = wipes[k]
      /\ 1 \in DOMAIN wipes /\ Head(wipes) = wipes[1]
  <2>1. /\ Len(wipes) \in Nat /\ Len(wipes) > 0 /\ Len(wipes') = Len(wipes) - 1
        /\ wipes' \in Seq(SUBSET DriveRows) /\ DOMAIN wipes' = 1..(Len(wipes) - 1)
        /\ DOMAIN wipes = 1..Len(wipes)
        /\ \A i \in 1..(Len(wipes) - 1) : wipes'[i] = wipes[i + 1]
    BY <1>1, <1>3
  <2>2. \A i \in 1..(Len(wipes) - 1) : i + 1 \in 1..Len(wipes)
    BY <2>1
  <2>3. Head(wipes) = wipes[1]
    BY <1>1, <1>3
  <2>. QED
    BY <2>1, <2>2, <2>3
<1>5. /\ content' \subseteq content /\ TopRows' = TopRows \ wiped
      /\ \A c \in content' : HasParent(c)'
  BY <1>1 DEF WithoutRows, TopRows, HasParent, Held
<1>6. DriveTypes'
  BY <1>1, <1>2, <1>4, <1>5 DEF DriveInv, DriveTypes, DriveTypeOK
<1>7. ContentHeld'
  BY <1>1, <1>2, <1>4, <1>5 DEF DriveInv, ContentHeld
<1>8. PendingHeld'
  <2>1. \A k \in DOMAIN postings : \A s \in postings[k] :
           Brought(s, k) \notin content' /\ \A i \in DOMAIN wipes' : Brought(s, k) \notin wipes'[i]
    BY <1>4, <1>5 DEF DriveInv, PendingHeld
  <2>. QED
    BY <1>1, <2>1 DEF PendingHeld, Brought
<1>9. SavesHeld'
  BY <1>1, <1>2 DEF DriveInv, SavesHeld
<1>10. WipesHeld'
  <2>1. ~lostWipe => wipes' = <<>>
    <3>1. ASSUME ~lostWipe
          PROVE  wipes = <<awaited>>
      BY <1>1, <3>1 DEF DriveInv, WipesHeld
    <3>2. ~lostWipe => Len(wipes) = 1
      BY <3>1
    <3>3. Len(wipes) = 1 => Len(wipes') = 0
      BY <1>1, <1>3
    <3>. QED
      BY <1>4, <3>2, <3>3
  <2>2. WipesHeld
    BY DEF DriveInv
  <2>. QED
    BY <1>2, <1>4, <1>5, <2>1, <2>2 DEF WipesHeld, InPlace
<1>11. ReplaceHeld'
  BY <1>2, <1>5 DEF DriveInv, ReplaceHeld, InPlace
<1>12. OnceHeld'
  <2>1. \A e, p : Held(e, p)' => Held(e, p)
    BY <1>5 DEF Held
  <2>2. OneCopy => OneCopy'
    BY <1>2, <1>5 DEF OneCopy
  <2>. QED
    BY <1>1, <1>2, <2>1, <2>2 DEF DriveInv, OnceHeld
<1>13. WantedHeld'
  <2> SUFFICES ASSUME InPlace \/ mode # "replace_all", ~DriveExcused, NEW s \in wanted
               PROVE  Held(s[1], s[2])' \/ Coming(s)'
    BY <1>1, <1>2 DEF WantedHeld, InPlace, DriveExcused
  <2>1. lostWipe
    <3>1. ~lostWipe => wanted = {}
      BY <1>1 DEF DriveInv, WipesHeld
    <3>. QED
      BY <3>1
  <2>2. platform = "quark" /\ mode = "replace_all" /\ InPlace
    BY <2>1, DriveParts DEF DriveExcused, DriveInv
  <2>3. wiped \cap TopRows = {}
    BY <1>4, <2>2 DEF DriveInv, WipesHeld
  <2>4. content' = content
    <3>1. TopRows' = TopRows
      BY <1>5, <2>3
    <3>2. \A c \in content : c \in content'
      BY <1>1, <2>3 DEF DriveInv, ContentHeld, HasParent, Held, WithoutRows, TopRows
    <3>. QED
      BY <1>5, <3>2
  <2>5. Held(s[1], s[2]) \/ Coming(s)
    BY <2>2 DEF DriveInv, WantedHeld
  <2>. QED
    BY <1>1, <2>4, <2>5 DEF Held, Coming, ComesBy
<1>14. DeletionHeld'
  BY <1>1, <1>2 DEF DriveInv, DeletionHeld, OnItsWay
<1>. QED
  BY <1>6, <1>7, <1>8, <1>9, <1>10, <1>11, <1>12, <1>13, <1>14 DEF DriveInv

(* The deletion of the directory lands: no transfer waits for what it      *)
(* takes, unless that deletion was given up.                               *)
LEMMA DeletionLandsKeeps == ASSUME DriveInv, DeletionLands PROVE DriveInv'
<1>1. /\ dropped /\ dropped' = FALSE /\ exists' = FALSE /\ content' = {} /\ clash' = {}
      /\ wipes' = <<>> /\ postings' = [j \in DOMAIN postings |-> {}] /\ onTheWay' = exists
      /\ UNCHANGED <<platform, shared, transferVars, mishaps, dpc, purge, bin, answer, unclear>>
  BY DEF DeletionLands
<1>2. /\ UNCHANGED <<pc, mode, groups, plan, awaited, wanted, before, requests>>
      /\ UNCHANGED <<out, preferred, lostSave, lostWipe>>
  BY <1>1 DEF transferVars
<1>3. /\ postings' \in Seq(SUBSET Slots) /\ Len(postings') = Len(postings)
      /\ DOMAIN postings' = DOMAIN postings /\ \A j \in DOMAIN postings' : postings'[j] = {}
      /\ wipes' \in Seq(SUBSET DriveRows) /\ DOMAIN wipes' = {} /\ exists \in BOOLEAN
  <2>1. postings \in Seq(SUBSET Slots) /\ exists \in BOOLEAN
    BY DriveParts DEF DriveInv
  <2>2. /\ Len(postings) \in Nat /\ DOMAIN postings = 1..Len(postings)
    BY <2>1
  <2>3. postings' \in [1..Len(postings) -> SUBSET Slots]
    BY <1>1, <2>2
  <2>. QED
    BY <1>1, <2>1, <2>2, <2>3
<1>4. DriveTypes'
  <2>1. /\ content' \subseteq [name : Entries, at : Places, copy : Nat]
        /\ clash' \subseteq ShareDirs /\ onTheWay' \in BOOLEAN /\ dropped' \in BOOLEAN
        /\ exists' \in BOOLEAN
    BY <1>1, <1>3
  <2>2. DriveTypeOK'
    BY <1>1, <1>2, <1>3, <2>1 DEF DriveInv, DriveTypes, DriveTypeOK
  <2>. QED
    BY <1>1, <1>2, <1>3, <2>1, <2>2 DEF DriveInv, DriveTypes
<1>5. ContentHeld' /\ PendingHeld' /\ SavesHeld'
  BY <1>1, <1>2, <1>3 DEF DriveInv, ContentHeld, PendingHeld, SavesHeld
<1>6. WipesHeld' /\ ReplaceHeld' /\ OnceHeld'
  <2>1. TopRows' = {}
    BY <1>1 DEF TopRows
  <2>. QED
    BY <1>1, <1>2, <1>3, <2>1 DEF DriveInv, WipesHeld, ReplaceHeld, OnceHeld, OneCopy, InPlace
<1>7. WantedHeld'
  <2>1. wanted = {} \/ "given_up" \in unclear
    BY <1>1 DEF DriveInv, DeletionHeld
  <2>. QED
    BY <1>1, <1>2, <2>1 DEF WantedHeld, DriveExcused
<1>8. DeletionHeld'
  <2>1. DeletionHeld
    BY DEF DriveInv
  <2>2. unclear = {} => dpc = "leaving" /\ exists
    BY <1>1, <2>1 DEF DeletionHeld
  <2>. QED
    BY <1>1, <1>2, <1>3, <2>1, <2>2 DEF DeletionHeld, OnItsWay
<1>. QED
  BY <1>4, <1>5, <1>6, <1>7, <1>8 DEF DriveInv

LEMMA DriveStep == DriveInv /\ [DriveNext]_driveVars => DriveInv'
<1> SUFFICES ASSUME DriveInv, [DriveNext]_driveVars PROVE DriveInv'
  OBVIOUS
<1>1. CASE Requests
  BY <1>1, RequestsKeep DEF Requests
<1>2. CASE TransferSteps
  <2>1. CASE BeginTransfer
    BY <2>1, BeginTransferKeeps
  <2>2. CASE RowsGone \/ PathsGone
    BY <2>2, ClearedKeeps
  <2>3. CASE TaskSeen \/ TransferAnswered \/ TransferEnds \/ Share
    BY <2>3, TransferGoesOn DEF TaskSeen, TransferAnswered
  <2>4. CASE CallFails
    BY <2>4, CallFailsKeeps
  <2>5. CASE \E g \in groups : TakeGroup(g)
    BY <2>5, TakeGroupKeeps
  <2>. QED
    BY <1>2, <2>1, <2>2, <2>3, <2>4, <2>5 DEF TransferSteps
<1>3. CASE DeleteSteps
  BY <1>3, DeleteAskedKeeps, DeletionWatched DEF DeleteSteps, PurgeRecords, ClearBin
<1>4. CASE DriveSteps
  BY <1>4, SaveLandsKeeps, WipeLandsKeeps, DeletionLandsKeeps, OthersKeep DEF DriveSteps
<1>5. CASE UNCHANGED driveVars
  BY <1>5, OthersKeep
<1>. QED
  BY <1>1, <1>2, <1>3, <1>4, <1>5 DEF DriveNext

(* What a transfer that ended well took is there or comes, a retry saves   *)
(* nothing twice, a replacement leaves nothing of what there was, and what *)
(* a deletion says is gone is gone, for any share, requests and events     *)
(* (providers/{quark,baidu}.py).                                           *)
LEMMA DriveIsWholeHeld == DriveInv => DriveIsWhole
<1> SUFFICES ASSUME DriveInv PROVE DriveIsWhole
  OBVIOUS
<1>1. Whole
  <2> SUFFICES ASSUME pc \in {"done", "shared"}, NEW s \in wanted
               PROVE  \/ Held(s[1], s[2])
                      \/ \E j \in DOMAIN postings : s \in postings[j]
                      \/ lostWipe /\ (platform = "baidu" \/ mode # "replace_all")
                      \/ "given_up" \in unclear
    BY DEF Whole
  <2>1. Held(s[1], s[2]) \/ Coming(s) \/ DriveExcused
    BY DEF DriveInv, WantedHeld, InPlace
  <2>. QED
    BY <2>1 DEF Coming, ComesBy, DriveExcused
<1>2. SavedOnce
  BY DEF DriveInv, OnceHeld, OneCopy, SavedOnce
<1>3. ReplacedWhole
  BY DEF DriveInv, ReplaceHeld, InPlace, ReplacedWhole
<1>4. PurgedForGood
  BY DEF DriveInv, DeletionHeld, PurgedForGood
<1>. QED
  BY <1>1, <1>2, <1>3, <1>4 DEF DriveIsWhole

(* The directory, the jobs and the bin stay what they should be.           *)
THEOREM DriveTypeCorrect == DriveSpec => []DriveTypeOK
<1>1. DriveInv => DriveTypeOK
  BY DEF DriveInv, DriveTypes
<1>. QED
  BY <1>1, DriveInitially, DriveStep, PTL DEF DriveSpec

(* A transfer that ended well brought what it took, once, and a deletion   *)
(* that says the directory is gone for good is right, but for jobs that    *)
(* were given up (transfer_to_staging, delete_staging_target).             *)
THEOREM DriveAlwaysWhole == DriveSpec => []DriveIsWhole
  BY DriveInitially, DriveStep, DriveIsWholeHeld, PTL DEF DriveSpec

(***************************************************************************)
(* All of them beside each other                                           *)
(***************************************************************************)
(* Type correctness of the composition: the five leave each other's        *)
(* variables alone.                                                        *)
THEOREM JobsTypeCorrect == Spec => []JobsTypeOK
<1> DEFINE Inv == BackupInv /\ RecognitionInv /\ PassInv /\ ScheduleInv /\ DriveInv
<1>1. Init => Inv
  BY BackupInitInv, RecognitionInitInv, PassInitInv, ScheduleInitInv, DriveInitially DEF Init
<1>2. Inv /\ [Next]_vars => Inv'
  <2> SUFFICES ASSUME Inv, [Next]_vars PROVE Inv'
    OBVIOUS
  <2>1. [BackupNext]_backupVars
    BY Zenon DEF Next, vars, BackupPart, RecognitionPart, PassPart, SchedulePart, DrivePart
  <2>2. [RecognitionNext]_recVars
    BY Zenon DEF Next, vars, BackupPart, RecognitionPart, PassPart, SchedulePart, DrivePart
  <2>3. [PassNext]_passVars
    BY Zenon DEF Next, vars, BackupPart, RecognitionPart, PassPart, SchedulePart, DrivePart
  <2>4. [ScheduleNext]_schedVars
    BY Zenon DEF Next, vars, BackupPart, RecognitionPart, PassPart, SchedulePart, DrivePart
  <2>5. [DriveNext]_driveVars
    BY Zenon DEF Next, vars, BackupPart, RecognitionPart, PassPart, SchedulePart, DrivePart
  <2>. QED
    BY <2>1, <2>2, <2>3, <2>4, <2>5, BackupStepInv, RecognitionStepInv, PassStepInv,
       ScheduleStepInv, DriveStep
<1>3. Inv => JobsTypeOK
  BY DEF BackupInv, RecognitionInv, PassInv, ScheduleInv, DriveInv, DriveTypes, JobsTypeOK
<1> HIDE DEF Inv
<1>. QED
  BY <1>1, <1>2, <1>3, PTL DEF Spec
=============================================================================
