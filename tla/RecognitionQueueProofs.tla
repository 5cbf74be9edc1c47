------------------------- MODULE RecognitionQueueProofs -------------------------
(***************************************************************************)
(* An accepted request is not forgotten, a retry has its time, and a match *)
(* stays, for any number of links, workers, tries and requests.            *)
(*                                                                         *)
(* The worker gives its lock up before it writes an error, and a request   *)
(* merges columns into a row that has changed since it was read.  What     *)
(* makes the properties inductive is who may have changed it: a link that  *)
(* is claimed is queued or waits for a retry (HeldAlone), an ended task is *)
(* changed by requests alone (Kept), and a request that is not stale has   *)
(* seen the status there is (Fresh).                                       *)
(***************************************************************************)
EXTENDS RecognitionQueue, TLAPS

(* Tries are counted whatever columns were merged; the time of a retry is  *)
(* there unless two workers were at the link.                              *)
CountedTask(r) ==
    /\ r.status = "queued" => r.tries = 0
    /\ r.status = "retry" => r.tries # 0 /\ r.tries < MaxTries
    /\ r.status \in {"done", "failed"} => r.tries # 0

SoundTask(r) ==
    /\ r.status = "retry" => r.retryAt # "unset"
    /\ r.status # "retry" => r.retryAt = "unset"

Counted ==
    /\ \A l \in Links : CountedTask(tasks[l])
    /\ \A c \in Askers : CountedTask(asker[c].seen)

Exclusive == \A v, w \in Resolvers :
    resolver[v].pc = "resolve" /\ resolver[w].pc = "resolve"
    /\ resolver[v].link = resolver[w].link => v = w

Claimed == \A w \in Resolvers :
    resolver[w].pc = "resolve" => tasks[resolver[w].link].status \in {"queued", "retry"}

Placed == \A w \in Resolvers :
    resolver[w].pc \in {"idle", "start"} <=> resolver[w].link = NoLink

Apart == \A l \in Links \ doubled : \A v, w \in Resolvers :
    resolver[v].link = l /\ resolver[w].link = l => v = w

HeldAlone == \A l \in Links \ doubled : \A w \in Resolvers :
    resolver[w].link = l =>
        /\ tasks[l].status \in {"queued", "retry"}
        /\ ~resolver[w].had => bindings[l].match # "matched"

Sound == \A l \in Links \ doubled : SoundTask(tasks[l])

Kept == \A c \in Askers : \A l \in Links \ doubled :
    asker[c].link = l =>
        /\ SoundTask(asker[c].seen)
        /\ asker[c].seen.status \in {"none", "done", "failed"} =>
              tasks[l] = asker[c].seen

Fresh == \A c \in Askers : \A l \in Links :
    asker[c].link = l /\ ~asker[c].stale => tasks[l].status = asker[c].seen.status

Awaited == \A l \in asked \ missed :
    tasks[l].status = "queued" /\ \A w \in Resolvers : resolver[w].link # l

RecognitionInv ==
    /\ RecognitionTypeOK /\ Counted /\ Exclusive /\ Claimed /\ Placed
    /\ Apart /\ HeldAlone /\ Sound /\ Kept /\ Fresh /\ Awaited

LEMMA RecognitionInitInv == RecognitionInit => RecognitionInv
<1>. SUFFICES ASSUME RecognitionInit PROVE RecognitionInv
  OBVIOUS
<1>1. RecognitionTypeOK
  BY RecognitionAssumption
     DEF RecognitionInit, RecognitionTypeOK, NoTask, TaskRow, BindingRow, Resting,
         ResolverState, NotAsking, AskerState, Priorities
<1>2. Placed /\ Apart /\ HeldAlone /\ Kept /\ Fresh
  BY RecognitionAssumption
     DEF RecognitionInit, Placed, Apart, HeldAlone, Kept, Fresh, Resting, NotAsking
<1>3. Sound /\ Awaited /\ Counted
  BY DEF RecognitionInit, Sound, Awaited, Counted, SoundTask, CountedTask, NoTask, NotAsking
<1>4. Exclusive /\ Claimed
  BY DEF RecognitionInit, Exclusive, Claimed, Resting
<1>. QED
  BY <1>1, <1>2, <1>3, <1>4 DEF RecognitionInv

(***************************************************************************)
(* Requests                                                                *)
(***************************************************************************)
LEMMA AskReadsKeeps ==
    ASSUME RecognitionInv, NEW c \in Askers, NEW l \in Links, NEW p \in Priorities,
           AskReads(c, l, p)
    PROVE  RecognitionInv'
<1>. USE DEF RecognitionInv, AskReads
<1>1. tasks[l] \in TaskRow /\ asks' \in Nat
  BY RecognitionAssumption DEF RecognitionTypeOK
<1>2. [link |-> l, seen |-> tasks[l], priority |-> p, stale |-> FALSE] \in AskerState
  BY <1>1 DEF AskerState
<1>3. RecognitionTypeOK'
  BY <1>1, <1>2 DEF RecognitionTypeOK
<1>4. asker'[c] = [link |-> l, seen |-> tasks[l], priority |-> p, stale |-> FALSE]
      /\ \A d \in Askers \ {c} : asker'[d] = asker[d]
  BY DEF RecognitionTypeOK
<1>5. Kept' /\ Fresh' /\ Counted'
  BY <1>4 DEF Kept, Fresh, Sound, SoundTask, Counted, CountedTask
<1>6. Placed' /\ Apart' /\ HeldAlone' /\ Sound' /\ Awaited' /\ Exclusive' /\ Claimed'
  BY DEF Placed, Apart, HeldAlone, Sound, SoundTask, Awaited, Exclusive, Claimed
<1>. QED
  BY <1>3, <1>5, <1>6

(* The row a request leaves behind.                                        *)
LEMMA QueuedTyped ==
    ASSUME NEW seen \in TaskRow, NEW row \in TaskRow, NEW p \in Priorities
    PROVE  Queued(seen, row, p) \in TaskRow
<1>1. [NoTask EXCEPT !.status = "queued", !.priority = p] \in TaskRow
  <2>1. 0 \in 0..MaxTries
    BY RecognitionAssumption
  <2>. QED
    BY <2>1 DEF NoTask, TaskRow
<1>2. AtLeast(seen.priority, p) \in Priorities /\ 0 \in 0..MaxTries
  BY RecognitionAssumption DEF AtLeast, TaskRow, Priorities
<1>3. Requeued(seen, row, p) \in TaskRow
  BY <1>2 DEF Requeued, TaskRow
<1>. QED
  BY <1>1, <1>3 DEF Queued

LEMMA QueuedCounted ==
    ASSUME NEW seen \in TaskRow, NEW row \in TaskRow, NEW p \in Priorities,
           CountedTask(seen), CountedTask(row)
    PROVE  CountedTask(Queued(seen, row, p))
<1>1. CASE seen.status = "none"
  BY <1>1 DEF Queued, NoTask, CountedTask
<1>2. CASE seen.status # "none"
  BY <1>2 DEF Queued, Requeued, CountedTask, TaskRow
<1>. QED
  BY <1>1, <1>2

LEMMA QueuedSound ==
    ASSUME NEW seen \in TaskRow, NEW row \in TaskRow, NEW p \in Priorities,
           CountedTask(seen), SoundTask(seen), SoundTask(row),
           seen.status \in {"none", "done", "failed"} => row = seen
    PROVE  /\ SoundTask(Queued(seen, row, p))
           /\ row.status \in {"queued", "retry"} =>
                Queued(seen, row, p).status \in {"queued", "retry"}
<1>1. CASE seen.status = "none"
  BY <1>1 DEF Queued, NoTask, SoundTask
<1>2. CASE seen.status = "queued"
  BY <1>2 DEF Queued, Requeued, SoundTask
<1>3. CASE seen.status = "retry"
  BY <1>3 DEF Queued, Requeued, SoundTask
<1>4. CASE seen.status \in {"done", "failed"}
  BY <1>4 DEF Queued, Requeued, SoundTask
<1>. QED
  BY <1>1, <1>2, <1>3, <1>4 DEF TaskRow

(* A request that has seen the status there is leaves the task queued.     *)
LEMMA QueuedFresh ==
    ASSUME NEW seen \in TaskRow, NEW row \in TaskRow, NEW p \in Priorities,
           row.status = seen.status
    PROVE  Queued(seen, row, p).status = "queued"
BY DEF Queued, Requeued, NoTask

LEMMA AskCommitsKeeps ==
    ASSUME RecognitionInv, NEW c \in Askers, AskCommits(c)
    PROVE  RecognitionInv'
<1>. USE DEF RecognitionInv
<1>. DEFINE l == asker[c].link
            seen == asker[c].seen
            refused == seen.status = "none" /\ tasks[l].status # "none"
            row == Queued(seen, tasks[l], asker[c].priority)
<1>1. l \in Links /\ seen \in TaskRow /\ asker[c].priority \in Priorities
      /\ tasks[l] \in TaskRow /\ bindings[l] \in BindingRow
  BY DEF RecognitionTypeOK, AskerState, AskCommits
<1>2. row \in TaskRow
  BY <1>1, QueuedTyped
<1>3. tasks' = [tasks EXCEPT ![l] = row]
      /\ UNCHANGED <<resolver, cleanup, doubled, asks, recFaults>>
  BY DEF AskCommits
<1>4. tasks'[l] = row /\ \A k \in Links \ {l} : tasks'[k] = tasks[k]
  BY <1>1, <1>3 DEF RecognitionTypeOK
<1>5. /\ bindings' \in [Links -> BindingRow]
      /\ \A k \in Links : (bindings'[k].match = "matched") = (bindings[k].match = "matched")
  BY <1>1 DEF AskCommits, RecognitionTypeOK, BindingRow
<1>6. \A d \in Askers : asker'[d] = NotAsking
  BY RecognitionAssumption DEF AskCommits, RecognitionTypeOK
<1>7. RecognitionTypeOK'
  <2>1. NotAsking \in AskerState
    BY RecognitionAssumption DEF NotAsking, NoTask, AskerState, TaskRow, Priorities
  <2>2. asker' \in [Askers -> AskerState]
    BY <2>1 DEF AskCommits, RecognitionTypeOK
  <2>3. asked' \subseteq Links /\ missed' \subseteq Links
    BY <1>1 DEF AskCommits, RecognitionTypeOK
  <2>. QED
    BY <1>1, <1>2, <1>3, <1>5, <2>2, <2>3 DEF RecognitionTypeOK
<1>8. Placed' /\ Apart' /\ Exclusive'
  BY <1>3 DEF Placed, Apart, Exclusive
<1>14. Claimed'
  BY <1>1, <1>3, <1>4 DEF Claimed, AskCommits, Locked, RecognitionTypeOK, ResolverState, Placed
<1>15. Counted'
  <2>1. CountedTask(row) /\ CountedTask(NotAsking.seen)
    BY <1>1, QueuedCounted DEF Counted, CountedTask, NotAsking, NoTask
  <2>. QED
    BY <1>4, <1>6, <2>1 DEF Counted, CountedTask
<1>9. ASSUME l \notin doubled
      PROVE  SoundTask(row) /\ (tasks[l].status \in {"queued", "retry"} =>
                                    row.status \in {"queued", "retry"})
  BY <1>1, <1>9, QueuedSound DEF Kept, Sound, Counted
<1>10. HeldAlone'
  BY <1>3, <1>4, <1>5, <1>9 DEF HeldAlone
<1>11. Sound'
  BY <1>3, <1>4, <1>9 DEF Sound, SoundTask
<1>12. Kept' /\ Fresh'
  BY <1>6, RecognitionAssumption DEF Kept, Fresh, NotAsking
<1>13. Awaited'
  <2>1. CASE refused
    <3>1. row = tasks[l] /\ asked' = asked /\ missed' = missed
      BY <2>1 DEF AskCommits, Queued
    <3>. QED
      BY <1>3, <1>4, <3>1 DEF Awaited, RecognitionTypeOK
  <2>2. CASE ~refused /\ (asker[c].stale \/ \E w \in Resolvers : resolver[w].link = l)
    <3>1. asked' = asked \cup {l} /\ missed' = missed \cup {l}
      BY <2>2 DEF AskCommits
    <3>. QED
      BY <1>3, <1>4, <3>1 DEF Awaited, RecognitionTypeOK
  <2>3. CASE ~refused /\ ~(asker[c].stale \/ \E w \in Resolvers : resolver[w].link = l)
    <3>1. asked' = asked \cup {l} /\ missed' = missed \ {l}
      BY <2>3 DEF AskCommits
    <3>2. row.status = "queued"
      BY <1>1, <2>3, QueuedFresh DEF Fresh
    <3>. QED
      BY <1>3, <1>4, <2>3, <3>1, <3>2 DEF Awaited, RecognitionTypeOK
  <2>. QED
    BY <2>1, <2>2, <2>3
<1>. QED
  BY <1>7, <1>8, <1>10, <1>11, <1>12, <1>13, <1>14, <1>15

(***************************************************************************)
(* The worker                                                              *)
(***************************************************************************)
(* A step that moves a worker and leaves tasks, bindings and requests      *)
(* alone, to the link it was at or to rest.                                *)
LEMMA WorkerMoves ==
    ASSUME RecognitionInv, NEW w \in Resolvers, NEW s \in ResolverState,
           resolver' = [resolver EXCEPT ![w] = s],
           (s.link = resolver[w].link /\ s.had = resolver[w].had) \/ s.link = NoLink,
           s.pc \in {"idle", "start"} <=> s.link = NoLink, s.pc # "resolve",
           UNCHANGED <<tasks, bindings, asker, asked, missed, doubled, asks>>,
           cleanup' \in {"due", "done"}, recFaults' \in Nat
    PROVE  RecognitionInv'
<1>. USE DEF RecognitionInv
<1>1. resolver'[w] = s /\ \A v \in Resolvers \ {w} : resolver'[v] = resolver[v]
  BY DEF RecognitionTypeOK
<1>2. RecognitionTypeOK' /\ Placed'
  BY <1>1 DEF RecognitionTypeOK, Placed
<1>3. Apart' /\ HeldAlone' /\ Awaited'
  BY <1>1, RecognitionAssumption DEF Apart, HeldAlone, Awaited, RecognitionTypeOK
<1>4. Sound' /\ Kept' /\ Fresh' /\ Counted'
  BY DEF Sound, Kept, Fresh, SoundTask, Counted, CountedTask
<1>5. Exclusive' /\ Claimed'
  BY <1>1 DEF Exclusive, Claimed
<1>. QED
  BY <1>2, <1>3, <1>4, <1>5

LEMMA RestingTyped == Resting \in ResolverState /\ Resting.link = NoLink
BY DEF Resting, ResolverState

LEMMA CleanedTyped ==
    ASSUME RecognitionInv, NEW w \in Resolvers PROVE Cleaned(w) \in {"due", "done"}
BY DEF RecognitionInv, RecognitionTypeOK, Cleaned

LEMMA IterateKeeps ==
    ASSUME RecognitionInv, NEW w \in Resolvers, Iterate(w) PROVE RecognitionInv'
<1>. DEFINE s == [resolver[w] EXCEPT !.pc = "start", !.cleaned = (cleanup = "due")]
<1>1. resolver' = [resolver EXCEPT ![w] = s]
  BY DEF Iterate, RecognitionInv, RecognitionTypeOK, ResolverState
<1>2. s \in ResolverState /\ s.link = resolver[w].link /\ s.had = resolver[w].had
      /\ s.pc = "start" /\ s.link = NoLink
  BY DEF Iterate, RecognitionInv, RecognitionTypeOK, ResolverState, Placed
<1>. QED
  BY <1>1, <1>2, WorkerMoves DEF Iterate, RecognitionInv, RecognitionTypeOK

LEMMA ClaimNothingKeeps ==
    ASSUME RecognitionInv, NEW w \in Resolvers, ClaimNoTask(w) PROVE RecognitionInv'
<1>1. Resting.pc = "idle"
  BY DEF Resting
<1>. QED
  BY <1>1, RestingTyped, CleanedTyped, WorkerMoves
     DEF ClaimNoTask, Rests, RecognitionInv, RecognitionTypeOK

LEMMA LoseResolverKeeps ==
    ASSUME RecognitionInv, NEW w \in Resolvers, LoseResolver(w) PROVE RecognitionInv'
<1>1. Resting.pc = "idle" /\ recFaults' \in Nat
  BY DEF Resting, LoseResolver, RecognitionInv, RecognitionTypeOK
<1>. QED
  BY <1>1, RestingTyped, WorkerMoves DEF LoseResolver, Rests, RecognitionInv, RecognitionTypeOK

LEMMA ResolveRaisesKeeps ==
    ASSUME RecognitionInv, NEW w \in Resolvers, ResolveRaises(w) PROVE RecognitionInv'
<1>1. PICK pc \in {"rolled", "raised"} :
        resolver' = [resolver EXCEPT ![w].pc = pc, ![w].cleaned = FALSE]
  BY DEF ResolveRaises
<1>. DEFINE s == [resolver[w] EXCEPT !.pc = pc, !.cleaned = FALSE]
<1>2. resolver' = [resolver EXCEPT ![w] = s]
  BY <1>1 DEF RecognitionInv, RecognitionTypeOK, ResolverState
<1>3. s \in ResolverState /\ s.link = resolver[w].link /\ s.had = resolver[w].had
      /\ s.pc \notin {"idle", "start", "resolve"} /\ s.link # NoLink
  BY DEF ResolveRaises, RecognitionInv, RecognitionTypeOK, ResolverState, Placed
<1>. QED
  BY <1>2, <1>3, WorkerMoves DEF ResolveRaises, RecognitionInv, RecognitionTypeOK

LEMMA ClaimKeeps ==
    ASSUME RecognitionInv, NEW w \in Resolvers, NEW l \in Links, ClaimTask(w, l)
    PROVE  RecognitionInv'
<1>. USE DEF RecognitionInv
<1>. DEFINE s == [resolver[w] EXCEPT !.pc = "resolve", !.link = l,
                                     !.had = bindings[l].match = "matched"]
<1>1. resolver'[w] = s /\ \A v \in Resolvers \ {w} : resolver'[v] = resolver[v]
  BY DEF ClaimTask, RecognitionTypeOK, ResolverState
<1>14. /\ ClaimableTasks(l) /\ asked' = asked \ {l}
       /\ doubled' = IF \E v \in Resolvers : resolver[v].link = l
                     THEN doubled \cup {l} ELSE doubled
       /\ UNCHANGED <<tasks, bindings, asker, cleanup, missed, asks, recFaults>>
  BY DEF ClaimTask, RecognitionTypeOK, ResolverState
<1>2. s \in ResolverState /\ s.link = l /\ s.pc = "resolve"
  BY DEF RecognitionTypeOK, ResolverState
<1>15. ~s.had => bindings[l].match # "matched"
  BY DEF RecognitionTypeOK, ResolverState
<1>16. resolver' = [resolver EXCEPT ![w] = s]
  BY DEF ClaimTask, RecognitionTypeOK, ResolverState
<1>. HIDE DEF s
<1>3. l # NoLink
  BY RecognitionAssumption
<1>4. doubled' \subseteq Links /\ doubled \subseteq doubled'
  BY <1>14 DEF RecognitionTypeOK
<1>5. RecognitionTypeOK'
  BY <1>2, <1>4, <1>14, <1>16 DEF RecognitionTypeOK
<1>6. Placed'
  BY <1>1, <1>2, <1>3 DEF Placed
<1>7. l \notin doubled' => \A v \in Resolvers : resolver[v].link # l
  BY <1>14
<1>8. Apart'
  BY <1>1, <1>2, <1>4, <1>7 DEF Apart
<1>9. tasks[l].status \in {"queued", "retry"}
  BY <1>14 DEF ClaimableTasks
<1>10. HeldAlone'
  BY <1>1, <1>2, <1>4, <1>9, <1>14, <1>15 DEF HeldAlone
<1>11. Awaited'
  BY <1>1, <1>2, <1>14 DEF Awaited, RecognitionTypeOK
<1>12. Sound' /\ Kept' /\ Fresh' /\ Counted'
  BY <1>4, <1>14 DEF Sound, Kept, Fresh, SoundTask, Counted, CountedTask
<1>13. Exclusive' /\ Claimed'
  BY <1>1, <1>2, <1>9, <1>14 DEF Exclusive, Claimed, ClaimableTasks, Locked
<1>. QED
  BY <1>5, <1>6, <1>8, <1>10, <1>11, <1>12, <1>13

(* The end of a worker's transaction at a link: the row is written, and    *)
(* the request that has read it has become stale.                          *)
LEMMA OutcomeKeeps ==
    ASSUME RecognitionInv, NEW w \in Resolvers, resolver[w].link \in Links,
           NEW row \in TaskRow, NEW binding \in BindingRow,
           tasks' = [tasks EXCEPT ![resolver[w].link] = row],
           bindings' = [bindings EXCEPT ![resolver[w].link] = binding],
           resolver[w].link \notin doubled => SoundTask(row), CountedTask(row),
           \A v \in Resolvers \ {w} :
               ~(resolver[v].pc = "resolve" /\ resolver[v].link = resolver[w].link),
           Rests(w), Overtake(resolver[w].link),
           UNCHANGED <<asked, missed, doubled, asks, recFaults>>,
           cleanup' \in {"due", "done"}
    PROVE  RecognitionInv'
<1>. USE DEF RecognitionInv
<1>. DEFINE l == resolver[w].link
<1>1. tasks'[l] = row /\ \A k \in Links \ {l} : tasks'[k] = tasks[k] /\ bindings'[k] = bindings[k]
  BY DEF RecognitionTypeOK
<1>2. resolver'[w] = Resting /\ \A v \in Resolvers \ {w} : resolver'[v] = resolver[v]
  BY DEF RecognitionTypeOK, Rests
<1>3. \A c \in Askers :
        /\ asker'[c] \in AskerState
        /\ asker'[c].link = asker[c].link /\ asker'[c].seen = asker[c].seen
        /\ asker[c].link = l => asker'[c].stale
        /\ asker[c].link # l => asker'[c] = asker[c]
  BY DEF RecognitionTypeOK, Overtake, AskerState
<1>4. RecognitionTypeOK'
  <2>1. resolver' \in [Resolvers -> ResolverState]
    BY RestingTyped DEF RecognitionTypeOK, Rests
  <2>2. asker' \in [Askers -> AskerState]
    BY <1>3 DEF Overtake
  <2>. QED
    BY <2>1, <2>2 DEF RecognitionTypeOK
<1>5. Resting.link = NoLink /\ Resting.pc = "idle" /\ NoLink \notin Links
  BY RecognitionAssumption DEF Resting
<1>6. Placed' /\ Apart'
  BY <1>2, <1>5 DEF Placed, Apart
<1>7. HeldAlone'
  BY <1>1, <1>2, <1>5 DEF HeldAlone, Apart
<1>8. Sound'
  BY <1>1 DEF Sound, SoundTask
<1>9. Kept'
  <2>1. ASSUME NEW c \in Askers, NEW k \in Links \ doubled, asker[c].link = k
        PROVE  /\ SoundTask(asker[c].seen)
               /\ asker[c].seen.status \in {"none", "done", "failed"} => tasks'[k] = asker[c].seen
    <3>1. CASE k # l
      BY <1>1, <2>1, <3>1 DEF Kept
    <3>2. CASE k = l
      <4>1. tasks[l].status \in {"queued", "retry"}
        BY <3>2 DEF HeldAlone
      <4>. QED
        BY <2>1, <3>2, <4>1 DEF Kept
    <3>. QED
      BY <3>1, <3>2
  <2>. QED
    BY <1>3, <2>1 DEF Kept, SoundTask
<1>10. Fresh'
  BY <1>1, <1>3 DEF Fresh
<1>11. Awaited'
  BY <1>1, <1>2, <1>5 DEF Awaited, RecognitionTypeOK
<1>12. Counted'
  BY <1>1, <1>3 DEF Counted, CountedTask
<1>13. Exclusive' /\ Claimed'
  BY <1>1, <1>2, <1>5 DEF Exclusive, Claimed, RecognitionTypeOK, ResolverState, Placed
<1>. QED
  BY <1>4, <1>6, <1>7, <1>8, <1>9, <1>10, <1>11, <1>12, <1>13

LEMMA ResolveKeeps ==
    ASSUME RecognitionInv, NEW w \in Resolvers, Resolve(w) PROVE RecognitionInv'
<1>. USE DEF RecognitionInv
<1>. DEFINE l == resolver[w].link
            row == Succeeded(tasks[l])
<1>1. l \in Links
  BY DEF RecognitionTypeOK, ResolverState, Placed, Resolve
<1>2. PICK binding \in BindingRow : bindings' = [bindings EXCEPT ![l] = binding]
  BY DEF BindingRow, Resolve
<1>3. tasks[l] \in TaskRow /\ tasks[l].tries < MaxTries
  BY <1>1, RecognitionAssumption
     DEF Resolve, Claimed, Counted, CountedTask, RecognitionTypeOK
<1>4. row \in TaskRow /\ SoundTask(row) /\ CountedTask(row)
  <2>1. tasks[l].tries + 1 \in 0..MaxTries /\ tasks[l].tries + 1 # 0
    BY <1>3, RecognitionAssumption DEF TaskRow
  <2>2. row = [tasks[l] EXCEPT !.status = "done", !.tries = tasks[l].tries + 1, !.retryAt = "unset"]
    BY DEF Succeeded
  <2>. QED
    BY <1>3, <2>1, <2>2 DEF TaskRow, SoundTask, CountedTask
<1>5. \A v \in Resolvers \ {w} : ~(resolver[v].pc = "resolve" /\ resolver[v].link = l)
  BY DEF Exclusive, Resolve
<1>. QED
  BY <1>1, <1>2, <1>4, <1>5, OutcomeKeeps, CleanedTyped DEF Resolve

LEMMA FailedSound ==
    ASSUME NEW r \in TaskRow
    PROVE  Failed(r) \in TaskRow /\ SoundTask(Failed(r)) /\ CountedTask(Failed(r))
<1>. DEFINE n == IF r.tries < MaxTries THEN r.tries + 1 ELSE r.tries
<1>1. n \in 0..MaxTries /\ n # 0
  BY RecognitionAssumption DEF TaskRow
<1>2. Failed(r) = [r EXCEPT !.tries = n, !.status = IF n >= MaxTries THEN "failed" ELSE "retry",
                            !.retryAt = IF n >= MaxTries THEN "unset" ELSE "ahead"]
  BY DEF Failed
<1>. HIDE DEF n
<1>3. CASE n >= MaxTries
  BY <1>1, <1>2, <1>3 DEF TaskRow, SoundTask, CountedTask
<1>4. CASE ~(n >= MaxTries)
  <2>1. n < MaxTries
    BY <1>1, <1>4, RecognitionAssumption
  <2>. QED
    BY <1>1, <1>2, <1>4, <2>1 DEF TaskRow, SoundTask, CountedTask
<1>. QED
  BY <1>3, <1>4

LEMMA WriteErrorKeeps ==
    ASSUME RecognitionInv, NEW w \in Resolvers, WriteError(w) PROVE RecognitionInv'
<1>. USE DEF RecognitionInv
<1>. DEFINE l == resolver[w].link
            row == Failed(tasks[l])
<1>1. l \in Links
  BY DEF RecognitionTypeOK, ResolverState, Placed, WriteError
<1>2. PICK binding \in BindingRow : bindings' = [bindings EXCEPT ![l] = binding]
  <2>1. bindings[l] \in BindingRow /\ bindings = [bindings EXCEPT ![l] = bindings[l]]
    BY <1>1 DEF RecognitionTypeOK
  <2>. QED
    BY <2>1 DEF BindingRow, WriteError
<1>3. row \in TaskRow /\ SoundTask(row) /\ CountedTask(row)
  BY <1>1, FailedSound DEF RecognitionTypeOK
<1>4. \A v \in Resolvers \ {w} : ~(resolver[v].pc = "resolve" /\ resolver[v].link = l)
  BY DEF WriteError, Locked
<1>. QED
  BY <1>1, <1>2, <1>3, <1>4, OutcomeKeeps DEF WriteError, RecognitionTypeOK

LEMMA RetryTimeKeeps ==
    ASSUME RecognitionInv, NEW l \in Links, RetryTimePasses(l) PROVE RecognitionInv'
<1>. USE DEF RecognitionInv, RetryTimePasses
<1>1. /\ tasks'[l] \in TaskRow /\ tasks'[l].retryAt # "unset"
      /\ tasks'[l].status = tasks[l].status /\ tasks'[l].tries = tasks[l].tries
      /\ \A k \in Links \ {l} : tasks'[k] = tasks[k]
  BY DEF RecognitionTypeOK, TaskRow
<1>2. RecognitionTypeOK'
  BY <1>1 DEF RecognitionTypeOK
<1>3. Placed' /\ Apart' /\ Exclusive'
  BY DEF Placed, Apart, Exclusive
<1>4. HeldAlone' /\ Fresh' /\ Counted' /\ Awaited'
  BY <1>1 DEF HeldAlone, Fresh, Counted, CountedTask, Awaited, RecognitionTypeOK
<1>5. Claimed'
  BY <1>1 DEF Claimed, RecognitionTypeOK, ResolverState, Placed
<1>6. Sound'
  BY <1>1 DEF Sound, SoundTask
<1>7. Kept'
  BY <1>1 DEF Kept, Sound, SoundTask, RecognitionTypeOK, TaskRow
<1>. QED
  BY <1>2, <1>3, <1>4, <1>5, <1>6, <1>7

LEMMA RecognitionStepInv == RecognitionInv /\ [RecognitionNext]_recVars => RecognitionInv'
<1>. SUFFICES ASSUME RecognitionInv, [RecognitionNext]_recVars PROVE RecognitionInv'
  OBVIOUS
<1>1. ASSUME NEW c \in Askers, AskCommits(c) \/ \E l \in Links, p \in Priorities : AskReads(c, l, p)
      PROVE  RecognitionInv'
  BY <1>1, AskCommitsKeeps, AskReadsKeeps
<1>2. ASSUME NEW w \in Resolvers, ResolverSteps(w) \/ LoseResolver(w)
      PROVE  RecognitionInv'
  BY <1>2, IterateKeeps, ClaimNothingKeeps, ClaimKeeps, ResolveKeeps,
     ResolveRaisesKeeps, WriteErrorKeeps, LoseResolverKeeps DEF ResolverSteps
<1>3. ASSUME NEW l \in Links, RetryTimePasses(l) PROVE RecognitionInv'
  BY <1>3, RetryTimeKeeps
<1>4. CASE UNCHANGED recVars
  BY <1>4 DEF recVars, RecognitionInv, RecognitionTypeOK, Counted, CountedTask,
              Exclusive, Claimed, Placed, Apart, HeldAlone, Sound, SoundTask, Kept, Fresh, Awaited
<1>. QED
  BY <1>1, <1>2, <1>3, <1>4 DEF RecognitionNext

(***************************************************************************)
(* A match                                                                 *)
(***************************************************************************)
MatchKept == \A l \in Links : bindings[l].match = "matched" =>
                 bindings'[l].match = "matched" \/ l \in doubled

LEMMA StepKeepsMatch == RecognitionInv /\ [RecognitionNext]_recVars => MatchKept
<1>. SUFFICES ASSUME RecognitionInv, [RecognitionNext]_recVars,
                     NEW l \in Links, bindings[l].match = "matched", l \notin doubled
              PROVE  bindings'[l].match = "matched"
  BY DEF MatchKept
<1>. USE DEF RecognitionInv
<1>1. ASSUME NEW c \in Askers, AskCommits(c) PROVE bindings'[l].match = "matched"
  BY <1>1 DEF AskCommits, RecognitionTypeOK, BindingRow
<1>2. ASSUME NEW w \in Resolvers, Resolve(w) \/ WriteError(w)
      PROVE  bindings'[l].match = "matched"
  <2>1. CASE resolver[w].link = l
    <3>1. resolver[w].had
      BY <2>1 DEF HeldAlone
    <3>. QED
      BY <1>2, <2>1, <3>1 DEF Resolve, WriteError, RecognitionTypeOK
  <2>2. CASE resolver[w].link # l
    BY <1>2, <2>2 DEF Resolve, WriteError, RecognitionTypeOK
  <2>. QED
    BY <2>1, <2>2
<1>3. CASE UNCHANGED bindings
  BY <1>3
<1>4. ASSUME NEW w \in Resolvers, NEW k \in Links, ClaimTask(w, k) PROVE UNCHANGED bindings
  BY <1>4 DEF ClaimTask
<1>. QED
  BY <1>1, <1>2, <1>3, <1>4
     DEF RecognitionNext, ResolverSteps, AskReads, Iterate, ClaimNoTask, ResolveRaises,
         LoseResolver, RetryTimePasses, recVars

(* Rows, transactions and requests are well typed.                         *)
THEOREM RecognitionTypeCorrect == RecognitionSpec => []RecognitionTypeOK
BY RecognitionInitInv, RecognitionStepInv, PTL DEF RecognitionSpec, RecognitionInv

(* An accepted request is still to be claimed, and a retry will come       *)
(* (enqueue_recognition_tasks, claim_next_recognition_task).               *)
THEOREM RequestsAlwaysKept == RecognitionSpec => []RequestsAreKept
<1>1. RecognitionInv => RequestsAreKept
  BY DEF RecognitionInv, RequestsAreKept, AcceptedIsQueued, RetryComes, Awaited,
         Sound, SoundTask, Counted, CountedTask
<1>. QED
  BY <1>1, RecognitionInitInv, RecognitionStepInv, PTL DEF RecognitionSpec

(* A match stays unless two workers were at the link.                      *)
THEOREM MatchesStay == RecognitionSpec => MatchStays
<1>1. RecognitionSpec => []RecognitionInv
  BY RecognitionInitInv, RecognitionStepInv, PTL DEF RecognitionSpec
<1>2. RecognitionInv /\ [RecognitionNext]_recVars =>
        [\A l \in Links : bindings[l].match = "matched" =>
            bindings'[l].match = "matched" \/ l \in doubled]_recVars
  BY StepKeepsMatch DEF MatchKept
<1>. QED
  BY <1>1, <1>2, PTL DEF RecognitionSpec, MatchStays
=============================================================================
