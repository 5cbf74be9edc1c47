---------------------------- MODULE RecognitionQueue ----------------------------
(***************************************************************************)
(* Title recognition: requests queue a task per link, the worker process   *)
(* claims a task, resolves it to a work and writes the outcome.            *)
(*                                                                         *)
(* Claim, work and outcome are one transaction of the worker: the claimed  *)
(* row stays locked until the end, "processing" is never committed, and a  *)
(* resolver that raises rolls the claim back before the error is written.  *)
(* A request is a transaction too: it reads a row, and when it is flushed  *)
(* the columns that differ from what was read are written, after waiting   *)
(* for the lock.                                                           *)
(***************************************************************************)
EXTENDS Integers

CONSTANTS
    Links,          \* link targets
    Resolvers,      \* worker processes; two when the advisory lock was lost
    Askers,         \* the event loop of the API, which serves requests that queue links
    NoLink,         \* "no link"
    MaxTries,       \* max_attempts
    MaxAsks,        \* bound: requests
    MaxRecFaults    \* bound: transactions that are lost

ASSUME RecognitionAssumption ==
    /\ NoLink \notin Links /\ \A c, d \in Askers : c = d
    /\ MaxTries \in Nat \ {0} /\ MaxAsks \in Nat /\ MaxRecFaults \in Nat

VARIABLES
    tasks,      \* resource_recognition_tasks by link
    bindings,   \* resource_work_bindings by link
    resolver,   \* the transaction of each worker
    asker,      \* the transaction of each request
    cleanup,    \* the retention run: due, or done
    asked,      \* history: links whose accepted request no claim has followed
    missed,     \* history: links whose last accepted request overlapped with
                \* a worker's transaction
    doubled,    \* history: links that two workers were at
    asks,       \* history: requests
    recFaults   \* history: transactions that were lost

recVars == <<tasks, bindings, resolver, asker, cleanup, asked, missed, doubled,
             asks, recFaults>>

(* A priority is low, usual or high; "retry" is retry_wait, retryAt tells  *)
(* whether next_retry_at is unset, ahead or passed.                        *)
Priorities == 1..3
TaskRow == [status: {"none", "queued", "retry", "done", "failed"},
            tries: 0..MaxTries, priority: Priorities,
            retryAt: {"unset", "ahead", "passed"}]
NoTask  == [status |-> "none", tries |-> 0, priority |-> 1,
            retryAt |-> "unset"]
BindingRow == [match: {"none", "pending", "matched", "error"}, skip: BOOLEAN]

ResolverState == [pc: {"idle", "start", "resolve", "rolled", "raised"},
                  link: Links \cup {NoLink}, had: BOOLEAN, cleaned: BOOLEAN]
Resting == [pc |-> "idle", link |-> NoLink, had |-> FALSE, cleaned |-> FALSE]
(* "stale": history, a worker has committed the row that was read.         *)
AskerState == [link: Links \cup {NoLink}, seen: TaskRow, priority: Priorities,
               stale: BOOLEAN]
NotAsking  == [link |-> NoLink, seen |-> NoTask, priority |-> 1,
               stale |-> FALSE]

RecognitionTypeOK ==
    /\ tasks \in [Links -> TaskRow]
    /\ bindings \in [Links -> BindingRow]
    /\ resolver \in [Resolvers -> ResolverState]
    /\ asker \in [Askers -> AskerState]
    /\ cleanup \in {"due", "done"}
    /\ asked \subseteq Links /\ missed \subseteq Links /\ doubled \subseteq Links
    /\ asks \in Nat /\ recFaults \in Nat

RecognitionInit ==
    /\ tasks = [l \in Links |-> NoTask]
    /\ bindings = [l \in Links |-> [match |-> "none", skip |-> FALSE]]
    /\ resolver = [w \in Resolvers |-> Resting]
    /\ asker = [c \in Askers |-> NotAsking]
    /\ cleanup \in {"due", "done"}
    /\ asked = {} /\ missed = {} /\ doubled = {}
    /\ asks = 0 /\ recFaults = 0

(***************************************************************************)
(* Requests                                                                *)
(***************************************************************************)
IsMatched(l) == bindings[l].match = "matched" \/ bindings[l].skip
Locked(l)    == \E w \in Resolvers : resolver[w].pc = "resolve"
                                     /\ resolver[w].link = l

(* A click (priority 3) skips matched links, a pending scan (2) as well, a *)
(* full scan (1) takes every link.  The binding placeholder is made here.  *)
AskReads(c, l, p) ==
    /\ asks < MaxAsks /\ asker[c].link = NoLink
    /\ p > 1 => ~IsMatched(l)
    /\ asker' = [asker EXCEPT ![c] = [link |-> l, seen |-> tasks[l],
                                      priority |-> p, stale |-> FALSE]]
    /\ asks' = asks + 1
    /\ UNCHANGED <<tasks, bindings, resolver, cleanup, asked, missed, doubled,
                   recFaults>>

(* Sensitivity: the status column is written but the counters are not.     *)
RequeuedStatusOnly(seen, row, p) ==
    [row EXCEPT !.status = IF seen.status = "retry" THEN "retry" ELSE "queued",
                !.retryAt = "unset"]

(* The columns enqueue_recognition_tasks assigns, written where they       *)
(* differ from what was read.                                              *)
AtLeast(a, b) == IF a >= b THEN a ELSE b

Requeued(seen, row, p) ==
    LET Col(old, new, now) == IF old = new THEN now ELSE new IN
    [status   |-> Col(seen.status, "queued", row.status),
     tries    |-> Col(seen.tries, 0, row.tries),
     priority |-> Col(seen.priority, AtLeast(seen.priority, p), row.priority),
     retryAt  |-> Col(seen.retryAt, "unset", row.retryAt)]

(* A new row; when another request made it meanwhile the unique constraint *)
(* fails the request.                                                      *)
Queued(seen, row, p) ==
    IF seen.status # "none" THEN Requeued(seen, row, p)
    ELSE IF row.status # "none" THEN row
    ELSE [NoTask EXCEPT !.status = "queued", !.priority = p]

AskCommits(c) ==
    LET l == asker[c].link
        seen == asker[c].seen
        refused == seen.status = "none" /\ tasks[l].status # "none" IN
    /\ l # NoLink /\ ~Locked(l)
    /\ tasks' = [tasks EXCEPT ![l] = Queued(seen, tasks[l], asker[c].priority)]
    /\ bindings' = [bindings EXCEPT
                      ![l].match = IF bindings[l].match = "none" /\ ~refused
                                   THEN "pending" ELSE bindings[l].match]
    /\ asked' = IF refused THEN asked ELSE asked \cup {l}
    /\ missed' = IF refused THEN missed
                 ELSE IF asker[c].stale \/ \E w \in Resolvers : resolver[w].link = l
                      THEN missed \cup {l} ELSE missed \ {l}
    /\ asker' = [asker EXCEPT ![c] = NotAsking]
    /\ UNCHANGED <<resolver, cleanup, doubled, asks, recFaults>>

(***************************************************************************)
(* The worker                                                              *)
(***************************************************************************)
(* run_resource_ops_maintenance_if_due, in the transaction of the claim.   *)
Iterate(w) ==
    /\ resolver[w].pc = "idle"
    /\ cleanup = "due" \/ \E l \in Links : tasks[l].status \in {"queued", "retry"}
    /\ resolver' = [resolver EXCEPT ![w].pc = "start",
                                    ![w].cleaned = (cleanup = "due")]
    /\ UNCHANGED <<tasks, bindings, asker, cleanup, asked, missed, doubled, asks,
                   recFaults>>

ClaimableTasks(l) ==
    /\ ~Locked(l)
    /\ \/ tasks[l].status = "queued"
       \/ tasks[l].status = "retry" /\ tasks[l].retryAt = "passed"

(* Queued tasks come before retries, then the higher priority.             *)
Before(k, l) ==
    \/ tasks[k].status = "queued" /\ tasks[l].status # "queued"
    \/ /\ tasks[k].status = tasks[l].status
       /\ tasks[k].priority > tasks[l].priority

ClaimTask(w, l) ==
    /\ resolver[w].pc = "start"
    /\ ClaimableTasks(l) /\ ~\E k \in Links : ClaimableTasks(k) /\ Before(k, l)
    /\ resolver' = [resolver EXCEPT
                      ![w].pc = "resolve", ![w].link = l,
                      ![w].had = bindings[l].match = "matched"]
    /\ asked' = asked \ {l}
    /\ doubled' = IF \E v \in Resolvers : resolver[v].link = l
                  THEN doubled \cup {l} ELSE doubled
    /\ UNCHANGED <<tasks, bindings, asker, cleanup, missed, asks, recFaults>>

(* Sensitivity: the retention record is not committed with the outcome.    *)
CleanedNever(w) == cleanup

(* What the transaction did to the retention record is committed with it.  *)
Cleaned(w) == IF resolver[w].cleaned THEN "done" ELSE cleanup

Rests(w) == resolver' = [resolver EXCEPT ![w] = Resting]

ClaimNoTask(w) ==
    /\ resolver[w].pc = "start"
    /\ ~\E l \in Links : ClaimableTasks(l)
    /\ Rests(w) /\ cleanup' = Cleaned(w)
    /\ UNCHANGED <<tasks, bindings, asker, asked, missed, doubled, asks,
                   recFaults>>

(* A request that has read the row and is still waiting sees none of this. *)
Overtake(l) ==
    asker' = [c \in Askers |-> IF asker[c].link = l
                               THEN [asker[c] EXCEPT !.stale = TRUE]
                               ELSE asker[c]]

Succeeded(row) == [row EXCEPT !.status = "done", !.tries = row.tries + 1,
                              !.retryAt = "unset"]

(* Sensitivity: a rejected title overwrites an earlier match.              *)
ResolveForgets(w) ==
    LET l == resolver[w].link IN
    /\ resolver[w].pc = "resolve"
    /\ \E result \in {"matched", "ignored"} :
         bindings' = [bindings EXCEPT ![l] =
             [match |-> IF result = "matched" THEN "matched" ELSE "error",
              skip  |-> result = "ignored"]]
    /\ tasks' = [tasks EXCEPT ![l] = Succeeded(tasks[l])]
    /\ Overtake(l)
    /\ cleanup' = Cleaned(w) /\ Rests(w)
    /\ UNCHANGED <<asked, missed, doubled, asks, recFaults>>

(* A match is bound; a title that the rules reject ends the task as well   *)
(* and leaves an earlier match in place.                                   *)
Resolve(w) ==
    LET l == resolver[w].link IN
    /\ resolver[w].pc = "resolve"
    /\ \E result \in {"matched", "ignored"} :
         bindings' = [bindings EXCEPT ![l] =
             [match |-> IF result = "matched" \/ resolver[w].had THEN "matched"
                        ELSE "error",
              skip  |-> result = "ignored"]]
    /\ tasks' = [tasks EXCEPT ![l] = Succeeded(tasks[l])]
    /\ Overtake(l)
    /\ cleanup' = Cleaned(w) /\ Rests(w)
    /\ UNCHANGED <<asked, missed, doubled, asks, recFaults>>

(* The resolver raises: inside its handler the transaction is rolled back, *)
(* with the claim and the retention run; outside of it (the link is gone)  *)
(* the caller rolls back.                                                  *)
ResolveRaises(w) ==
    /\ resolver[w].pc = "resolve"
    /\ \E pc \in {"rolled", "raised"} :
         resolver' = [resolver EXCEPT ![w].pc = pc, ![w].cleaned = FALSE]
    /\ UNCHANGED <<tasks, bindings, asker, cleanup, asked, missed, doubled, asks,
                   recFaults>>

Failed(row) ==
    LET n == IF row.tries < MaxTries THEN row.tries + 1 ELSE row.tries IN
    [row EXCEPT !.tries = n,
                !.status = IF n >= MaxTries THEN "failed" ELSE "retry",
                !.retryAt = IF n >= MaxTries THEN "unset" ELSE "ahead"]

(* The error is written to the row as it is now.  The match is preserved   *)
(* when the binding was matched before the rollback.                       *)
WriteError(w) ==
    LET l == resolver[w].link IN
    /\ resolver[w].pc \in {"rolled", "raised"} /\ ~Locked(l)
    /\ tasks' = [tasks EXCEPT ![l] = Failed(tasks[l])]
    /\ bindings' = IF resolver[w].pc = "raised" THEN bindings
                   ELSE [bindings EXCEPT ![l] =
                     [match |-> IF resolver[w].had THEN bindings[l].match
                                ELSE "error",
                      skip  |-> FALSE]]
    /\ Overtake(l)
    /\ Rests(w)
    /\ UNCHANGED <<cleanup, asked, missed, doubled, asks, recFaults>>

(* The process dies or the iteration raises: nothing of it is left.        *)
LoseResolver(w) ==
    /\ recFaults < MaxRecFaults /\ resolver[w].pc # "idle"
    /\ Rests(w)
    /\ recFaults' = recFaults + 1
    /\ UNCHANGED <<tasks, bindings, asker, cleanup, asked, missed, doubled, asks>>

RetryTimePasses(l) ==
    /\ tasks[l].retryAt = "ahead"
    /\ tasks' = [tasks EXCEPT ![l].retryAt = "passed"]
    /\ UNCHANGED <<bindings, resolver, asker, cleanup, asked, missed, doubled,
                   asks, recFaults>>

ResolverSteps(w) ==
    \/ Iterate(w) \/ ClaimNoTask(w) \/ \E l \in Links : ClaimTask(w, l)
    \/ Resolve(w) \/ ResolveRaises(w) \/ WriteError(w)

RecognitionNext ==
    \/ \E c \in Askers :
         AskCommits(c) \/ \E l \in Links, p \in Priorities : AskReads(c, l, p)
    \/ \E w \in Resolvers : ResolverSteps(w) \/ LoseResolver(w)
    \/ \E l \in Links : RetryTimePasses(l)

RecognitionSpec == RecognitionInit /\ [][RecognitionNext]_recVars

(* The worker's loop runs (its unit is restarted), requests finish and     *)
(* time passes.                                                            *)
RecognitionFairness ==
    /\ \A w \in Resolvers : WF_recVars(ResolverSteps(w))
    /\ \A c \in Askers : WF_recVars(AskCommits(c))
    /\ \A l \in Links : WF_recVars(RetryTimePasses(l))

(***************************************************************************)
(* Properties                                                              *)
(***************************************************************************)
(* An accepted request (enqueue_recognition_tasks) is still to be claimed, *)
(* unless its transaction overlapped with the worker's: then only the      *)
(* columns that differ from what was read are written and the task may     *)
(* stay done or failed.                                                    *)
AcceptedIsQueued ==
    \A l \in asked \ missed :
        tasks[l].status = "queued"

(* A task that waits for a retry has a time for it and tries left, whatever *)
(* columns a request has merged into the row; otherwise no claim would     *)
(* ever select it (claim_next_recognition_task).  Two workers at a link    *)
(* may write an error over an outcome, which takes the time away.          *)
RetryComes ==
    \A l \in Links :
        /\ tasks[l].status = "retry" =>
              tasks[l].tries < MaxTries /\ (tasks[l].retryAt # "unset" \/ l \in doubled)
        /\ tasks[l].status = "queued" => tasks[l].tries = 0

(* Requests and retries both come to an end: the two together.             *)
RequestsAreKept == AcceptedIsQueued /\ RetryComes

(* A binding that was matched stays matched (_apply_preserved_binding_error) *)
(* unless two workers were at the link.                                    *)
MatchStays == [][
    \A l \in Links : bindings[l].match = "matched" =>
        bindings'[l].match = "matched" \/ l \in doubled ]_recVars

(* A link that was accepted is claimed once requests stop coming, and the  *)
(* retention run, which a failing resolver rolls back, is recorded in the  *)
(* end.                                                                    *)
AskedIsServed ==
    /\ \A l \in Links : l \in asked ~> (l \notin asked \/ l \in missed)
    /\ cleanup = "due" ~> cleanup = "done"
=============================================================================
