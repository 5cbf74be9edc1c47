------------------------------ MODULE LinkCatalog ------------------------------
(***************************************************************************)
(* The catalogue of one link target: the messages that carry the link,     *)
(* their references to the target, the clicks on a reference, the daily    *)
(* statistic of the clicks, and the target itself, which goes when nothing *)
(* refers to it.                                                           *)
(*                                                                         *)
(* Transactions of several statements write it: the handlers of the        *)
(* monitor, which save a message and index it; the API, whose requests     *)
(* index a message when it is read, record a click, take a link off a      *)
(* message or delete a message; and the deduplication, which deletes.  The *)
(* statistic is that of one day: when its click events are old enough they *)
(* are thrown away, and the statistic, which is kept longer, stays.        *)
(* Statements see what was committed before them (READ COMMITTED), wait    *)
(* for locked rows, and fail on a foreign key or a unique constraint.      *)
(***************************************************************************)
EXTENDS Integers, FiniteSets

CONSTANTS
    Messages,      \* messages that the monitor may save
    MaxClicks,     \* bound: clicks
    MaxCatalogOps  \* bound: other requests and passes

ASSUME LinkCatalogAssumption ==
    /\ IsFiniteSet(Messages) /\ "no_message" \notin Messages
    /\ MaxClicks \in Nat /\ MaxCatalogOps \in Nat

VARIABLES
    saved,      \* rows of messages, committed, as all the rows here
    linked,     \* the messages whose links name the target
    refs,       \* the messages that have a reference
    target,     \* the row of the target is there
    protected,  \* a transfer item, a replacement log or a task names it
    clicks,     \* click events of the reference of a message
    stat,       \* click_count of the daily statistic; 0: there is no row
    statRow,    \* identity of that row
    tx,         \* the transactions
    clickCount, \* history: clicks begun
    catalogOps, \* history: other requests and passes
    overlapped, \* history: two deletions ran at the same time
    expired,    \* the day's click events have been thrown away
    counted,    \* history: how many they were
    released    \* history: the target lost what protected it when nothing else
                \* named it, or when a deletion was at the last that did

catalogVars == <<saved, linked, refs, target, protected, clicks, stat, statRow,
                 tx, clickCount, catalogOps, overlapped, expired, counted,
                 released>>

Savers  == {"handler_1", "handler_2"}
Actors  == Savers \cup {"api", "dedup"}
NoMsg   == "no_message"
Nothing == [op |-> "none", msg |-> NoMsg, at |-> "begin", target |-> "none",
            stat |-> "none", row |-> 0, count |-> 0, had |-> FALSE]
Deletions == {"delete", "unlink"}

CatalogTypeOK ==
    /\ saved \subseteq Messages /\ linked \subseteq Messages /\ refs \subseteq Messages
    /\ target \in BOOLEAN /\ protected \in BOOLEAN
    /\ clicks \in [Messages -> 0..MaxClicks] /\ stat \in Nat /\ statRow \in Nat
    /\ tx \in [Actors -> [
          op: {"none", "save", "index", "click"} \cup Deletions,
          msg: Messages \cup {NoMsg},
          at: {"begin", "refs", "stats", "blocked", "count", "insert", "purge",
               "drop", "end", "seen", "missing", "upsert"},
          target: {"none", "share", "insert", "delete"},
          stat: {"none", "update", "delete"},
          row: Nat, count: Nat, had: BOOLEAN]]
    /\ clickCount \in 0..MaxClicks /\ catalogOps \in 0..MaxCatalogOps
    /\ overlapped \in BOOLEAN /\ expired \in BOOLEAN /\ counted \in Nat
    /\ released \in BOOLEAN

CatalogInit ==
    /\ saved = {} /\ linked = {} /\ refs = {} /\ target = FALSE
    /\ protected = FALSE /\ expired = FALSE /\ counted = 0 /\ released = FALSE
    /\ clicks = [m \in Messages |-> 0] /\ stat = 0 /\ statRow = 0
    /\ tx = [a \in Actors |-> Nothing]
    /\ clickCount = 0 /\ catalogOps = 0 /\ overlapped = FALSE

(* The click events of some messages.                                      *)
ClicksOn(S) == {c \in S \X (1..MaxClicks) : c[2] <= clicks[c[1]]}

Others(a)  == Actors \ {a}
Holds(b, field, kinds) == tx[b][field] \in kinds
Free(a, field, kinds)  == \A b \in Others(a) : ~Holds(b, field, kinds)

Is(a, ops, at)   == tx[a].op \in ops /\ tx[a].at = at
To(a, at)        == tx' = [tx EXCEPT ![a].at = at]
Rows             == <<saved, linked, refs, target, protected, clicks, stat, statRow,
                      expired>>
Bounds           == <<clickCount, catalogOps>>
Histories        == <<Bounds, overlapped, counted, released>>

(* Another transaction has deleted the reference of message m, or has       *)
(* inserted a row that refers to it.                                       *)
Deleting(a, m) == \E b \in Others(a) : tx[b].op \in Deletions /\ tx[b].msg = m
                                        /\ tx[b].had /\ tx[b].at # "begin"
Clicking(a, m) == \E b \in Others(a) : tx[b].op = "click" /\ tx[b].msg = m
Indexing(a, m) == \E b \in Others(a) : Is(b, {"index"}, "end") /\ tx[b].msg = m
Editing(a, m)  == \E b \in Others(a) : tx[b].op = "unlink" /\ tx[b].msg = m

Rollback(a) == tx' = [tx EXCEPT ![a] = Nothing] /\ UNCHANGED <<Rows, Histories>>

Starts(a, op, m) ==
    /\ tx[a] = Nothing
    /\ tx' = [tx EXCEPT ![a] = [Nothing EXCEPT !.op = op, !.msg = m]]
    /\ UNCHANGED Rows

(***************************************************************************)
(* Saving and indexing                                                     *)
(***************************************************************************)
SaveStarts(a, m) ==
    /\ m \notin saved \cup linked /\ Starts(a, "save", m)
    /\ \A b \in Others(a) : tx[b].msg # m
    /\ UNCHANGED Histories

IndexStarts(m) ==
    /\ m \in (saved \cap linked) \ refs /\ Starts("api", "index", m)
    /\ catalogOps < MaxCatalogOps /\ catalogOps' = catalogOps + 1
    /\ UNCHANGED <<clickCount, overlapped, counted, released>>

(* _ensure_link_target: the target is looked up.                           *)
LooksUp(a) ==
    /\ Is(a, {"save", "index"}, "begin") /\ To(a, IF target THEN "seen" ELSE "missing")
    /\ UNCHANGED <<Rows, Histories>>

(* A reference needs the rows it names; an insert of the target waits for  *)
(* another one.                                                            *)
Refers(a) ==
    LET m == tx[a].msg
        fits == (tx[a].at = "seen" <=> target) /\ (tx[a].op = "index" => m \in saved \ refs) IN
    /\ tx[a].op \in {"save", "index"} /\ tx[a].at \in {"seen", "missing"}
    /\ Free(a, "target", {"delete", "insert"})
    /\ IF fits
       THEN /\ tx' = [tx EXCEPT ![a].at = "end",
                                ![a].target = IF target THEN "share" ELSE "insert"]
            /\ UNCHANGED <<Rows, Histories>>
       ELSE IF tx[a].op = "save"
       THEN To(a, "end") /\ UNCHANGED <<Rows, Histories>>
       ELSE Rollback(a)

(* What the savepoint lost is missing when the message is committed.       *)
IndexCommits(a) ==
    LET m == tx[a].msg IN
    /\ Is(a, {"save", "index"}, "end")
    /\ saved' = saved \cup {m}
    /\ linked' = (IF tx[a].op = "save" THEN linked \cup {m} ELSE linked)
    /\ IF tx[a].target = "none" THEN UNCHANGED <<refs, target>>
       ELSE refs' = refs \cup {m} /\ target' = TRUE
    /\ tx' = [tx EXCEPT ![a] = Nothing]
    /\ UNCHANGED <<protected, clicks, stat, statRow, expired, Histories>>

(***************************************************************************)
(* A click                                                                 *)
(***************************************************************************)
(* The insert of the event waits for who deletes its reference.            *)
ClickStarts(m) ==
    /\ m \in refs /\ ~expired
    /\ clickCount < MaxClicks /\ clickCount' = clickCount + 1
    /\ ~Deleting("api", m) /\ tx["api"] = Nothing
    /\ tx' = [tx EXCEPT !["api"] =
                [Nothing EXCEPT !.op = "click", !.msg = m, !.target = "share"]]
    /\ UNCHANGED Rows
    /\ UNCHANGED <<catalogOps, overlapped, counted, released>>

(* ON CONFLICT DO UPDATE waits for whoever has the row, or its key.        *)
Upserts ==
    /\ Is("api", {"click"}, "begin") /\ Free("api", "stat", {"update", "delete"})
    /\ tx' = [tx EXCEPT !["api"].at = "end", !["api"].stat = "update"]
    /\ UNCHANGED <<Rows, Histories>>

ClickCommits ==
    LET m == tx["api"].msg IN
    /\ Is("api", {"click"}, "end")
    /\ clicks' = [clicks EXCEPT ![m] = @ + 1]
    /\ stat' = stat + 1 /\ statRow' = (IF stat = 0 THEN statRow + 1 ELSE statRow)
    /\ tx' = [tx EXCEPT !["api"] = Nothing]
    /\ UNCHANGED <<saved, linked, refs, target, protected, expired, Histories>>

(***************************************************************************)
(* Deletion of a message, or of the reference it has no link for any more  *)
(***************************************************************************)
DeletionStarts(a, op, m) ==
    /\ a = "api" \/ (a = "dedup" /\ op = "delete")
    /\ m \in saved /\ (op = "unlink" => m \in linked) /\ tx[a] = Nothing
    /\ tx' = [tx EXCEPT ![a] = [Nothing EXCEPT !.op = op, !.msg = m, !.had = m \in refs,
                                  !.at = IF m \in refs THEN "begin" ELSE "end"]]
    /\ UNCHANGED Rows
    /\ catalogOps < MaxCatalogOps /\ catalogOps' = catalogOps + 1
    /\ overlapped' = (overlapped \/ \E b \in Others(a) : tx[b].op \in Deletions)
    /\ UNCHANGED <<clickCount, counted, released>>

(* The events go first; of a click that is not committed they know nothing. *)
DeletesEvents(a) ==
    /\ Is(a, Deletions, "begin") /\ ~Deleting(a, tx[a].msg)
    /\ tx' = [tx EXCEPT ![a].at = "refs", ![a].count = clicks[tx[a].msg]]
    /\ UNCHANGED <<Rows, Histories>>

(* The reference then waits for that click, and its event keeps it.        *)
DeletesRefs(a) ==
    LET m == tx[a].msg IN
    /\ Is(a, Deletions, "refs") /\ ~Clicking(a, m)
    /\ IF clicks[m] > tx[a].count THEN Rollback(a)
       ELSE To(a, "stats") /\ UNCHANGED <<Rows, Histories>>

(* The DELETE of the statistic waits for the row it found; the row that    *)
(* replaced that one meanwhile it does not see.                            *)
DeletesStat(a) ==
    /\ Is(a, Deletions, "stats")
    /\ tx' = [tx EXCEPT
         ![a].row = statRow,
         ![a].at = IF stat > 0 /\ ~Free(a, "stat", {"update", "delete"})
                   THEN "blocked" ELSE "count",
         ![a].stat = IF stat > 0 /\ Free(a, "stat", {"update", "delete"})
                     THEN "delete" ELSE "none"]
    /\ UNCHANGED <<Rows, Histories>>

StatUnblocks(a) ==
    /\ Is(a, Deletions, "blocked") /\ Free(a, "stat", {"update", "delete"})
    /\ tx' = [tx EXCEPT ![a].at = "count",
         ![a].stat = IF stat > 0 /\ statRow = tx[a].row THEN "delete" ELSE "none"]
    /\ UNCHANGED <<Rows, Histories>>

(* Sensitivity: the clicks of the deleted message are counted too.         *)
RemainingAll(a) == Cardinality(ClicksOn(Messages))

(* The clicks that are left, as this statement sees them.                  *)
Remaining(a) == Cardinality(ClicksOn(Messages \ {tx[a].msg}))

Recounts(a) ==
    /\ Is(a, Deletions, "count")
    /\ tx' = [tx EXCEPT ![a].at = IF Remaining(a) = 0 THEN "purge" ELSE "insert",
                        ![a].count = Remaining(a)]
    /\ UNCHANGED <<Rows, Histories>>

InsertsStat(a) ==
    /\ Is(a, Deletions, "insert") /\ Free(a, "stat", {"update", "delete"})
    /\ IF stat > 0 /\ tx[a].stat # "delete" THEN Rollback(a)
       ELSE /\ tx' = [tx EXCEPT ![a].at = "purge", ![a].stat = "delete"]
            /\ UNCHANGED <<Rows, Histories>>

Orphaned(a) == refs \subseteq {tx[a].msg} /\ Remaining(a) = 0 /\ ~protected

Purges(a) ==
    /\ Is(a, Deletions, "purge") /\ To(a, IF Orphaned(a) THEN "drop" ELSE "end")
    /\ UNCHANGED <<Rows, Histories>>

(* The DELETE of an orphan's statistic and of its row waits for who refers *)
(* to it, and fails when that has been committed.                          *)
Drops(a) ==
    /\ Is(a, Deletions, "drop") /\ Free(a, "target", {"share", "insert", "delete"})
    /\ Free(a, "stat", {"update", "delete"})
    /\ IF target /\ ~Orphaned(a) THEN Rollback(a)
       ELSE /\ tx' = [tx EXCEPT ![a].at = "end", ![a].count = 0, ![a].stat = "delete",
                                ![a].target = IF target THEN "delete" ELSE "none"]
            /\ UNCHANGED <<Rows, Histories>>

(* The row of the message goes last; a reference that was made meanwhile   *)
(* keeps it, and a link cannot be taken off a message that is gone.        *)
DeletionCommits(a) ==
    LET m == tx[a].msg IN
    /\ Is(a, Deletions, "end") /\ ~Indexing(a, m) /\ ~Editing(a, m)
    /\ IF (m \notin saved /\ a = "api") \/ (m \in refs /\ ~tx[a].had) THEN Rollback(a)
       ELSE /\ saved' = (IF tx[a].op = "delete" THEN saved \ {m} ELSE saved)
            /\ linked' = (IF tx[a].op = "unlink" THEN linked \ {m} ELSE linked)
            /\ refs' = refs \ {m} /\ clicks' = [clicks EXCEPT ![m] = 0]
            /\ target' = (target /\ tx[a].target # "delete")
            /\ IF tx[a].stat = "delete" THEN stat' = tx[a].count /\ statRow' = statRow + 1
               ELSE UNCHANGED <<stat, statRow>>
            /\ tx' = [tx EXCEPT ![a] = Nothing]
            /\ released' = (released /\ target')
            /\ UNCHANGED <<protected, expired, Bounds, overlapped, counted>>

(* An error elsewhere in the transaction, or the end of the process.       *)
Aborts(a) == tx[a] # Nothing /\ Rollback(a)

(***************************************************************************)
(* What others do to the target                                            *)
(***************************************************************************)
(* A transfer item, a replacement log or a task that names the target: its *)
(* insert waits for who deletes the target.                                *)
Protects ==
    /\ target /\ ~protected /\ \A b \in Actors : ~Holds(b, "target", {"delete"})
    /\ catalogOps < MaxCatalogOps /\ catalogOps' = catalogOps + 1
    /\ protected' = TRUE
    /\ UNCHANGED <<saved, linked, refs, target, clicks, stat, statRow, expired, tx,
                   clickCount, overlapped, counted, released>>

(* delete_pan_transfer_batch deletes the rows that name the target, and    *)
(* looks no further.                                                       *)
Unprotects ==
    /\ protected /\ protected' = FALSE
    /\ released' = (released \/ refs = {}
                    \/ \E a \in Actors : tx[a].op \in Deletions /\ refs = {tx[a].msg})
    /\ UNCHANGED <<saved, linked, refs, target, clicks, stat, statRow, expired, tx,
                   Bounds, overlapped, counted>>

(* run_resource_ops_retention, months after the last click of the day: it  *)
(* waits for who deletes some of the events.                               *)
EventsExpire ==
    /\ ~expired /\ expired' = TRUE /\ tx["api"].op # "click"
    /\ \A a \in Actors : tx[a].op \in Deletions /\ tx[a].had /\ tx[a].at # "begin" =>
                          clicks[tx[a].msg] = 0
    /\ clicks' = [m \in Messages |-> 0]
    /\ counted' = Cardinality(ClicksOn(Messages))
    /\ UNCHANGED <<saved, linked, refs, target, protected, stat, statRow, tx, Bounds,
                   overlapped, released>>

CatalogNext ==
    \/ \E m \in Messages : IndexStarts(m) \/ ClickStarts(m)
                           \/ \E a \in Savers : SaveStarts(a, m)
    \/ \E a \in Savers \cup {"api"} : LooksUp(a) \/ Refers(a) \/ IndexCommits(a)
    \/ Upserts \/ ClickCommits
    \/ \E a \in {"api", "dedup"} :
         \/ \E op \in Deletions, m \in Messages : DeletionStarts(a, op, m)
         \/ DeletesEvents(a) \/ DeletesRefs(a) \/ DeletesStat(a) \/ StatUnblocks(a)
         \/ Recounts(a) \/ InsertsStat(a) \/ Purges(a) \/ Drops(a) \/ DeletionCommits(a)
    \/ Protects \/ Unprotects \/ EventsExpire
    \/ \E a \in Actors : Aborts(a)

CatalogSpec == CatalogInit /\ [][CatalogNext]_catalogVars

(***************************************************************************)
(* Properties                                                              *)
(***************************************************************************)
(* The daily statistic counts the clicks there are: clicks are counted up  *)
(* by one transaction while others delete events and count them anew.  Two *)
(* deletions that overlap may both miss what the other one deletes.  Once  *)
(* the events have been thrown away it says how many there were, until a   *)
(* deletion counts anew, which leaves nothing of it.                       *)
StatMatchesClicks ==
    \/ stat = Cardinality(ClicksOn(Messages)) /\ ~expired
    \/ stat \in {0, counted} /\ expired
    \/ overlapped

(* A target that nothing names any more is gone, again unless deletions    *)
(* overlapped: each of them then takes the reference of the other one for  *)
(* one that stays.  A target that only a transfer named stays when its     *)
(* batch is deleted (delete_pan_transfer_batch).                           *)
TargetIsReferenced ==
    target /\ ~protected => refs # {} \/ released \/ overlapped

(* The catalogue agrees with the messages and the clicks.                  *)
CatalogAgrees == StatMatchesClicks /\ TargetIsReferenced
=============================================================================
