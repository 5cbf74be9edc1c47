------------------------------ MODULE PublishRecords ------------------------------
(***************************************************************************)
(* Publish records: an administrator's message in the public feed, the     *)
(* record that remembers the messages of one resource, the rule that       *)
(* publishes it again, and the ways to take it down.                       *)
(*                                                                         *)
(* Handlers of the API run one at a time on its event loop and give it up  *)
(* only where they await a provider or a validation.  What a handler read  *)
(* before that is what it writes back, the JSON of a row as a whole; it    *)
(* also keeps the locks of what it has inserted.  The worker is another    *)
(* process.                                                                *)
(***************************************************************************)
EXTENDS Integers, Sequences, FiniteSets

CONSTANTS
    PublishTargets, \* link targets that are published by hand
    PublishItems,   \* batch items that are published
    Waiters,        \* requests, or transactions of the worker, that can wait
    HistoryLimit,   \* publish_history[-50:]
    MaxRecords,     \* bound: rows of pan_transfer_publish_records
    MaxMessages,    \* bound: messages published
    MaxSlots,       \* bound: times of a publish rule that come
    MaxPublishOps   \* bound: requests other than publishing

ASSUME PublishAssumption ==
    /\ PublishTargets \cap PublishItems = {}
    /\ HistoryLimit \in Nat \ {0} /\ MaxRecords \in Nat /\ MaxMessages \in Nat
    /\ MaxSlots \in Nat /\ MaxPublishOps \in Nat

VARIABLES
    records,    \* publish records by id
    made,       \* ids given out
    feed,       \* messages that are online
    published,  \* messages published so far; also the clock of published_at
    directory,  \* what became of the drive directory and the row of an item
    waiting,    \* handlers that await something
    frozen,     \* the event loop waits for a row lock of a handler that waits
    slot,       \* times of the rules that have come
    publishOps  \* history: requests other than publishing

publishVars == <<records, made, feed, published, directory, waiting, frozen,
                 slot, publishOps>>

RecordIds == 1..MaxRecords
Resources == PublishTargets \cup PublishItems
Lifecycle    == {"active", "archived", "offline", "reclaimed"}

(* A time in the JSON: isoformat() + "Z" of a naive time can be read back  *)
(* once, as an aware time; written again it ends in two, "+00:00Z".        *)
Texts  == [suffix: {"null", "Z", "twice"}, at: 0..MaxSlots + 1]
NoText == [suffix |-> "null", at |-> 0]
Rules  == [on: BOOLEAN, next: Texts]
Extras == [key: Resources, state: Lifecycle, rule: Rules, share: BOOLEAN,
           hist: UNION {[1..n -> 1..MaxMessages] : n \in 0..HistoryLimit}]
Record == [alive: BOOLEAN, resource: Resources, extra: Extras,
           message: 0..MaxMessages, at: 0..MaxMessages]

(* What a handler that waits has read: the JSON of some records.           *)
ReadingOf(S) == [op: {"none", "validate", "refresh", "reclaim", "sync"},
                 record: 0..MaxRecords, seen: [S -> Extras], called: BOOLEAN]
NotWaiting == [op |-> "none", record |-> 0, seen |-> <<>>, called |-> FALSE]
SeenBy(w)  == DOMAIN waiting[w].seen

PublishTypeOK ==
    /\ records \in [1..made -> Record] /\ made \in 0..MaxRecords
    /\ feed \subseteq 1..published /\ published \in 0..MaxMessages
    /\ directory \in [PublishItems -> {"kept", "gone", "unlisted"}]
    /\ waiting \in [Waiters -> {waiting[w] : w \in Waiters}]
    /\ \A w \in Waiters : waiting[w] \in ReadingOf(SeenBy(w)) /\ SeenBy(w) \subseteq 1..made
    /\ frozen \in BOOLEAN /\ slot \in 0..MaxSlots /\ publishOps \in Nat

PublishInit ==
    /\ records = <<>> /\ made = 0 /\ feed = {} /\ published = 0
    /\ directory = [i \in PublishItems |-> "kept"]
    /\ waiting = [w \in Waiters |-> NotWaiting]
    /\ frozen = FALSE /\ slot = 0 /\ publishOps = 0

(***************************************************************************)
(* Times, groups and lifecycle                                             *)
(***************************************************************************)
(* What parsing a written time gives, and writing that again.              *)
ReadTime(text) == IF text.suffix = "Z" THEN "aware" ELSE "none"
Rewritten(text) ==
    IF ReadTime(text) = "none" THEN NoText ELSE [text EXCEPT !.suffix = "twice"]
ParsedRule(rule) == [rule EXCEPT !.next = Rewritten(rule.next)]
SetFor(on) == [on |-> on, next |-> IF on THEN [suffix |-> "Z", at |-> slot + 1]
                                   ELSE NoText]

Alive      == {r \in 1..made : records[r].alive}
IsItem(r)  == records[r].resource \in PublishItems
NewestOf(S) == CHOOSE r \in S : \A q \in S : records[q].at <= records[r].at
Group(r) ==
    IF IsItem(r)
    THEN {q \in Alive : records[q].resource = records[r].resource}
    ELSE {q \in Alive : ~IsItem(q) /\ records[q].extra.key = records[r].extra.key}

Priority(state) == CASE state = "active" -> 0 [] state = "archived" -> 1
                     [] state = "offline" -> 2 [] state = "reclaimed" -> 3

(* Sensitivity: the requested state is taken whatever the row says.        *)
TransitionTaken(now, requested) == requested

Transition(now, requested) ==
    IF Priority(requested) < Priority(now) THEN now ELSE requested

Retired(extra, requested) ==
    LET state == Transition(extra.state, requested) IN
    [extra EXCEPT !.state = state, !.share = (extra.share /\ state # "reclaimed")]

MessagesOf(extra, message) ==
    {extra.hist[n] : n \in DOMAIN extra.hist} \cup ({message} \ {0})

Op == ~frozen /\ publishOps < MaxPublishOps /\ publishOps' = publishOps + 1
Sync == publishOps < MaxPublishOps /\ publishOps' = publishOps + 1

(***************************************************************************)
(* Publishing                                                              *)
(***************************************************************************)
(* The record a publication goes to: an item has one, a target any active  *)
(* one.                                                                    *)
Existing(k) ==
    {r \in Alive : records[r].resource = k
                   /\ (k \in PublishTargets => records[r].extra.state = "active")}

Appended(hist, m) ==
    IF Len(hist) = HistoryLimit THEN Append(Tail(hist), m) ELSE Append(hist, m)

(* "given" is the JSON that the caller puts into a record there is; the     *)
(* rule of the record is kept.                                             *)
Publish(k, blank, given) ==
    LET m == published + 1
        old == Existing(k)
        Stored(extra) ==
            [extra EXCEPT !.key = k, !.state = "active",
                          !.hist = Appended(extra.hist, m),
                          !.rule = IF extra.rule.on THEN SetFor(TRUE) ELSE extra.rule]
        Row(extra) == [alive |-> TRUE, resource |-> k, extra |-> Stored(extra),
                       message |-> m, at |-> m]
        Kept(r) == [given[r] EXCEPT
                      !.rule = ParsedRule(records[r].extra.rule)] IN
    /\ published < MaxMessages
    /\ published' = m /\ feed' = feed \cup {m}
    /\ IF old = {}
       THEN /\ made < MaxRecords /\ made' = made + 1
            /\ records' = Append(records, Row(blank))
       ELSE /\ records' = [records EXCEPT ![NewestOf(old)] = Row(Kept(NewestOf(old)))]
            /\ UNCHANGED made
    /\ UNCHANGED <<directory, waiting, frozen, slot>>

Blank(k, share) ==
    [key |-> k, state |-> "active", hist |-> <<>>, share |-> share,
     rule |-> [on |-> FALSE, next |-> NoText]]

Extra(r) == records[r].extra

PublishManual(k) ==
    /\ ~frozen /\ Publish(k, Blank(k, FALSE), [r \in Existing(k) |-> Extra(r)])
    /\ UNCHANGED publishOps

PublishItem(i) ==
    LET share == directory[i] = "kept"
        given == [r \in Existing(i) |-> [Extra(r) EXCEPT !.share = share]] IN
    /\ ~frozen /\ directory[i] # "unlisted"
    /\ Publish(i, Blank(i, share), given) /\ UNCHANGED publishOps

(* The JSON of the row is given as a whole, to whatever record is found.   *)
Again(r) ==
    LET k == records[r].resource IN
    Publish(k, Extra(r), [q \in Existing(k) |-> Extra(r)])

Republish(r) == ~frozen /\ Again(r) /\ UNCHANGED publishOps

(* process_next_pan_transfer_publish_rule: the rule is parsed, which writes *)
(* its times again, and the time is parsed once more.  Comparing an aware   *)
(* time with utcnow() would raise.                                          *)
RuleTime(r) == ReadTime(ParsedRule(records[r].extra.rule).next)
IsDue(r) ==
    /\ records[r].extra.state = "active"
    /\ \A q \in Group(r) : records[q].extra.state = "active"
                              => records[q].at <= records[r].at
    /\ records[r].extra.rule.on
    /\ RuleTime(r) = "naive" /\ records[r].extra.rule.next.at <= slot

WorkerTurn ==
    LET due == {r \in Alive : IsDue(r)}
        First(r) == \A q \in due :
            records[r].extra.rule.next.at <= records[q].extra.rule.next.at IN
    IF due = {} THEN UNCHANGED publishVars
    ELSE \E r \in due : First(r) /\ Again(r) /\ UNCHANGED publishOps

SlotComes ==
    /\ slot < MaxSlots /\ slot' = slot + 1
    /\ UNCHANGED <<records, made, feed, published, directory, waiting, frozen,
                   publishOps>>

(***************************************************************************)
(* Requests that do not wait                                               *)
(***************************************************************************)
Wrote(extras) ==
    records' = [r \in 1..made |-> IF r \in DOMAIN extras
                  THEN [records[r] EXCEPT !.extra = extras[r]] ELSE records[r]]

SetRule(r, on) ==
    /\ Op /\ Wrote([q \in {r} |-> [Extra(q) EXCEPT !.rule = SetFor(on)]])
    /\ UNCHANGED <<made, feed, published, directory, waiting, frozen, slot>>

(* The edited message gets another link; the record of a target follows it. *)
EditRecord(r, k) ==
    /\ Op /\ records[r].message \in feed
    /\ IF IsItem(r) THEN UNCHANGED records
       ELSE records' = [records EXCEPT ![r].resource = k, ![r].extra.key = k]
    /\ UNCHANGED <<made, feed, published, directory, waiting, frozen, slot>>

Archive(r) ==
    /\ Op /\ Wrote([q \in Group(r) |-> Retired(Extra(q), "archived")])
    /\ UNCHANGED <<made, feed, published, directory, waiting, frozen, slot>>

(* Messages are found by the JSON; the rows forget theirs.                 *)
TakenDown(extras, requested) ==
    /\ feed' = feed \ UNION {MessagesOf(extras[r], records[r].message) : r \in DOMAIN extras}
    /\ records' = [r \in 1..made |->
         IF r \in DOMAIN extras
         THEN [records[r] EXCEPT !.message = 0, !.extra = Retired(extras[r], requested)]
         ELSE records[r]]

ExtrasOf(S) == [r \in S |-> Extra(r)]

TakeOffline(r) ==
    /\ Op /\ TakenDown(ExtrasOf(Group(r)), "offline")
    /\ UNCHANGED <<made, published, directory, waiting, frozen, slot>>

DeleteRecord(r) ==
    /\ Op
    /\ records' = [q \in 1..made |-> [records[q] EXCEPT
                      !.alive = records[q].alive /\ q \notin Group(r)]]
    /\ UNCHANGED <<made, feed, published, directory, waiting, frozen, slot>>

(* Other parts delete messages: deduplication, the message list.           *)
MessageDeleted(m) ==
    /\ Sync /\ feed' = feed \ {m}
    /\ UNCHANGED <<records, made, published, directory, waiting, frozen, slot>>

(* The rows of a batch are deleted; the log a refresh has inserted and not  *)
(* committed locks its item, and the loop that would let it commit waits.   *)
Refreshing(i) == \E w \in Waiters : waiting[w].op = "refresh"
                                    /\ records[waiting[w].record].resource = i

DeleteBatch(i) ==
    /\ Op /\ directory[i] # "unlisted"
    /\ IF Refreshing(i) THEN frozen' = TRUE /\ UNCHANGED directory
       ELSE directory' = [directory EXCEPT ![i] = "unlisted"] /\ UNCHANGED frozen
    /\ UNCHANGED <<records, made, feed, published, waiting, slot>>

(***************************************************************************)
(* Requests that wait for a provider or a validation                       *)
(***************************************************************************)
Waits(w, op, r, S) ==
    /\ waiting[w] = NotWaiting
    /\ waiting' = [waiting EXCEPT ![w] =
         [op |-> op, record |-> r, seen |-> ExtrasOf(S),
          called |-> FALSE]]
    /\ UNCHANGED <<records, made, feed, published, directory, frozen, slot>>

ValidateBegins(w, r) == Op /\ Waits(w, "validate", r, {r})

RefreshBegins(w, r) ==
    /\ Op /\ IsItem(r) /\ records[r].message \in feed
    /\ directory[records[r].resource] = "kept"
    /\ Waits(w, "refresh", r, {r})

(* The hook of a follow sync, in the worker: no await, but the API runs     *)
(* beside it.                                                               *)
SyncBegins(w, r) ==
    /\ Sync /\ records[r].message \in feed
    /\ Waits(w, "sync", r, {r})

(* A resource that is reclaimed already is only taken down.                *)
ReclaimBegins(w, r) ==
    /\ Op /\ IsItem(r) /\ directory[records[r].resource] = "kept"
    /\ records[NewestOf(Group(r))].extra.state # "reclaimed"
    /\ Waits(w, "reclaim", r, Group(r))

ReclaimAgain(r) ==
    /\ Op /\ records[NewestOf(Group(r))].extra.state = "reclaimed"
    /\ TakenDown(ExtrasOf(Group(r)), "reclaimed")
    /\ UNCHANGED <<made, published, directory, waiting, frozen, slot>>

(* The provider deletes the directory; its answer is on the way.           *)
ProviderDeletes(w) ==
    LET i == records[waiting[w].record].resource IN
    /\ waiting[w].op = "reclaim" /\ ~waiting[w].called
    /\ waiting' = [waiting EXCEPT ![w].called = TRUE]
    /\ directory' = [directory EXCEPT ![i] = IF @ = "kept" THEN "gone" ELSE @]
    /\ UNCHANGED <<records, made, feed, published, frozen, slot, publishOps>>

Answered(w) == waiting' = [waiting EXCEPT ![w] = NotWaiting]
Seen(w, r)  == waiting[w].seen[r]

(* A row or an item that was deleted meanwhile fails the flush.            *)
StillThere(w) ==
    /\ SeenBy(w) \subseteq Alive
    /\ waiting[w].op \in {"refresh", "sync"} =>
          records[waiting[w].record].message \in feed

(* What was read before the wait is written back, with the new share.      *)
AnswerWrites(w) ==
    LET New(r) == [Seen(w, r) EXCEPT !.share = @ \/ waiting[w].op # "validate"] IN
    /\ waiting[w].op \in {"validate", "refresh", "sync"}
    /\ (waiting[w].op # "sync" => ~frozen) /\ StillThere(w)
    /\ Wrote([r \in SeenBy(w) |-> New(r)]) /\ Answered(w)
    /\ UNCHANGED <<made, feed, published, directory, frozen, slot, publishOps>>

(* Sensitivity: the records are retired although the directory is there.   *)
ReclaimWritesEarly(w) ==
    /\ waiting[w].op = "reclaim" /\ ~frozen /\ StillThere(w)
    /\ TakenDown(waiting[w].seen, "reclaimed") /\ Answered(w)
    /\ UNCHANGED <<made, published, directory, frozen, slot, publishOps>>

ReclaimWrites(w) ==
    /\ waiting[w].op = "reclaim" /\ waiting[w].called /\ ~frozen /\ StillThere(w)
    /\ directory[records[waiting[w].record].resource] # "unlisted"
    /\ TakenDown(waiting[w].seen, "reclaimed") /\ Answered(w)
    /\ UNCHANGED <<made, published, directory, frozen, slot, publishOps>>

(* The provider refuses, the validation fails, the flush fails, or the     *)
(* process dies: the transaction is rolled back.                           *)
AnswerFails(w) ==
    /\ waiting[w] # NotWaiting /\ (waiting[w].op # "sync" => ~frozen)
    /\ Answered(w)
    /\ UNCHANGED <<records, made, feed, published, directory, frozen, slot,
                   publishOps>>

ApiRestarts ==
    /\ frozen /\ frozen' = FALSE
    /\ waiting' = [w \in Waiters |-> IF waiting[w].op = "sync" THEN waiting[w]
                                     ELSE NotWaiting]
    /\ UNCHANGED <<records, made, feed, published, directory, slot, publishOps>>

PublishNext ==
    \/ \E k \in PublishTargets : PublishManual(k)
    \/ \E i \in PublishItems : PublishItem(i) \/ DeleteBatch(i)
    \/ \E r \in Alive :
         \/ Republish(r) \/ Archive(r) \/ TakeOffline(r) \/ DeleteRecord(r)
         \/ ReclaimAgain(r)
         \/ \E on \in BOOLEAN : SetRule(r, on)
         \/ \E k \in PublishTargets : EditRecord(r, k)
         \/ \E w \in Waiters : ValidateBegins(w, r) \/ RefreshBegins(w, r)
                               \/ SyncBegins(w, r) \/ ReclaimBegins(w, r)
    \/ \E w \in Waiters : ProviderDeletes(w) \/ AnswerWrites(w)
                          \/ ReclaimWrites(w) \/ AnswerFails(w)
    \/ \E m \in feed : MessageDeleted(m)
    \/ WorkerTurn \/ SlotComes \/ ApiRestarts

PublishSpec == PublishInit /\ [][PublishNext]_publishVars

(* The worker's loop turns and time passes.                                *)
PublishFairSpec == PublishSpec /\ WF_publishVars(WorkerTurn)
                               /\ WF_publishVars(SlotComes)

(***************************************************************************)
(* Properties                                                              *)
(***************************************************************************)
(* A record that says its resource is reclaimed (retire mode               *)
(* reclaim_resource) belongs to an item whose directory was deleted, or    *)
(* whose rows were: whatever waited, failed or was written back.           *)
ReclaimedIsGone ==
    \A r \in Alive : records[r].extra.state = "reclaimed" =>
        IsItem(r) /\ directory[records[r].resource] # "kept"

(* A record that was retired comes back only when it is published again or *)
(* by an answer that writes back what was read before it was retired.      *)
RetiredStays == [][
    \A r \in Alive :
        \/ Priority(records'[r].extra.state) >= Priority(records[r].extra.state)
        \/ records'[r].at # records[r].at
        \/ \E w \in Waiters : /\ r \in SeenBy(w) /\ waiting'[w] = NotWaiting
                              /\ Seen(w, r).state # records[r].extra.state
    ]_publishVars

(* An enabled rule publishes: its time does not pass for ever while there  *)
(* is room for a message (process_next_pan_transfer_publish_rule).         *)
RuleTimePassed(r) ==
    /\ r \in Alive /\ records[r].extra.rule.on
    /\ records[r].extra.state = "active" /\ records[r].extra.rule.next.at <= slot
    /\ published < MaxMessages

RulesPublish == \A r \in RecordIds : RuleTimePassed(r) ~> ~RuleTimePassed(r)
=============================================================================
