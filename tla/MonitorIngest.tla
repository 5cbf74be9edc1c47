----------------------------- MODULE MonitorIngest -----------------------------
(***************************************************************************)
(* The channel monitor: a process that keeps a mapping of the channels it  *)
(* listens to, refreshes it from the table now and then, and saves what is *)
(* posted; the administrator changes the table meanwhile, and a cleanup of *)
(* the API deletes messages and counts the channel's statistic anew.       *)
(*                                                                         *)
(* Handlers and the refresh loop are coroutines: what one has read before  *)
(* it waits is what it goes on with.                                       *)
(***************************************************************************)
EXTENDS Integers, FiniteSets

CONSTANTS
    ChannelKeys,     \* names of channels
    Posts,           \* messages that are posted
    MaxRows,         \* bound: rows of channels that are ever made
    MaxWrites,       \* monitor_db_write_max_retries
    MaxChannelEdits, \* bound: requests
    MaxIngestFaults  \* bound: errors and crashes

ASSUME MonitorIngestAssumption ==
    /\ "loop" \notin Posts /\ "nobody" \notin Posts \cup ChannelKeys
    /\ IsFiniteSet(Posts) /\ MaxWrites \in Nat \ {0}
    /\ {MaxRows, MaxChannelEdits, MaxIngestFaults} \subseteq Nat

VARIABLES
    channelRows,  \* channels by name: the id of the row, 0 for none, and profile
    rowsMade,     \* ids given out
    mapping,      \* channel_info of the process, with channel_ids and the names
    signature,    \* channel_signature
    refresher,    \* the refresh loop, and the refresh a handler waits for
    handler,      \* the handler of each post
    copies,       \* rows of messages that a post has
    channelStat,  \* message_count of the channel's day; 0: no row
    cleaner,      \* the cleanup of the API
    unanswered,   \* history: commits of a post whose answer was lost
    drifted,      \* history: channels whose statistic missed something
    channelEdits, ingestFaults

ingestVars == <<channelRows, rowsMade, mapping, signature, refresher, handler, copies,
                channelStat, cleaner, unanswered, drifted, channelEdits, ingestFaults>>

Profiles == {"default", "custom"}
RowState == [id: 0..MaxRows, profile: Profiles]
NoChannel    == [id |-> 0, profile |-> "default"]
(* id 0: the metadata did not have the channel, config_id is NULL.          *)
MappedState == [mapped: BOOLEAN, id: 0..MaxRows, profile: Profiles]
Unmapped    == [mapped |-> FALSE, id |-> 0, profile |-> "default"]

Waiting     == {"loop"} \cup Posts
Nobody      == "nobody"
RefreshIdle == [pc |-> "idle", latest |-> {}, rows |-> [k \in ChannelKeys |-> NoChannel],
                todo |-> {}, found |-> [k \in ChannelKeys |-> Unmapped], force |-> FALSE]
Unposted    == [pc |-> "none", key |-> Nobody, seen |-> Unmapped, tries |-> 0,
                counts |-> FALSE]
NotCleaning == [post |-> Nobody, count |-> 0, late |-> FALSE]
Ends        == {"saved", "skipped", "filtered", "logged", "unnamed", "killed"}

IngestTypeOK ==
    /\ channelRows \in [ChannelKeys -> RowState] /\ rowsMade \in 0..MaxRows
    /\ mapping \in [ChannelKeys -> MappedState] /\ signature \subseteq ChannelKeys
    /\ refresher \in [Waiting -> [
          pc: {"idle", "rows", "resolve"}, latest: SUBSET ChannelKeys,
          rows: [ChannelKeys -> RowState], todo: SUBSET ChannelKeys,
          found: [ChannelKeys -> MappedState], force: BOOLEAN]]
    /\ handler \in [Posts -> [
          pc: {"none", "chat", "refresh", "parse", "insert", "count", "commit"} \cup Ends,
          key: ChannelKeys \cup {Nobody}, seen: MappedState, tries: 0..MaxWrites,
          counts: BOOLEAN]]
    /\ copies \in [Posts -> 0..MaxWrites] /\ channelStat \in [ChannelKeys -> Nat]
    /\ cleaner \in [post: Posts \cup {Nobody}, count: Nat, late: BOOLEAN]
    /\ unanswered \in [Posts -> 0..MaxIngestFaults] /\ drifted \subseteq ChannelKeys
    /\ channelEdits \in 0..MaxChannelEdits /\ ingestFaults \in 0..MaxIngestFaults

(* The process starts with a forced refresh.                               *)
Starting == [w \in Waiting |-> IF w = "loop" THEN [RefreshIdle EXCEPT !.force = TRUE]
                               ELSE RefreshIdle]

IngestInit ==
    /\ channelRows = [k \in ChannelKeys |-> NoChannel] /\ rowsMade = 0
    /\ mapping = [k \in ChannelKeys |-> Unmapped] /\ signature = {}
    /\ refresher = Starting /\ handler = [p \in Posts |-> Unposted]
    /\ copies = [p \in Posts |-> 0] /\ channelStat = [k \in ChannelKeys |-> 0]
    /\ cleaner = NotCleaning
    /\ unanswered = [p \in Posts |-> 0] /\ drifted = {}
    /\ channelEdits = 0 /\ ingestFaults = 0

KnownKeys  == {k \in ChannelKeys : channelRows[k].id # 0}
MappedKeys == {k \in ChannelKeys : mapping[k].mapped}
PostsOf(k) == {p \in Posts : handler[p].key = k}
(* The messages that some posts have in the table.                         *)
RowsOf(S)  == {r \in S \X (1..MaxWrites) : r[2] <= copies[r[1]]}
CountOf(k) == Cardinality(RowsOf(PostsOf(k)))

Table     == <<channelRows, rowsMade, channelEdits>>
Listening == <<mapping, signature, refresher>>
Stored    == <<copies, channelStat, cleaner, unanswered, drifted>>

Errs == ingestFaults < MaxIngestFaults /\ ingestFaults' = ingestFaults + 1

(***************************************************************************)
(* The table of channels                                                   *)
(***************************************************************************)
Edits == channelEdits < MaxChannelEdits /\ channelEdits' = channelEdits + 1
         /\ UNCHANGED <<Listening, handler, Stored, ingestFaults>>

AddChannel(k) ==
    /\ Edits /\ k \notin KnownKeys /\ rowsMade < MaxRows
    /\ rowsMade' = rowsMade + 1
    /\ channelRows' = [channelRows EXCEPT ![k] = [NoChannel EXCEPT !.id = rowsMade + 1]]

SaveChannel(k, new, profile) ==
    /\ Edits /\ k \in KnownKeys /\ (new # k => new \notin KnownKeys)
    /\ channelRows' = [[channelRows EXCEPT ![k] = NoChannel] EXCEPT
                         ![new] = [id |-> channelRows[k].id, profile |-> profile]]
    /\ UNCHANGED rowsMade

(* Messages and statistics refer to the row and keep it, and a transaction *)
(* that has inserted one makes the request wait.                           *)
InTable(p) == handler[p].pc \in {"count", "commit"}
Referred(id) == \E p \in Posts :
    handler[p].seen.id = id /\ (copies[p] > 0 \/ InTable(p) \/ channelStat[handler[p].key] > 0)

DeleteChannel(k) ==
    /\ Edits /\ k \in KnownKeys /\ ~Referred(channelRows[k].id)
    /\ channelRows' = [channelRows EXCEPT ![k] = NoChannel] /\ UNCHANGED rowsMade

(***************************************************************************)
(* The mapping                                                             *)
(***************************************************************************)
Refreshes(w, r) == refresher' = [refresher EXCEPT ![w] = r]

(* The names are read, then the rows: two queries.  A handler's refresh is  *)
(* forced, and so is the first one of the process.                         *)
ReadsNames(w) ==
    /\ refresher[w].pc = "idle" /\ (w # "loop" => handler[w].pc = "refresh")
    /\ Refreshes(w, [refresher[w] EXCEPT !.pc = "rows", !.latest = KnownKeys])
    /\ UNCHANGED <<Table, mapping, signature, handler, Stored, ingestFaults>>

(* Sensitivity: only a change of the names asks for a refresh.             *)
NeededByName(r) == r.force \/ r.latest # signature

(* A name that could not be resolved asks for another refresh.             *)
Needed(r) == r.force \/ r.latest # signature \/ MappedKeys # r.latest

ReadsRows(w) ==
    LET r == [refresher[w] EXCEPT !.force = @ \/ w # "loop"] IN
    /\ refresher[w].pc = "rows"
    /\ Refreshes(w, IF Needed(r)
                    THEN [r EXCEPT !.pc = "resolve", !.todo = r.latest, !.rows = channelRows]
                    ELSE RefreshIdle)
    /\ UNCHANGED <<Table, mapping, signature, handler, Stored, ingestFaults>>

Resolves(w, k) ==
    LET r == refresher[w] IN
    /\ r.pc = "resolve" /\ k \in r.todo
    /\ Refreshes(w, [r EXCEPT !.todo = @ \ {k}, !.found[k] =
          [mapped |-> TRUE, id |-> r.rows[k].id, profile |-> r.rows[k].profile]])
    /\ UNCHANGED <<Table, mapping, signature, handler, Stored, ingestFaults>>

ResolveFails(w, k) ==
    /\ Errs /\ refresher[w].pc = "resolve" /\ k \in refresher[w].todo
    /\ Refreshes(w, [refresher[w] EXCEPT !.todo = @ \ {k}])
    /\ UNCHANGED <<Table, mapping, signature, handler, Stored>>

(* A handler looks for the name once more when its refresh has ended.      *)
Named(p, k, map, else) ==
    [handler[p] EXCEPT !.pc = IF map[k].mapped THEN "parse" ELSE else, !.seen = map[k]]

Maps(w) ==
    LET r == refresher[w] IN
    /\ r.pc = "resolve" /\ r.todo = {}
    /\ mapping' = r.found /\ signature' = r.latest
    /\ Refreshes(w, RefreshIdle)
    /\ handler' = IF w = "loop" THEN handler
                  ELSE [handler EXCEPT ![w] = Named(w, handler[w].key, r.found, "unnamed")]
    /\ UNCHANGED <<Table, Stored, ingestFaults>>

(***************************************************************************)
(* The handler of a post                                                   *)
(***************************************************************************)
Handles(p, pc) == handler' = [handler EXCEPT ![p].pc = pc]

Arrives(p, k) ==
    /\ handler[p].pc = "none"
    /\ handler' = [handler EXCEPT ![p].key = k,
                     ![p].pc = IF mapping[k].mapped THEN "chat" ELSE "skipped"]
    /\ UNCHANGED <<Table, Listening, Stored, ingestFaults>>

(* get_chat has answered; the channel may have been unmapped meanwhile.    *)
LooksUpName(p) ==
    /\ handler[p].pc = "chat"
    /\ handler' = [handler EXCEPT ![p] = Named(p, handler[p].key, mapping, "refresh")]
    /\ UNCHANGED <<Table, Listening, Stored, ingestFaults>>

Parses(p) ==
    /\ handler[p].pc = "parse" /\ (Handles(p, "insert") \/ Handles(p, "filtered"))
    /\ UNCHANGED <<Table, Listening, Stored, ingestFaults>>

(* get_chat, a forced refresh or the parser raises: a line in the log.     *)
HandlerRaises(p) ==
    /\ Errs /\ handler[p].pc \in {"chat", "refresh", "parse"} /\ Handles(p, "logged")
    /\ Refreshes(p, RefreshIdle)
    /\ UNCHANGED <<Table, mapping, signature, Stored>>

(* Sensitivity: one attempt too many.                                      *)
AttemptFailsLate(h) ==
    [h EXCEPT !.pc = IF h.tries = MaxWrites THEN "logged" ELSE "insert",
              !.tries = @ + 1, !.counts = FALSE]

(* Another attempt after a pause, or a line in the log of lost messages.   *)
AttemptFails(h) ==
    [h EXCEPT !.pc = IF h.tries = MaxWrites - 1 THEN "logged" ELSE "insert",
              !.tries = @ + 1, !.counts = FALSE]

(* The row of the channel has to be there (foreign key).                   *)
Inserts(p) ==
    LET id == handler[p].seen.id
        there == id = 0 \/ \E k \in ChannelKeys : channelRows[k].id = id IN
    /\ handler[p].pc = "insert"
    /\ handler' = [handler EXCEPT ![p] = IF there THEN [@ EXCEPT !.pc = "count"]
                                         ELSE AttemptFails(@)]
    /\ UNCHANGED <<Table, Listening, Stored, ingestFaults>>

CountsFor(k) == \E p \in PostsOf(k) : handler[p].pc = "commit" /\ handler[p].counts

(* The upsert waits for another one; an error is undone by the savepoint.  *)
Counts(p) ==
    /\ handler[p].pc = "count" /\ ~CountsFor(handler[p].key)
    /\ handler' = [handler EXCEPT ![p].pc = "commit", ![p].counts = TRUE]
    /\ UNCHANGED <<Table, Listening, Stored, ingestFaults>>

CountFails(p) ==
    /\ Errs /\ handler[p].pc = "count" /\ Handles(p, "commit")
    /\ UNCHANGED <<Table, Listening, Stored>>

Cleans(k) == \E p \in PostsOf(k) : cleaner.post = p

Committed(p) ==
    LET k == handler[p].key IN
    /\ copies' = [copies EXCEPT ![p] = @ + 1]
    /\ channelStat' = [channelStat EXCEPT ![k] = IF handler[p].counts THEN @ + 1 ELSE @]
    /\ drifted' = IF handler[p].counts THEN drifted ELSE drifted \cup {k}
    /\ cleaner' = [cleaner EXCEPT !.late = @ \/ Cleans(k)]

Commits(p) ==
    /\ handler[p].pc = "commit" /\ Committed(p) /\ Handles(p, "saved")
    /\ UNCHANGED <<Table, Listening, unanswered, ingestFaults>>

(* The connection breaks before the commit or with its answer.             *)
WriteFails(p) ==
    /\ Errs /\ handler[p].pc \in {"insert", "count", "commit"}
    /\ handler' = [handler EXCEPT ![p] = AttemptFails(@)]
    /\ UNCHANGED <<Table, Listening, Stored>>

AnswerLost(p) ==
    /\ Errs /\ handler[p].pc = "commit" /\ Committed(p)
    /\ handler' = [handler EXCEPT ![p] = AttemptFails(@)]
    /\ unanswered' = [unanswered EXCEPT ![p] = @ + 1]
    /\ UNCHANGED <<Table, Listening>>

(* The process dies and starts again; what is posted meanwhile is missed.  *)
MonitorDies ==
    /\ Errs
    /\ mapping' = [k \in ChannelKeys |-> Unmapped] /\ signature' = KnownKeys
    /\ refresher' = Starting
    /\ handler' = [p \in Posts |-> IF handler[p].pc \in {"none"} \cup Ends THEN handler[p]
                                   ELSE [handler[p] EXCEPT !.pc = "killed", !.counts = FALSE]]
    /\ UNCHANGED <<Table, Stored>>

(***************************************************************************)
(* Deletion of messages                                                    *)
(***************************************************************************)
(* apply_cleanup deletes a message and counts those there are ...          *)
CleanupReads(p) ==
    /\ cleaner = NotCleaning /\ copies[p] > 0
    /\ channelEdits < MaxChannelEdits /\ channelEdits' = channelEdits + 1
    /\ cleaner' = [NotCleaning EXCEPT !.post = p, 
        !.count = Cardinality(RowsOf(PostsOf(handler[p].key) \ {p}))]
    /\ UNCHANGED <<channelRows, rowsMade, Listening, handler, copies, channelStat,
                   unanswered, drifted, ingestFaults>>

(* Sensitivity: the row is not deleted before the count is added.          *)
ReplacedBy(k, n) == channelStat[k] + n

(* ... then replaces the statistic by what it has counted.                 *)
Replaced(k, n) == n

(* A row that a post has inserted meanwhile is not seen by the DELETE, and  *)
(* the savepoint undoes the insert that it conflicts with.                 *)
CleanupCommits ==
    LET p == cleaner.post
        k == handler[p].key IN
    /\ p # Nobody /\ ~CountsFor(k)
    /\ copies' = [copies EXCEPT ![p] = 0]
    /\ \/ channelStat' = [channelStat EXCEPT ![k] = Replaced(k, cleaner.count)]
       \/ cleaner.late /\ UNCHANGED channelStat
    /\ drifted' = IF cleaner.late THEN drifted \cup {k} ELSE drifted \ {k}
    /\ cleaner' = NotCleaning
    /\ UNCHANGED <<Table, Listening, handler, unanswered, ingestFaults>>

(* Other deletions do not count.                                           *)
MessageGoes(p) ==
    /\ copies[p] > 0 /\ cleaner.post # p
    /\ channelEdits < MaxChannelEdits /\ channelEdits' = channelEdits + 1
    /\ copies' = [copies EXCEPT ![p] = 0]
    /\ drifted' = drifted \cup {handler[p].key}
    /\ cleaner' = [cleaner EXCEPT !.late = @ \/ Cleans(handler[p].key)]
    /\ UNCHANGED <<channelRows, rowsMade, Listening, handler, channelStat, unanswered,
                   ingestFaults>>

RefreshSteps(w) == ReadsNames(w) \/ ReadsRows(w) \/ Maps(w)
                   \/ \E k \in ChannelKeys : Resolves(w, k)
HandlerSteps(p) == LooksUpName(p) \/ Parses(p) \/ Inserts(p) \/ Counts(p) \/ Commits(p)

IngestNext ==
    \/ \E k \in ChannelKeys :
         \/ AddChannel(k) \/ DeleteChannel(k)
         \/ \E new \in ChannelKeys, profile \in Profiles : SaveChannel(k, new, profile)
    \/ \E w \in Waiting : RefreshSteps(w) \/ \E k \in ChannelKeys : ResolveFails(w, k)
    \/ \E p \in Posts :
         \/ HandlerSteps(p) \/ HandlerRaises(p) \/ CountFails(p) \/ WriteFails(p)
         \/ AnswerLost(p) \/ CleanupReads(p) \/ MessageGoes(p)
         \/ \E k \in ChannelKeys : Arrives(p, k)
    \/ CleanupCommits \/ MonitorDies

IngestSpec == IngestInit /\ [][IngestNext]_ingestVars

(* The coroutines go on; errors are bounded.                               *)
IngestFairness == \A w \in Waiting : WF_ingestVars(RefreshSteps(w))

IngestFairSpec == IngestSpec /\ IngestFairness

(***************************************************************************)
(* Properties                                                              *)
(***************************************************************************)
(* A post whose links were parsed is in the table or in the log of lost    *)
(* messages when its handler ends, and in the table once, unless the       *)
(* answer of a commit was lost (handler, its loop of attempts).            *)
SavedOrLogged ==
    \A p \in Posts :
        /\ copies[p] <= unanswered[p] + (IF handler[p].pc = "saved" THEN 1 ELSE 0)
        /\ handler[p].tries = MaxWrites => handler[p].pc \in {"logged", "killed"}

(* The statistic of a channel counts its messages, through concurrent      *)
(* posts, cleanups, failures and retries; it drifts only when a savepoint  *)
(* undid a count, when other parts delete a message, or when a message is  *)
(* saved between the reading and the replacing of a cleanup               *)
(* (rebuild_channel_daily_stats_for_pairs), until the next cleanup.        *)
StatCountsMessages ==
    \A k \in ChannelKeys \ drifted : channelStat[k] = CountOf(k)

(* What the handlers answer for: posts and counts.                         *)
PostsAreAccounted == SavedOrLogged /\ StatCountsMessages

(* A channel that was added is monitored in the end, whatever failed to be *)
(* resolved before, and one that was removed is not any more.              *)
AddedIsMonitored ==
    \A k \in ChannelKeys :
        (k \in KnownKeys) # mapping[k].mapped
            ~> ((k \in KnownKeys) = mapping[k].mapped)

(* Changes of the administrator take effect without a restart              *)
(* (refresh_channel_mapping).                                              *)
InEffect(k) == mapping[k].mapped /\ mapping[k].id = channelRows[k].id
               /\ mapping[k].profile = channelRows[k].profile

ChangesTakeEffect == \A k \in ChannelKeys : k \in KnownKeys ~> (InEffect(k) \/ k \notin KnownKeys)
=============================================================================
