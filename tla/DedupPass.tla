------------------------------- MODULE DedupPass -------------------------------
(***************************************************************************)
(* The deduplication of messages: one pass over the messages of its scope, *)
(* newest first, that keeps a set of keepers and deletes at its end what   *)
(* the keepers cover.  It works on the links it read when it began; other  *)
(* parts delete messages and rewrite the links of messages while it runs.  *)
(***************************************************************************)
EXTENDS Integers, FiniteSets

CONSTANTS
    Ids,          \* ids of messages
    Urls,         \* normalized link targets
    Times,        \* timestamps of messages
    CloseWindow,  \* DEDUP_CLOSE_WINDOW_SECONDS
    MaxPasses,    \* bound: passes
    MaxRewrites   \* bound: transactions that rewrite links

ASSUME DedupPassAssumption ==
    /\ Ids \subseteq Nat /\ Times \subseteq Int /\ CloseWindow \in Nat
    /\ IsFiniteSet(Urls) /\ MaxPasses \in Nat /\ MaxRewrites \in Nat

VARIABLES
    urls,     \* the links of a message
    time,     \* its timestamp
    table,    \* the messages there are
    seen,     \* the links of a message as the pass read them
    left,     \* what the pass has still to scan
    kept,     \* keepers_by_id
    doomed,   \* deleted_message_ids
    passes,   \* passes begun
    running,  \* one is under way
    rewrites, \* transactions that have rewritten links
    moved     \* history: links that others put into a message, or took from
              \* it, since the pass began

passVars == <<urls, time, table, seen, left, kept, doomed, passes, running, rewrites,
              moved>>

PassTypeOK ==
    /\ urls \in [Ids -> SUBSET Urls] /\ time \in [Ids -> Times]
    /\ table \subseteq Ids /\ seen \in [Ids -> SUBSET Urls]
    /\ left \subseteq Ids /\ kept \subseteq Ids /\ doomed \subseteq Ids
    /\ passes \in Nat /\ running \in BOOLEAN
    /\ rewrites \in 0..MaxRewrites /\ moved \subseteq Ids \X Urls

NothingSeen == [m \in Ids |-> {}]

PassInit ==
    /\ urls \in [Ids -> SUBSET Urls \ {{}}] /\ time \in [Ids -> Times]
    /\ table = Ids /\ seen = NothingSeen /\ left = {} /\ kept = {} /\ doomed = {}
    /\ passes = 0 /\ running = FALSE /\ rewrites = 0 /\ moved = {}

Newer(a, b) == time[a] > time[b] \/ (time[a] = time[b] /\ a > b)

IsClose(a, b) == time[a] - time[b] < CloseWindow /\ time[b] - time[a] < CloseWindow

Prefer(a, b) ==
    IF IsClose(a, b) /\ Cardinality(seen[a]) # Cardinality(seen[b])
    THEN Cardinality(seen[a]) > Cardinality(seen[b])
    ELSE Newer(a, b)

(* Sensitivity: one common link is enough.                                 *)
CoversAny(a, b) == seen[a] \cap seen[b] # {}

Covers(a, b) == seen[b] \subseteq seen[a]

Overlapping(m) == {k \in kept : seen[k] \cap seen[m] # {}}
Beaten(m) == \E k \in Overlapping(m) : Covers(k, m) /\ Prefer(k, m)
Losers(m) == {k \in Overlapping(m) : Covers(m, k) /\ Prefer(m, k)}

(* One query reads the messages.  Scope "recent_hours" leaves out what is  *)
(* older than its cutoff; a message without links is not scanned.          *)
Begin(cutoff) ==
    /\ ~running /\ passes < MaxPasses
    /\ running' = TRUE /\ passes' = passes + 1
    /\ seen' = urls /\ left' = {m \in table : time[m] >= cutoff /\ urls[m] # {}}
    /\ kept' = {} /\ doomed' = {} /\ moved' = {}
    /\ UNCHANGED <<urls, time, table, rewrites>>

Scan(m) ==
    /\ running /\ m \in left /\ \A n \in left \ {m} : Newer(m, n)
    /\ left' = left \ {m}
    /\ IF Beaten(m)
       THEN doomed' = doomed \cup {m} /\ UNCHANGED kept
       ELSE /\ doomed' = doomed \cup Losers(m)
            /\ kept' = (kept \ Losers(m)) \cup {m}
    /\ UNCHANGED <<urls, time, table, seen, passes, running, rewrites, moved>>

PassEnds ==
    /\ running /\ running' = FALSE
    /\ seen' = NothingSeen /\ left' = {} /\ kept' = {} /\ doomed' = {} /\ moved' = {}
    /\ UNCHANGED <<urls, time, passes, rewrites>>

(* By id, whatever links the messages have now.                            *)
Commit == left = {} /\ table' = table \ doomed /\ PassEnds

(* An error or the end of the process rolls the pass back.                 *)
Abort == UNCHANGED table /\ PassEnds

(***************************************************************************)
(* The other parts                                                         *)
(***************************************************************************)
Moves(pairs) ==
    /\ moved' = IF running THEN moved \cup pairs ELSE moved
    /\ UNCHANGED <<time, seen, left, kept, doomed, passes, running>>

OtherDeletes(m) ==
    /\ m \in table /\ table' = table \ {m} /\ Moves({m} \X urls[m])
    /\ UNCHANGED <<urls, rewrites>>

(* A transaction that gives messages other links.                          *)
Rewrites(links) ==
    /\ rewrites < MaxRewrites /\ rewrites' = rewrites + 1
    /\ urls' = links /\ links # urls
    /\ Moves({p \in Ids \X Urls : (p[2] \in urls[p[1]]) # (p[2] \in links[p[1]])})
    /\ UNCHANGED table

(* The cleanup takes invalid links out of a message.                       *)
Prunes(m, invalid) == m \in table /\ Rewrites([urls EXCEPT ![m] = @ \ invalid])

(* A published message gets the link that is published now.                *)
Republishes(m, u) == m \in table /\ Rewrites([urls EXCEPT ![m] = {u}])

(* A transferred share takes the place of its source, in every message of  *)
(* the target or in one.                                                   *)
Replaces(ms, u, v) ==
    /\ ms \subseteq {m \in table : u \in urls[m]}
    /\ Rewrites([m \in Ids |-> IF m \in ms THEN (urls[m] \ {u}) \cup {v} ELSE urls[m]])

OthersAct ==
    \E m \in Ids :
        \/ OtherDeletes(m)
        \/ \E invalid \in SUBSET Urls : Prunes(m, invalid)
        \/ \E u \in Urls : Republishes(m, u)
        \/ \E u, v \in Urls, ms \in {{m}, table} : Replaces({n \in ms : u \in urls[n]}, u, v)

PassNext ==
    \/ \E cutoff \in Times : Begin(cutoff)
    \/ \E m \in Ids : Scan(m)
    \/ Commit \/ Abort \/ OthersAct

PassSpec == PassInit /\ [][PassNext]_passVars

(***************************************************************************)
(* Properties                                                              *)
(***************************************************************************)
(* What a pass dooms had its links, all of them and not only one, on a     *)
(* message the pass keeps, and on a newer one unless the keeper had links  *)
(* the doomed message lacked: of equal messages the newest stays.          *)
DoomedIsCovered ==
    \A d \in doomed : \E k \in kept :
        seen[d] \subseteq seen[k] /\ (Newer(k, d) \/ seen[d] # seen[k])

(* A pass that deletes a message leaves each of its links on another one,  *)
(* unless others put the link into that message, or took it from one the   *)
(* pass keeps, since the pass began: it deletes by id what it chose by the *)
(* links it had read (execute_dedup_run).                                  *)
LinksRemain ==
    running /\ ~running' =>
        \A d \in table \ table' : \A u \in urls[d] :
            \/ \E m \in table' : u \in urls'[m]
            \/ <<d, u>> \in moved
            \/ \E k \in kept : <<k, u>> \in moved

(* What is about to be deleted, and what is.                               *)
DedupIsSafe == [][DoomedIsCovered /\ LinksRemain]_passVars
=============================================================================
