---------------------------- MODULE ServicesProofs ----------------------------
(***************************************************************************)
(* Publishing, plans, the catalogue, the monitor and the link check tasks, *)
(* for any number of records, messages, links, channels, posts, tasks and  *)
(* processes.                                                              *)
(***************************************************************************)
EXTENDS MCServices, FiniteSetTheorems, SequenceTheorems, WellFoundedInduction, TLAPS

(* A nonempty set of numbers has a least one; one that is bounded has a    *)
(* largest one.                                                            *)
LEMMA LeastExists ==
    ASSUME NEW S \in SUBSET Nat, S # {}
    PROVE  \E x \in S : \A y \in S : x <= y
<1>1. IsWellFoundedOn(OpToRel(<, Nat), Nat)
  BY NatLessThanWellFounded
<1>2. PICK x \in S : \A y \in S : ~(<<y, x>> \in OpToRel(<, Nat))
  BY <1>1, WFMin
<1>3. \A y \in S : ~(y < x)
  BY <1>2 DEF OpToRel
<1>. QED
  BY <1>3

LEMMA GreatestExists ==
    ASSUME NEW n \in Nat, NEW S \in SUBSET (0..n), S # {}
    PROVE  \E x \in S : \A y \in S : y <= x
<1> DEFINE T == {n - x : x \in S}
<1>1. T \in SUBSET Nat /\ T # {}
  <2>1. \A x \in S : n - x \in Nat
    OBVIOUS
  <2>2. PICK x \in S : TRUE
    OBVIOUS
  <2>3. n - x \in T
    BY <2>2
  <2>. QED
    BY <2>1, <2>3
<1>2. PICK t \in T : \A u \in T : t <= u
  BY <1>1, LeastExists
<1>3. PICK x \in S : t = n - x
  BY <1>2
<1>4. \A y \in S : n - y \in T
  OBVIOUS
<1>5. \A y \in S : n - x <= n - y
  BY <1>2, <1>3, <1>4
<1>. QED
  BY <1>5

----------------------------------------------------------------------------
(* Publishing.  A record may say reclaimed only when the directory is      *)
(* gone, and so may what a handler that waits has read of it, since that   *)
(* is written back (SeenIsGone); a handler that reclaims holds records of  *)
(* one item, and has the provider's answer when it writes (ReclaimsItem).  *)

GoneIfReclaimed(r, extra) ==
    extra.state = "reclaimed" => IsItem(r) /\ directory[records[r].resource] # "kept"

PublishedBefore == \A r \in 1..made : records[r].at <= published

SeenIsGone == \A w \in Waiters : \A r \in SeenBy(w) : GoneIfReclaimed(r, waiting[w].seen[r])

ReclaimsItem ==
    \A w \in Waiters : waiting[w].op = "reclaim" =>
        LET q == waiting[w].record IN
        /\ q \in 1..made /\ IsItem(q)
        /\ \A r \in SeenBy(w) : records[r].resource = records[q].resource
        /\ waiting[w].called => directory[records[q].resource] # "kept"

PublishInv == PublishTypeOK /\ PublishedBefore /\ ReclaimedIsGone /\ SeenIsGone /\ ReclaimsItem

RetiredStep ==
    \A r \in Alive :
        \/ Priority(records'[r].extra.state) >= Priority(records[r].extra.state)
        \/ records'[r].at # records[r].at
        \/ \E w \in Waiters : /\ r \in SeenBy(w) /\ waiting'[w] = NotWaiting
                              /\ Seen(w, r).state # records[r].extra.state

PublishHistories == UNION {[1..n -> 1..MaxMessages] : n \in 0..HistoryLimit}

LEMMA PublishTypes ==
    ASSUME PublishTypeOK
    PROVE  /\ made \in 0..MaxRecords /\ made \in Nat /\ published \in 0..MaxMessages
           /\ published \in Nat
           /\ records \in [1..made -> Record]
           /\ directory \in [PublishItems -> {"kept", "gone", "unlisted"}]
           /\ \A r \in 1..made : /\ records[r] \in Record /\ records[r].extra \in Extras
                                 /\ records[r].resource \in Resources
                                 /\ records[r].at \in 0..MaxMessages /\ records[r].at \in Nat
                                 /\ IsItem(r) => records[r].resource \in PublishItems
           /\ Alive \in SUBSET (1..made) /\ slot \in 0..MaxSlots /\ publishOps \in Nat
           /\ feed \in SUBSET (1..published) /\ frozen \in BOOLEAN
<1>1. MaxMessages \in Nat /\ MaxRecords \in Nat
  BY PublishAssumption
<1>2. \A r \in 1..made : records[r] \in Record
  BY DEF PublishTypeOK
<1>3. \A x \in Record : /\ x.extra \in Extras /\ x.resource \in Resources
                        /\ x.at \in 0..MaxMessages /\ x.at \in Nat
  BY <1>1 DEF Record
<1>4. \A r \in 1..made : IsItem(r) => records[r].resource \in PublishItems
  BY DEF IsItem
<1>5. Alive \in SUBSET (1..made)
  BY DEF Alive
<1>6. /\ made \in 0..MaxRecords /\ made \in Nat
      /\ published \in 0..MaxMessages /\ published \in Nat
  <2>1. made \in 0..MaxRecords /\ published \in 0..MaxMessages
    BY DEF PublishTypeOK
  <2>. QED
    BY <1>1, <2>1
<1>7. /\ records \in [1..made -> Record]
      /\ directory \in [PublishItems -> {"kept", "gone", "unlisted"}]
      /\ slot \in 0..MaxSlots /\ publishOps \in Nat
      /\ feed \in SUBSET (1..published) /\ frozen \in BOOLEAN
  BY DEF PublishTypeOK
<1>. QED
  BY <1>2, <1>3, <1>4, <1>5, <1>6, <1>7

LEMMA WaitingTypes ==
    ASSUME PublishTypeOK, NEW w \in Waiters
    PROVE  /\ waiting \in [Waiters -> {waiting[v] : v \in Waiters}]
           /\ waiting[w] \in ReadingOf(SeenBy(w)) /\ SeenBy(w) \in SUBSET (1..made)
           /\ waiting[w].record \in 0..MaxRecords /\ waiting[w].called \in BOOLEAN
           /\ waiting[w].seen \in [SeenBy(w) -> Extras]
BY DEF PublishTypeOK, ReadingOf

LEMMA NewestIsOne ==
    ASSUME PublishTypeOK, NEW S \in SUBSET (1..made), S # {}
    PROVE  NewestOf(S) \in S
<1> DEFINE T == {records[r].at : r \in S}
<1>1. \A r \in S : records[r].at \in 0..MaxMessages
  BY PublishTypes
<1>2. T \in SUBSET (0..MaxMessages) /\ T # {} /\ MaxMessages \in Nat
  BY <1>1, PublishAssumption
<1>3. PICK t \in T : \A u \in T : u <= t
  BY <1>2, GreatestExists
<1>4. PICK r \in S : t = records[r].at
  BY <1>3
<1>5. \A q \in S : records[q].at <= records[r].at
  BY <1>3, <1>4
<1>. QED
  BY <1>5 DEF NewestOf

LEMMA SameLength ==
    ASSUME NEW k \in Nat, NEW n \in Nat, 1..k = 1..n
    PROVE  k = n
<1>1. k > 0 => k \in 1..n
  OBVIOUS
<1>2. n > 0 => n \in 1..k
  OBVIOUS
<1>. QED
  BY <1>1, <1>2

LEMMA HistoryTyped ==
    ASSUME NEW h \in PublishHistories, NEW m \in 1..MaxMessages
    PROVE  Appended(h, m) \in PublishHistories
<1>1. PICK n \in 0..HistoryLimit : h \in [1..n -> 1..MaxMessages]
  BY DEF PublishHistories
<1>2. HistoryLimit \in Nat /\ HistoryLimit # 0 /\ n \in Nat
  BY PublishAssumption
<1>3. h \in Seq(1..MaxMessages) /\ Len(h) = n
  <2>1. h \in Seq(1..MaxMessages)
    BY <1>1, <1>2, SeqDef
  <2>2. Len(h) \in Nat /\ DOMAIN h = 1..Len(h) /\ DOMAIN h = 1..n
    BY <1>1, <2>1, LenProperties
  <2>4. Len(h) = n
    BY <1>2, <2>2, SameLength
  <2>. QED
    BY <2>1, <2>4
<1>4. CASE n = HistoryLimit
  <2>1. Tail(h) \in Seq(1..MaxMessages) /\ Len(Tail(h)) = n - 1
    BY <1>2, <1>3, <1>4, HeadTailProperties
  <2>2. /\ Append(Tail(h), m) \in Seq(1..MaxMessages)
        /\ Len(Append(Tail(h), m)) = n
    BY <1>2, <2>1, AppendProperties
  <2>3. Append(Tail(h), m) \in [1..n -> 1..MaxMessages]
    BY <2>2, LenProperties
  <2>. QED
    BY <1>3, <1>4, <2>3 DEF Appended, PublishHistories
<1>5. CASE n # HistoryLimit
  <2>0. Append(h, m) \in Seq(1..MaxMessages) /\ Len(Append(h, m)) = n + 1
    BY <1>2, <1>3, AppendProperties
  <2>1. Append(h, m) \in [1..n + 1 -> 1..MaxMessages]
    BY <2>0, LenProperties
  <2>2. n + 1 \in 0..HistoryLimit
    BY <1>2, <1>5
  <2>. QED
    BY <1>3, <1>5, <2>1, <2>2 DEF Appended, PublishHistories
<1>. QED
  BY <1>4, <1>5

LEMMA RuleTyped ==
    ASSUME PublishTypeOK, NEW rule \in Rules, NEW on \in BOOLEAN
    PROVE  ParsedRule(rule) \in Rules /\ SetFor(on) \in Rules
<1>1. MaxSlots \in Nat /\ slot \in 0..MaxSlots
  BY PublishAssumption DEF PublishTypeOK
<1>2. PICK suffix \in {"null", "Z", "twice"}, at \in 0..MaxSlots + 1, b \in BOOLEAN :
        rule = [on |-> b, next |-> [suffix |-> suffix, at |-> at]]
  BY DEF Rules, Texts
<1>3. NoText \in Texts /\ [suffix |-> "twice", at |-> at] \in Texts
  BY <1>1 DEF Texts, NoText
<1>4. [suffix |-> "Z", at |-> slot + 1] \in Texts
  BY <1>1 DEF Texts
<1>5. Rewritten(rule.next) \in Texts
  BY <1>2, <1>3 DEF Rewritten
<1>6. ParsedRule(rule) = [on |-> b, next |-> Rewritten(rule.next)]
  BY <1>2 DEF ParsedRule
<1>. QED
  BY <1>3, <1>4, <1>5, <1>6 DEF Rules, SetFor

(* What others read stays right: an item's record remains the item's, a    *)
(* directory does not come back, and nobody reads anything new.            *)
LEMMA ReadersKept ==
    ASSUME PublishInv, made <= made', made' \in Nat,
           \A r \in 1..made : IsItem(r) => records'[r].resource = records[r].resource,
           \A i \in PublishItems : directory[i] # "kept" => directory'[i] # "kept",
           \A w \in Waiters : waiting'[w] = NotWaiting \/ waiting'[w] = waiting[w]
    PROVE  SeenIsGone' /\ ReclaimsItem'
<1>1. ASSUME NEW r \in 1..made, IsItem(r)
      PROVE  /\ IsItem(r)' /\ r \in 1..made'
             /\ directory[records[r].resource] # "kept" => directory'[records'[r].resource] # "kept"
  <2>1. /\ records'[r].resource = records[r].resource /\ records[r].resource \in PublishItems
        /\ made \in Nat
    BY <1>1, PublishTypes DEF PublishInv
  <2>. QED
    BY <2>1 DEF IsItem
<1>2. ASSUME NEW w \in Waiters, NEW r \in SeenBy(w)'
      PROVE  GoneIfReclaimed(r, waiting[w].seen[r])'
  <2>1. waiting'[w] = waiting[w] /\ r \in SeenBy(w)
    BY <1>2 DEF SeenBy, NotWaiting
  <2>2. r \in 1..made /\ GoneIfReclaimed(r, waiting[w].seen[r])
    BY <2>1, WaitingTypes DEF PublishInv, SeenIsGone
  <2>. QED
    BY <1>1, <2>1, <2>2 DEF GoneIfReclaimed
<1>3. ASSUME NEW w \in Waiters, waiting'[w].op = "reclaim"
      PROVE  LET q == waiting'[w].record IN
             /\ q \in 1..made' /\ records'[q].resource \in PublishItems
             /\ \A r \in SeenBy(w)' : records'[r].resource = records'[q].resource
             /\ waiting'[w].called => directory'[records'[q].resource] # "kept"
  <2> DEFINE q == waiting[w].record
  <2>1. waiting'[w] = waiting[w]
    BY <1>3 DEF NotWaiting
  <2>2. /\ q \in 1..made /\ IsItem(q)
        /\ \A r \in SeenBy(w) : records[r].resource = records[q].resource
        /\ waiting[w].called => directory[records[q].resource] # "kept"
    BY <1>3, <2>1 DEF PublishInv, ReclaimsItem
  <2>3. \A r \in SeenBy(w) : r \in 1..made /\ IsItem(r)
    BY <2>2, WaitingTypes DEF PublishInv, IsItem
  <2>4. SeenBy(w)' = SeenBy(w) /\ waiting'[w].record = q /\ waiting'[w].called = waiting[w].called
    BY <2>1 DEF SeenBy
  <2>5. /\ q \in 1..made' /\ records'[q].resource = records[q].resource
        /\ records'[q].resource \in PublishItems
    BY <1>1, <2>2 DEF IsItem
  <2>6. \A r \in SeenBy(w) : records'[r].resource = records'[q].resource
    BY <2>2, <2>3, <2>5
  <2>7. waiting[w].called => directory'[records'[q].resource] # "kept"
    BY <1>1, <2>2
  <2>. QED
    BY <2>4, <2>5, <2>6, <2>7
<1>4. SeenIsGone'
  BY <1>2 DEF SeenIsGone
<1>5. ReclaimsItem'
  BY <1>3 DEF ReclaimsItem, IsItem
<1>. QED
  BY <1>4, <1>5

(* The types of the rows, when the handlers that wait are as before or     *)
(* have ended.                                                             *)
LEMMA WaitingKept ==
    ASSUME PublishTypeOK, made <= made', made' \in Nat,
           waiting' \in [Waiters -> {waiting'[v] : v \in Waiters}],
           \A w \in Waiters : waiting'[w] = NotWaiting \/ waiting'[w] = waiting[w]
    PROVE  \A w \in Waiters : waiting'[w] \in ReadingOf(SeenBy(w))' /\ SeenBy(w)' \subseteq 1..made'
<1> TAKE w \in Waiters
<1>0. made \in Nat /\ MaxRecords \in Nat
  BY PublishTypes, PublishAssumption
<1>1. CASE waiting'[w] = NotWaiting
  <2>1. SeenBy(w)' = {} /\ waiting'[w].seen = <<>>
    BY <1>1 DEF SeenBy, NotWaiting
  <2>2. <<>> \in [{} -> Extras]
    OBVIOUS
  <2>3. NotWaiting \in ReadingOf({})'
    BY <1>0, <2>2 DEF NotWaiting, ReadingOf, Extras, Rules, Texts
  <2>. QED
    BY <1>1, <2>1, <2>3
<1>2. CASE waiting'[w] = waiting[w]
  <2>1. SeenBy(w)' = SeenBy(w) /\ waiting[w] \in ReadingOf(SeenBy(w)) /\ SeenBy(w) \subseteq 1..made
    BY <1>2, WaitingTypes DEF SeenBy
  <2>2. 1..made \subseteq 1..made'
    BY <1>0
  <2>3. ReadingOf(SeenBy(w))' = ReadingOf(SeenBy(w))
    BY <2>1 DEF ReadingOf
  <2>. QED
    BY <1>2, <2>1, <2>2, <2>3
<1>. QED
  BY <1>1, <1>2

LEMMA PublishKeeps ==
    ASSUME PublishInv, NEW k \in Resources, NEW blank \in Extras,
           NEW given \in [Existing(k) -> Extras], Publish(k, blank, given),
           publishOps' \in Nat
    PROVE  PublishInv' /\ RetiredStep
<1> DEFINE m == published + 1
           old == Existing(k)
           NewExtra(extra) ==
              [extra EXCEPT !.key = k, !.state = "active",
                            !.hist = Appended(extra.hist, m),
                            !.rule = IF extra.rule.on THEN SetFor(TRUE) ELSE extra.rule]
           Row(extra) == [alive |-> TRUE, resource |-> k, extra |-> NewExtra(extra),
                          message |-> m, at |-> m]
           Kept(r) == [given[r] EXCEPT !.rule = ParsedRule(records[r].extra.rule)]
<1>0. PublishTypeOK
  BY DEF PublishInv
<1>1. /\ published < MaxMessages /\ published' = m /\ feed' = feed \cup {m}
      /\ UNCHANGED <<directory, waiting, frozen, slot>>
  BY DEF Publish
<1>2. /\ m \in 1..MaxMessages /\ m \in 0..MaxMessages /\ m \in Nat
      /\ feed' \subseteq 1..published' /\ published' \in 0..MaxMessages
  <2>1. published \in Nat /\ MaxMessages \in Nat /\ feed \subseteq 1..published
    BY <1>0, PublishTypes, PublishAssumption
  <2>2. m \in 1..MaxMessages /\ m \in 0..MaxMessages /\ m \in Nat
    BY <1>1, <2>1
  <2>. QED
    BY <1>1, <2>1, <2>2
<1>3. \A x \in Extras : /\ x.hist \in PublishHistories /\ x.rule \in Rules /\ x.rule.on \in BOOLEAN
                        /\ x.key \in Resources /\ x.share \in BOOLEAN
                        /\ x = [key |-> x.key, state |-> x.state, rule |-> x.rule,
                                share |-> x.share, hist |-> x.hist]
  BY DEF Extras, Rules, PublishHistories
<1>4. ASSUME NEW x \in Extras
      PROVE  Row(x) \in Record /\ Row(x).extra.state = "active" /\ Row(x).at = m
             /\ Row(x).resource = k
  <2>1. Appended(x.hist, m) \in PublishHistories
    BY <1>2, <1>3, HistoryTyped
  <2>2. SetFor(TRUE) \in Rules
    BY <1>0, <1>3, RuleTyped
  <2>3. (IF x.rule.on THEN SetFor(TRUE) ELSE x.rule) \in Rules
    BY <1>3, <2>2
  <2>4. k \in Resources /\ "active" \in Lifecycle
    BY DEF Lifecycle
  <2>5. NewExtra(x) \in Extras /\ NewExtra(x).state = "active"
    <3> DEFINE rule == IF x.rule.on THEN SetFor(TRUE) ELSE x.rule
               hist == Appended(x.hist, m)
    <3>1. rule \in Rules /\ hist \in PublishHistories
      BY <2>1, <2>3
    <3> HIDE DEF rule, hist
    <3>2. /\ [x EXCEPT !.key = k, !.state = "active", !.hist = hist, !.rule = rule] \in Extras
          /\ [x EXCEPT !.key = k, !.state = "active", !.hist = hist, !.rule = rule].state = "active"
      BY <2>4, <3>1 DEF Extras, PublishHistories
    <3>. QED
      BY <3>2 DEF rule, hist
  <2> HIDE DEF NewExtra
  <2>. QED
    BY <1>2, <2>5 DEF Record
<1>5. ASSUME NEW r \in old PROVE Kept(r) \in Extras
  <2>1. given[r] \in Extras /\ r \in 1..made
    BY <1>5, <1>0, PublishTypes DEF Existing
  <2>2. ParsedRule(records[r].extra.rule) \in Rules
    BY <1>0, <1>3, <2>1, PublishTypes, RuleTyped
  <2>. QED
    BY <2>1, <2>2 DEF Extras
<1> HIDE DEF Row, Kept
<1>6. /\ made' \in 0..MaxRecords /\ made <= made' /\ made' \in Nat
      /\ records' \in [1..made' -> Record]
      /\ \A r \in 1..made' :
            \/ r \in 1..made /\ records'[r] = records[r]
            \/ /\ records'[r].at = m /\ records'[r].extra.state = "active"
               /\ r \in 1..made => records'[r].resource = records[r].resource
  <2>1. CASE old = {}
    <3>1. made < MaxRecords /\ made' = made + 1 /\ records' = Append(records, Row(blank))
      BY <2>1 DEF Publish, Row
    <3>2. records \in Seq(Record) /\ Len(records) = made
      <4>1. records \in [1..made -> Record] /\ made \in Nat
        BY <1>0, PublishTypes
      <4>2. records \in Seq(Record)
        BY <4>1, SeqDef
      <4>3. Len(records) \in Nat /\ 1..Len(records) = 1..made
        BY <4>1, <4>2, LenProperties
      <4>. QED
        BY <4>1, <4>2, <4>3, SameLength
    <3>3. /\ records' \in Seq(Record) /\ Len(records') = made + 1
          /\ \A r \in 1..made : records'[r] = records[r]
          /\ records'[made + 1] = Row(blank)
      BY <1>4, <3>1, <3>2, AppendProperties
    <3>4. records' \in [1..made' -> Record]
      BY <3>1, <3>3, LenProperties
    <3>5. made \in Nat /\ MaxRecords \in Nat
      BY <1>0, PublishTypes, PublishAssumption
    <3>6. \A r \in 1..made' : r \in 1..made \/ (r = made + 1 /\ r \notin 1..made)
      BY <3>1, <3>5
    <3>. QED
      BY <1>4, <3>1, <3>3, <3>4, <3>5, <3>6
  <2>2. CASE old # {}
    <3> DEFINE n == NewestOf(old)
    <3>1. records' = [records EXCEPT ![n] = Row(Kept(n))] /\ made' = made
      BY <2>2 DEF Publish, Row, Kept
    <3>2. old \in SUBSET (1..made)
      BY <1>0, PublishTypes DEF Existing
    <3>3. n \in old /\ n \in 1..made /\ records[n].resource = k
      BY <1>0, <2>2, <3>2, NewestIsOne DEF Existing
    <3> HIDE DEF n, old
    <3>4. Row(Kept(n)) \in Record /\ Row(Kept(n)).extra.state = "active"
          /\ Row(Kept(n)).at = m /\ Row(Kept(n)).resource = k
      BY <1>4, <1>5, <3>3
    <3>5. records \in [1..made -> Record] /\ made \in Nat /\ made \in 0..MaxRecords
      BY <1>0, PublishTypes
    <3>. QED
      BY <3>1, <3>3, <3>4, <3>5
  <2>. QED
    BY <2>1, <2>2
<1>12. 1..made \subseteq 1..made' /\ published \in Nat
       /\ \A r \in 1..made : records[r].at \in Nat /\ records[r].at <= published
  <2>1. made \in Nat /\ published \in Nat
    BY <1>0, PublishTypes
  <2>2. \A r \in 1..made : records[r].at \in Nat /\ records[r].at <= published
    BY <1>0, PublishTypes DEF PublishInv, PublishedBefore
  <2>. QED
    BY <1>6, <2>1, <2>2
<1>7. PublishTypeOK'
  <2>1. waiting' \in [Waiters -> {waiting'[v] : v \in Waiters}]
    BY <1>0, <1>1 DEF PublishTypeOK
  <2>2. \A w \in Waiters : waiting'[w] \in ReadingOf(SeenBy(w))' /\ SeenBy(w)' \subseteq 1..made'
    BY <1>0, <1>1, <1>6, <2>1, WaitingKept
  <2>. QED
    BY <1>0, <1>1, <1>2, <1>6, <2>1, <2>2 DEF PublishTypeOK
<1>8. PublishedBefore'
  BY <1>1, <1>6, <1>12 DEF PublishedBefore
<1>9. ReclaimedIsGone'
  <2> SUFFICES ASSUME NEW r \in 1..made', records'[r].alive, records'[r].extra.state = "reclaimed"
               PROVE  IsItem(r)' /\ directory'[records'[r].resource] # "kept"
    BY DEF ReclaimedIsGone, Alive
  <2>1. r \in 1..made /\ records'[r] = records[r]
    BY <1>6
  <2>. QED
    BY <1>1, <2>1 DEF PublishInv, ReclaimedIsGone, Alive, IsItem
<1>10. SeenIsGone' /\ ReclaimsItem'
  <2>1. \A r \in 1..made : IsItem(r) => records'[r].resource = records[r].resource
    BY <1>6, <1>12
  <2>. QED
    BY <1>1, <1>6, <2>1, ReadersKept
<1>11. RetiredStep
  <2> SUFFICES ASSUME NEW r \in Alive
               PROVE  Priority(records'[r].extra.state) >= Priority(records[r].extra.state)
                      \/ records'[r].at # records[r].at
    BY DEF RetiredStep
  <2>1. r \in 1..made /\ r \in 1..made' /\ records[r].at <= published /\ records[r].at \in Nat
        /\ published \in Nat
    BY <1>0, <1>12, PublishTypes
  <2>2. Priority(records[r].extra.state) \in Nat
    BY <1>0, <2>1, PublishTypes DEF Priority, Extras, Lifecycle
  <2>. QED
    BY <1>6, <2>1, <2>2
<1>. QED
  BY <1>7, <1>8, <1>9, <1>10, <1>11 DEF PublishInv

(* What a step that publishes nothing has to keep.                         *)
LEMMA RowsKeep ==
    ASSUME PublishInv, UNCHANGED <<made, published>>,
           records' \in [1..made -> Record],
           \A r \in 1..made :
              /\ records'[r].at = records[r].at
              /\ IsItem(r) => records'[r].resource = records[r].resource
              /\ records'[r].alive /\ records'[r].extra.state = "reclaimed" =>
                    \/ records[r].alive /\ records[r].extra.state = "reclaimed"
                    \/ /\ records'[r].resource \in PublishItems
                       /\ directory'[records'[r].resource] # "kept",
           feed' \subseteq feed, slot' \in 0..MaxSlots, frozen' \in BOOLEAN, publishOps' \in Nat,
           directory' \in [PublishItems -> {"kept", "gone", "unlisted"}],
           \A i \in PublishItems : directory[i] # "kept" => directory'[i] # "kept",
           waiting' \in [Waiters -> {waiting'[v] : v \in Waiters}],
           \A w \in Waiters : waiting'[w] = NotWaiting \/ waiting'[w] = waiting[w]
    PROVE  PublishInv'
<1>0. PublishTypeOK /\ made \in Nat
  BY PublishTypes DEF PublishInv
<1>1. PublishTypeOK'
  <2>1. \A w \in Waiters : waiting'[w] \in ReadingOf(SeenBy(w))' /\ SeenBy(w)' \subseteq 1..made'
    BY <1>0, WaitingKept
  <2>. QED
    BY <1>0, <2>1 DEF PublishTypeOK
<1>2. PublishedBefore'
  BY DEF PublishInv, PublishedBefore
<1>3. ReclaimedIsGone'
  <2> SUFFICES ASSUME NEW r \in 1..made, records'[r].alive, records'[r].extra.state = "reclaimed"
               PROVE  records'[r].resource \in PublishItems
                      /\ directory'[records'[r].resource] # "kept"
    BY DEF ReclaimedIsGone, Alive, IsItem
  <2>1. CASE records[r].alive /\ records[r].extra.state = "reclaimed"
    <3>1. IsItem(r) /\ directory[records[r].resource] # "kept"
      BY <2>1 DEF PublishInv, ReclaimedIsGone, Alive
    <3>. QED
      BY <3>1 DEF IsItem
  <2>. QED
    BY <2>1
<1>4. SeenIsGone' /\ ReclaimsItem'
  BY <1>0, ReadersKept
<1>. QED
  BY <1>1, <1>2, <1>3, <1>4 DEF PublishInv

LEMMA TransitionIsUp ==
    ASSUME NEW now \in Lifecycle, NEW requested \in Lifecycle
    PROVE  /\ Transition(now, requested) \in {now, requested}
           /\ Priority(Transition(now, requested)) >= Priority(now)
           /\ Priority(now) >= Priority(now)
           /\ Transition(now, requested) = "reclaimed" => "reclaimed" \in {now, requested}
BY DEF Transition, Priority, Lifecycle

LEMMA RetiredTyped ==
    ASSUME NEW extra \in Extras, NEW requested \in Lifecycle
    PROVE  /\ Retired(extra, requested) \in Extras
           /\ Retired(extra, requested).state = Transition(extra.state, requested)
<1>1. extra.state \in Lifecycle /\ extra.share \in BOOLEAN
  BY DEF Extras
<1>2. Transition(extra.state, requested) \in Lifecycle
  BY <1>1, TransitionIsUp
<1> HIDE DEF Transition
<1>. QED
  BY <1>1, <1>2 DEF Retired, Extras

(* The JSON of some rows is written.                                       *)
LEMMA WroteTyped ==
    ASSUME PublishTypeOK, NEW S \in SUBSET (1..made), NEW extras \in [S -> Extras], Wrote(extras)
    PROVE  /\ records' \in [1..made -> Record]
           /\ \A r \in 1..made :
                 /\ records'[r].at = records[r].at /\ records'[r].alive = records[r].alive
                 /\ records'[r].resource = records[r].resource
                 /\ records'[r].message = records[r].message
                 /\ records'[r].extra = IF r \in S THEN extras[r] ELSE records[r].extra
<1>1. \A r \in 1..made : records[r] \in Record
  BY PublishTypes
<1>2. records' = [r \in 1..made |-> IF r \in S
                    THEN [records[r] EXCEPT !.extra = extras[r]] ELSE records[r]]
  BY DEF Wrote
<1>3. \A r \in S : [records[r] EXCEPT !.extra = extras[r]] \in Record
  BY <1>1 DEF Record
<1>4. \A r \in 1..made : /\ records'[r] = IF r \in S THEN [records[r] EXCEPT !.extra = extras[r]]
                                          ELSE records[r]
                         /\ records'[r] \in Record
  BY <1>1, <1>2, <1>3
<1>5. records' \in [1..made -> Record]
  BY <1>2, <1>4
<1>6. \A r \in 1..made :
         /\ records'[r].at = records[r].at /\ records'[r].alive = records[r].alive
         /\ records'[r].resource = records[r].resource
         /\ records'[r].message = records[r].message
         /\ records'[r].extra = IF r \in S THEN extras[r] ELSE records[r].extra
  BY <1>1, <1>4 DEF Record
<1>. QED
  BY <1>5, <1>6

(* A step that lowers no state lowers none.                                *)
LEMMA RaisesAll ==
    ASSUME PublishTypeOK,
           \A r \in 1..made : \/ records'[r].extra.state = records[r].extra.state
                              \/ \E s \in Lifecycle : records'[r].extra.state
                                                        = Transition(records[r].extra.state, s)
    PROVE  RetiredStep
<1>1. ASSUME NEW r \in Alive
      PROVE  Priority(records'[r].extra.state) >= Priority(records[r].extra.state)
  <2>1. r \in 1..made /\ records[r].extra.state \in Lifecycle
    BY PublishTypes DEF Extras
  <2>. QED
    BY <2>1, TransitionIsUp
<1>. QED
  BY <1>1 DEF RetiredStep

LEMMA GroupOf ==
    ASSUME PublishTypeOK, NEW r \in Alive
    PROVE  /\ r \in Group(r) /\ Group(r) \in SUBSET Alive /\ Group(r) \in SUBSET (1..made)
           /\ \A q \in Group(r) : IsItem(q) <=> IsItem(r)
           /\ IsItem(r) => \A q \in Group(r) : records[q].resource = records[r].resource
BY PublishTypes DEF Group, IsItem

(* Rows are taken down: their messages go, and they are retired.           *)
LEMMA TakenDownKeeps ==
    ASSUME PublishInv, NEW S \in SUBSET Alive, NEW extras \in [S -> Extras],
           NEW requested \in Lifecycle, TakenDown(extras, requested),
           UNCHANGED <<made, published, directory, frozen, slot>>, publishOps' \in Nat,
           waiting' \in [Waiters -> {waiting'[v] : v \in Waiters}],
           \A w \in Waiters : waiting'[w] = NotWaiting \/ waiting'[w] = waiting[w],
           \A r \in S : GoneIfReclaimed(r, extras[r]),
           requested = "reclaimed" => \A r \in S : IsItem(r)
                                         /\ directory[records[r].resource] # "kept"
    PROVE  /\ PublishInv'
           /\ \A r \in 1..made :
                 records'[r].extra.state = IF r \in S THEN Transition(extras[r].state, requested)
                                           ELSE records[r].extra.state
<1>0. /\ PublishTypeOK /\ S \in SUBSET (1..made) /\ 0 \in 0..MaxMessages
      /\ \A r \in 1..made : records[r] \in Record
      /\ slot \in 0..MaxSlots /\ frozen \in BOOLEAN
      /\ directory \in [PublishItems -> {"kept", "gone", "unlisted"}]
  BY PublishTypes, PublishAssumption DEF PublishInv, Alive
<1> DEFINE New(r) == [records[r] EXCEPT !.message = 0, !.extra = Retired(extras[r], requested)]
<1>1. \A r \in S : New(r) \in Record /\ New(r).extra.state = Transition(extras[r].state, requested)
                   /\ New(r).at = records[r].at /\ New(r).resource = records[r].resource
                   /\ New(r).alive = records[r].alive
  <2> TAKE r \in S
  <2>1. Retired(extras[r], requested) \in Extras
        /\ Retired(extras[r], requested).state = Transition(extras[r].state, requested)
    BY RetiredTyped
  <2> HIDE DEF Retired, Transition
  <2>. QED
    BY <1>0, <2>1 DEF Record
<1> HIDE DEF New
<1>2. feed' \subseteq feed /\ records' = [r \in 1..made |-> IF r \in S THEN New(r) ELSE records[r]]
  BY DEF TakenDown, New
<1>3. /\ records' \in [1..made -> Record]
      /\ \A r \in 1..made : records'[r] = IF r \in S THEN New(r) ELSE records[r]
  BY <1>0, <1>1, <1>2
<1>4. ASSUME NEW r \in 1..made
      PROVE  /\ records'[r].at = records[r].at
             /\ IsItem(r) => records'[r].resource = records[r].resource
             /\ records'[r].alive /\ records'[r].extra.state = "reclaimed" =>
                   \/ records[r].alive /\ records[r].extra.state = "reclaimed"
                   \/ /\ records'[r].resource \in PublishItems
                      /\ directory'[records'[r].resource] # "kept"
  <2>1. CASE r \notin S
    BY <1>3, <2>1
  <2>2. CASE r \in S
    <3>1. records'[r] = New(r)
      BY <1>3, <2>2
    <3>2. extras[r].state \in Lifecycle
      BY <2>2 DEF Extras
    <3>3. Transition(extras[r].state, requested) = "reclaimed" =>
             IsItem(r) /\ directory[records[r].resource] # "kept"
      BY <2>2, <3>2, TransitionIsUp DEF GoneIfReclaimed
    <3>. QED
      BY <1>1, <2>2, <3>1, <3>3 DEF IsItem
  <2>. QED
    BY <2>1, <2>2
<1>5. PublishInv'
  BY <1>0, <1>2, <1>3, <1>4, RowsKeep
<1>6. \A r \in 1..made :
         records'[r].extra.state = IF r \in S THEN Transition(extras[r].state, requested)
                                   ELSE records[r].extra.state
  BY <1>1, <1>3
<1>. QED
  BY <1>5, <1>6

(* A handler reads what is there, and waits.                               *)
LEMMA WaitsKeeps ==
    ASSUME PublishInv, NEW w \in Waiters, NEW op \in {"validate", "refresh", "reclaim", "sync"},
           NEW r \in Alive, NEW S \in SUBSET Alive, Waits(w, op, r, S), publishOps' \in Nat,
           op = "reclaim" => IsItem(r) /\ \A q \in S : records[q].resource = records[r].resource
    PROVE  PublishInv' /\ RetiredStep
<1> DEFINE reading == [op |-> op, record |-> r, seen |-> ExtrasOf(S), called |-> FALSE]
<1>0. /\ PublishTypeOK /\ S \in SUBSET (1..made) /\ r \in 1..made /\ r \in 0..MaxRecords
      /\ waiting \in [Waiters -> {waiting[v] : v \in Waiters}]
      /\ \A q \in 1..made : records[q].extra \in Extras
  <2>1. PublishTypeOK /\ Alive \in SUBSET (1..made) /\ made \in 0..MaxRecords
        /\ MaxRecords \in Nat
    BY PublishTypes, PublishAssumption DEF PublishInv
  <2>. QED
    BY <2>1, PublishTypes DEF PublishTypeOK
<1>1. /\ waiting' = [waiting EXCEPT ![w] = reading]
      /\ UNCHANGED <<records, made, feed, published, directory, frozen, slot>>
  BY DEF Waits
<1>2. /\ ExtrasOf(S) \in [S -> Extras] /\ DOMAIN ExtrasOf(S) = S
      /\ \A q \in S : ExtrasOf(S)[q] = records[q].extra
  BY <1>0 DEF ExtrasOf, Extra
<1>3. /\ reading \in ReadingOf(S) /\ reading.seen = ExtrasOf(S) /\ reading.record = r
      /\ reading.op = op /\ reading.called = FALSE
  BY <1>0, <1>2 DEF ReadingOf
<1> HIDE DEF reading
<1>4. /\ waiting'[w] = reading /\ \A v \in Waiters \ {w} : waiting'[v] = waiting[v]
      /\ waiting' \in [Waiters -> {waiting'[v] : v \in Waiters}]
  BY <1>0, <1>1
<1>5. SeenBy(w)' = S
  BY <1>2, <1>3, <1>4 DEF SeenBy
<1>6. PublishTypeOK'
  <2>1. ASSUME NEW v \in Waiters
        PROVE  waiting'[v] \in ReadingOf(SeenBy(v))' /\ SeenBy(v)' \subseteq 1..made'
    <3>1. CASE v = w
      <4>1. ReadingOf(SeenBy(w))' = ReadingOf(S)
        BY <1>5 DEF ReadingOf
      <4>. QED
        BY <1>0, <1>1, <1>3, <1>4, <1>5, <3>1, <4>1
    <3>2. CASE v # w
      <4>1. waiting'[v] = waiting[v] /\ SeenBy(v)' = SeenBy(v)
        BY <1>4, <3>2 DEF SeenBy
      <4>2. ReadingOf(SeenBy(v))' = ReadingOf(SeenBy(v))
        BY <4>1 DEF ReadingOf
      <4>. QED
        BY <1>0, <1>1, <4>1, <4>2, WaitingTypes
    <3>. QED
      BY <3>1, <3>2
  <2>. QED
    BY <1>0, <1>1, <1>4, <2>1 DEF PublishTypeOK
<1>7. PublishedBefore' /\ ReclaimedIsGone'
  BY <1>1 DEF PublishInv, PublishedBefore, ReclaimedIsGone, Alive, IsItem
<1>8. SeenIsGone'
  <2> SUFFICES ASSUME NEW v \in Waiters, NEW q \in SeenBy(v)'
               PROVE  GoneIfReclaimed(q, waiting[v].seen[q])'
    BY DEF SeenIsGone
  <2>1. CASE v = w
    <3>1. q \in S /\ waiting'[v].seen[q] = records[q].extra /\ q \in Alive
      BY <1>2, <1>3, <1>4, <1>5, <2>1
    <3>. QED
      BY <1>1, <3>1 DEF GoneIfReclaimed, PublishInv, ReclaimedIsGone, IsItem
  <2>2. CASE v # w
    <3>1. waiting'[v] = waiting[v] /\ q \in SeenBy(v)
      BY <1>4, <2>2 DEF SeenBy
    <3>. QED
      BY <1>1, <3>1 DEF PublishInv, SeenIsGone, GoneIfReclaimed, IsItem
  <2>. QED
    BY <2>1, <2>2
<1>9. ReclaimsItem'
  <2> SUFFICES ASSUME NEW v \in Waiters, waiting'[v].op = "reclaim"
               PROVE  LET q == waiting'[v].record IN
                      /\ q \in 1..made' /\ records'[q].resource \in PublishItems
                      /\ \A p \in SeenBy(v)' : records'[p].resource = records'[q].resource
                      /\ waiting'[v].called => directory'[records'[q].resource] # "kept"
    BY DEF ReclaimsItem, IsItem
  <2>1. CASE v = w
    BY <1>0, <1>1, <1>3, <1>4, <1>5, <2>1 DEF IsItem
  <2>2. CASE v # w
    <3>1. waiting'[v] = waiting[v] /\ SeenBy(v)' = SeenBy(v)
      BY <1>4, <2>2 DEF SeenBy
    <3>. QED
      BY <1>1, <3>1 DEF PublishInv, ReclaimsItem, IsItem
  <2>. QED
    BY <2>1, <2>2
<1>10. RetiredStep
  BY <1>0, <1>1, RaisesAll
<1>. QED
  BY <1>6, <1>7, <1>8, <1>9, <1>10 DEF PublishInv

(* The provider deletes the directory of the item that is reclaimed.       *)
LEMMA ProviderDeletesKeeps ==
    ASSUME PublishInv, NEW w \in Waiters, ProviderDeletes(w)
    PROVE  PublishInv' /\ RetiredStep
<1> DEFINE q == waiting[w].record
           i == records[q].resource
<1>0. /\ PublishTypeOK /\ waiting \in [Waiters -> {waiting[v] : v \in Waiters}]
      /\ directory \in [PublishItems -> {"kept", "gone", "unlisted"}]
      /\ waiting[w] \in ReadingOf(SeenBy(w))
  BY PublishTypes, WaitingTypes DEF PublishInv
<1>1. q \in 1..made /\ i \in PublishItems
  BY DEF PublishInv, ReclaimsItem, ProviderDeletes, IsItem
<1>2. /\ waiting' = [waiting EXCEPT ![w].called = TRUE]
      /\ directory' = [directory EXCEPT ![i] = IF @ = "kept" THEN "gone" ELSE @]
      /\ UNCHANGED <<records, made, feed, published, frozen, slot, publishOps>>
  BY DEF ProviderDeletes
<1> HIDE DEF i, q
<1>3. /\ directory' \in [PublishItems -> {"kept", "gone", "unlisted"}] /\ directory'[i] # "kept"
      /\ \A j \in PublishItems : directory[j] # "kept" => directory'[j] # "kept"
  BY <1>0, <1>1, <1>2
<1>4. /\ waiting' \in [Waiters -> {waiting'[v] : v \in Waiters}]
      /\ \A v \in Waiters : SeenBy(v)' = SeenBy(v) /\ waiting'[v].seen = waiting[v].seen
                            /\ waiting'[v].op = waiting[v].op
                            /\ waiting'[v].record = waiting[v].record
                            /\ waiting'[v] \in ReadingOf(SeenBy(v))
  <2>1. waiting' \in [Waiters -> {waiting'[v] : v \in Waiters}]
    BY <1>0, <1>2
  <2>2. ASSUME NEW v \in Waiters
        PROVE  /\ waiting'[v].seen = waiting[v].seen /\ waiting'[v].op = waiting[v].op
               /\ waiting'[v].record = waiting[v].record
               /\ waiting'[v] \in ReadingOf(SeenBy(v))
    <3>1. waiting[v] \in ReadingOf(SeenBy(v))
      BY <1>0, WaitingTypes
    <3>2. [waiting[v] EXCEPT !.called = TRUE] \in ReadingOf(SeenBy(v))
      BY <3>1 DEF ReadingOf
    <3>3. waiting'[v] = IF v = w THEN [waiting[v] EXCEPT !.called = TRUE] ELSE waiting[v]
      BY <1>0, <1>2
    <3>. QED
      BY <3>1, <3>2, <3>3 DEF ReadingOf
  <2>. QED
    BY <2>1, <2>2 DEF SeenBy
<1>5. PublishTypeOK'
  <2>1. \A v \in Waiters : waiting'[v] \in ReadingOf(SeenBy(v))' /\ SeenBy(v)' \subseteq 1..made'
    <3> TAKE v \in Waiters
    <3>1. SeenBy(v)' = SeenBy(v) /\ waiting'[v] \in ReadingOf(SeenBy(v)) /\ made' = made
          /\ SeenBy(v) \subseteq 1..made
      BY <1>0, <1>2, <1>4, WaitingTypes
    <3>2. ReadingOf(SeenBy(v))' = ReadingOf(SeenBy(v))
      BY <3>1 DEF ReadingOf
    <3>. QED
      BY <3>1, <3>2
  <2>. QED
    BY <1>0, <1>2, <1>3, <1>4, <2>1 DEF PublishTypeOK
<1>6. \A r \in 1..made : IsItem(r) => records[r].resource \in PublishItems
  BY DEF IsItem
<1>7. PublishedBefore' /\ ReclaimedIsGone'
  BY <1>2, <1>3, <1>6 DEF PublishInv, PublishedBefore, ReclaimedIsGone, Alive, IsItem
<1>8. SeenIsGone'
  BY <1>2, <1>3, <1>4 DEF PublishInv, SeenIsGone, GoneIfReclaimed, IsItem
<1>9. ReclaimsItem'
  <2> SUFFICES ASSUME NEW v \in Waiters, waiting'[v].op = "reclaim"
               PROVE  LET p == waiting'[v].record IN
                      /\ p \in 1..made' /\ records'[p].resource \in PublishItems
                      /\ \A r \in SeenBy(v)' : records'[r].resource = records'[p].resource
                      /\ waiting'[v].called => directory'[records'[p].resource] # "kept"
    BY DEF ReclaimsItem, IsItem
  <2>1. /\ waiting[v].record \in 1..made /\ IsItem(waiting[v].record)
        /\ \A r \in SeenBy(v) : records[r].resource = records[waiting[v].record].resource
        /\ waiting[v].called => directory[records[waiting[v].record].resource] # "kept"
    BY <1>4 DEF PublishInv, ReclaimsItem
  <2>2. waiting'[v].called => directory'[records[waiting[v].record].resource] # "kept"
    <3>1. CASE v = w
      BY <1>3, <3>1 DEF i, q
    <3>2. CASE v # w
      <4>1. waiting'[v] = waiting[v]
        BY <1>0, <1>2, <3>2
      <4>. QED
        BY <1>3, <2>1, <4>1 DEF IsItem
    <3>. QED
      BY <3>1, <3>2
  <2>. QED
    BY <1>2, <1>4, <2>1, <2>2 DEF IsItem
<1>10. RetiredStep
  BY <1>0, <1>2, RaisesAll
<1>. QED
  BY <1>5, <1>7, <1>8, <1>9, <1>10 DEF PublishInv

(* The requests that write rows at once.                                   *)
LEMMA RequestKeeps ==
    ASSUME PublishInv, NEW r \in Alive,
           \/ Archive(r) \/ TakeOffline(r) \/ DeleteRecord(r) \/ ReclaimAgain(r)
           \/ \E on \in BOOLEAN : SetRule(r, on)
           \/ \E k \in PublishTargets : EditRecord(r, k)
    PROVE  PublishInv' /\ RetiredStep
<1>0. /\ PublishTypeOK /\ r \in 1..made /\ publishOps \in Nat /\ slot \in 0..MaxSlots
      /\ frozen \in BOOLEAN /\ directory \in [PublishItems -> {"kept", "gone", "unlisted"}]
      /\ waiting \in [Waiters -> {waiting[v] : v \in Waiters}]
      /\ records \in [1..made -> Record]
  BY PublishTypes DEF PublishInv, PublishTypeOK
<1>1. \A q \in 1..made : /\ records[q] \in Record /\ records[q].extra \in Extras
                         /\ Extra(q) = records[q].extra /\ Extra(q) \in Extras
                         /\ records[q].extra.state \in Lifecycle
  BY <1>0, PublishTypes DEF Extra, Extras
<1>2. /\ Group(r) \in SUBSET Alive /\ Group(r) \in SUBSET (1..made) /\ r \in Group(r)
      /\ ExtrasOf(Group(r)) \in [Group(r) -> Extras]
      /\ \A q \in Group(r) : ExtrasOf(Group(r))[q] = records[q].extra
      /\ \A q \in Group(r) : GoneIfReclaimed(q, records[q].extra)
  <2>1. Group(r) \in SUBSET Alive /\ Group(r) \in SUBSET (1..made) /\ r \in Group(r)
    BY <1>0, GroupOf
  <2>. QED
    BY <1>1, <2>1 DEF ExtrasOf, GoneIfReclaimed, PublishInv, ReclaimedIsGone
<1>3. CASE Archive(r)
  <2> DEFINE extras == [q \in Group(r) |-> Retired(Extra(q), "archived")]
  <2>1. /\ Wrote(extras) /\ publishOps' = publishOps + 1
        /\ UNCHANGED <<made, feed, published, directory, waiting, frozen, slot>>
    BY <1>3 DEF Archive, Op
  <2>2. \A q \in Group(r) : /\ Retired(Extra(q), "archived") \in Extras
                            /\ Retired(Extra(q), "archived").state
                                 = Transition(records[q].extra.state, "archived")
    BY <1>1, <1>2, RetiredTyped DEF Lifecycle
  <2>3. extras \in [Group(r) -> Extras]
        /\ \A q \in Group(r) : extras[q].state = Transition(records[q].extra.state, "archived")
    BY <2>2
  <2> HIDE DEF extras
  <2>4. /\ records' \in [1..made -> Record]
        /\ \A q \in 1..made :
              /\ records'[q].at = records[q].at /\ records'[q].alive = records[q].alive
              /\ records'[q].resource = records[q].resource
              /\ records'[q].extra = IF q \in Group(r) THEN extras[q] ELSE records[q].extra
    <3>1. PICK S \in SUBSET (1..made) : S = Group(r)
      BY <1>2
    <3>2. extras \in [S -> Extras] /\ Wrote(extras)
      BY <2>1, <2>3, <3>1
    <3>. QED
      BY ZenonT(40), <1>0, <3>1, <3>2, WroteTyped
  <2>5. \A q \in 1..made : records'[q].extra.state = records[q].extra.state
                           \/ records'[q].extra.state = Transition(records[q].extra.state, "archived")
    BY <2>3, <2>4
  <2>6. \A q \in 1..made : records'[q].extra.state = "reclaimed" => records[q].extra.state = "reclaimed"
    BY <1>1, <2>5, TransitionIsUp DEF Lifecycle
  <2>7. PublishInv'
    BY <1>0, <2>1, <2>4, <2>6, RowsKeep
  <2>8. RetiredStep
    BY <1>0, <2>5, RaisesAll DEF Lifecycle
  <2>. QED
    BY <2>7, <2>8
<1>4. CASE TakeOffline(r)
  <2>1. /\ TakenDown(ExtrasOf(Group(r)), "offline") /\ publishOps' = publishOps + 1
        /\ UNCHANGED <<made, published, directory, waiting, frozen, slot>>
    BY <1>4 DEF TakeOffline, Op
  <2>2. /\ PublishInv'
        /\ \A q \in 1..made : records'[q].extra.state =
              IF q \in Group(r) THEN Transition(records[q].extra.state, "offline")
              ELSE records[q].extra.state
    <3>1. "offline" \in Lifecycle /\ publishOps' \in Nat
      BY <1>0, <2>1 DEF Lifecycle
    <3>2. waiting' = waiting /\ waiting' \in [Waiters -> {waiting'[v] : v \in Waiters}]
      BY <1>0, <2>1
    <3>3. /\ PublishInv'
          /\ \A q \in 1..made : records'[q].extra.state =
                IF q \in Group(r) THEN Transition(ExtrasOf(Group(r))[q].state, "offline")
                ELSE records[q].extra.state
      BY <1>2, <2>1, <3>1, <3>2, TakenDownKeeps
    <3>. QED
      BY <1>2, <3>3
  <2>3. RetiredStep
    BY <1>0, <2>2, RaisesAll DEF Lifecycle
  <2>. QED
    BY <2>2, <2>3
<1>5. CASE ReclaimAgain(r)
  <2>1. /\ TakenDown(ExtrasOf(Group(r)), "reclaimed") /\ publishOps' = publishOps + 1
        /\ records[NewestOf(Group(r))].extra.state = "reclaimed"
        /\ UNCHANGED <<made, published, directory, waiting, frozen, slot>>
    BY <1>5 DEF ReclaimAgain, Op
  <2>2. NewestOf(Group(r)) \in Group(r)
    BY <1>0, <1>2, NewestIsOne
  <2>3. \A q \in Group(r) : IsItem(q) /\ directory[records[q].resource] # "kept"
    <3>1. IsItem(NewestOf(Group(r))) /\ directory[records[NewestOf(Group(r))].resource] # "kept"
      BY <1>2, <2>1, <2>2 DEF GoneIfReclaimed
    <3>. QED
      BY <1>0, <2>2, <3>1, GroupOf
  <2>4. /\ PublishInv'
        /\ \A q \in 1..made : records'[q].extra.state =
              IF q \in Group(r) THEN Transition(records[q].extra.state, "reclaimed")
              ELSE records[q].extra.state
    <3>1. "reclaimed" \in Lifecycle /\ publishOps' \in Nat
      BY <1>0, <2>1 DEF Lifecycle
    <3>2. waiting' = waiting /\ waiting' \in [Waiters -> {waiting'[v] : v \in Waiters}]
      BY <1>0, <2>1
    <3>3. /\ PublishInv'
          /\ \A q \in 1..made : records'[q].extra.state =
                IF q \in Group(r) THEN Transition(ExtrasOf(Group(r))[q].state, "reclaimed")
                ELSE records[q].extra.state
      BY <1>2, <2>1, <2>3, <3>1, <3>2, TakenDownKeeps
    <3>. QED
      BY <1>2, <3>3
  <2>5. RetiredStep
    BY <1>0, <2>4, RaisesAll DEF Lifecycle
  <2>. QED
    BY <2>4, <2>5
<1>6. CASE DeleteRecord(r)
  <2> DEFINE New(q) == [records[q] EXCEPT !.alive = records[q].alive /\ q \notin Group(r)]
  <2>1. /\ records' = [q \in 1..made |-> New(q)] /\ publishOps' = publishOps + 1
        /\ UNCHANGED <<made, feed, published, directory, waiting, frozen, slot>>
    BY <1>6 DEF DeleteRecord, Op
  <2>2. \A q \in 1..made : /\ New(q) \in Record /\ New(q).extra = records[q].extra
                           /\ New(q).at = records[q].at /\ New(q).resource = records[q].resource
                           /\ New(q).alive => records[q].alive
    <3> TAKE q \in 1..made
    <3>1. records[q] \in Record
      BY <1>1
    <3>2. records[q].alive \in BOOLEAN
      BY <3>1 DEF Record
    <3>3. (records[q].alive /\ q \notin Group(r)) \in BOOLEAN
      OBVIOUS
    <3>. QED
      BY <3>1, <3>2, <3>3 DEF Record
  <2> HIDE DEF New
  <2>3. /\ records' \in [1..made -> Record] /\ \A q \in 1..made : records'[q] = New(q)
    BY <2>1, <2>2
  <2>4. PublishInv'
    BY <1>0, <2>1, <2>2, <2>3, RowsKeep
  <2>5. RetiredStep
    BY <1>0, <2>2, <2>3, RaisesAll
  <2>. QED
    BY <2>4, <2>5
<1>7. ASSUME NEW on \in BOOLEAN, SetRule(r, on)
      PROVE  PublishInv' /\ RetiredStep
  <2> DEFINE extras == [q \in {r} |-> [Extra(q) EXCEPT !.rule = SetFor(on)]]
  <2>1. /\ Wrote(extras) /\ publishOps' = publishOps + 1
        /\ UNCHANGED <<made, feed, published, directory, waiting, frozen, slot>>
    BY <1>7 DEF SetRule, Op
  <2>2. [Extra(r) EXCEPT !.rule = SetFor(on)] \in Extras
        /\ [Extra(r) EXCEPT !.rule = SetFor(on)].state = records[r].extra.state
    <3>1. SetFor(on) \in Rules
      BY <1>0, <1>1, RuleTyped DEF Extras
    <3>. QED
      BY <1>0, <1>1, <3>1 DEF Extras
  <2>3. extras \in [{r} -> Extras] /\ \A q \in {r} : extras[q].state = records[q].extra.state
    BY <2>2
  <2> HIDE DEF extras
  <2>4. {r} \in SUBSET (1..made)
    BY <1>0
  <2>5. /\ records' \in [1..made -> Record]
        /\ \A q \in 1..made :
              /\ records'[q].at = records[q].at /\ records'[q].alive = records[q].alive
              /\ records'[q].resource = records[q].resource
              /\ records'[q].extra = IF q \in {r} THEN extras[q] ELSE records[q].extra
    BY ZenonT(40), <1>0, <2>1, <2>3, <2>4, WroteTyped
  <2>6. \A q \in 1..made : records'[q].extra.state = records[q].extra.state
    BY <2>3, <2>5
  <2>7. PublishInv'
    BY <1>0, <2>1, <2>5, <2>6, RowsKeep
  <2>8. RetiredStep
    BY <1>0, <2>6, RaisesAll
  <2>. QED
    BY <2>7, <2>8
<1>8. ASSUME NEW k \in PublishTargets, EditRecord(r, k)
      PROVE  PublishInv' /\ RetiredStep
  <2>1. /\ publishOps' = publishOps + 1 /\ publishOps' \in Nat
        /\ UNCHANGED <<made, feed, published, directory, waiting, frozen, slot>>
    BY <1>0, <1>8 DEF EditRecord, Op
  <2> DEFINE new == [records[r] EXCEPT !.resource = k, !.extra.key = k]
  <2>2. /\ records' \in [1..made -> Record]
        /\ \A q \in 1..made : /\ records'[q].at = records[q].at
                              /\ records'[q].alive = records[q].alive
                              /\ records'[q].extra.state = records[q].extra.state
                              /\ IsItem(q) => records'[q].resource = records[q].resource
    <3>1. CASE IsItem(r)
      BY <1>0, <1>8, <3>1 DEF EditRecord
    <3>2. CASE ~IsItem(r)
      <4>1. records' = [records EXCEPT ![r] = new]
        BY <1>8, <3>2 DEF EditRecord
      <4>2. /\ new \in Record /\ new.at = records[r].at /\ new.alive = records[r].alive
            /\ new.extra.state = records[r].extra.state
        <5>1. records[r] \in Record /\ records[r].extra \in Extras /\ k \in Resources
          BY <1>0, <1>1 DEF Resources
        <5> DEFINE extra == [records[r].extra EXCEPT !.key = k]
        <5>2. extra \in Extras /\ extra.state = records[r].extra.state
          BY <5>1 DEF Extras
        <5>3. new = [records[r] EXCEPT !.resource = k, !.extra = extra]
          BY <5>1 DEF Record
        <5> HIDE DEF extra, new
        <5>. QED
          BY <5>1, <5>2, <5>3 DEF Record
      <4> HIDE DEF new
      <4>3. \A q \in 1..made : records'[q] = IF q = r THEN new ELSE records[q]
        BY <1>0, <4>1
      <4>4. records' \in [1..made -> Record]
        BY <1>0, <4>1, <4>2
      <4>. QED
        BY <3>2, <4>2, <4>3, <4>4
    <3>. QED
      BY <3>1, <3>2
  <2> HIDE DEF new
  <2>3. PublishInv'
    BY <1>0, <2>1, <2>2, RowsKeep
  <2>4. RetiredStep
    BY <1>0, <2>2, RaisesAll
  <2>. QED
    BY <2>3, <2>4
<1>. QED
  BY <1>3, <1>4, <1>5, <1>6, <1>7, <1>8

(* The answers, failures, restarts, and what others do.                    *)
LEMMA AnswerKeeps ==
    ASSUME PublishInv, NEW w \in Waiters, AnswerWrites(w) \/ ReclaimWrites(w) \/ AnswerFails(w)
    PROVE  PublishInv' /\ RetiredStep
<1>0. /\ PublishTypeOK /\ publishOps \in Nat /\ slot \in 0..MaxSlots
      /\ frozen \in BOOLEAN /\ directory \in [PublishItems -> {"kept", "gone", "unlisted"}]
      /\ waiting \in [Waiters -> {waiting[v] : v \in Waiters}]
      /\ records \in [1..made -> Record]
      /\ \A q \in 1..made : records[q].extra \in Extras
  BY PublishTypes DEF PublishInv, PublishTypeOK
<1>1. /\ SeenBy(w) \in SUBSET (1..made) /\ waiting[w].seen \in [SeenBy(w) -> Extras]
      /\ \A q \in SeenBy(w) : GoneIfReclaimed(q, waiting[w].seen[q])
  BY <1>0, WaitingTypes DEF PublishInv, SeenIsGone
<1>2. /\ waiting' \in [Waiters -> {waiting'[v] : v \in Waiters}] /\ waiting'[w] = NotWaiting
      /\ \A v \in Waiters : waiting'[v] = NotWaiting \/ waiting'[v] = waiting[v]
  <2>1. waiting' = [waiting EXCEPT ![w] = NotWaiting]
    BY DEF AnswerWrites, ReclaimWrites, AnswerFails, Answered
  <2>. QED
    BY <1>0, <2>1
<1>3. CASE AnswerWrites(w)
  <2> DEFINE extras == [q \in SeenBy(w) |-> [Seen(w, q) EXCEPT !.share = @ \/ waiting[w].op # "validate"]]
  <2>1. /\ Wrote(extras) /\ UNCHANGED <<made, feed, published, directory, frozen, slot, publishOps>>
    BY <1>3 DEF AnswerWrites
  <2>2. /\ extras \in [SeenBy(w) -> Extras]
        /\ \A q \in SeenBy(w) : extras[q].state = waiting[w].seen[q].state
    <3>1. ASSUME NEW q \in SeenBy(w)
          PROVE  /\ [Seen(w, q) EXCEPT !.share = @ \/ waiting[w].op # "validate"] \in Extras
                 /\ [Seen(w, q) EXCEPT !.share = @ \/ waiting[w].op # "validate"].state
                      = waiting[w].seen[q].state
      <4>1. Seen(w, q) \in Extras /\ Seen(w, q) = waiting[w].seen[q]
        BY <1>1 DEF Seen
      <4>2. (Seen(w, q).share \/ waiting[w].op # "validate") \in BOOLEAN
        OBVIOUS
      <4>. QED
        BY <4>1, <4>2 DEF Extras
    <3>. QED
      BY <3>1
  <2> HIDE DEF extras
  <2>3. /\ records' \in [1..made -> Record]
        /\ \A q \in 1..made :
              /\ records'[q].at = records[q].at /\ records'[q].alive = records[q].alive
              /\ records'[q].resource = records[q].resource
              /\ records'[q].extra = IF q \in SeenBy(w) THEN extras[q] ELSE records[q].extra
    <3>1. PICK S \in SUBSET (1..made) : S = SeenBy(w)
      BY <1>1
    <3>2. extras \in [S -> Extras] /\ Wrote(extras) /\ PublishTypeOK
      BY <1>0, <2>1, <2>2, <3>1
    <3>3. /\ records' \in [1..made -> Record]
          /\ \A q \in 1..made :
                /\ records'[q].at = records[q].at /\ records'[q].alive = records[q].alive
                /\ records'[q].resource = records[q].resource
                /\ records'[q].extra = IF q \in S THEN extras[q] ELSE records[q].extra
      BY <3>2, WroteTyped
    <3>. QED
      BY <3>1, <3>3
  <2>4. \A q \in 1..made : records'[q].alive /\ records'[q].extra.state = "reclaimed" =>
           \/ records[q].alive /\ records[q].extra.state = "reclaimed"
           \/ records'[q].resource \in PublishItems /\ directory'[records'[q].resource] # "kept"
    BY <1>1, <2>1, <2>2, <2>3 DEF GoneIfReclaimed, IsItem
  <2>5. PublishInv'
    BY <1>0, <1>2, <2>1, <2>3, <2>4, RowsKeep
  <2>6. RetiredStep
    <3> SUFFICES ASSUME NEW r \in Alive
                 PROVE  \/ Priority(records'[r].extra.state) >= Priority(records[r].extra.state)
                        \/ /\ r \in SeenBy(w) /\ waiting'[w] = NotWaiting
                           /\ Seen(w, r).state # records[r].extra.state
      BY DEF RetiredStep
    <3>1. r \in 1..made /\ records[r].extra.state \in Lifecycle
      BY <1>0, PublishTypes DEF Extras
    <3>2. Priority(records[r].extra.state) >= Priority(records[r].extra.state)
      BY <3>1, TransitionIsUp
    <3>. QED
      BY <1>2, <2>2, <2>3, <3>1, <3>2 DEF Seen
  <2>. QED
    BY <2>5, <2>6
<1>4. CASE ReclaimWrites(w)
  <2>1. /\ waiting[w].op = "reclaim" /\ waiting[w].called
        /\ TakenDown(waiting[w].seen, "reclaimed") /\ SeenBy(w) \in SUBSET Alive
        /\ UNCHANGED <<made, published, directory, frozen, slot, publishOps>>
    BY <1>4 DEF ReclaimWrites, StillThere
  <2>2. \A q \in SeenBy(w) : IsItem(q) /\ directory[records[q].resource] # "kept"
    BY <2>1 DEF PublishInv, ReclaimsItem, IsItem
  <2>3. /\ PublishInv'
        /\ \A q \in 1..made : records'[q].extra.state =
              IF q \in SeenBy(w) THEN Transition(waiting[w].seen[q].state, "reclaimed")
              ELSE records[q].extra.state
    <3>1. PICK S \in SUBSET Alive : S = SeenBy(w)
      BY <2>1
    <3>2. PICK extras \in [S -> Extras] : extras = waiting[w].seen
      BY <1>1, <3>1
    <3>3. "reclaimed" \in Lifecycle /\ publishOps' \in Nat
      BY <1>0, <2>1 DEF Lifecycle
    <3>4. /\ TakenDown(extras, "reclaimed")
          /\ \A q \in S : GoneIfReclaimed(q, extras[q]) /\ IsItem(q)
                          /\ directory[records[q].resource] # "kept"
      BY <1>1, <2>1, <2>2, <3>1, <3>2
    <3>5. /\ PublishInv'
          /\ \A q \in 1..made : records'[q].extra.state =
                IF q \in S THEN Transition(extras[q].state, "reclaimed")
                ELSE records[q].extra.state
      BY <1>2, <2>1, <3>3, <3>4, TakenDownKeeps
    <3>. QED
      BY <3>1, <3>2, <3>5
  <2>4. RetiredStep
    <3> SUFFICES ASSUME NEW r \in Alive
                 PROVE  Priority(records'[r].extra.state) >= Priority(records[r].extra.state)
      BY DEF RetiredStep
    <3>1. r \in 1..made /\ records[r].extra.state \in Lifecycle
      BY <1>0, PublishTypes DEF Extras
    <3>2. r \in SeenBy(w) => records'[r].extra.state = "reclaimed"
      <4>1. r \in SeenBy(w) => waiting[w].seen[r].state \in Lifecycle
        BY <1>1 DEF Extras
      <4>. QED
        BY <2>3, <3>1, <4>1 DEF Transition, Priority, Lifecycle
    <3>. QED
      BY <2>3, <3>1, <3>2 DEF Priority, Lifecycle
  <2>. QED
    BY <2>3, <2>4
<1>5. CASE AnswerFails(w)
  <2>1. UNCHANGED <<records, made, feed, published, directory, frozen, slot, publishOps>>
    BY <1>5 DEF AnswerFails
  <2>2. PublishInv'
    BY <1>0, <1>2, <2>1, RowsKeep
  <2>3. RetiredStep
    BY <1>0, <2>1, RaisesAll
  <2>. QED
    BY <2>2, <2>3
<1>. QED
  BY <1>3, <1>4, <1>5

LEMMA OthersKeep ==
    ASSUME PublishInv,
           \/ SlotComes \/ ApiRestarts
           \/ \E m \in feed : MessageDeleted(m)
           \/ \E i \in PublishItems : DeleteBatch(i)
    PROVE  PublishInv' /\ RetiredStep
<1>0. /\ PublishTypeOK /\ publishOps \in Nat /\ slot \in 0..MaxSlots /\ MaxSlots \in Nat
      /\ frozen \in BOOLEAN /\ directory \in [PublishItems -> {"kept", "gone", "unlisted"}]
      /\ waiting \in [Waiters -> {waiting[v] : v \in Waiters}]
      /\ records \in [1..made -> Record]
  BY PublishTypes, PublishAssumption DEF PublishInv, PublishTypeOK
<1>1. UNCHANGED <<records, made, published>> /\ feed' \subseteq feed
  BY DEF SlotComes, ApiRestarts, MessageDeleted, DeleteBatch
<1>2. /\ slot' \in 0..MaxSlots /\ frozen' \in BOOLEAN /\ publishOps' \in Nat
      /\ directory' \in [PublishItems -> {"kept", "gone", "unlisted"}]
      /\ \A i \in PublishItems : directory[i] # "kept" => directory'[i] # "kept"
      /\ waiting' \in [Waiters -> {waiting'[v] : v \in Waiters}]
      /\ \A w \in Waiters : waiting'[w] = NotWaiting \/ waiting'[w] = waiting[w]
  <2>1. CASE SlotComes
    BY <1>0, <2>1 DEF SlotComes
  <2>2. CASE ApiRestarts
    BY <1>0, <2>2 DEF ApiRestarts
  <2>3. CASE \E m \in feed : MessageDeleted(m)
    BY <1>0, <2>3 DEF MessageDeleted, Sync
  <2>4. ASSUME NEW i \in PublishItems, DeleteBatch(i)
        PROVE  /\ slot' \in 0..MaxSlots /\ frozen' \in BOOLEAN /\ publishOps' \in Nat
               /\ directory' \in [PublishItems -> {"kept", "gone", "unlisted"}]
               /\ \A j \in PublishItems : directory[j] # "kept" => directory'[j] # "kept"
               /\ waiting' = waiting
    <3>1. CASE Refreshing(i)
      BY <1>0, <2>4, <3>1 DEF DeleteBatch, Op
    <3>2. CASE ~Refreshing(i)
      <4>1. /\ directory' = [directory EXCEPT ![i] = "unlisted"] /\ UNCHANGED frozen
            /\ publishOps' = publishOps + 1 /\ slot' = slot /\ waiting' = waiting
        BY <2>4, <3>2 DEF DeleteBatch, Op
      <4>. QED
        BY <1>0, <4>1
    <3>. QED
      BY <3>1, <3>2
  <2>. QED
    BY <1>0, <2>1, <2>2, <2>3, <2>4
<1>3. PublishInv'
  BY <1>0, <1>1, <1>2, RowsKeep
<1>4. RetiredStep
  BY <1>0, <1>1, RaisesAll
<1>. QED
  BY <1>3, <1>4

(* The publications, by hand, of an item, and again.                       *)
LEMMA PublishesKeep ==
    ASSUME PublishInv,
           \/ \E k \in PublishTargets : PublishManual(k)
           \/ \E i \in PublishItems : PublishItem(i)
           \/ \E r \in Alive : Again(r) /\ UNCHANGED publishOps
    PROVE  PublishInv' /\ RetiredStep
<1>0. PublishTypeOK /\ publishOps \in Nat /\ HistoryLimit \in Nat /\ MaxSlots \in Nat
  BY PublishTypes, PublishAssumption DEF PublishInv
<1>1. \A k \in Resources : \A q \in Existing(k) : Extra(q) \in Extras
  BY <1>0, PublishTypes DEF Existing, Extra
<1>2. \A k \in Resources, share \in BOOLEAN : Blank(k, share) \in Extras
  <2> TAKE k \in Resources, share \in BOOLEAN
  <2>1. <<>> \in PublishHistories
    <3>1. <<>> \in [1..0 -> 1..MaxMessages]
      OBVIOUS
    <3>2. 0 \in 0..HistoryLimit
      BY <1>0
    <3>. QED
      BY <3>1, <3>2 DEF PublishHistories
  <2>2. NoText \in Texts
    BY <1>0 DEF NoText, Texts
  <2>. QED
    BY <2>1, <2>2 DEF Blank, Extras, Lifecycle, Rules, PublishHistories
<1>3. ASSUME NEW k \in PublishTargets, PublishManual(k)
      PROVE  PublishInv' /\ RetiredStep
  <2>1. k \in Resources
    BY DEF Resources
  <2>2. [r \in Existing(k) |-> Extra(r)] \in [Existing(k) -> Extras]
    BY <1>1, <2>1
  <2>3. Publish(k, Blank(k, FALSE), [r \in Existing(k) |-> Extra(r)]) /\ publishOps' = publishOps
    BY <1>3 DEF PublishManual
  <2>. QED
    BY <1>0, <1>2, <2>1, <2>2, <2>3, PublishKeeps
<1>4. ASSUME NEW i \in PublishItems, PublishItem(i)
      PROVE  PublishInv' /\ RetiredStep
  <2> DEFINE share == directory[i] = "kept"
             given == [r \in Existing(i) |-> [Extra(r) EXCEPT !.share = share]]
  <2>1. i \in Resources /\ share \in BOOLEAN
    BY DEF Resources
  <2>2. Publish(i, Blank(i, share), given) /\ publishOps' = publishOps
    BY <1>4 DEF PublishItem
  <2> HIDE DEF share
  <2>3. given \in [Existing(i) -> Extras]
    <3>1. \A r \in Existing(i) : [Extra(r) EXCEPT !.share = share] \in Extras
      BY <1>1, <2>1 DEF Extras
    <3>. QED
      BY <3>1
  <2> HIDE DEF given
  <2>. QED
    BY <1>0, <1>2, <2>1, <2>2, <2>3, PublishKeeps
<1>5. ASSUME NEW r \in Alive, Again(r), UNCHANGED publishOps
      PROVE  PublishInv' /\ RetiredStep
  <2> DEFINE k == records[r].resource
             given == [q \in Existing(k) |-> Extra(r)]
  <2>1. k \in Resources /\ Extra(r) \in Extras /\ given \in [Existing(k) -> Extras]
    BY <1>0, PublishTypes DEF Extra
  <2>2. Publish(k, Extra(r), given)
    BY <1>5 DEF Again
  <2> HIDE DEF k, given
  <2>. QED
    BY <1>0, <1>5, <2>1, <2>2, PublishKeeps
<1>. QED
  BY <1>3, <1>4, <1>5

LEMMA PublishStutters ==
    ASSUME PublishInv, UNCHANGED publishVars
    PROVE  PublishInv' /\ RetiredStep
<1>0. /\ PublishTypeOK /\ publishOps \in Nat /\ slot \in 0..MaxSlots
      /\ frozen \in BOOLEAN /\ directory \in [PublishItems -> {"kept", "gone", "unlisted"}]
      /\ waiting \in [Waiters -> {waiting[v] : v \in Waiters}]
      /\ records \in [1..made -> Record]
  BY PublishTypes DEF PublishInv, PublishTypeOK
<1>1. PublishInv'
  BY <1>0, RowsKeep DEF publishVars
<1>2. RetiredStep
  BY <1>0, RaisesAll DEF publishVars
<1>. QED
  BY <1>1, <1>2

LEMMA PublishInitially == PublishInit => PublishInv
<1> SUFFICES ASSUME PublishInit PROVE PublishInv
  OBVIOUS
<1>0. MaxRecords \in Nat /\ MaxMessages \in Nat /\ MaxSlots \in Nat
  BY PublishAssumption
<1>1. \A w \in Waiters : waiting[w] = NotWaiting /\ SeenBy(w) = {}
  BY DEF PublishInit, NotWaiting, SeenBy
<1>2. NotWaiting \in ReadingOf({})
  <2>1. <<>> \in [{} -> Extras]
    OBVIOUS
  <2>. QED
    BY <1>0, <2>1 DEF NotWaiting, ReadingOf
<1>3. PublishTypeOK
  <2>1. /\ records \in [1..made -> Record] /\ made \in 0..MaxRecords
        /\ feed \subseteq 1..published /\ published \in 0..MaxMessages
        /\ frozen \in BOOLEAN /\ slot \in 0..MaxSlots /\ publishOps \in Nat
    <3>1. records = <<>> /\ made = 0 /\ feed = {} /\ published = 0 /\ frozen = FALSE
          /\ slot = 0 /\ publishOps = 0
      BY DEF PublishInit
    <3>2. records \in [1..made -> Record]
      BY <3>1
    <3>3. frozen \in BOOLEAN /\ feed \subseteq 1..published
      BY <3>1
    <3>4. made \in 0..MaxRecords /\ published \in 0..MaxMessages
      BY <1>0, <3>1
    <3>5. slot \in 0..MaxSlots /\ publishOps \in Nat
      BY <1>0, <3>1
    <3>. QED
      BY <3>2, <3>3, <3>4, <3>5
  <2>2. /\ directory \in [PublishItems -> {"kept", "gone", "unlisted"}]
        /\ waiting \in [Waiters -> {waiting[w] : w \in Waiters}]
    BY Zenon DEF PublishInit
  <2>3. \A w \in Waiters : waiting[w] \in ReadingOf(SeenBy(w)) /\ SeenBy(w) \subseteq 1..made
    BY <1>1, <1>2
  <2>. QED
    BY <2>1, <2>2, <2>3 DEF PublishTypeOK
<1>4. PublishedBefore /\ ReclaimedIsGone
  BY DEF PublishInit, PublishedBefore, ReclaimedIsGone, Alive
<1>5. SeenIsGone /\ ReclaimsItem
  BY <1>1 DEF SeenIsGone, ReclaimsItem, NotWaiting
<1>. QED
  BY <1>3, <1>4, <1>5 DEF PublishInv

LEMMA PublishStep == PublishInv /\ [PublishNext]_publishVars => PublishInv' /\ RetiredStep
<1> SUFFICES ASSUME PublishInv, [PublishNext]_publishVars PROVE PublishInv' /\ RetiredStep
  OBVIOUS
<1>0. publishOps \in Nat /\ Alive \in SUBSET (1..made) /\ PublishTypeOK
  BY PublishTypes DEF PublishInv
<1>1. ASSUME NEW r \in Alive, NEW w \in Waiters,
             ValidateBegins(w, r) \/ RefreshBegins(w, r) \/ SyncBegins(w, r) \/ ReclaimBegins(w, r)
      PROVE  PublishInv' /\ RetiredStep
  <2>1. publishOps' \in Nat
    BY <1>0, <1>1 DEF ValidateBegins, RefreshBegins, SyncBegins, ReclaimBegins, Op, Sync
  <2>2. CASE ReclaimBegins(w, r)
    <3>1. Waits(w, "reclaim", r, Group(r)) /\ IsItem(r)
      BY <2>2 DEF ReclaimBegins
    <3>2. Group(r) \in SUBSET Alive /\ \A q \in Group(r) : records[q].resource = records[r].resource
      BY <1>0, <3>1, GroupOf
    <3>. QED
      BY <2>1, <3>1, <3>2, WaitsKeeps
  <2>3. CASE ~ReclaimBegins(w, r)
    <3>1. PICK op \in {"validate", "refresh", "sync"} : Waits(w, op, r, {r})
      BY <1>1, <2>3 DEF ValidateBegins, RefreshBegins, SyncBegins
    <3>2. {r} \in SUBSET Alive
      OBVIOUS
    <3>. QED
      BY <2>1, <3>1, <3>2, WaitsKeeps
  <2>. QED
    BY <2>2, <2>3
<1>2. ASSUME WorkerTurn PROVE PublishInv' /\ RetiredStep
  <2>1. UNCHANGED publishVars \/ \E r \in Alive : Again(r) /\ UNCHANGED publishOps
    BY <1>2 DEF WorkerTurn
  <2>. QED
    BY <2>1, PublishesKeep, PublishStutters
<1>3. ASSUME NEW r \in Alive, Republish(r) PROVE PublishInv' /\ RetiredStep
  BY <1>3, PublishesKeep DEF Republish
<1>. QED
  BY <1>1, <1>2, <1>3, PublishesKeep, PublishStutters, RequestKeeps, AnswerKeeps, OthersKeep,
     ProviderDeletesKeeps DEF PublishNext

(* What the publishing state can be.                                       *)
THEOREM PublishTypeCorrect == PublishSpec => []PublishTypeOK
<1>1. PublishInv => PublishTypeOK
  BY DEF PublishInv
<1>. QED
  BY <1>1, PublishInitially, PublishStep, PTL DEF PublishSpec

(* A record says its resource is reclaimed only when the directory of the  *)
(* item was deleted or its rows were, whatever waited while it was written *)
(* (_reclaim_publish_records).                                             *)
THEOREM ReclaimedAlwaysGone == PublishSpec => []ReclaimedIsGone
<1>1. PublishInv => ReclaimedIsGone
  BY DEF PublishInv
<1>. QED
  BY <1>1, PublishInitially, PublishStep, PTL DEF PublishSpec

(* A retired record comes back only by a publication, or by an answer that *)
(* writes back what it read before (the priorities of                      *)
(* _apply_publish_record_lifecycle).                                       *)
THEOREM RetiredAlwaysStay == PublishSpec => RetiredStays
<1>1. PublishInv /\ [PublishNext]_publishVars => [RetiredStep]_publishVars
  BY PublishStep
<1>. QED
  BY <1>1, PublishInitially, PublishStep, PTL DEF PublishSpec, RetiredStays, RetiredStep

----------------------------------------------------------------------------
(* Plans.  Every message of a window that the cursor has passed was in a   *)
(* completed batch (Walked); the batch under way holds every message with  *)
(* links from there to its last one, and to the end of the window when     *)
(* nothing follows (BatchOf).  No position exceeds what has arrived.       *)

Met(S)        == \A i \in S : chat[i] > 0 => i \in checked
MetWith(S, T) == \A i \in S : chat[i] > 0 => i \in checked \cup T
UpTo(n)       == {i \in MessageIds : i <= n}
From(m, n)    == {i \in MessageIds : m <= i /\ i <= n}
After(m, n)   == {i \in MessageIds : m < i /\ i <= n}

Walked(p) ==
    p.cycle /\ p.upper # 0 =>
        /\ p.mode = "backfill" => Met(UpTo(p.cursor))
        /\ p.mode = "frontier" => /\ p.lower <= p.through
                                  /\ p.cursor # 0 => Met(From(p.cursor, p.upper))
Shut(p) == ~p.cycle /\ p.upper = 0 /\ p.lower = 0

BatchOf(p, b) ==
    /\ p.mode = "backfill" => /\ MetWith(UpTo(b.last), b.ids)
                              /\ ~b.more => MetWith(UpTo(p.upper), b.ids)
    /\ p.mode = "frontier" => /\ MetWith(From(b.last, p.upper), b.ids)
                              /\ ~b.more => MetWith(After(p.lower, p.upper), b.ids)

Within(p) == p.cursor <= arrived /\ p.upper <= arrived /\ p.through <= arrived /\ p.lower <= arrived

PlanBounds ==
    /\ \A i \in MessageIds : chat[i] # None => i <= arrived
    /\ Within(plan) /\ Within(exec.want) /\ Within(exec.seen) /\ Within(edit.seen)
    /\ exec.preview.last <= arrived
    /\ \A i \in exec.preview.ids : i <= arrived

PlanWindow == (~plan.cycle => Shut(plan)) /\ Met(UpTo(plan.through)) /\ Walked(plan)

PlanRead ==
    exec.pc = "commit" =>
        /\ plan = [exec.seen EXCEPT !.enabled = plan.enabled]
        /\ exec.want.mode = exec.seen.mode /\ exec.want.enabled = exec.seen.enabled
        /\ Met(UpTo(exec.want.through)) /\ Walked(exec.want)
        /\ exec.preview.ids = {} => Shut(exec.want)
        /\ exec.preview.ids # {} => exec.want.cycle /\ BatchOf(exec.want, exec.preview)

PlanBatch ==
    exec.pc \in {"run", "after"} =>
        /\ plan.cycle /\ plan.mode = exec.seen.mode => BatchOf(plan, exec.preview)
        /\ ~(plan.cycle /\ plan.mode = exec.seen.mode) => Shut(plan)
        /\ exec.seen.mode = "backfill" => MetWith(UpTo(exec.preview.last), exec.preview.ids)
        /\ exec.pc = "after" => exec.preview.ids \subseteq checked

PlanInv == /\ LinkCheckPlanTypeOK /\ PlanBounds
           /\ mixed \/ (PlanWindow /\ PlanRead /\ PlanBatch)

LEMMA RowTypes ==
    ASSUME NEW p \in PlanRow
    PROVE  /\ p.mode \in Modes /\ p.enabled \in BOOLEAN /\ p.cycle \in BOOLEAN
           /\ p.cursor \in Id0 /\ p.lower \in Id0 /\ p.upper \in Id0 /\ p.through \in Id0
           /\ p.cursor \in Nat /\ p.lower \in Nat /\ p.upper \in Nat /\ p.through \in Nat
<1>1. MaxMessage \in Nat
  BY LinkCheckPlanAssumption
<1>. QED
  BY <1>1 DEF PlanRow, Id0

LEMMA PlanTypes ==
    ASSUME LinkCheckPlanTypeOK
    PROVE  /\ chat \in [MessageIds -> None..MaxLinks] /\ arrived \in Id0 /\ arrived \in Nat
           /\ \A i \in MessageIds : chat[i] \in Int /\ i \in Nat /\ i > 0 /\ i \in Id0
           /\ plan \in PlanRow /\ exec.seen \in PlanRow /\ exec.want \in PlanRow
           /\ edit.seen \in PlanRow /\ exec.preview \in Preview
           /\ exec.preview.ids \in SUBSET MessageIds /\ exec.preview.last \in Id0
           /\ exec.preview.last \in Nat /\ exec.preview.more \in BOOLEAN
           /\ edit.mode \in Modes /\ edit.enabled \in BOOLEAN
           /\ checked \in SUBSET MessageIds /\ mixed \in BOOLEAN
           /\ MaxMessage \in Nat /\ MaxLinks \in Nat
<1>1. MaxMessage \in Nat /\ MaxLinks \in Nat /\ MaxBatches \in Nat
  BY LinkCheckPlanAssumption
<1>2. chat \in [MessageIds -> None..MaxLinks] /\ arrived \in Id0 /\ plan \in PlanRow
      /\ checked \in SUBSET MessageIds /\ mixed \in BOOLEAN
  BY DEF LinkCheckPlanTypeOK
<1>3. /\ exec.seen \in PlanRow /\ exec.want \in PlanRow /\ exec.preview \in Preview
      /\ edit.seen \in PlanRow /\ edit.mode \in Modes /\ edit.enabled \in BOOLEAN
  BY DEF LinkCheckPlanTypeOK
<1>4. \A i \in MessageIds : chat[i] \in Int /\ i \in Nat /\ i > 0 /\ i \in Id0
  BY <1>1, <1>2 DEF MessageIds, None, Id0
<1>5. arrived \in Nat
  BY <1>1, <1>2 DEF Id0
<1>6. /\ exec.preview.ids \in SUBSET MessageIds /\ exec.preview.last \in Id0
      /\ exec.preview.last \in Nat /\ exec.preview.more \in BOOLEAN
  BY <1>1, <1>3 DEF Preview, Id0
<1>. QED
  BY <1>1, <1>2, <1>3, <1>4, <1>5, <1>6

(* What is written is the wanted row where it differs from the one read.   *)
LEMMA WrittenRow ==
    ASSUME plan \in PlanRow, NEW seen \in PlanRow, NEW want \in PlanRow
    PROVE  LET w == Written(seen, want) IN
           /\ w \in PlanRow
           /\ w.mode = IF want.mode = seen.mode THEN plan.mode ELSE want.mode
           /\ w.enabled = IF want.enabled = seen.enabled THEN plan.enabled ELSE want.enabled
           /\ w.cursor = IF want.cursor = seen.cursor THEN plan.cursor ELSE want.cursor
           /\ w.lower = IF want.lower = seen.lower THEN plan.lower ELSE want.lower
           /\ w.upper = IF want.upper = seen.upper THEN plan.upper ELSE want.upper
           /\ w.through = IF want.through = seen.through THEN plan.through ELSE want.through
           /\ w.cycle = IF want.cycle = seen.cycle THEN plan.cycle ELSE want.cycle
<1> DEFINE Col(c) == IF want[c] = seen[c] THEN plan[c] ELSE want[c]
           row == [mode |-> Col("mode"), enabled |-> Col("enabled"), cursor |-> Col("cursor"),
                   lower |-> Col("lower"), upper |-> Col("upper"),
                   through |-> Col("through"), cycle |-> Col("cycle")]
<1>1. DOMAIN plan = {"mode", "enabled", "cursor", "lower", "upper", "through", "cycle"}
  BY DEF PlanRow
<1>2. Written(seen, want) = row
  BY <1>1 DEF Written
<1>3. /\ Col("mode") \in Modes /\ Col("enabled") \in BOOLEAN /\ Col("cycle") \in BOOLEAN
      /\ Col("cursor") \in Id0 /\ Col("lower") \in Id0 /\ Col("upper") \in Id0
      /\ Col("through") \in Id0
  BY RowTypes
<1>. QED
  BY <1>2, <1>3 DEF PlanRow

(* In either order a nonempty set of messages has a first and a last one.  *)
LEMMA EndsExist ==
    ASSUME NEW mode \in Modes, NEW S \in SUBSET MessageIds, S # {}
    PROVE  /\ \E i \in S : \A j \in S : ~Ahead(mode, j, i)
           /\ \E i \in S : \A j \in S : ~Ahead(mode, i, j)
<1>1. MaxMessage \in Nat /\ S \in SUBSET (0..MaxMessage) /\ S \in SUBSET Nat
      /\ \A i \in S : i \in Nat
  BY LinkCheckPlanAssumption DEF MessageIds
<1>2. PICK l \in S : \A j \in S : l <= j
  BY <1>1, LeastExists
<1>3. PICK g \in S : \A j \in S : j <= g
  BY <1>1, GreatestExists
<1>. QED
  BY <1>1, <1>2, <1>3 DEF Ahead

LEMMA LinksOfTypes ==
    ASSUME NEW S \in SUBSET MessageIds
    PROVE  /\ LinksOf(S) \in Nat
           /\ \A T \in SUBSET S : LinksOf(T) <= LinksOf(S)
           /\ (\A i \in S : ~(chat[i] > 0)) /\ LinkCheckPlanTypeOK => LinksOf(S) = 0
<1> DEFINE L(T) == {l \in T \X (1..MaxLinks) : l[2] <= chat[l[1]]}
<1>0. MaxMessage \in Nat /\ MaxLinks \in Nat
  BY LinkCheckPlanAssumption
<1>1. IsFiniteSet(MessageIds) /\ IsFiniteSet(1..MaxLinks)
  BY <1>0, FS_Interval DEF MessageIds
<1>2. IsFiniteSet(S)
  BY <1>1, FS_Subset
<1>3. IsFiniteSet(S \X (1..MaxLinks))
  BY <1>1, <1>2, FS_Product
<1>4. IsFiniteSet(L(S))
  <2>1. L(S) \in SUBSET (S \X (1..MaxLinks))
    OBVIOUS
  <2>. QED
    BY <1>3, <2>1, FS_Subset
<1>5. LinksOf(S) \in Nat
  BY <1>4, FS_CardinalityType DEF LinksOf
<1>6. ASSUME NEW T \in SUBSET S
      PROVE  LinksOf(T) <= LinksOf(S)
  <2>1. L(T) \in SUBSET L(S)
    OBVIOUS
  <2> HIDE DEF L
  <2>2. Cardinality(L(T)) <= Cardinality(L(S))
    BY <1>4, <2>1, FS_Subset
  <2>. QED
    BY <2>2 DEF LinksOf, L
<1>7. ASSUME \A i \in S : ~(chat[i] > 0), LinkCheckPlanTypeOK
      PROVE  LinksOf(S) = 0
  <2>1. \A l \in S \X (1..MaxLinks) : ~(l[2] <= chat[l[1]])
    <3> TAKE l \in S \X (1..MaxLinks)
    <3>1. l[1] \in S /\ l[2] \in 1..MaxLinks
      OBVIOUS
    <3>2. chat[l[1]] \in Int /\ ~(chat[l[1]] > 0)
      BY <1>7, <3>1, PlanTypes
    <3>. QED
      BY <1>0, <3>1, <3>2
  <2>2. L(S) = {}
    BY <2>1
  <2>. QED
    BY <2>2, FS_EmptySet DEF LinksOf
<1>. QED
  BY <1>5, <1>6, <1>7

(* What a selection is: every candidate with links up to the last one, and *)
(* all of them when nothing follows; nothing only when none has links.     *)
LEMMA SelectionTakes ==
    ASSUME LinkCheckPlanTypeOK, NEW mode \in Modes, NEW cursor \in Id0,
           NEW lower \in Id0, NEW upper \in Id0
    PROVE  LET C == Candidates(mode, cursor, lower, upper)
               b == Selection(mode, cursor, lower, upper) IN
           /\ b \in Preview /\ b.ids \in SUBSET C
           /\ b.ids = {} => b.last = 0 /\ \A i \in C : ~(chat[i] > 0)
           /\ b.ids # {} => /\ b.last \in C
                            /\ \A i \in C : chat[i] > 0 => i \in b.ids \/ Ahead(mode, b.last, i)
                            /\ ~b.more => \A i \in C : chat[i] > 0 => i \in b.ids
<1> DEFINE C == Candidates(mode, cursor, lower, upper)
           Before(i) == {j \in C : Ahead(mode, j, i)}
           taken == {i \in C : chat[i] > 0 /\ LinksOf(Before(i)) < BatchTarget}
           last == CHOOSE i \in taken : \A j \in taken : ~Ahead(mode, i, j)
           more == \E j \in C : Ahead(mode, last, j)
           b == Selection(mode, cursor, lower, upper)
<1>0. C \in SUBSET MessageIds /\ BatchTarget \in Nat /\ BatchTarget > 0
      /\ MaxMessage \in Nat
  BY LinkCheckPlanAssumption DEF Candidates
<1>1. b = IF taken = {} THEN NoPreview ELSE [ids |-> taken, last |-> last, more |-> more]
  BY DEF Selection
<1>2. \A i, j, k \in MessageIds : Ahead(mode, i, j) /\ Ahead(mode, j, k) => Ahead(mode, i, k)
  BY <1>0 DEF Ahead, MessageIds
<1>3. \A i, j \in MessageIds : i = j \/ Ahead(mode, i, j) \/ Ahead(mode, j, i)
  BY <1>0 DEF Ahead, MessageIds
<1> HIDE DEF C
<1>4. \A i \in C : Before(i) \in SUBSET C /\ Before(i) \in SUBSET MessageIds /\ LinksOf(Before(i)) \in Nat
  BY <1>0, LinksOfTypes
<1>5. ASSUME taken = {}
      PROVE  \A i \in C : ~(chat[i] > 0)
  <2> SUFFICES ASSUME NEW k \in C, chat[k] > 0 PROVE FALSE
    OBVIOUS
  <2> DEFINE P == {i \in C : chat[i] > 0}
  <2>1. P \in SUBSET MessageIds /\ P # {}
    BY <1>0
  <2>2. PICK i \in P : \A j \in P : ~Ahead(mode, j, i)
    BY <2>1, EndsExist
  <2>3. \A j \in Before(i) : ~(chat[j] > 0)
    BY <2>2
  <2>4. LinksOf(Before(i)) = 0
    BY <1>4, <2>2, <2>3, LinksOfTypes
  <2>5. i \in taken
    BY <1>0, <2>2, <2>4
  <2>. QED
    BY <1>5, <2>5
<1>6. ASSUME taken # {}
      PROVE  /\ last \in taken /\ \A j \in taken : ~Ahead(mode, last, j)
             /\ \A i \in C : chat[i] > 0 => i \in taken \/ Ahead(mode, last, i)
  <2>1. taken \in SUBSET MessageIds
    BY <1>0
  <2>2. \E i \in taken : \A j \in taken : ~Ahead(mode, i, j)
    BY <1>6, <2>1, EndsExist
  <2>3. last \in taken /\ \A j \in taken : ~Ahead(mode, last, j)
    BY <2>2
  <2> HIDE DEF last
  <2>4. ASSUME NEW i \in C, chat[i] > 0, ~Ahead(mode, last, i)
        PROVE  i \in taken
    <3>1. i = last \/ Ahead(mode, i, last)
      BY <1>0, <1>3, <2>1, <2>3, <2>4
    <3>2. Before(i) \in SUBSET Before(last)
      BY <1>0, <1>2, <2>1, <2>3, <3>1
    <3>3. LinksOf(Before(i)) <= LinksOf(Before(last))
      BY <1>4, <2>3, <3>2, LinksOfTypes
    <3>4. LinksOf(Before(last)) < BatchTarget /\ LinksOf(Before(last)) \in Nat
      BY <1>4, <2>3
    <3>. QED
      BY <1>0, <1>4, <2>4, <3>3, <3>4
  <2>. QED
    BY <2>3, <2>4
<1> HIDE DEF taken, last
<1>7. CASE taken = {}
  <2>1. b = NoPreview
    BY <1>1, <1>7
  <2>2. b \in Preview /\ b.ids = {} /\ b.last = 0
    BY <1>0, <2>1 DEF NoPreview, Preview, Id0
  <2>. QED
    BY <1>5, <1>7, <2>2 DEF C
<1>8. CASE taken # {}
  <2>1. b = [ids |-> taken, last |-> last, more |-> more]
    BY <1>1, <1>8
  <2>2. taken \in SUBSET C /\ last \in C /\ last \in Id0 /\ more \in BOOLEAN
    <3>1. taken \in SUBSET C
      BY DEF taken
    <3>2. last \in C /\ last \in MessageIds
      BY <1>0, <1>6, <1>8, <3>1
    <3>3. more \in BOOLEAN
      OBVIOUS
    <3>. QED
      BY <1>0, <3>1, <3>2, <3>3 DEF MessageIds, Id0
  <2>3. b \in Preview /\ b.ids = taken /\ b.last = last /\ b.more = more
    BY <1>0, <2>1, <2>2 DEF Preview
  <2>4. ASSUME ~more, NEW i \in C, chat[i] > 0
        PROVE  i \in taken
    BY <1>6, <1>8, <2>4
  <2>. QED
    BY <1>6, <1>8, <2>2, <2>3, <2>4 DEF C
<1>. QED
  BY <1>7, <1>8

LEMMA LatestIs ==
    ASSUME PlanBounds, LinkCheckPlanTypeOK
    PROVE  /\ LatestMessage \in Id0 /\ LatestMessage <= arrived
           /\ \A i \in MessageIds : chat[i] # None => LatestMessage # 0
<1> DEFINE known == {i \in MessageIds : chat[i] # None}
           latest == CHOOSE i \in known : \A j \in known : j <= i
<1>0. MaxMessage \in Nat /\ arrived \in Nat
  BY PlanTypes
<1>1. CASE known = {}
  <2>1. LatestMessage = 0
    BY <1>1 DEF LatestMessage
  <2>. QED
    BY <1>0, <1>1, <2>1 DEF Id0
<1>2. CASE known # {}
  <2>1. known \in SUBSET (0..MaxMessage)
    BY <1>0 DEF MessageIds
  <2>2. \E i \in known : \A j \in known : j <= i
    BY <1>0, <1>2, <2>1, GreatestExists
  <2>3. latest \in known
    BY <2>2
  <2>4. LatestMessage = latest
    BY <1>2 DEF LatestMessage
  <2> HIDE DEF latest
  <2>. QED
    BY <1>0, <2>3, <2>4 DEF PlanBounds, MessageIds, Id0
<1>. QED
  BY <1>1, <1>2

(* The window that a run works on.                                         *)
LEMMA OpenedIs ==
    ASSUME LinkCheckPlanTypeOK, PlanBounds
    PROVE  LET p == Opened(plan) IN
           /\ p \in PlanRow /\ p.mode = plan.mode /\ p.enabled = plan.enabled
           /\ p.through = plan.through /\ p.cycle /\ Within(p)
           /\ \A i \in MessageIds : chat[i] # None => p.upper # 0
           /\ PlanWindow => Walked(p)
<1>1. plan \in PlanRow /\ MaxMessage \in Nat /\ arrived \in Nat /\ arrived \in Id0
  BY PlanTypes
<1>2. /\ LatestMessage \in Id0 /\ LatestMessage <= arrived
      /\ \A i \in MessageIds : chat[i] # None => LatestMessage # 0
  BY LatestIs
<1>3. CASE plan.cycle /\ plan.upper # 0
  <2>1. Opened(plan) = plan
    BY <1>3 DEF Opened
  <2>. QED
    BY <1>1, <1>3, <2>1, RowTypes DEF PlanBounds, PlanWindow
<1>4. CASE ~(plan.cycle /\ plan.upper # 0)
  <2> DEFINE lower == IF plan.mode = "frontier" /\ LatestMessage # 0
                         /\ plan.through > WindowOverlap
                      THEN plan.through - WindowOverlap ELSE 0
             p == [plan EXCEPT !.cycle = TRUE, !.cursor = 0, !.upper = LatestMessage, !.lower = lower]
  <2>1. Opened(plan) = p
    BY <1>4 DEF Opened
  <2>2. lower \in Id0 /\ lower <= plan.through /\ lower <= arrived
    <3>1. plan.through \in Nat /\ plan.through \in Id0 /\ plan.through <= arrived
          /\ WindowOverlap \in Nat
      BY <1>1, RowTypes, LinkCheckPlanAssumption DEF PlanBounds, Within
    <3>. QED
      BY <1>1, <3>1 DEF Id0
  <2> HIDE DEF lower
  <2>3. p \in PlanRow /\ p.mode = plan.mode /\ p.enabled = plan.enabled
        /\ p.through = plan.through /\ p.cycle = TRUE /\ p.cursor = 0 /\ p.upper = LatestMessage
        /\ p.lower = lower
    <3>1. 0 \in Id0
      BY <1>1 DEF Id0
    <3>. QED
      BY <1>1, <1>2, <2>2, <3>1 DEF PlanRow
  <2> HIDE DEF p
  <2>4. Within(p)
    BY <1>1, <1>2, <2>2, <2>3 DEF PlanBounds, Within
  <2>5. UpTo(0) = {}
    BY <1>1 DEF UpTo, MessageIds
  <2>6. Walked(p)
    BY <2>2, <2>3, <2>5 DEF Walked, Met
  <2>. QED
    BY <1>2, <2>1, <2>3, <2>4, <2>6
<1>. QED
  BY <1>3, <1>4

(* What has been checked remains so: only the next message to arrive is    *)
(* new.                                                                    *)
LEMMA MetKept ==
    ASSUME LinkCheckPlanTypeOK, PlanBounds, checked \subseteq checked',
           \A i \in MessageIds : i <= arrived /\ chat'[i] > 0 => chat[i] > 0
    PROVE  /\ \A S \in SUBSET MessageIds, T \in SUBSET MessageIds :
                 (\A i \in S : i <= arrived) => /\ Met(S) => Met(S)'
                                                /\ MetWith(S, T) => MetWith(S, T)'
           /\ \A n \in Nat : UpTo(n) \in SUBSET MessageIds
           /\ \A n \in Nat : n <= arrived => \A i \in UpTo(n) : i <= arrived
           /\ \A m, n \in Nat : From(m, n) \in SUBSET MessageIds /\ After(m, n) \in SUBSET MessageIds
           /\ \A m, n \in Nat : n <= arrived => (\A i \in From(m, n) : i <= arrived)
                                                /\ (\A i \in After(m, n) : i <= arrived)
<1>1. arrived \in Nat /\ \A i \in MessageIds : i \in Nat
  BY PlanTypes
<1>2. ASSUME NEW S \in SUBSET MessageIds, NEW T \in SUBSET MessageIds, \A i \in S : i <= arrived
      PROVE  (Met(S) => Met(S)') /\ (MetWith(S, T) => MetWith(S, T)')
  BY <1>2 DEF Met, MetWith
<1>3. /\ \A n \in Nat : UpTo(n) \in SUBSET MessageIds
      /\ \A m, n \in Nat : From(m, n) \in SUBSET MessageIds /\ After(m, n) \in SUBSET MessageIds
  BY DEF UpTo, From, After
<1>4. /\ \A n \in Nat : n <= arrived => \A i \in UpTo(n) : i <= arrived
      /\ \A m, n \in Nat : n <= arrived => (\A i \in From(m, n) : i <= arrived)
                                           /\ (\A i \in After(m, n) : i <= arrived)
  BY <1>1 DEF UpTo, From, After
<1>. QED
  BY <1>2, <1>3, <1>4

LEMMA WindowsKept ==
    ASSUME LinkCheckPlanTypeOK, PlanBounds, checked \subseteq checked',
           \A i \in MessageIds : i <= arrived /\ chat'[i] > 0 => chat[i] > 0,
           NEW p \in PlanRow, Within(p), NEW b \in Preview, b.last <= arrived
    PROVE  /\ Met(UpTo(p.through)) => Met(UpTo(p.through))'
           /\ Walked(p) => Walked(p)'
           /\ MetWith(UpTo(b.last), b.ids) => MetWith(UpTo(b.last), b.ids)'
           /\ BatchOf(p, b) => BatchOf(p, b)'
<1>1. /\ p.cursor \in Nat /\ p.lower \in Nat /\ p.upper \in Nat /\ p.through \in Nat
      /\ b.last \in Nat /\ b.ids \in SUBSET MessageIds
  <2>1. MaxMessage \in Nat
    BY PlanTypes
  <2>. QED
    BY <2>1, RowTypes DEF Preview, Id0
<1>2. p.cursor <= arrived /\ p.upper <= arrived /\ p.through <= arrived
  BY DEF Within
<1>3. /\ \A S \in SUBSET MessageIds, T \in SUBSET MessageIds :
            (\A i \in S : i <= arrived) => /\ Met(S) => Met(S)'
                                           /\ MetWith(S, T) => MetWith(S, T)'
      /\ \A n \in Nat : UpTo(n) \in SUBSET MessageIds
      /\ \A n \in Nat : n <= arrived => \A i \in UpTo(n) : i <= arrived
      /\ \A m, n \in Nat : From(m, n) \in SUBSET MessageIds /\ After(m, n) \in SUBSET MessageIds
      /\ \A m, n \in Nat : n <= arrived => (\A i \in From(m, n) : i <= arrived)
                                           /\ (\A i \in After(m, n) : i <= arrived)
  BY MetKept
<1>4. ASSUME NEW n \in Nat, n <= arrived, NEW T \in SUBSET MessageIds
      PROVE  (Met(UpTo(n)) => Met(UpTo(n))') /\ (MetWith(UpTo(n), T) => MetWith(UpTo(n), T)')
  BY <1>3, <1>4 DEF UpTo
<1>5. ASSUME NEW m \in Nat, NEW n \in Nat, n <= arrived, NEW T \in SUBSET MessageIds
      PROVE  /\ Met(From(m, n)) => Met(From(m, n))'
             /\ MetWith(From(m, n), T) => MetWith(From(m, n), T)'
             /\ MetWith(After(m, n), T) => MetWith(After(m, n), T)'
  BY <1>3, <1>5 DEF From, After
<1>6. (Met(UpTo(p.through)) => Met(UpTo(p.through))') /\ (Walked(p) => Walked(p)')
  BY <1>1, <1>2, <1>4, <1>5 DEF Walked
<1>7. /\ MetWith(UpTo(b.last), b.ids) => MetWith(UpTo(b.last), b.ids)'
      /\ BatchOf(p, b) => BatchOf(p, b)'
  BY <1>1, <1>2, <1>4, <1>5 DEF BatchOf
<1>. QED
  BY <1>6, <1>7

ExecRow == [pc: {"idle", "read", "commit", "run", "after"},
            seen: PlanRow, want: PlanRow, preview: Preview, left: 0..MaxBatches]
EditRow == [pc: {"idle", "commit"}, seen: PlanRow, mode: Modes, enabled: BOOLEAN]

LEMMA PlanRows ==
    /\ \A mode \in Modes : /\ NewPlan(mode) \in PlanRow /\ NewPlan(mode).mode = mode
                           /\ Shut(NewPlan(mode)) /\ NewPlan(mode).through = 0
                           /\ (arrived \in Nat => Within(NewPlan(mode)))
    /\ NoExec \in ExecRow /\ NoEdit \in EditRow /\ NoPreview \in Preview
    /\ NoExec.pc = "idle" /\ NoExec.preview.last = 0 /\ NoExec.preview.ids = {}
    /\ (arrived \in Nat => Within(NoExec.seen) /\ Within(NoExec.want) /\ Within(NoEdit.seen))
<1>0. MaxMessage \in Nat /\ MaxBatches \in Nat /\ 0 \in Id0 /\ "backfill" \in Modes
  BY LinkCheckPlanAssumption DEF Id0, Modes
<1>1. ASSUME NEW mode \in Modes
      PROVE  /\ NewPlan(mode) \in PlanRow /\ NewPlan(mode).mode = mode
             /\ Shut(NewPlan(mode)) /\ NewPlan(mode).through = 0
             /\ (arrived \in Nat => Within(NewPlan(mode)))
  BY <1>0 DEF NewPlan, PlanRow, Shut, Within
<1>2. NoPreview \in Preview /\ NoPreview.last = 0 /\ NoPreview.ids = {}
  BY <1>0 DEF NoPreview, Preview
<1>3. /\ NoExec \in ExecRow /\ NoExec.pc = "idle" /\ NoExec.preview.last = 0
      /\ NoExec.preview.ids = {} /\ NoExec.seen = NewPlan("backfill")
      /\ NoExec.want = NewPlan("backfill")
  BY <1>0, <1>1, <1>2 DEF NoExec, ExecRow
<1>4. NoEdit \in EditRow /\ NoEdit.seen = NewPlan("backfill")
  BY <1>0, <1>1 DEF NoEdit, EditRow
<1>. QED
  BY <1>0, <1>1, <1>2, <1>3, <1>4

(* A step that leaves the row alone.                                       *)
LEMMA PlanRowKept ==
    ASSUME PlanInv, LinkCheckPlanTypeOK', PlanBounds', UNCHANGED <<plan, mixed>>,
           checked \subseteq checked',
           \A i \in MessageIds : i <= arrived /\ chat'[i] > 0 => chat[i] > 0,
           \/ exec'.pc \in {"idle", "read"}
           \/ /\ exec'.seen = exec.seen /\ exec'.want = exec.want
              /\ exec'.preview = exec.preview
              /\ \/ exec'.pc = exec.pc
                 \/ exec.pc = "run" /\ exec'.pc = "after" /\ exec.preview.ids \subseteq checked'
    PROVE  PlanInv'
<1>0. /\ LinkCheckPlanTypeOK /\ PlanBounds /\ plan \in PlanRow /\ exec.want \in PlanRow
      /\ exec.preview \in Preview /\ Within(plan) /\ Within(exec.want)
      /\ exec.preview.last <= arrived
  BY PlanTypes DEF PlanInv, PlanBounds
<1>1. /\ Met(UpTo(plan.through)) => Met(UpTo(plan.through))'
      /\ Walked(plan) => Walked(plan)'
      /\ BatchOf(plan, exec.preview) /\ exec'.preview = exec.preview => BatchOf(plan, exec.preview)'
  <2>1. /\ Met(UpTo(plan.through)) => Met(UpTo(plan.through))'
        /\ Walked(plan) => Walked(plan)'
    BY <1>0, WindowsKept
  <2>2. BatchOf(plan, exec.preview) /\ exec'.preview = exec.preview => BatchOf(plan, exec.preview)'
    BY <1>0, WindowsKept
  <2>. QED
    BY <2>1, <2>2
<1>2. ASSUME exec'.want = exec.want, exec'.preview = exec.preview
      PROVE  /\ Met(UpTo(exec.want.through)) => Met(UpTo(exec.want.through))'
             /\ Walked(exec.want) => Walked(exec.want)'
             /\ BatchOf(exec.want, exec.preview) => BatchOf(exec.want, exec.preview)'
             /\ MetWith(UpTo(exec.preview.last), exec.preview.ids)
                  => MetWith(UpTo(exec.preview.last), exec.preview.ids)'
  BY <1>0, <1>2, WindowsKept
<1>3. CASE mixed
  <2>1. mixed'
    BY Zenon, <1>3
  <2>2. LinkCheckPlanTypeOK' /\ PlanBounds'
    OBVIOUS
  <2>. QED
    BY Zenon, <2>1, <2>2 DEF PlanInv
<1>4. CASE ~mixed
  <2>1. PlanWindow /\ PlanRead /\ PlanBatch
    BY <1>4 DEF PlanInv
  <2>2. PlanWindow'
    BY <1>1, <2>1 DEF PlanWindow, Shut
  <2>3. PlanRead'
    BY <1>2, <2>1 DEF PlanRead, Shut
  <2>4. PlanBatch'
    BY <1>1, <1>2, <2>1 DEF PlanBatch, Shut
  <2>. QED
    BY <2>2, <2>3, <2>4 DEF PlanInv
<1>. QED
  BY <1>3, <1>4

LEMMA PlanRowTypes ==
    LinkCheckPlanTypeOK <=>
        /\ chat \in [MessageIds -> None..MaxLinks] /\ arrived \in Id0
        /\ plan \in PlanRow /\ due \in BOOLEAN /\ exec \in ExecRow /\ edit \in EditRow
        /\ checked \subseteq MessageIds /\ mixed \in BOOLEAN /\ oversized \in BOOLEAN
        /\ planEdits \in Nat /\ planFaults \in Nat
BY DEF LinkCheckPlanTypeOK, ExecRow, EditRow

(* Steps that leave the row alone.                                         *)
LEMMA PlanOthersKeep ==
    ASSUME PlanInv,
           \/ ClaimPlan \/ TaskCompletes \/ TaskFails \/ CrashPlan \/ PlanComesDue
           \/ \E mode \in Modes, enabled \in BOOLEAN : EditReads(mode, enabled)
           \/ \E n \in 0..MaxLinks : Arrive(n)
           \/ \E i \in MessageIds : LoseMessage(i)
           \/ UNCHANGED planVars
    PROVE  PlanInv'
<1>0. /\ LinkCheckPlanTypeOK /\ PlanBounds
      /\ chat \in [MessageIds -> None..MaxLinks] /\ arrived \in Id0 /\ arrived \in Nat
      /\ plan \in PlanRow /\ due \in BOOLEAN /\ exec \in ExecRow /\ edit \in EditRow
      /\ checked \subseteq MessageIds /\ mixed \in BOOLEAN /\ oversized \in BOOLEAN
      /\ planEdits \in Nat /\ planFaults \in Nat
      /\ MaxMessage \in Nat /\ MaxBatches \in Nat /\ MaxLinks \in Nat
  BY PlanRowTypes, PlanTypes, LinkCheckPlanAssumption DEF PlanInv
<1>1. CASE ClaimPlan
  <2>1. /\ exec' = [NoExec EXCEPT !.pc = "read", !.left = MaxBatches]
        /\ due' = FALSE
        /\ UNCHANGED <<chat, arrived, plan, edit, checked, mixed, oversized, planEdits, planFaults>>
    BY <1>1 DEF ClaimPlan
  <2>2. /\ exec' \in ExecRow /\ exec'.pc = "read" /\ exec'.seen = NoExec.seen
        /\ exec'.want = NoExec.want /\ exec'.preview = NoExec.preview
    <3>1. MaxBatches \in 0..MaxBatches /\ NoExec \in ExecRow
      BY <1>0, PlanRows
    <3>. QED
      BY <2>1, <3>1 DEF ExecRow
  <2>3. LinkCheckPlanTypeOK'
    BY <1>0, <2>1, <2>2 DEF LinkCheckPlanTypeOK, ExecRow, EditRow
  <2>4. PlanBounds'
    BY <1>0, <2>1, <2>2, PlanRows DEF PlanBounds, Within
  <2>. QED
    BY <2>1, <2>2, <2>3, <2>4, PlanRowKept
<1>2. CASE TaskCompletes
  <2>1. /\ exec.pc = "run" /\ exec' = [exec EXCEPT !.pc = "after"]
        /\ checked' = checked \cup exec.preview.ids
        /\ UNCHANGED <<chat, arrived, plan, due, edit, mixed, oversized, planEdits, planFaults>>
    BY <1>2 DEF TaskCompletes
  <2>2. /\ exec' \in ExecRow /\ exec'.pc = "after" /\ exec'.seen = exec.seen
        /\ exec'.want = exec.want /\ exec'.preview = exec.preview
        /\ exec.preview.ids \subseteq MessageIds
    BY <1>0, <2>1 DEF ExecRow, Preview
  <2>3. LinkCheckPlanTypeOK'
    BY <1>0, <2>1, <2>2 DEF LinkCheckPlanTypeOK, ExecRow, EditRow
  <2>4. PlanBounds'
    BY <1>0, <2>1, <2>2 DEF PlanBounds, Within
  <2>. QED
    BY <2>1, <2>2, <2>3, <2>4, PlanRowKept
<1>3. CASE TaskFails \/ CrashPlan
  <2>1. /\ exec' = NoExec /\ oversized' \in BOOLEAN /\ planFaults' \in Nat
        /\ UNCHANGED <<chat, arrived, plan, due, edit, checked, mixed, planEdits>>
    <3>1. CASE TaskFails
      <4>1. oversized' = (oversized \/ LinksOf(exec.preview.ids) > LinkLimit)
        BY <3>1 DEF TaskFails
      <4>2. oversized' \in BOOLEAN
        BY Zenon, <4>1
      <4>. QED
        BY <1>0, <3>1, <4>2 DEF TaskFails
    <3>2. CASE CrashPlan
      BY <1>0, <3>2 DEF CrashPlan
    <3>. QED
      BY <1>3, <3>1, <3>2
  <2>2. LinkCheckPlanTypeOK'
    BY <1>0, <2>1, PlanRows DEF LinkCheckPlanTypeOK, ExecRow, EditRow
  <2>3. PlanBounds'
    BY <1>0, <2>1, PlanRows DEF PlanBounds, Within
  <2>. QED
    BY <2>1, <2>2, <2>3, PlanRows, PlanRowKept
<1>4. CASE PlanComesDue \/ UNCHANGED planVars
  <2>1. /\ due' \in BOOLEAN
        /\ UNCHANGED <<chat, arrived, plan, exec, edit, checked, mixed, oversized, planEdits, planFaults>>
    BY <1>0, <1>4 DEF PlanComesDue, planVars
  <2>2. LinkCheckPlanTypeOK'
    BY <1>0, <2>1 DEF LinkCheckPlanTypeOK, ExecRow, EditRow
  <2>3. PlanBounds'
    BY <1>0, <2>1 DEF PlanBounds, Within
  <2>. QED
    BY <2>1, <2>2, <2>3, PlanRowKept
<1>5. ASSUME NEW mode \in Modes, NEW enabled \in BOOLEAN, EditReads(mode, enabled)
      PROVE  PlanInv'
  <2>1. /\ edit' = [pc |-> "commit", seen |-> plan, mode |-> mode, enabled |-> enabled]
        /\ planEdits' \in Nat
        /\ UNCHANGED <<chat, arrived, plan, due, exec, checked, mixed, oversized, planFaults>>
    BY <1>0, <1>5 DEF EditReads
  <2>2. edit' \in EditRow /\ edit'.seen = plan
    BY <1>0, <2>1 DEF EditRow
  <2>3. LinkCheckPlanTypeOK'
    BY <1>0, <2>1, <2>2 DEF LinkCheckPlanTypeOK, ExecRow, EditRow
  <2>4. PlanBounds'
    BY <1>0, <2>1, <2>2 DEF PlanBounds, Within
  <2>. QED
    BY <2>1, <2>3, <2>4, PlanRowKept
<1>6. ASSUME NEW n \in 0..MaxLinks, Arrive(n)
      PROVE  PlanInv'
  <2>1. /\ arrived < MaxMessage /\ arrived' = arrived + 1
        /\ chat' = [chat EXCEPT ![arrived + 1] = n]
        /\ UNCHANGED <<plan, due, exec, edit, checked, mixed, oversized, planEdits, planFaults>>
    BY <1>6 DEF Arrive
  <2>2. /\ arrived' \in Id0 /\ n \in None..MaxLinks /\ arrived + 1 \in MessageIds
        /\ chat' \in [MessageIds -> None..MaxLinks]
        /\ \A i \in MessageIds : chat'[i] = IF i = arrived + 1 THEN n ELSE chat[i]
    BY <1>0, <2>1 DEF Id0, MessageIds, None
  <2>3. LinkCheckPlanTypeOK'
    BY <1>0, <2>1, <2>2 DEF LinkCheckPlanTypeOK, ExecRow, EditRow
  <2>4. PlanBounds'
    <3>1. \A i \in MessageIds : chat'[i] # None => i <= arrived'
      BY <1>0, <2>1, <2>2, PlanTypes DEF PlanBounds
    <3>2. /\ \A p \in PlanRow : Within(p) => Within(p)'
          /\ \A i \in Nat : i <= arrived => i <= arrived'
      BY <1>0, <2>1, RowTypes DEF Within
    <3>3. Within(plan)' /\ Within(exec.want)' /\ Within(exec.seen)' /\ Within(edit.seen)'
      BY <1>0, <2>1, <3>2, PlanTypes DEF PlanBounds
    <3>4. exec'.preview.last <= arrived' /\ \A i \in exec'.preview.ids : i <= arrived'
      BY <1>0, <2>1, <3>2, PlanTypes DEF PlanBounds
    <3>. QED
      BY <3>1, <3>3, <3>4 DEF PlanBounds
  <2>5. \A i \in MessageIds : i <= arrived /\ chat'[i] > 0 => chat[i] > 0
    BY <1>0, <2>2
  <2>. QED
    BY <2>1, <2>3, <2>4, <2>5, PlanRowKept
<1>7. ASSUME NEW k \in MessageIds, LoseMessage(k)
      PROVE  PlanInv'
  <2>1. PICK n \in {None, 0} : chat' = [chat EXCEPT ![k] = n]
    BY <1>7 DEF LoseMessage
  <2>2. /\ planEdits' \in Nat /\ chat[k] > 0
        /\ UNCHANGED <<arrived, plan, due, exec, edit, checked, mixed, oversized, planFaults>>
    BY <1>0, <1>7 DEF LoseMessage
  <2>3. /\ chat' \in [MessageIds -> None..MaxLinks] /\ n \in Int /\ ~(n > 0)
        /\ \A i \in MessageIds : chat'[i] = IF i = k THEN n ELSE chat[i]
    BY <1>0, <2>1 DEF None
  <2>4. LinkCheckPlanTypeOK'
    BY <1>0, <2>2, <2>3 DEF LinkCheckPlanTypeOK, ExecRow, EditRow
  <2>5. PlanBounds'
    <3>1. \A i \in MessageIds : chat'[i] # None => i <= arrived
      BY <1>0, <2>2, <2>3 DEF PlanBounds, None
    <3>. QED
      BY <1>0, <2>2, <3>1 DEF PlanBounds, Within
  <2>6. \A i \in MessageIds : i <= arrived /\ chat'[i] > 0 => chat[i] > 0
    BY <2>2, <2>3
  <2>. QED
    BY <2>2, <2>4, <2>5, <2>6, PlanRowKept
<1>. QED
  BY <1>1, <1>2, <1>3, <1>4, <1>5, <1>6, <1>7

(* The window and the batch that a run prepares.                           *)
LEMMA ReadPlanKeeps ==
    ASSUME PlanInv, ReadPlan
    PROVE  PlanInv'
<1> DEFINE want == Opened(plan)
           lower == IF want.mode = "frontier" THEN want.lower ELSE 0
           C == Candidates(want.mode, want.cursor, lower, want.upper)
           b == Selection(want.mode, want.cursor, lower, want.upper)
           through == IF want.upper = 0 THEN want.through ELSE want.upper
           closed == Closed([want EXCEPT !.through = through])
           next == IF b.ids # {} THEN want ELSE closed
<1>0. /\ LinkCheckPlanTypeOK /\ PlanBounds
      /\ chat \in [MessageIds -> None..MaxLinks] /\ arrived \in Id0 /\ arrived \in Nat
      /\ plan \in PlanRow /\ due \in BOOLEAN /\ exec \in ExecRow /\ edit \in EditRow
      /\ checked \subseteq MessageIds /\ mixed \in BOOLEAN /\ oversized \in BOOLEAN
      /\ planEdits \in Nat /\ planFaults \in Nat /\ MaxMessage \in Nat
      /\ \A i \in MessageIds : chat[i] \in Int /\ i \in Nat /\ i > 0
  BY PlanRowTypes, PlanTypes, LinkCheckPlanAssumption DEF PlanInv
<1>1. /\ want \in PlanRow /\ want.mode = plan.mode /\ want.enabled = plan.enabled
      /\ want.through = plan.through /\ want.cycle /\ Within(want)
      /\ \A i \in MessageIds : chat[i] # None => want.upper # 0
      /\ PlanWindow => Walked(want)
  BY <1>0, OpenedIs
<1>2. /\ exec.pc = "read"
      /\ exec' = IF ~plan.enabled THEN NoExec
                 ELSE [exec EXCEPT !.pc = "commit", !.seen = plan, !.preview = b, !.want = next]
      /\ UNCHANGED <<chat, arrived, plan, due, edit, checked, mixed, oversized, planEdits, planFaults>>
  BY DEF ReadPlan
<1> HIDE DEF want
<1>3. /\ want.mode \in Modes /\ want.enabled \in BOOLEAN /\ want.cycle \in BOOLEAN
      /\ want.cursor \in Id0 /\ want.lower \in Id0 /\ want.upper \in Id0 /\ want.through \in Id0
      /\ want.cursor \in Nat /\ want.lower \in Nat /\ want.upper \in Nat /\ want.through \in Nat
      /\ lower \in Id0 /\ lower \in Nat /\ 0 \in Id0
  <2>1. 0 \in Id0
    BY <1>0 DEF Id0
  <2>. QED
    BY <1>1, <2>1, RowTypes
<1>4. C = {i \in MessageIds : /\ chat[i] # None /\ i > lower
                              /\ want.upper # 0 => i <= want.upper
                              /\ want.cursor # 0 => IF want.mode = "frontier" THEN i < want.cursor
                                                    ELSE i > want.cursor}
  BY DEF Candidates
<1> HIDE DEF lower
<1>5. /\ b \in Preview /\ b.ids \in SUBSET C
      /\ b.ids = {} => b.last = 0 /\ \A i \in C : ~(chat[i] > 0)
      /\ b.ids # {} => /\ b.last \in C
                       /\ \A i \in C : chat[i] > 0 => i \in b.ids \/ Ahead(want.mode, b.last, i)
                       /\ ~b.more => \A i \in C : chat[i] > 0 => i \in b.ids
  BY <1>0, <1>3, SelectionTakes
<1> HIDE DEF C, b
<1>6. /\ through \in Id0 /\ closed \in PlanRow /\ closed.mode = want.mode
      /\ closed.enabled = want.enabled /\ closed.through = through /\ closed.cycle = FALSE
      /\ closed.cursor = 0 /\ closed.lower = 0 /\ closed.upper = 0
  <2>1. through \in Id0
    BY <1>3
  <2> HIDE DEF through
  <2>. QED
    BY <1>1, <1>3, <2>1 DEF Closed, PlanRow
<1> HIDE DEF closed
<1>7. /\ next \in PlanRow /\ Within(next)
      /\ next.mode = plan.mode /\ next.enabled = plan.enabled
  <2>1. Within(closed)
    BY <1>0, <1>1, <1>3, <1>6 DEF Within
  <2>. QED
    BY <1>1, <1>6, <2>1
<1> HIDE DEF next
<1>8. CASE ~plan.enabled
  <2>1. exec' = NoExec
    BY <1>2, <1>8
  <2>2. LinkCheckPlanTypeOK'
    BY <1>0, <1>2, <2>1, PlanRows DEF LinkCheckPlanTypeOK, ExecRow, EditRow
  <2>3. PlanBounds'
    <3>1. /\ Within(NoExec.seen) /\ Within(NoExec.want) /\ NoExec.preview.last <= arrived
          /\ \A i \in NoExec.preview.ids : i <= arrived
      BY <1>0, PlanRows
    <3>2. UNCHANGED <<plan, chat, arrived, edit>>
      BY <1>2
    <3>. QED
      BY <1>0, <2>1, <3>1, <3>2 DEF PlanBounds, Within
  <2>. QED
    BY <1>2, <2>1, <2>2, <2>3, PlanRows, PlanRowKept
<1>9. CASE plan.enabled
  <2>1. /\ exec' \in ExecRow /\ exec'.pc = "commit" /\ exec'.seen = plan
        /\ exec'.preview = b /\ exec'.want = next
    BY <1>0, <1>2, <1>5, <1>7, <1>9 DEF ExecRow
  <2>2. LinkCheckPlanTypeOK'
    BY <1>0, <1>2, <2>1 DEF LinkCheckPlanTypeOK, ExecRow, EditRow
  <2>3. PlanBounds'
    <3>1. b.last <= arrived /\ \A i \in b.ids : i <= arrived
      BY <1>0, <1>4, <1>5 DEF PlanBounds
    <3>. QED
      BY <1>0, <1>2, <1>7, <2>1, <3>1 DEF PlanBounds, Within
  <2>4. ASSUME ~mixed
        PROVE  PlanWindow' /\ PlanRead' /\ PlanBatch'
    <3>1. PlanWindow /\ Walked(want) /\ Met(UpTo(plan.through))
      BY <1>1, <2>4 DEF PlanInv, PlanWindow
    <3>2. PlanWindow'
      BY <1>2, <3>1 DEF PlanWindow, Met, UpTo, Walked, Shut, From
    <3>3. PlanBatch'
      BY <2>1 DEF PlanBatch
    <3>4. plan = [plan EXCEPT !.enabled = plan.enabled]
      BY <1>0 DEF PlanRow
    (* What the cursor has not passed was looked at.                       *)
    <3>5. ASSUME NEW i \in MessageIds, chat[i] > 0, i \notin checked,
                 want.upper # 0, i <= want.upper
          PROVE  /\ want.mode = "backfill" => i \in C
                 /\ want.mode = "frontier" /\ i > want.lower => i \in C
      <4>1. CASE want.mode = "backfill"
        <5>1. Met(UpTo(want.cursor))
          BY <1>1, <3>1, <3>5, <4>1 DEF Walked
        <5>2. ~(i <= want.cursor)
          BY <3>5, <5>1 DEF Met, UpTo
        <5>3. lower = 0 /\ want.mode # "frontier"
          BY <4>1 DEF lower
        <5>. QED
          BY <1>0, <1>3, <1>4, <3>5, <4>1, <5>2, <5>3 DEF None
      <4>2. CASE want.mode = "frontier"
        <5>1. want.cursor # 0 => Met(From(want.cursor, want.upper))
          BY <1>1, <3>1, <3>5, <4>2 DEF Walked
        <5>2. want.cursor # 0 => ~(want.cursor <= i)
          BY <3>5, <5>1 DEF Met, From
        <5>3. lower = want.lower /\ want.mode # "backfill"
          BY <4>2 DEF lower
        <5>. QED
          BY <1>0, <1>3, <1>4, <3>5, <4>2, <5>2, <5>3 DEF None
      <4>. QED
        BY <1>3, <4>1, <4>2 DEF Modes
    <3>6. want.mode = "frontier" /\ want.upper # 0 => want.lower <= want.through
      BY <1>1, <3>1 DEF Walked
    <3>7. CASE b.ids = {}
      <4>1. next = closed
        BY <3>7 DEF next
      <4>2. Met(UpTo(through))
        <5>1. CASE want.upper = 0
          BY <1>1, <3>1, <5>1 DEF PlanWindow
        <5>2. CASE want.upper # 0
          <6> SUFFICES ASSUME NEW i \in MessageIds, i <= want.upper, chat[i] > 0, i \notin checked
                       PROVE  FALSE
            BY <5>2 DEF Met, UpTo
          <6>1. i \notin C
            BY <1>5, <3>7
          <6>2. want.mode = "frontier" /\ ~(i > want.lower)
            BY <1>3, <3>5, <5>2, <6>1 DEF Modes
          <6>3. i <= plan.through
            BY <1>0, <1>1, <1>3, <3>6, <5>2, <6>2
          <6>. QED
            BY <3>1, <6>3 DEF Met, UpTo
        <5>. QED
          BY <5>1, <5>2
      <4>3. Shut(next) /\ Walked(next) /\ next.through = through
        BY <1>6, <4>1 DEF Shut, Walked
      <4>4. PlanRead'
        BY <1>2, <1>7, <2>1, <3>4, <3>7, <4>2, <4>3 DEF PlanRead, Met, UpTo, Walked, From, Shut
      <4>. QED
        BY <3>2, <3>3, <4>4
    <3>8. CASE b.ids # {}
      <4>1. next = want
        BY <3>8 DEF next
      <4>2. /\ b.last \in C /\ b.last \in MessageIds /\ chat[b.last] # None /\ want.upper # 0
        BY <1>1, <1>4, <1>5, <3>8
      <4>3. BatchOf(want, b)
        <5>1. CASE want.mode = "backfill"
          <6>1. MetWith(UpTo(b.last), b.ids)
            <7> SUFFICES ASSUME NEW i \in MessageIds, i <= b.last, chat[i] > 0, i \notin checked
                         PROVE  i \in b.ids
              BY DEF MetWith, UpTo
            <7>1. i <= want.upper
              BY <1>0, <1>3, <1>4, <4>2
            <7>2. i \in C
              BY <3>5, <4>2, <5>1, <7>1
            <7>3. ~Ahead(want.mode, b.last, i)
              BY <1>0, <4>2, <5>1 DEF Ahead
            <7>. QED
              BY <1>5, <3>8, <7>2, <7>3
          <6>2. ~b.more => MetWith(UpTo(want.upper), b.ids)
            BY <1>5, <3>5, <3>8, <4>2, <5>1 DEF MetWith, UpTo
          <6>. QED
            BY <5>1, <6>1, <6>2 DEF BatchOf
        <5>2. CASE want.mode = "frontier"
          <6>0. lower = want.lower
            BY <5>2 DEF lower
          <6>1. MetWith(From(b.last, want.upper), b.ids)
            <7> SUFFICES ASSUME NEW i \in MessageIds, b.last <= i, i <= want.upper,
                                chat[i] > 0, i \notin checked
                         PROVE  i \in b.ids
              BY DEF MetWith, From
            <7>1. i > want.lower
              BY <1>0, <1>3, <1>4, <4>2, <6>0
            <7>2. i \in C
              BY <3>5, <4>2, <5>2, <7>1
            <7>3. ~Ahead(want.mode, b.last, i)
              BY <1>0, <4>2, <5>2 DEF Ahead
            <7>. QED
              BY <1>5, <3>8, <7>2, <7>3
          <6>2. ~b.more => MetWith(After(want.lower, want.upper), b.ids)
            <7> SUFFICES ASSUME ~b.more, NEW i \in MessageIds, want.lower < i, i <= want.upper,
                                chat[i] > 0, i \notin checked
                         PROVE  i \in b.ids
              BY DEF MetWith, After
            <7>1. i > want.lower
              BY <1>0, <1>3
            <7>2. i \in C
              BY <3>5, <4>2, <5>2, <7>1
            <7>. QED
              BY <1>5, <3>8, <7>2
          <6>. QED
            BY <5>2, <6>1, <6>2 DEF BatchOf
        <5>. QED
          BY <1>3, <5>1, <5>2 DEF Modes
      <4>4. Met(UpTo(want.through))
        BY <1>1, <3>1
      <4>5. PlanRead'
        BY <1>1, <1>2, <1>7, <2>1, <3>1, <3>4, <3>8, <4>1, <4>3, <4>4
           DEF PlanRead, Met, MetWith, UpTo, Walked, BatchOf, From, After
      <4>. QED
        BY <3>2, <3>3, <4>5
    <3>. QED
      BY <3>7, <3>8
  <2>5. mixed' \/ ~mixed
    BY Zenon, <1>2
  <2>. QED
    BY Zenon, <2>2, <2>3, <2>4, <2>5 DEF PlanInv
<1>. QED
  BY <1>8, <1>9

(* Rows with the same window are as far.                                   *)
LEMMA SameWindow ==
    ASSUME NEW p, NEW q, q.mode = p.mode, q.cursor = p.cursor, q.lower = p.lower,
           q.upper = p.upper, q.through = p.through, q.cycle = p.cycle
    PROVE  /\ Walked(p) => Walked(q)
           /\ Shut(p) => Shut(q)
           /\ \A b : BatchOf(p, b) => BatchOf(q, b)
<1>1. Walked(p) => Walked(q)
  BY Zenon DEF Walked
<1>2. Shut(p) => Shut(q)
  BY Zenon DEF Shut
<1>3. \A b : BatchOf(p, b) => BatchOf(q, b)
  BY Zenon DEF BatchOf
<1>. QED
  BY <1>1, <1>2, <1>3

(* A row that is written is within what has arrived.                       *)
LEMMA WrittenWithin ==
    ASSUME plan \in PlanRow, NEW seen \in PlanRow, NEW want \in PlanRow,
           Within(plan), Within(want)
    PROVE  Written(seen, want) \in PlanRow /\ Within(Written(seen, want))
BY WrittenRow DEF Within

(* The row changes, and the run ends or goes on.                           *)
LEMMA PlanTyped ==
    ASSUME PlanInv, NEW p \in PlanRow, Within(p), plan' = p,
           NEW x \in ExecRow, exec' = x, Within(x.seen), Within(x.want),
           x.preview.last <= arrived, \A i \in x.preview.ids : i <= arrived,
           NEW e \in EditRow, edit' = e, Within(e.seen),
           due' \in BOOLEAN, mixed' \in BOOLEAN, planFaults' \in Nat,
           UNCHANGED <<chat, arrived, checked, oversized, planEdits>>
    PROVE  LinkCheckPlanTypeOK' /\ PlanBounds'
<1>0. /\ PlanBounds /\ chat \in [MessageIds -> None..MaxLinks] /\ arrived \in Id0
      /\ checked \subseteq MessageIds /\ oversized \in BOOLEAN /\ planEdits \in Nat
  BY PlanRowTypes DEF PlanInv
<1>1. LinkCheckPlanTypeOK'
  <2>1. plan' \in PlanRow /\ exec' \in ExecRow /\ edit' \in EditRow
    OBVIOUS
  <2>. QED
    BY <1>0, <2>1 DEF LinkCheckPlanTypeOK, ExecRow, EditRow
<1>2. PlanBounds'
  BY <1>0 DEF PlanBounds, Within
<1>. QED
  BY <1>1, <1>2

LEMMA CommitPlanKeeps ==
    ASSUME PlanInv, CommitPlan
    PROVE  PlanInv'
<1> DEFINE w == Written(exec.seen, exec.want)
           run == [NoExec EXCEPT !.pc = "run", !.left = exec.left,
                                 !.seen = NewPlan(exec.seen.mode), !.preview = exec.preview]
<1>0. /\ LinkCheckPlanTypeOK /\ PlanBounds /\ arrived \in Nat
      /\ plan \in PlanRow /\ due \in BOOLEAN /\ exec \in ExecRow /\ edit \in EditRow
      /\ mixed \in BOOLEAN /\ planFaults \in Nat
      /\ exec.seen \in PlanRow /\ exec.want \in PlanRow /\ exec.preview \in Preview
      /\ exec.preview.ids \in SUBSET MessageIds
      /\ exec.seen.mode \in Modes /\ exec.left \in 0..MaxBatches
      /\ \A i \in MessageIds : i \in Nat
  <2>1. /\ LinkCheckPlanTypeOK /\ PlanBounds /\ arrived \in Nat
        /\ plan \in PlanRow /\ due \in BOOLEAN /\ exec \in ExecRow /\ edit \in EditRow
        /\ mixed \in BOOLEAN /\ planFaults \in Nat
        /\ exec.seen \in PlanRow /\ exec.want \in PlanRow /\ exec.preview \in Preview
    BY PlanRowTypes, PlanTypes DEF PlanInv
  <2>. QED
    BY <2>1, RowTypes, PlanTypes DEF ExecRow
<1>1. /\ exec.pc = "commit" /\ mixed' = (mixed \/ plan.mode # exec.seen.mode)
      /\ UNCHANGED <<chat, arrived, due, edit, checked, oversized, planEdits>>
      /\ planFaults' \in Nat
      /\ \/ plan' = w /\ exec' = run /\ exec.preview.ids # {}
         \/ plan' = w /\ exec' = NoExec /\ exec.preview.ids = {}
         \/ plan' = w /\ exec' = NoExec /\ planFaults' = planFaults + 1
         \/ plan' = plan /\ exec' = NoExec /\ planFaults' = planFaults + 1
  BY <1>0 DEF CommitPlan
<1>2. w \in PlanRow /\ Within(w)
  BY <1>0, WrittenWithin DEF PlanBounds
<1>3. /\ run \in ExecRow /\ run.pc = "run" /\ run.seen = NewPlan(exec.seen.mode)
      /\ run.seen.mode = exec.seen.mode
      /\ run.want = NoExec.want /\ run.preview = exec.preview
  BY <1>0, PlanRows DEF ExecRow
<1>4. /\ Within(run.seen) /\ Within(run.want) /\ Within(NoExec.seen) /\ Within(NoExec.want)
      /\ run.preview.last <= arrived /\ NoExec.preview.last <= arrived
      /\ \A i \in run.preview.ids : i <= arrived
      /\ \A i \in NoExec.preview.ids : i <= arrived
      /\ NoExec \in ExecRow /\ Within(edit.seen) /\ Within(plan)
  BY <1>0, <1>3, PlanRows DEF PlanBounds
<1> HIDE DEF run
<1>5. mixed' \in BOOLEAN
  BY Zenon, <1>1
<1>6. LinkCheckPlanTypeOK' /\ PlanBounds'
  <2>1. PICK p \in PlanRow, x \in ExecRow :
          /\ plan' = p /\ exec' = x /\ Within(p)
          /\ Within(x.seen) /\ Within(x.want) /\ x.preview.last <= arrived
          /\ \A i \in x.preview.ids : i <= arrived
    BY <1>0, <1>1, <1>2, <1>3, <1>4
  <2>2. edit' = edit /\ due' \in BOOLEAN /\ UNCHANGED <<chat, arrived, checked, oversized, planEdits>>
    BY <1>0, <1>1
  <2>. QED
    BY <1>0, <1>1, <1>4, <1>5, <2>1, <2>2, PlanTyped
<1>7. ASSUME ~mixed, plan.mode = exec.seen.mode
      PROVE  PlanWindow' /\ PlanRead' /\ PlanBatch'
  <2>1. /\ PlanWindow
        /\ plan = [exec.seen EXCEPT !.enabled = plan.enabled]
        /\ exec.want.mode = exec.seen.mode /\ exec.want.enabled = exec.seen.enabled
        /\ Met(UpTo(exec.want.through)) /\ Walked(exec.want)
        /\ exec.preview.ids = {} => Shut(exec.want)
        /\ exec.preview.ids # {} => exec.want.cycle /\ BatchOf(exec.want, exec.preview)
    BY <1>1, <1>7 DEF PlanInv, PlanRead
  <2>2. /\ plan.mode = exec.seen.mode /\ plan.cursor = exec.seen.cursor
        /\ plan.lower = exec.seen.lower /\ plan.upper = exec.seen.upper
        /\ plan.through = exec.seen.through /\ plan.cycle = exec.seen.cycle
    BY <1>0, <2>1 DEF PlanRow
  <2>3. /\ w.mode = exec.want.mode /\ w.cursor = exec.want.cursor /\ w.lower = exec.want.lower
        /\ w.upper = exec.want.upper /\ w.through = exec.want.through
        /\ w.cycle = exec.want.cycle
    BY <1>0, <2>2, WrittenRow
  <2> HIDE DEF w
  <2>4. /\ Walked(w) /\ Met(UpTo(w.through))
        /\ exec.preview.ids = {} => Shut(w)
        /\ exec.preview.ids # {} => w.cycle /\ BatchOf(w, exec.preview)
    BY <2>1, <2>3, SameWindow
  <2>5. PlanRead'
    BY <1>1, <1>3, PlanRows DEF PlanRead
  <2>6. UNCHANGED <<chat, checked>>
    BY <1>1
  <2>7. CASE plan' = plan
    <3>2. CASE exec' = NoExec
      <4>1. PlanWindow'
        BY <2>1, <2>6, <2>7 DEF PlanWindow, Met, UpTo, Walked, From, Shut
      <4>2. PlanBatch'
        BY <3>2, PlanRows DEF PlanBatch
      <4>. QED
        BY <2>5, <4>1, <4>2
    <3>3. CASE exec' = run
      <4>1. plan' = w /\ exec.preview.ids # {}
        BY <1>1, <1>3, <3>3, PlanRows
      <4>2. PlanWindow'
        BY <2>1, <2>6, <2>7 DEF PlanWindow, Met, UpTo, Walked, From, Shut
      <4>3. /\ plan'.mode = exec.seen.mode /\ plan'.cycle /\ BatchOf(w, exec.preview)
            /\ exec.seen.mode = "backfill" => MetWith(UpTo(exec.preview.last), exec.preview.ids)
        BY <2>1, <2>3, <2>4, <4>1 DEF BatchOf
      <4>4. PlanBatch'
        BY <1>3, <2>6, <3>3, <4>1, <4>3 DEF PlanBatch, MetWith, UpTo, BatchOf, From, After, Shut
      <4>. QED
        BY <2>5, <4>2, <4>4
    <3>. QED
      BY <1>1, <3>2, <3>3
  <2>8. CASE plan' = w
    <3>1. PlanWindow' \/ (exec.preview.ids # {} /\ ~w.cycle)
      <4>1. ~w.cycle => Shut(w) \/ exec.preview.ids # {}
        BY <2>4
      <4>. QED
        BY <2>4, <2>6, <2>8, <4>1 DEF PlanWindow, Met, UpTo, Walked, From, Shut
    <3>2. PlanWindow'
      BY <2>4, <3>1
    <3>3. CASE exec' = NoExec
      <4>1. PlanBatch'
        BY <3>3, PlanRows DEF PlanBatch
      <4>. QED
        BY <2>5, <3>2, <4>1
    <3>4. CASE exec' = run
      <4>1. exec.preview.ids # {}
        BY <1>1, <1>3, <3>4, PlanRows
      <4>2. /\ plan'.mode = exec.seen.mode /\ plan'.cycle /\ BatchOf(w, exec.preview)
            /\ exec.seen.mode = "backfill" => MetWith(UpTo(exec.preview.last), exec.preview.ids)
        BY <2>1, <2>3, <2>4, <2>8, <4>1 DEF BatchOf
      <4>3. PlanBatch'
        BY <1>3, <2>6, <2>8, <3>4, <4>2 DEF PlanBatch, MetWith, UpTo, BatchOf, From, After, Shut
      <4>. QED
        BY <2>5, <3>2, <4>3
    <3>. QED
      BY <1>1, <3>3, <3>4
  <2>. QED
    BY <1>1, <2>7, <2>8
<1>8. mixed' \/ (~mixed /\ plan.mode = exec.seen.mode)
  BY Zenon, <1>1
<1>. QED
  BY Zenon, <1>6, <1>7, <1>8 DEF PlanInv

(* The cursor moves past the batch, or the window is completed.            *)
LEMMA AdvancePlanKeeps ==
    ASSUME PlanInv, AdvancePlan
    PROVE  PlanInv'
<1> DEFINE b == exec.preview
           through == IF exec.seen.mode = "backfill" THEN b.last ELSE plan.through
           moved == [plan EXCEPT !.cursor = b.last, !.through = through]
           end == IF plan.upper = 0 THEN plan.through ELSE plan.upper
           closed == Closed([plan EXCEPT !.through = end])
           again == [NoExec EXCEPT !.pc = "read", !.left = exec.left - 1]
           p == Advanced(plan)
<1>0. /\ LinkCheckPlanTypeOK /\ PlanBounds /\ arrived \in Nat
      /\ plan \in PlanRow /\ due \in BOOLEAN /\ exec \in ExecRow /\ edit \in EditRow
      /\ mixed \in BOOLEAN /\ planFaults \in Nat /\ MaxBatches \in Nat
      /\ b \in Preview /\ b.ids \in SUBSET MessageIds /\ b.last \in Id0
      /\ b.more \in BOOLEAN /\ exec.left \in 0..MaxBatches /\ 0 \in Id0
      /\ exec.seen \in PlanRow
  <2>1. /\ LinkCheckPlanTypeOK /\ PlanBounds /\ arrived \in Nat
        /\ plan \in PlanRow /\ due \in BOOLEAN /\ exec \in ExecRow /\ edit \in EditRow
        /\ mixed \in BOOLEAN /\ planFaults \in Nat /\ MaxMessage \in Nat /\ MaxBatches \in Nat
        /\ exec.seen \in PlanRow
    BY PlanRowTypes, PlanTypes, LinkCheckPlanAssumption DEF PlanInv
  <2>2. exec.left \in 0..MaxBatches /\ 0 \in Id0
    BY <2>1 DEF ExecRow, Id0
  <2>. QED
    BY <2>1, <2>2, PlanTypes
<1>1. /\ exec.pc = "after" /\ plan' = p
      /\ exec' = IF b.more /\ exec.left > 1 THEN again ELSE NoExec
      /\ UNCHANGED <<chat, arrived, due, edit, checked, mixed, oversized, planEdits, planFaults>>
  BY DEF AdvancePlan
<1>2. p = IF b.more THEN moved ELSE closed
  BY DEF Advanced
<1> HIDE DEF b, p
<1>3. /\ plan.mode \in Modes /\ plan.cursor \in Id0 /\ plan.lower \in Id0 /\ plan.upper \in Id0
      /\ plan.through \in Id0 /\ plan.through \in Nat /\ plan.upper \in Nat /\ plan.lower \in Nat
      /\ exec.seen.mode \in Modes
  BY <1>0, RowTypes
<1>4. /\ moved \in PlanRow /\ moved.mode = plan.mode /\ moved.cursor = b.last
      /\ moved.lower = plan.lower /\ moved.upper = plan.upper /\ moved.cycle = plan.cycle
      /\ moved.through = through
  <2>1. through \in Id0
    BY <1>0, <1>3
  <2> HIDE DEF through
  <2>. QED
    BY <1>0, <2>1 DEF PlanRow
<1>5. /\ closed \in PlanRow /\ closed.mode = plan.mode /\ closed.cursor = 0
      /\ closed.lower = 0 /\ closed.upper = 0 /\ closed.cycle = FALSE /\ closed.through = end
  <2>1. end \in Id0
    BY <1>3
  <2> HIDE DEF end
  <2>. QED
    BY <1>0, <2>1 DEF PlanRow, Closed
<1> HIDE DEF moved, closed
<1>6. p \in PlanRow /\ Within(p)
  <2>1. Within(plan) /\ b.last <= arrived
    BY <1>0 DEF PlanBounds, b
  <2>. QED
    BY <1>0, <1>2, <1>4, <1>5, <2>1 DEF Within
<1>7. /\ exec' \in ExecRow /\ exec'.pc \in {"idle", "read"} /\ exec'.preview = NoExec.preview
      /\ exec'.seen = NoExec.seen /\ exec'.want = NoExec.want
  <2>1. exec.left > 1 => exec.left - 1 \in 0..MaxBatches
    BY <1>0
  <2>. QED
    BY <1>1, <2>1, PlanRows DEF ExecRow
<1>8. LinkCheckPlanTypeOK' /\ PlanBounds'
  <2>1. /\ Within(NoExec.seen) /\ Within(NoExec.want) /\ NoExec.preview.last <= arrived
        /\ \A i \in NoExec.preview.ids : i <= arrived
    BY <1>0, PlanRows
  <2>2. PICK x \in ExecRow :
          /\ exec' = x /\ Within(x.seen) /\ Within(x.want) /\ x.preview.last <= arrived
          /\ \A i \in x.preview.ids : i <= arrived
    BY <1>7, <2>1
  <2>3. /\ edit' = edit /\ Within(edit.seen) /\ due' \in BOOLEAN /\ mixed' \in BOOLEAN
        /\ planFaults' \in Nat /\ UNCHANGED <<chat, arrived, checked, oversized, planEdits>>
    BY <1>0, <1>1 DEF PlanBounds
  <2>. QED
    BY <1>0, <1>1, <1>6, <2>2, <2>3, PlanTyped
<1>9. ASSUME ~mixed
      PROVE  PlanWindow' /\ PlanRead' /\ PlanBatch'
  <2>1. /\ ~plan.cycle => Shut(plan)
        /\ Met(UpTo(plan.through)) /\ Walked(plan)
        /\ plan.cycle /\ plan.mode = exec.seen.mode => BatchOf(plan, b)
        /\ ~(plan.cycle /\ plan.mode = exec.seen.mode) => Shut(plan)
        /\ exec.seen.mode = "backfill" => MetWith(UpTo(b.last), b.ids)
        /\ b.ids \subseteq checked
    BY <1>1, <1>9 DEF PlanInv, PlanWindow, PlanBatch, b
  <2>2. \A S : MetWith(S, b.ids) => Met(S)
    BY <2>1 DEF MetWith, Met
  <2>3. PlanRead' /\ PlanBatch'
    BY <1>7 DEF PlanRead, PlanBatch
  <2>4. CASE b.more
    <3>1. p = moved
      BY <1>2, <2>4
    <3>2. Met(UpTo(p.through))
      BY <1>4, <2>1, <2>2, <3>1
    <3>3. ~p.cycle => Shut(p)
      BY <1>4, <2>1, <3>1 DEF Shut
    <3>4. Walked(p)
      <4> SUFFICES ASSUME p.cycle, p.upper # 0
                   PROVE  /\ p.mode = "backfill" => Met(UpTo(p.cursor))
                          /\ p.mode = "frontier" => p.lower <= p.through
                                                    /\ (p.cursor # 0 => Met(From(p.cursor, p.upper)))
        BY DEF Walked
      <4>1. BatchOf(plan, b) /\ plan.cycle /\ plan.mode = exec.seen.mode /\ plan.upper # 0
        BY <1>4, <2>1, <3>1 DEF Shut
      <4>2. CASE p.mode = "backfill"
        BY <1>4, <2>2, <3>1, <4>1, <4>2 DEF BatchOf
      <4>3. CASE p.mode = "frontier"
        <5>1. p.through = plan.through /\ plan.lower <= plan.through
          BY <1>4, <2>1, <3>1, <4>1, <4>3 DEF Walked
        <5>2. MetWith(From(b.last, plan.upper), b.ids)
          BY <1>4, <3>1, <4>1, <4>3 DEF BatchOf
        <5>. QED
          BY <1>4, <2>2, <3>1, <4>3, <5>1, <5>2
      <4>. QED
        BY <4>2, <4>3
    <3>5. PlanWindow'
      BY <1>1, <3>2, <3>3, <3>4 DEF PlanWindow, Met, UpTo, From, Walked, Shut
    <3>. QED
      BY <2>3, <3>5
  <2>5. CASE ~b.more
    <3>1. p = closed
      BY <1>2, <2>5
    <3>2. Met(UpTo(p.through))
      <4>1. CASE plan.upper = 0
        BY <1>5, <2>1, <3>1, <4>1
      <4>2. CASE plan.upper # 0
        <5>1. BatchOf(plan, b) /\ plan.cycle
          BY <2>1, <4>2 DEF Shut
        <5>2. CASE plan.mode = "backfill"
          BY <1>5, <2>2, <2>5, <3>1, <4>2, <5>1, <5>2 DEF BatchOf
        <5>3. CASE plan.mode = "frontier"
          <6>1. Met(After(plan.lower, plan.upper)) /\ plan.lower <= plan.through
            BY <2>1, <2>2, <2>5, <4>2, <5>1, <5>3 DEF BatchOf, Walked
          <6>2. Met(UpTo(plan.upper))
            <7> SUFFICES ASSUME NEW i \in MessageIds, i <= plan.upper, chat[i] > 0
                         PROVE  i \in checked
              BY DEF Met, UpTo
            <7>1. i \in Nat
              BY <1>0, PlanTypes
            <7>2. plan.lower < i \/ i <= plan.through
              BY <1>3, <6>1, <7>1
            <7>. QED
              BY <2>1, <6>1, <7>2 DEF Met, UpTo, After
          <6>. QED
            BY <1>5, <3>1, <4>2, <6>2
        <5>. QED
          BY <1>3, <5>2, <5>3 DEF Modes
      <4>. QED
        BY <4>1, <4>2
    <3>3. Shut(p) /\ Walked(p)
      BY <1>5, <3>1 DEF Shut, Walked
    <3>4. PlanWindow'
      BY <1>1, <3>2, <3>3 DEF PlanWindow, Met, UpTo, From, Walked, Shut
    <3>. QED
      BY <2>3, <3>4
  <2>. QED
    BY <2>4, <2>5
<1>10. mixed' \/ ~mixed
  BY Zenon, <1>1
<1>. QED
  BY Zenon, <1>8, <1>9, <1>10 DEF PlanInv

(* A request is written over what is there.                                *)
LEMMA EditCommitsKeeps ==
    ASSUME PlanInv, EditCommits
    PROVE  PlanInv'
<1> DEFINE moded == [edit.seen EXCEPT !.mode = edit.mode, !.enabled = edit.enabled]
           want == IF edit.mode = edit.seen.mode THEN moded
                   ELSE Closed([moded EXCEPT !.through = 0])
           w == Written(edit.seen, want)
<1>0. /\ LinkCheckPlanTypeOK /\ PlanBounds /\ arrived \in Nat
      /\ plan \in PlanRow /\ exec \in ExecRow /\ mixed \in BOOLEAN /\ planFaults \in Nat
      /\ edit.seen \in PlanRow /\ edit.mode \in Modes /\ edit.enabled \in BOOLEAN
      /\ 0 \in Id0 /\ MaxMessage \in Nat
  <2>1. MaxMessage \in Nat
    BY LinkCheckPlanAssumption
  <2>2. 0 \in Id0
    BY <2>1 DEF Id0
  <2>. QED
    BY <2>1, <2>2, PlanRowTypes, PlanTypes DEF PlanInv
<1>1. /\ plan' = w /\ due' = FALSE /\ edit' = NoEdit
      /\ mixed' = (mixed \/ (edit.mode # edit.seen.mode
                               /\ (plan # edit.seen \/ exec.pc = "commit")))
      /\ UNCHANGED <<chat, arrived, exec, checked, oversized, planEdits, planFaults>>
  BY DEF EditCommits
<1>2. /\ moded \in PlanRow /\ moded.mode = edit.mode /\ moded.cursor = edit.seen.cursor
      /\ moded.lower = edit.seen.lower /\ moded.upper = edit.seen.upper
      /\ moded.through = edit.seen.through /\ moded.cycle = edit.seen.cycle
  BY <1>0 DEF PlanRow
<1> HIDE DEF moded
<1>3. /\ want \in PlanRow
      /\ edit.mode = edit.seen.mode => want = moded
      /\ edit.mode # edit.seen.mode => /\ want.mode = edit.mode /\ want.cursor = 0
                                       /\ want.lower = 0 /\ want.upper = 0 /\ want.through = 0
                                       /\ want.cycle = FALSE
  BY <1>0, <1>2 DEF Closed, PlanRow
<1> HIDE DEF want
<1>4. w \in PlanRow /\ Within(w)
  <2>1. Within(want) /\ Within(plan)
    BY <1>0, <1>2, <1>3 DEF PlanBounds, Within
  <2>. QED
    BY <1>0, <1>3, <2>1, WrittenWithin
<1>5. /\ w.mode = IF want.mode = edit.seen.mode THEN plan.mode ELSE want.mode
      /\ w.cursor = IF want.cursor = edit.seen.cursor THEN plan.cursor ELSE want.cursor
      /\ w.lower = IF want.lower = edit.seen.lower THEN plan.lower ELSE want.lower
      /\ w.upper = IF want.upper = edit.seen.upper THEN plan.upper ELSE want.upper
      /\ w.through = IF want.through = edit.seen.through THEN plan.through ELSE want.through
      /\ w.cycle = IF want.cycle = edit.seen.cycle THEN plan.cycle ELSE want.cycle
      /\ edit.mode = edit.seen.mode => w = [plan EXCEPT !.enabled = w.enabled]
  <2>1. /\ w.mode = IF want.mode = edit.seen.mode THEN plan.mode ELSE want.mode
        /\ w.cursor = IF want.cursor = edit.seen.cursor THEN plan.cursor ELSE want.cursor
        /\ w.lower = IF want.lower = edit.seen.lower THEN plan.lower ELSE want.lower
        /\ w.upper = IF want.upper = edit.seen.upper THEN plan.upper ELSE want.upper
        /\ w.through = IF want.through = edit.seen.through THEN plan.through ELSE want.through
        /\ w.cycle = IF want.cycle = edit.seen.cycle THEN plan.cycle ELSE want.cycle
    BY <1>0, <1>3, WrittenRow
  <2> HIDE DEF w
  <2>2. edit.mode = edit.seen.mode => w = [plan EXCEPT !.enabled = w.enabled]
    BY <1>0, <1>2, <1>3, <1>4, <2>1 DEF PlanRow
  <2>. QED
    BY <2>1, <2>2
<1> HIDE DEF w
<1>6. mixed' \in BOOLEAN
  BY Zenon, <1>1
<1>7. LinkCheckPlanTypeOK' /\ PlanBounds'
  <2>1. /\ NoEdit \in EditRow /\ Within(NoEdit.seen) /\ due' \in BOOLEAN /\ planFaults' \in Nat
        /\ exec' = exec /\ Within(exec.seen) /\ Within(exec.want)
        /\ exec.preview.last <= arrived /\ \A i \in exec.preview.ids : i <= arrived
    BY <1>0, <1>1, PlanRows DEF PlanBounds
  <2>. QED
    BY <1>0, <1>1, <1>4, <1>6, <2>1, PlanTyped
<1>8. ASSUME ~mixed, edit.mode = edit.seen.mode \/ (plan = edit.seen /\ exec.pc # "commit")
      PROVE  PlanWindow' /\ PlanRead' /\ PlanBatch'
  <2>1. PlanWindow /\ PlanRead /\ PlanBatch
    BY <1>8 DEF PlanInv
  <2>2. UNCHANGED <<chat, checked, exec>>
    BY <1>1
  <2>3. CASE edit.mode = edit.seen.mode
    <3>1. /\ w.mode = plan.mode /\ w.cursor = plan.cursor /\ w.lower = plan.lower
          /\ w.upper = plan.upper /\ w.through = plan.through /\ w.cycle = plan.cycle
      BY <1>2, <1>3, <1>5, <2>3
    <3>2. /\ Walked(plan) => Walked(w)
          /\ Shut(plan) => Shut(w)
          /\ BatchOf(plan, exec.preview) => BatchOf(w, exec.preview)
      BY <3>1, SameWindow
    <3>3. PlanWindow'
      BY <1>1, <2>1, <2>2, <3>1, <3>2 DEF PlanWindow, Met, UpTo, Walked, From, Shut
    <3>4. PlanRead'
      <4>1. exec.pc = "commit" => w = [exec.seen EXCEPT !.enabled = w.enabled]
        <5>1. exec.pc = "commit" => plan = [exec.seen EXCEPT !.enabled = plan.enabled]
          BY <2>1 DEF PlanRead
        <5>2. exec.seen \in PlanRow
          BY <1>0, PlanTypes
        <5>. QED
          BY <1>0, <1>5, <2>3, <5>1, <5>2 DEF PlanRow
      <4>. QED
        BY <1>1, <2>1, <2>2, <4>1 DEF PlanRead, Met, MetWith, UpTo, Walked, BatchOf, From, After, Shut
    <3>5. PlanBatch'
      BY <1>1, <2>1, <2>2, <3>1, <3>2 DEF PlanBatch, MetWith, UpTo, BatchOf, From, After, Shut
    <3>. QED
      BY <3>3, <3>4, <3>5
  <2>4. CASE edit.mode # edit.seen.mode
    <3>1. /\ plan = edit.seen /\ exec.pc # "commit"
          /\ w.mode = edit.mode /\ w.cursor = 0 /\ w.lower = 0 /\ w.upper = 0
          /\ w.through = 0 /\ w.cycle = FALSE
      BY <1>3, <1>5, <1>8, <2>4
    <3>2. Shut(w) /\ Walked(w) /\ UpTo(0) = {}
      BY <1>0, <3>1 DEF Shut, Walked, UpTo, MessageIds
    <3>3. PlanWindow'
      BY <1>1, <2>2, <3>1, <3>2 DEF PlanWindow, Met, UpTo, Walked, From, Shut
    <3>4. PlanRead'
      BY <2>2, <3>1 DEF PlanRead
    <3>5. PlanBatch'
      <4>1. exec.pc \in {"run", "after"} =>
               /\ exec.seen.mode = "backfill" => MetWith(UpTo(exec.preview.last), exec.preview.ids)
               /\ exec.pc = "after" => exec.preview.ids \subseteq checked
        BY <2>1 DEF PlanBatch
      <4>. QED
        BY <1>1, <2>2, <3>1, <3>2, <4>1 DEF PlanBatch, MetWith, UpTo, Shut
    <3>. QED
      BY <3>3, <3>4, <3>5
  <2>. QED
    BY <2>3, <2>4
<1>9. mixed' \/ (~mixed /\ (edit.mode = edit.seen.mode \/ (plan = edit.seen /\ exec.pc # "commit")))
  BY Zenon, <1>1
<1>. QED
  BY Zenon, <1>7, <1>8, <1>9 DEF PlanInv

LEMMA PlanInitially == LinkCheckPlanInit => PlanInv
<1> SUFFICES ASSUME LinkCheckPlanInit PROVE PlanInv
  OBVIOUS
<1>0. MaxMessage \in Nat /\ MaxLinks \in Nat
  BY LinkCheckPlanAssumption
<1>1. PICK mode \in Modes : plan = NewPlan(mode)
  BY DEF LinkCheckPlanInit
<1>2. /\ chat = [i \in MessageIds |-> None] /\ arrived = 0 /\ due = FALSE
      /\ exec = NoExec /\ edit = NoEdit /\ checked = {} /\ planEdits = 0 /\ planFaults = 0
  BY DEF LinkCheckPlanInit
<1>3. mixed = FALSE /\ oversized = FALSE
  BY DEF LinkCheckPlanInit
<1>4. LinkCheckPlanTypeOK
  <2>1. chat \in [MessageIds -> None..MaxLinks] /\ arrived \in Id0
    BY <1>0, <1>2 DEF None, Id0
  <2>2. plan \in PlanRow /\ exec \in ExecRow /\ edit \in EditRow
    BY <1>1, <1>2, PlanRows
  <2>. QED
    BY <1>2, <1>3, <2>1, <2>2, PlanRowTypes
<1>5. PlanBounds
  BY <1>1, <1>2, PlanRows DEF PlanBounds
<1>6. PlanWindow /\ PlanRead /\ PlanBatch
  <2>1. Met(UpTo(plan.through)) /\ Shut(plan)
    <3>1. \A i \in MessageIds : ~(chat[i] > 0)
      BY <1>2 DEF None
    <3>2. Met(UpTo(plan.through))
      BY <3>1 DEF Met, UpTo
    <3>3. Shut(plan)
      BY <1>1, PlanRows
    <3>. QED
      BY <3>2, <3>3
  <2>2. Walked(plan)
    BY <2>1 DEF Walked, Shut
  <2>. QED
    BY <1>2, <2>1, <2>2, PlanRows DEF PlanWindow, PlanRead, PlanBatch
<1>. QED
  BY <1>4, <1>5, <1>6 DEF PlanInv

LEMMA PlanStep == PlanInv /\ [LinkCheckPlanNext]_planVars => PlanInv'
BY PlanOthersKeep, ReadPlanKeeps, CommitPlanKeeps, AdvancePlanKeeps, EditCommitsKeeps
   DEF LinkCheckPlanNext, PlanSteps

(* What the state of a plan can be.                                        *)
THEOREM PlanTypeCorrect == LinkCheckPlanSpec => []LinkCheckPlanTypeOK
<1>1. PlanInv => LinkCheckPlanTypeOK
  BY DEF PlanInv
<1>. QED
  BY <1>1, PlanInitially, PlanStep, PTL DEF LinkCheckPlanSpec

(* Every message with links up to completed_through_message_id was in a    *)
(* completed batch, or a change of mode overlapped with the opening of a   *)
(* window (_update_plan_after_completed_batch).                            *)
THEOREM CoveredAlwaysChecked == LinkCheckPlanSpec => []CoveredIsChecked
<1>1. PlanInv => CoveredIsChecked
  <2> SUFFICES ASSUME PlanInv, NEW i \in MessageIds, i <= plan.through, chat[i] > 0
               PROVE  i \in checked \/ mixed
    BY DEF CoveredIsChecked
  <2>1. mixed \/ Met(UpTo(plan.through))
    BY DEF PlanInv, PlanWindow
  <2>2. Met(UpTo(plan.through)) => i \in checked
    BY DEF Met, UpTo
  <2>. QED
    BY Zenon, <2>1, <2>2
<1>. QED
  BY <1>1, PlanInitially, PlanStep, PTL DEF LinkCheckPlanSpec

----------------------------------------------------------------------------
(* The monitor.  A post that nobody has handled has no rows; what a post   *)
(* has beyond one row was an answer that was lost, and each of those was   *)
(* an attempt (PostHeld); the cleanup has counted the other posts of the   *)
(* channel (CleanerHeld); only a handler that refreshes waits for a        *)
(* refresh (RefreshHeld).                                                  *)

RefreshRow == [pc: {"idle", "rows", "resolve"}, latest: SUBSET ChannelKeys,
               rows: [ChannelKeys -> RowState], todo: SUBSET ChannelKeys,
               found: [ChannelKeys -> MappedState], force: BOOLEAN]
HandlerRow == [pc: {"none", "chat", "refresh", "parse", "insert", "count", "commit"} \cup Ends,
               key: ChannelKeys \cup {Nobody}, seen: MappedState, tries: 0..MaxWrites,
               counts: BOOLEAN]
CleanerRow == [post: Posts \cup {Nobody}, count: Nat, late: BOOLEAN]

ListenTypes ==
    /\ channelRows \in [ChannelKeys -> RowState] /\ rowsMade \in 0..MaxRows
    /\ mapping \in [ChannelKeys -> MappedState] /\ signature \in SUBSET ChannelKeys
    /\ refresher \in [Waiting -> RefreshRow]
StoredTypes ==
    /\ copies \in [Posts -> 0..MaxWrites] /\ channelStat \in [ChannelKeys -> Nat]
    /\ cleaner \in CleanerRow
    /\ unanswered \in [Posts -> 0..MaxIngestFaults] /\ drifted \in SUBSET ChannelKeys

PostHeld(p) ==
    /\ handler[p].pc = "none" => copies[p] = 0 /\ handler[p].key = Nobody
    /\ handler[p].pc # "none" => handler[p].key \in ChannelKeys
    /\ copies[p] <= unanswered[p] + (IF handler[p].pc = "saved" THEN 1 ELSE 0)
    /\ unanswered[p] <= handler[p].tries
    /\ handler[p].tries = MaxWrites => handler[p].pc \in {"logged", "killed"}
    /\ unanswered[p] <= ingestFaults

RefreshHeld == \A p \in Posts : refresher[p].pc # "idle" => handler[p].pc = "refresh"

CleanerHeld ==
    cleaner.post # Nobody =>
        /\ handler[cleaner.post].pc # "none"
        /\ ~cleaner.late =>
              cleaner.count = Cardinality(RowsOf(PostsOf(handler[cleaner.post].key) \ {cleaner.post}))

IngestInv == /\ IngestTypeOK /\ RefreshHeld /\ (\A p \in Posts : PostHeld(p))
             /\ CleanerHeld /\ StatCountsMessages

LEMMA IngestTypeParts ==
    IngestTypeOK <=> /\ ListenTypes /\ handler \in [Posts -> HandlerRow] /\ StoredTypes
                     /\ channelEdits \in 0..MaxChannelEdits /\ ingestFaults \in 0..MaxIngestFaults
BY DEF IngestTypeOK, ListenTypes, StoredTypes, RefreshRow, HandlerRow, CleanerRow

LEMMA IngestNumbers ==
    /\ MaxWrites \in Nat /\ MaxWrites > 0 /\ MaxRows \in Nat /\ MaxChannelEdits \in Nat
    /\ MaxIngestFaults \in Nat /\ Nobody \notin Posts /\ Nobody \notin ChannelKeys
    /\ "loop" \notin Posts /\ "loop" \in Waiting /\ Posts \in SUBSET Waiting
BY MonitorIngestAssumption DEF Nobody, Waiting

LEMMA PostTypes ==
    ASSUME IngestTypeOK, NEW p \in Posts
    PROVE  /\ handler[p] \in HandlerRow /\ handler[p].tries \in 0..MaxWrites
           /\ handler[p].tries \in Nat /\ handler[p].counts \in BOOLEAN
           /\ handler[p].key \in ChannelKeys \cup {Nobody}
           /\ handler[p].pc \in {"none", "chat", "refresh", "parse", "insert", "count", "commit"} \cup Ends
           /\ copies[p] \in 0..MaxWrites /\ copies[p] \in Nat
           /\ unanswered[p] \in 0..MaxIngestFaults /\ unanswered[p] \in Nat
           /\ ingestFaults \in 0..MaxIngestFaults /\ ingestFaults \in Nat
           /\ channelEdits \in 0..MaxChannelEdits
<1>1. handler[p] \in HandlerRow
  BY IngestTypeParts
<1>2. /\ copies[p] \in 0..MaxWrites /\ unanswered[p] \in 0..MaxIngestFaults
      /\ ingestFaults \in 0..MaxIngestFaults /\ channelEdits \in 0..MaxChannelEdits
  BY IngestTypeParts DEF StoredTypes
<1>3. /\ handler[p].tries \in 0..MaxWrites /\ handler[p].counts \in BOOLEAN
      /\ handler[p].key \in ChannelKeys \cup {Nobody}
      /\ handler[p].pc \in {"none", "chat", "refresh", "parse", "insert", "count", "commit"} \cup Ends
  BY <1>1 DEF HandlerRow
<1>. QED
  BY <1>1, <1>2, <1>3, IngestNumbers

LEMMA RowsAreFinite ==
    ASSUME IngestTypeOK, NEW S \in SUBSET Posts
    PROVE  IsFiniteSet(RowsOf(S)) /\ Cardinality(RowsOf(S)) \in Nat
<1>1. IsFiniteSet(Posts) /\ IsFiniteSet(1..MaxWrites)
  BY MonitorIngestAssumption, IngestNumbers, FS_Interval
<1>2. IsFiniteSet(S)
  BY <1>1, FS_Subset
<1>3. IsFiniteSet(S \X (1..MaxWrites))
  BY <1>1, <1>2, FS_Product
<1>4. RowsOf(S) \in SUBSET (S \X (1..MaxWrites))
  BY DEF RowsOf
<1>5. IsFiniteSet(RowsOf(S))
  BY <1>3, <1>4, FS_Subset
<1>. QED
  BY <1>5, FS_CardinalityType

(* Posts that have no rows do not count.                                   *)
LEMMA RowsOfOthers ==
    ASSUME IngestTypeOK, NEW S \in SUBSET Posts, NEW T \in SUBSET Posts,
           \A p \in (S \ T) \cup (T \ S) : copies[p] = 0
    PROVE  RowsOf(S) = RowsOf(T)
<1>1. \A r \in (S \cup T) \X (1..MaxWrites) :
         r[1] \in S \cup T /\ r[2] \in 1..MaxWrites /\ r = <<r[1], r[2]>>
  OBVIOUS
<1>2. \A r \in (S \cup T) \X (1..MaxWrites) :
         r[2] <= copies[r[1]] => r[1] \in S /\ r[1] \in T
  <2> TAKE r \in (S \cup T) \X (1..MaxWrites)
  <2>1. r[1] \in S \cup T /\ r[2] \in 1..MaxWrites /\ MaxWrites \in Nat
    BY <1>1, IngestNumbers
  <2>2. r[2] <= copies[r[1]] => copies[r[1]] # 0
    BY <2>1
  <2>. QED
    BY <2>1, <2>2
<1>. QED
  BY <1>1, <1>2 DEF RowsOf

(* One more row of a post, and none of it.                                 *)
LEMMA RowAdded ==
    ASSUME IngestTypeOK, NEW p \in Posts, copies[p] < MaxWrites,
           copies' = [copies EXCEPT ![p] = @ + 1], NEW S \in SUBSET Posts
    PROVE  /\ p \notin S => RowsOf(S)' = RowsOf(S)
           /\ p \in S => Cardinality(RowsOf(S))' = Cardinality(RowsOf(S)) + 1
<1> DEFINE n == copies[p] + 1
<1>1. /\ copies \in [Posts -> 0..MaxWrites] /\ n \in 1..MaxWrites /\ n \in Nat
      /\ MaxWrites \in Nat
  BY PostTypes, IngestNumbers, IngestTypeParts DEF StoredTypes
<1>2. \A q \in Posts : copies'[q] = IF q = p THEN n ELSE copies[q]
  BY <1>1
<1>3. \A r \in S \X (1..MaxWrites) : r[1] \in Posts /\ r[2] \in 1..MaxWrites
                                     /\ r[2] \in Nat /\ r = <<r[1], r[2]>>
  BY <1>1
<1>4. CASE p \notin S
  BY <1>2, <1>3, <1>4 DEF RowsOf
<1>5. CASE p \in S
  <2>1. /\ <<p, n>> \in S \X (1..MaxWrites) /\ ~(n <= copies[p])
    BY <1>1, <1>5, PostTypes
  <2>2. RowsOf(S)' = RowsOf(S) \cup {<<p, n>>}
    <3>1. \A r \in S \X (1..MaxWrites) :
             r[2] <= copies'[r[1]] <=> (r[2] <= copies[r[1]] \/ r = <<p, n>>)
      <4> TAKE r \in S \X (1..MaxWrites)
      <4>1. CASE r[1] # p
        BY <1>2, <1>3, <4>1
      <4>2. CASE r[1] = p
        <5>1. r[2] <= n <=> (r[2] <= copies[p] \/ r[2] = n)
          BY <1>3, PostTypes
        <5>. QED
          BY <1>2, <1>3, <4>2, <5>1
      <4>. QED
        BY <4>1, <4>2
    <3>. QED
      BY <2>1, <3>1 DEF RowsOf
  <2>3. <<p, n>> \notin RowsOf(S)
    BY <2>1 DEF RowsOf
  <2>4. IsFiniteSet(RowsOf(S))
    BY RowsAreFinite
  <2>. QED
    <3> DEFINE R == RowsOf(S)
    <3>1. IsFiniteSet(R) /\ <<p, n>> \notin R
      BY <2>3, <2>4
    <3> HIDE DEF R
    <3>2. Cardinality(R \cup {<<p, n>>}) = Cardinality(R) + 1
      BY <3>1, FS_AddElement
    <3>. QED
      BY <1>5, <2>2, <3>2 DEF R
<1>. QED
  BY <1>4, <1>5

LEMMA RowsGone ==
    ASSUME IngestTypeOK, NEW p \in Posts, copies' = [copies EXCEPT ![p] = 0],
           NEW S \in SUBSET Posts
    PROVE  RowsOf(S)' = RowsOf(S \ {p})
<1>1. copies \in [Posts -> 0..MaxWrites] /\ MaxWrites \in Nat
  BY IngestNumbers, IngestTypeParts DEF StoredTypes
<1>2. \A q \in Posts : copies'[q] = IF q = p THEN 0 ELSE copies[q]
  BY <1>1
<1>3. \A r \in S \X (1..MaxWrites) : r[1] \in Posts /\ r[1] \in S /\ r[2] \in 1..MaxWrites
                                     /\ r[2] > 0 /\ r = <<r[1], r[2]>>
  BY <1>1
<1>4. \A r \in S \X (1..MaxWrites) :
         r[2] <= copies'[r[1]] <=> r[1] # p /\ r[2] <= copies[r[1]]
  BY <1>1, <1>2, <1>3
<1>5. \A r \in (S \ {p}) \X (1..MaxWrites) : r \in S \X (1..MaxWrites) /\ r[1] # p
  OBVIOUS
<1>6. \A r \in S \X (1..MaxWrites) : r[1] # p => r \in (S \ {p}) \X (1..MaxWrites)
  BY <1>3
<1>. QED
  BY <1>4, <1>5, <1>6 DEF RowsOf

(* A step that stores nothing.                                             *)
LEMMA StoredKept ==
    ASSUME IngestInv, UNCHANGED Stored,
           \A p \in Posts : handler[p].pc # "none" =>
               handler'[p].key = handler[p].key /\ handler'[p].pc # "none"
    PROVE  CleanerHeld' /\ StatCountsMessages'
<1>0. /\ IngestTypeOK /\ cleaner \in CleanerRow
      /\ UNCHANGED <<copies, channelStat, cleaner, unanswered, drifted>>
  BY IngestTypeParts DEF IngestInv, Stored, StoredTypes
<1>1. \A k \in ChannelKeys, p \in Posts : copies[p] # 0 =>
         (p \in PostsOf(k) <=> p \in PostsOf(k)')
  BY DEF PostsOf, IngestInv, PostHeld
<1>2. \A k : PostsOf(k) \in SUBSET Posts /\ PostsOf(k)' \in SUBSET Posts
  BY DEF PostsOf
<1>3. ASSUME NEW k \in ChannelKeys, NEW S
      PROVE  RowsOf(PostsOf(k) \ S) = RowsOf(PostsOf(k)' \ S)
  <2>1. \A p \in ((PostsOf(k) \ S) \ (PostsOf(k)' \ S)) \cup ((PostsOf(k)' \ S) \ (PostsOf(k) \ S)) :
           copies[p] = 0
    BY <1>1, <1>2
  <2>2. PICK T \in SUBSET Posts : T = PostsOf(k) \ S
    BY <1>2
  <2>3. PICK U \in SUBSET Posts : U = PostsOf(k)' \ S
    BY <1>2
  <2>. QED
    BY <1>0, <2>1, <2>2, <2>3, RowsOfOthers
<1>4. CleanerHeld'
  <2> SUFFICES ASSUME cleaner.post # Nobody
               PROVE  /\ handler'[cleaner.post].pc # "none"
                      /\ ~cleaner.late => cleaner.count =
                            Cardinality(RowsOf(PostsOf(handler[cleaner.post].key) \ {cleaner.post}))'
    BY <1>0 DEF CleanerHeld
  <2>1. PICK p \in Posts, k \in ChannelKeys :
          p = cleaner.post /\ k = handler[p].key /\ handler[p].pc # "none"
    BY <1>0 DEF CleanerRow, IngestInv, CleanerHeld, PostHeld
  <2>2. handler'[p].key = k /\ handler'[p].pc # "none" /\ cleaner'.post = p
    BY <1>0, <2>1
  <2>3. ~cleaner.late => cleaner.count = Cardinality(RowsOf(PostsOf(k) \ {p}))
    BY <2>1 DEF IngestInv, CleanerHeld
  <2>4. RowsOf(PostsOf(k) \ {p}) = RowsOf(PostsOf(k)' \ {p})
    BY <1>3
  <2>5. RowsOf(PostsOf(handler[cleaner.post].key) \ {cleaner.post})' = RowsOf(PostsOf(k)' \ {p})
    BY <1>0, <2>2 DEF RowsOf, PostsOf
  <2>. QED
    BY <2>1, <2>2, <2>3, <2>4, <2>5
<1>5. StatCountsMessages'
  <2> SUFFICES ASSUME NEW k \in ChannelKeys \ drifted
               PROVE  channelStat[k] = CountOf(k)'
    BY <1>0 DEF StatCountsMessages
  <2>1. RowsOf(PostsOf(k) \ {}) = RowsOf(PostsOf(k)' \ {})
    BY <1>3
  <2>2. RowsOf(PostsOf(k)) = RowsOf(PostsOf(k)')
    BY <2>1
  <2>3. RowsOf(PostsOf(k))' = RowsOf(PostsOf(k)')
    BY <1>0 DEF RowsOf
  <2>. QED
    BY <2>2, <2>3 DEF CountOf, IngestInv, StatCountsMessages
<1>. QED
  BY <1>4, <1>5

(* A message is committed, counted or not.                                 *)
LEMMA CommittedKeeps ==
    ASSUME IngestInv, NEW p \in Posts, handler[p].pc = "commit", Committed(p),
           \A q \in Posts : handler'[q].key = handler[q].key
                            /\ (handler'[q].pc = "none" <=> handler[q].pc = "none")
    PROVE  /\ copies' \in [Posts -> 0..MaxWrites] /\ channelStat' \in [ChannelKeys -> Nat]
           /\ cleaner' \in CleanerRow /\ drifted' \in SUBSET ChannelKeys
           /\ \A q \in Posts : copies'[q] = IF q = p THEN copies[p] + 1 ELSE copies[q]
           /\ CleanerHeld' /\ StatCountsMessages'
<1>0. /\ IngestTypeOK /\ cleaner \in CleanerRow /\ copies \in [Posts -> 0..MaxWrites]
      /\ channelStat \in [ChannelKeys -> Nat] /\ drifted \in SUBSET ChannelKeys
      /\ MaxWrites \in Nat
  BY IngestTypeParts, IngestNumbers DEF IngestInv, StoredTypes
<1>1. PICK k \in ChannelKeys : k = handler[p].key
  BY DEF IngestInv, PostHeld
<1>2. /\ copies' = [copies EXCEPT ![p] = @ + 1]
      /\ channelStat' = [channelStat EXCEPT ![k] = IF handler[p].counts THEN @ + 1 ELSE @]
      /\ drifted' = IF handler[p].counts THEN drifted ELSE drifted \cup {k}
      /\ cleaner' = [cleaner EXCEPT !.late = @ \/ Cleans(k)]
  BY <1>1 DEF Committed
<1>3. copies[p] < MaxWrites
  BY <1>0, PostTypes DEF IngestInv, PostHeld
<1>4. /\ copies' \in [Posts -> 0..MaxWrites]
      /\ \A q \in Posts : copies'[q] = IF q = p THEN copies[p] + 1 ELSE copies[q]
  BY <1>0, <1>2, <1>3
<1>5. channelStat' \in [ChannelKeys -> Nat] /\ drifted' \in SUBSET ChannelKeys
  BY <1>0, <1>2
<1>6. /\ cleaner' \in CleanerRow /\ cleaner'.post = cleaner.post /\ cleaner'.count = cleaner.count
      /\ cleaner'.late = (cleaner.late \/ Cleans(k))
  <2>1. (cleaner.late \/ Cleans(k)) \in BOOLEAN
    OBVIOUS
  <2>. QED
    BY <1>0, <1>2, <2>1 DEF CleanerRow
<1>7. \A j : PostsOf(j)' = PostsOf(j) /\ PostsOf(j) \in SUBSET Posts
             /\ (p \in PostsOf(j) <=> j = k)
  BY <1>1 DEF PostsOf
<1>8. CleanerHeld'
  <2> SUFFICES ASSUME cleaner.post # Nobody
               PROVE  /\ handler'[cleaner.post].pc # "none"
                      /\ ~cleaner'.late => cleaner.count =
                            Cardinality(RowsOf(PostsOf(handler[cleaner.post].key) \ {cleaner.post}))'
    BY <1>6 DEF CleanerHeld
  <2>1. PICK q \in Posts, j \in ChannelKeys :
          q = cleaner.post /\ j = handler[q].key /\ handler[q].pc # "none"
    BY <1>0 DEF CleanerRow, IngestInv, CleanerHeld, PostHeld
  <2>2. handler'[q].key = j /\ handler'[q].pc # "none" /\ cleaner'.post = q
    BY <1>6, <2>1
  <2>3. ~cleaner'.late => cleaner.count = Cardinality(RowsOf(PostsOf(j) \ {q})) /\ j # k
    <3>1. j = k => Cleans(k)
      BY <2>1 DEF Cleans, PostsOf
    <3>2. cleaner'.late <=> (cleaner.late \/ Cleans(k))
      BY Zenon, <1>6
    <3>3. ~cleaner.late => cleaner.count = Cardinality(RowsOf(PostsOf(j) \ {q}))
      BY <2>1 DEF IngestInv, CleanerHeld
    <3>. QED
      BY Zenon, <3>1, <3>2, <3>3
  <2>4. j # k => RowsOf(PostsOf(j) \ {q})' = RowsOf(PostsOf(j) \ {q})
    <3>1. PICK S \in SUBSET Posts : S = PostsOf(j) \ {q}
      BY <1>7
    <3>2. j # k => p \notin S
      BY <1>7, <3>1
    <3>3. p \notin S => RowsOf(S)' = RowsOf(S)
      BY <1>0, <1>2, <1>3, RowAdded
    <3>4. RowsOf(PostsOf(j) \ {q})' = RowsOf(S)'
      BY <1>7, <3>1 DEF RowsOf
    <3>. QED
      BY <3>1, <3>2, <3>3, <3>4
  <2>5. RowsOf(PostsOf(handler[cleaner.post].key) \ {cleaner.post})' = RowsOf(PostsOf(j) \ {q})'
    BY <2>2 DEF RowsOf, PostsOf
  <2>. QED
    BY <2>1, <2>2, <2>3, <2>4, <2>5
<1>9. StatCountsMessages'
  <2> SUFFICES ASSUME NEW j \in ChannelKeys \ drifted'
               PROVE  channelStat'[j] = Cardinality(RowsOf(PostsOf(j)))'
    BY DEF StatCountsMessages, CountOf
  <2>1. PICK S \in SUBSET Posts : S = PostsOf(j)
    BY <1>7
  <2>2. /\ p \notin S => RowsOf(S)' = RowsOf(S)
        /\ p \in S => Cardinality(RowsOf(S))' = Cardinality(RowsOf(S)) + 1
    BY <1>0, <1>2, <1>3, RowAdded
  <2>3. RowsOf(PostsOf(j))' = RowsOf(S)'
    BY <1>7, <2>1 DEF RowsOf
  <2>4. j \notin drifted /\ channelStat[j] = Cardinality(RowsOf(S))
    BY <1>2, <2>1 DEF IngestInv, StatCountsMessages, CountOf
  <2>5. CASE j = k
    <3>1. handler[p].counts /\ p \in S
      BY <1>2, <1>7, <2>1, <2>5
    <3>2. channelStat'[j] = channelStat[j] + 1
      BY <1>0, <1>2, <2>5, <3>1
    <3>. QED
      BY <2>2, <2>3, <2>4, <3>1, <3>2
  <2>6. CASE j # k
    <3>1. p \notin S
      BY <1>7, <2>1, <2>6
    <3>2. channelStat'[j] = channelStat[j]
      BY <1>0, <1>2, <2>6
    <3>. QED
      BY <2>2, <2>3, <2>4, <3>1, <3>2
  <2>. QED
    BY <2>5, <2>6
<1>. QED
  BY <1>4, <1>5, <1>6, <1>8, <1>9

(* A cleanup begins; it replaces the statistic; another deletion.          *)
LEMMA DeletionsKeep ==
    ASSUME IngestInv,
           CleanupCommits \/ \E p \in Posts : CleanupReads(p) \/ MessageGoes(p)
    PROVE  IngestInv'
<1>0. /\ IngestTypeOK /\ cleaner \in CleanerRow /\ copies \in [Posts -> 0..MaxWrites]
      /\ channelStat \in [ChannelKeys -> Nat] /\ drifted \in SUBSET ChannelKeys
      /\ unanswered \in [Posts -> 0..MaxIngestFaults]
      /\ channelEdits \in 0..MaxChannelEdits /\ MaxChannelEdits \in Nat
      /\ MaxWrites \in Nat /\ 0 \in 0..MaxWrites /\ Nobody \notin Posts
  <2>1. MaxWrites \in Nat /\ 0 \in 0..MaxWrites
    BY IngestNumbers
  <2>. QED
    BY <2>1, IngestTypeParts, IngestNumbers DEF IngestInv, StoredTypes
<1>1. UNCHANGED <<channelRows, rowsMade, Listening, handler, unanswered, ingestFaults>>
  BY DEF CleanupCommits, CleanupReads, MessageGoes, Table
<1>2. channelEdits' \in 0..MaxChannelEdits
  <2>1. CASE CleanupCommits
    BY <1>0, <2>1 DEF CleanupCommits, Table
  <2>2. ASSUME NEW p \in Posts, CleanupReads(p) \/ MessageGoes(p)
        PROVE  channelEdits' \in 0..MaxChannelEdits
    <3>1. channelEdits < MaxChannelEdits /\ channelEdits' = channelEdits + 1
      BY <2>2 DEF CleanupReads, MessageGoes
    <3>. QED
      BY <1>0, <3>1
  <2>. QED
    BY <2>1, <2>2
<1>3. ASSUME copies' \in [Posts -> 0..MaxWrites], channelStat' \in [ChannelKeys -> Nat],
             cleaner' \in CleanerRow, drifted' \in SUBSET ChannelKeys,
             \A p \in Posts : copies'[p] = copies[p] \/ copies'[p] = 0
      PROVE  IngestTypeOK' /\ RefreshHeld' /\ \A p \in Posts : PostHeld(p)'
  <2>1. IngestTypeOK'
    BY <1>0, <1>1, <1>2, <1>3, IngestTypeParts
       DEF IngestTypeOK, ListenTypes, StoredTypes, RefreshRow, HandlerRow, CleanerRow, Listening
  <2>2. RefreshHeld'
    BY <1>1 DEF IngestInv, RefreshHeld, Listening
  <2>3. \A p \in Posts : PostHeld(p)'
    BY <1>0, <1>1, <1>3, PostTypes DEF IngestInv, PostHeld
  <2>. QED
    BY <2>1, <2>2, <2>3
<1>4. \A j : PostsOf(j)' = PostsOf(j) /\ PostsOf(j) \in SUBSET Posts
  BY <1>1 DEF PostsOf
<1>5. ASSUME NEW p \in Posts, CleanupReads(p)
      PROVE  IngestInv'
  <2>1. PICK k \in ChannelKeys : k = handler[p].key /\ handler[p].pc # "none"
    <3>1. copies[p] > 0 /\ copies[p] \in Nat
      BY <1>0, <1>5, PostTypes DEF CleanupReads
    <3>2. handler[p].pc # "none" /\ handler[p].key \in ChannelKeys
      BY <3>1 DEF IngestInv, PostHeld
    <3>. QED
      BY <3>2
  <2>2. /\ cleaner' = [post |-> p, count |-> Cardinality(RowsOf(PostsOf(k) \ {p})), late |-> FALSE]
        /\ UNCHANGED <<copies, channelStat, drifted>>
    BY <1>5, <2>1 DEF CleanupReads, NotCleaning
  <2>3. cleaner' \in CleanerRow
    <3>1. PICK S \in SUBSET Posts : S = PostsOf(k) \ {p}
      BY <1>4
    <3>2. Cardinality(RowsOf(S)) \in Nat
      BY <1>0, RowsAreFinite
    <3>. QED
      BY <2>2, <3>1, <3>2 DEF CleanerRow
  <2>4. IngestTypeOK' /\ RefreshHeld' /\ \A q \in Posts : PostHeld(q)'
    BY <1>0, <1>3, <2>2, <2>3
  <2>5. CleanerHeld'
    <3>1. cleaner'.post = p /\ cleaner'.count = Cardinality(RowsOf(PostsOf(k) \ {p}))
      BY <2>2
    <3>2. RowsOf(PostsOf(handler[cleaner.post].key) \ {cleaner.post})' = RowsOf(PostsOf(k) \ {p})
      BY <1>1, <2>1, <2>2, <3>1 DEF RowsOf, PostsOf
    <3>. QED
      BY <1>1, <2>1, <3>1, <3>2 DEF CleanerHeld
  <2>6. StatCountsMessages'
    BY <1>1, <2>2 DEF IngestInv, StatCountsMessages, CountOf, RowsOf, PostsOf
  <2>. QED
    BY <2>4, <2>5, <2>6 DEF IngestInv
<1>6. CASE CleanupCommits
  <2>1. PICK p \in Posts, k \in ChannelKeys :
          p = cleaner.post /\ k = handler[p].key /\ handler[p].pc # "none"
    BY <1>0, <1>6 DEF CleanupCommits, CleanerRow, IngestInv, CleanerHeld, PostHeld
  <2>2. /\ copies' = [copies EXCEPT ![p] = 0] /\ cleaner' = NotCleaning
        /\ \/ channelStat' = [channelStat EXCEPT ![k] = cleaner.count]
           \/ cleaner.late /\ UNCHANGED channelStat
        /\ drifted' = IF cleaner.late THEN drifted \cup {k} ELSE drifted \ {k}
    BY <1>6, <2>1 DEF CleanupCommits, Replaced
  <2>3. /\ copies' \in [Posts -> 0..MaxWrites] /\ channelStat' \in [ChannelKeys -> Nat]
        /\ cleaner' \in CleanerRow /\ drifted' \in SUBSET ChannelKeys
        /\ \A q \in Posts : copies'[q] = copies[q] \/ copies'[q] = 0
    <3>1. cleaner.count \in Nat /\ NotCleaning \in CleanerRow
      BY <1>0 DEF CleanerRow, NotCleaning
    <3>. QED
      BY <1>0, <2>1, <2>2, <3>1
  <2>4. IngestTypeOK' /\ RefreshHeld' /\ \A q \in Posts : PostHeld(q)'
    BY <1>3, <2>3
  <2>5. CleanerHeld'
    BY <2>2 DEF CleanerHeld, NotCleaning
  <2>6. StatCountsMessages'
    <3> SUFFICES ASSUME NEW j \in ChannelKeys \ drifted'
                 PROVE  channelStat'[j] = Cardinality(RowsOf(PostsOf(j)))'
      BY DEF StatCountsMessages, CountOf
    <3>1. PICK S \in SUBSET Posts : S = PostsOf(j)
      BY <1>4
    <3>2. RowsOf(PostsOf(j))' = RowsOf(S \ {p})
      <4>1. RowsOf(S)' = RowsOf(S \ {p})
        BY <1>0, <2>2, RowsGone
      <4>2. RowsOf(PostsOf(j))' = RowsOf(S)'
        BY <1>4, <3>1 DEF RowsOf
      <4>. QED
        BY <4>1, <4>2
    <3>3. CASE j = k
      <4>1. ~cleaner.late
        BY <2>2, <3>3
      <4>2. channelStat'[j] = cleaner.count
        BY <1>0, <2>2, <3>3, <4>1
      <4>3. cleaner.count = Cardinality(RowsOf(PostsOf(k) \ {p}))
        BY <1>0, <2>1, <4>1 DEF IngestInv, CleanerHeld
      <4>. QED
        BY <3>1, <3>2, <3>3, <4>2, <4>3
    <3>4. CASE j # k
      <4>1. S \ {p} = S
        BY <2>1, <3>1, <3>4 DEF PostsOf
      <4>2. channelStat'[j] = channelStat[j] /\ j \notin drifted
        BY <1>0, <2>2, <3>4
      <4>. QED
        BY <3>1, <3>2, <4>1, <4>2 DEF IngestInv, StatCountsMessages, CountOf
    <3>. QED
      BY <3>3, <3>4
  <2>. QED
    BY <2>4, <2>5, <2>6 DEF IngestInv
<1>7. ASSUME NEW p \in Posts, MessageGoes(p)
      PROVE  IngestInv'
  <2>1. PICK k \in ChannelKeys : k = handler[p].key /\ handler[p].pc # "none"
    <3>1. copies[p] > 0 /\ copies[p] \in Nat
      BY <1>0, <1>7, PostTypes DEF MessageGoes
    <3>2. handler[p].pc # "none" /\ handler[p].key \in ChannelKeys
      BY <3>1 DEF IngestInv, PostHeld
    <3>. QED
      BY <3>2
  <2>2. /\ copies' = [copies EXCEPT ![p] = 0] /\ drifted' = drifted \cup {k}
        /\ cleaner' = [cleaner EXCEPT !.late = @ \/ Cleans(k)]
        /\ cleaner.post # p /\ UNCHANGED channelStat
    BY <1>7, <2>1 DEF MessageGoes
  <2>3. /\ cleaner' \in CleanerRow /\ cleaner'.post = cleaner.post /\ cleaner'.count = cleaner.count
        /\ cleaner'.late = (cleaner.late \/ Cleans(k))
    <3>1. (cleaner.late \/ Cleans(k)) \in BOOLEAN
      OBVIOUS
    <3>. QED
      BY <1>0, <2>2, <3>1 DEF CleanerRow
  <2>4. IngestTypeOK' /\ RefreshHeld' /\ \A q \in Posts : PostHeld(q)'
    <3>1. copies' \in [Posts -> 0..MaxWrites] /\ drifted' \in SUBSET ChannelKeys
          /\ \A q \in Posts : copies'[q] = copies[q] \/ copies'[q] = 0
      BY <1>0, <2>2
    <3>. QED
      BY <1>0, <1>3, <2>2, <2>3, <3>1
  <2>5. ASSUME NEW S \in SUBSET Posts
        PROVE  RowsOf(S)' = RowsOf(S \ {p})
    BY <1>0, <2>2, RowsGone
  <2>6. CleanerHeld'
    <3> SUFFICES ASSUME cleaner.post # Nobody
                 PROVE  /\ handler[cleaner.post].pc # "none"
                        /\ ~cleaner'.late => cleaner.count =
                              Cardinality(RowsOf(PostsOf(handler[cleaner.post].key) \ {cleaner.post}))'
      BY <1>1, <2>3 DEF CleanerHeld
    <3>1. PICK q \in Posts, j \in ChannelKeys :
            q = cleaner.post /\ j = handler[q].key /\ handler[q].pc # "none"
      BY <1>0 DEF CleanerRow, IngestInv, CleanerHeld, PostHeld
    <3>2. ~cleaner'.late => cleaner.count = Cardinality(RowsOf(PostsOf(j) \ {q})) /\ j # k
      <4>1. j = k => Cleans(k)
        BY <3>1 DEF Cleans, PostsOf
      <4>2. cleaner'.late <=> (cleaner.late \/ Cleans(k))
        BY Zenon, <2>3
      <4>3. ~cleaner.late => cleaner.count = Cardinality(RowsOf(PostsOf(j) \ {q}))
        BY <3>1 DEF IngestInv, CleanerHeld
      <4>. QED
        BY Zenon, <4>1, <4>2, <4>3
    <3>3. PICK S \in SUBSET Posts : S = PostsOf(j) \ {q}
      BY <1>4
    <3>4. j # k => RowsOf(S)' = RowsOf(S)
      <4>1. j # k => S \ {p} = S
        BY <2>1, <3>3 DEF PostsOf
      <4>. QED
        BY <2>5, <4>1
    <3>5. RowsOf(PostsOf(handler[cleaner.post].key) \ {cleaner.post})' = RowsOf(S)'
      BY <1>1, <2>3, <3>1, <3>3 DEF RowsOf, PostsOf
    <3>. QED
      BY <3>1, <3>2, <3>3, <3>4, <3>5
  <2>7. StatCountsMessages'
    <3> SUFFICES ASSUME NEW j \in ChannelKeys \ drifted'
                 PROVE  channelStat'[j] = Cardinality(RowsOf(PostsOf(j)))'
      BY DEF StatCountsMessages, CountOf
    <3>1. PICK S \in SUBSET Posts : S = PostsOf(j)
      BY <1>4
    <3>2. S \ {p} = S
      BY <2>1, <2>2, <3>1 DEF PostsOf
    <3>3. RowsOf(PostsOf(j))' = RowsOf(S)'
      BY <1>4, <3>1 DEF RowsOf
    <3>4. j \notin drifted /\ channelStat'[j] = channelStat[j]
      BY <2>2
    <3>. QED
      BY <2>5, <3>1, <3>2, <3>3, <3>4 DEF IngestInv, StatCountsMessages, CountOf
  <2>. QED
    BY <2>4, <2>6, <2>7 DEF IngestInv
<1>. QED
  BY <1>5, <1>6, <1>7

(* The administrator edits the table of channels.                          *)
LEMMA EditsKeep ==
    ASSUME IngestInv, NEW k \in ChannelKeys,
           \/ AddChannel(k) \/ DeleteChannel(k)
           \/ \E new \in ChannelKeys, profile \in Profiles : SaveChannel(k, new, profile)
    PROVE  IngestInv'
<1>0. /\ IngestTypeOK /\ ListenTypes /\ StoredTypes /\ handler \in [Posts -> HandlerRow]
      /\ channelRows \in [ChannelKeys -> RowState] /\ rowsMade \in 0..MaxRows
      /\ channelEdits \in 0..MaxChannelEdits /\ ingestFaults \in 0..MaxIngestFaults
      /\ MaxRows \in Nat /\ MaxChannelEdits \in Nat
  BY IngestTypeParts, IngestNumbers DEF IngestInv, ListenTypes
<1>1. Edits
  BY DEF AddChannel, DeleteChannel, SaveChannel
<1>2. /\ channelEdits' \in 0..MaxChannelEdits
      /\ UNCHANGED <<Listening, handler, Stored, ingestFaults>>
  BY <1>0, <1>1 DEF Edits
<1>3. channelRows' \in [ChannelKeys -> RowState] /\ rowsMade' \in 0..MaxRows
  <2>1. NoChannel \in RowState
    BY <1>0 DEF NoChannel, RowState, Profiles
  <2>2. CASE AddChannel(k)
    <3>1. [NoChannel EXCEPT !.id = rowsMade + 1] \in RowState /\ rowsMade + 1 \in 0..MaxRows
      BY <1>0, <2>2 DEF AddChannel, NoChannel, RowState, Profiles
    <3>. QED
      BY <1>0, <2>2, <3>1 DEF AddChannel
  <2>3. CASE DeleteChannel(k)
    BY <1>0, <2>1, <2>3 DEF DeleteChannel
  <2>4. ASSUME NEW new \in ChannelKeys, NEW profile \in Profiles, SaveChannel(k, new, profile)
        PROVE  channelRows' \in [ChannelKeys -> RowState] /\ rowsMade' \in 0..MaxRows
    <3>1. [id |-> channelRows[k].id, profile |-> profile] \in RowState
      BY <1>0 DEF RowState
    <3>2. [channelRows EXCEPT ![k] = NoChannel] \in [ChannelKeys -> RowState]
      BY <1>0, <2>1
    <3>. QED
      BY <1>0, <2>4, <3>1, <3>2 DEF SaveChannel
  <2>. QED
    BY <2>2, <2>3, <2>4
<1>4. IngestTypeOK'
  BY <1>0, <1>2, <1>3 DEF IngestTypeOK, ListenTypes, StoredTypes, RefreshRow, HandlerRow,
     CleanerRow, Listening, Stored
<1>5. CleanerHeld' /\ StatCountsMessages'
  BY <1>2, StoredKept
<1>6. RefreshHeld' /\ \A p \in Posts : PostHeld(p)'
  BY <1>2 DEF IngestInv, RefreshHeld, PostHeld, Listening, Stored
<1>. QED
  BY <1>4, <1>5, <1>6 DEF IngestInv

(* A step of one handler that stores nothing.                              *)
LEMMA HandlerMoves ==
    ASSUME IngestInv, NEW p \in Posts, NEW h \in HandlerRow,
           handler' = [handler EXCEPT ![p] = h], handler[p].pc # "saved",
           h.pc # "none", h.key \in ChannelKeys,
           handler[p].pc # "none" => h.key = handler[p].key,
           handler[p].tries <= h.tries,
           h.tries = MaxWrites => h.pc \in {"logged", "killed"},
           UNCHANGED <<Table, Stored>>, ListenTypes', RefreshHeld',
           ingestFaults' \in 0..MaxIngestFaults, ingestFaults <= ingestFaults'
    PROVE  IngestInv'
<1>0. /\ IngestTypeOK /\ StoredTypes /\ handler \in [Posts -> HandlerRow]
      /\ channelEdits \in 0..MaxChannelEdits
  BY IngestTypeParts DEF IngestInv
<1>1. handler' \in [Posts -> HandlerRow]
      /\ \A q \in Posts : handler'[q] = IF q = p THEN h ELSE handler[q]
  BY <1>0
<1>2. IngestTypeOK'
  BY <1>0, <1>1 DEF IngestTypeOK, ListenTypes, StoredTypes, RefreshRow, HandlerRow,
     CleanerRow, Table, Stored
<1>3. CleanerHeld' /\ StatCountsMessages'
  BY <1>1, StoredKept
<1>4. ASSUME NEW q \in Posts
      PROVE  PostHeld(q)'
  <2>0. UNCHANGED <<copies, unanswered>> /\ PostHeld(q) /\ ingestFaults \in Nat
        /\ ingestFaults' \in Nat /\ unanswered[q] \in Nat /\ copies[q] \in Nat
        /\ handler[q].tries \in Nat /\ h.tries \in Nat
    BY <1>0, PostTypes, IngestNumbers DEF IngestInv, Stored, HandlerRow
  <2>1. CASE q = p
    BY <1>1, <2>0, <2>1 DEF PostHeld
  <2>2. CASE q # p
    BY <1>1, <2>0, <2>2 DEF PostHeld
  <2>. QED
    BY <2>1, <2>2
<1>. QED
  BY <1>2, <1>3, <1>4 DEF IngestInv

(* A step of one refresh that maps nothing yet.                            *)
LEMMA RefreshMoves ==
    ASSUME IngestInv, NEW w \in Waiting, NEW r \in RefreshRow,
           refresher' = [refresher EXCEPT ![w] = r],
           r.pc # "idle" => refresher[w].pc # "idle" \/ w = "loop" \/ handler[w].pc = "refresh",
           UNCHANGED <<Table, mapping, signature, handler, Stored>>,
           ingestFaults' \in 0..MaxIngestFaults, ingestFaults <= ingestFaults'
    PROVE  IngestInv'
<1>0. /\ IngestTypeOK /\ ListenTypes /\ StoredTypes /\ handler \in [Posts -> HandlerRow]
      /\ refresher \in [Waiting -> RefreshRow] /\ channelEdits \in 0..MaxChannelEdits
  BY IngestTypeParts DEF IngestInv, ListenTypes
<1>1. refresher' \in [Waiting -> RefreshRow]
      /\ \A q \in Waiting : refresher'[q] = IF q = w THEN r ELSE refresher[q]
  BY <1>0
<1>2. IngestTypeOK'
  BY <1>0, <1>1 DEF IngestTypeOK, ListenTypes, StoredTypes, RefreshRow, HandlerRow,
     CleanerRow, Table, Stored
<1>3. CleanerHeld' /\ StatCountsMessages'
  BY StoredKept
<1>4. RefreshHeld'
  BY <1>1, IngestNumbers DEF IngestInv, RefreshHeld
<1>5. ASSUME NEW q \in Posts
      PROVE  PostHeld(q)'
  <2>0. UNCHANGED <<copies, unanswered, handler>> /\ PostHeld(q) /\ ingestFaults \in Nat
        /\ ingestFaults' \in Nat /\ unanswered[q] \in Nat
    BY <1>0, PostTypes, IngestNumbers DEF IngestInv, Stored
  <2>. QED
    BY <2>0 DEF PostHeld
<1>. QED
  BY <1>2, <1>3, <1>4, <1>5 DEF IngestInv

LEMMA IngestErrs ==
    ASSUME IngestTypeOK, Errs \/ UNCHANGED ingestFaults
    PROVE  ingestFaults' \in 0..MaxIngestFaults /\ ingestFaults <= ingestFaults'
BY IngestNumbers DEF IngestTypeOK, Errs

LEMMA RefreshKeeps ==
    ASSUME IngestInv, NEW w \in Waiting,
           \/ ReadsNames(w) \/ ReadsRows(w)
           \/ \E k \in ChannelKeys : Resolves(w, k) \/ ResolveFails(w, k)
    PROVE  IngestInv'
<1>0. /\ IngestTypeOK /\ channelRows \in [ChannelKeys -> RowState]
      /\ refresher \in [Waiting -> RefreshRow] /\ refresher[w] \in RefreshRow
      /\ KnownKeys \in SUBSET ChannelKeys
  BY IngestTypeParts DEF IngestInv, ListenTypes, KnownKeys
<1>1. RefreshIdle \in RefreshRow /\ RefreshIdle.pc = "idle"
  BY IngestNumbers DEF RefreshIdle, RefreshRow, NoChannel, Unmapped, RowState, MappedState, Profiles
<1>2. UNCHANGED <<Table, mapping, signature, handler, Stored>>
  BY DEF ReadsNames, ReadsRows, Resolves, ResolveFails
<1>3. ingestFaults' \in 0..MaxIngestFaults /\ ingestFaults <= ingestFaults'
  BY <1>0, IngestErrs DEF ReadsNames, ReadsRows, Resolves, ResolveFails
<1>4. CASE ReadsNames(w)
  <2>1. PICK r \in RefreshRow : r = [refresher[w] EXCEPT !.pc = "rows", !.latest = KnownKeys]
    BY <1>0 DEF RefreshRow
  <2>2. refresher' = [refresher EXCEPT ![w] = r]
        /\ (r.pc # "idle" => refresher[w].pc # "idle" \/ w = "loop" \/ handler[w].pc = "refresh")
    BY <1>4, <2>1 DEF ReadsNames, Refreshes
  <2>. QED
    BY <1>2, <1>3, <2>2, RefreshMoves
<1>5. CASE ReadsRows(w)
  <2>0. PICK f \in BOOLEAN : f = (refresher[w].force \/ w # "loop")
    OBVIOUS
  <2>1. PICK s \in RefreshRow : s = [refresher[w] EXCEPT !.force = f]
    BY <1>0 DEF RefreshRow
  <2>2. PICK t \in RefreshRow : t = [s EXCEPT !.pc = "resolve", !.todo = s.latest, !.rows = channelRows]
    BY <1>0, <2>1 DEF RefreshRow
  <2>3. refresher[w].pc = "rows"
        /\ refresher' = [refresher EXCEPT ![w] = IF Needed(s) THEN t ELSE RefreshIdle]
    BY <1>5, <2>0, <2>1, <2>2 DEF ReadsRows, Refreshes
  <2>4. PICK r \in RefreshRow : r = IF Needed(s) THEN t ELSE RefreshIdle
    BY <1>1
  <2>. QED
    BY <1>2, <1>3, <2>3, <2>4, RefreshMoves
<1>6. ASSUME NEW k \in ChannelKeys, Resolves(w, k)
      PROVE  IngestInv'
  <2>1. PICK v \in MappedState : v = [mapped |-> TRUE, id |-> refresher[w].rows[k].id,
                                      profile |-> refresher[w].rows[k].profile]
    BY <1>0 DEF RefreshRow, RowState, MappedState
  <2>2. PICK r \in RefreshRow : r = [refresher[w] EXCEPT !.todo = @ \ {k}, !.found[k] = v]
    BY <1>0 DEF RefreshRow
  <2>3. refresher' = [refresher EXCEPT ![w] = r] /\ refresher[w].pc # "idle"
    BY <1>6, <2>1, <2>2 DEF Resolves, Refreshes
  <2>. QED
    BY <1>2, <1>3, <2>3, RefreshMoves
<1>7. ASSUME NEW k \in ChannelKeys, ResolveFails(w, k)
      PROVE  IngestInv'
  <2>2. PICK r \in RefreshRow : r = [refresher[w] EXCEPT !.todo = @ \ {k}]
    BY <1>0 DEF RefreshRow
  <2>3. refresher' = [refresher EXCEPT ![w] = r] /\ refresher[w].pc # "idle"
    BY <1>7, <2>2 DEF ResolveFails, Refreshes
  <2>. QED
    BY <1>2, <1>3, <2>3, RefreshMoves
<1>. QED
  BY <1>4, <1>5, <1>6, <1>7

(* The mapping is replaced, and a handler that waited for it goes on.      *)
LEMMA MapsKeeps ==
    ASSUME IngestInv, NEW w \in Waiting, Maps(w)
    PROVE  IngestInv'
<1>0. /\ IngestTypeOK /\ ListenTypes /\ StoredTypes /\ handler \in [Posts -> HandlerRow]
      /\ refresher \in [Waiting -> RefreshRow] /\ refresher[w] \in RefreshRow
      /\ channelEdits \in 0..MaxChannelEdits /\ ingestFaults \in 0..MaxIngestFaults
  BY IngestTypeParts DEF IngestInv, ListenTypes
<1>1. RefreshIdle \in RefreshRow /\ RefreshIdle.pc = "idle"
  BY IngestNumbers DEF RefreshIdle, RefreshRow, NoChannel, Unmapped, RowState, MappedState, Profiles
<1>2. /\ UNCHANGED <<Table, Stored, ingestFaults>> /\ refresher' = [refresher EXCEPT ![w] = RefreshIdle]
      /\ mapping' = refresher[w].found /\ signature' = refresher[w].latest
      /\ refresher[w].pc = "resolve"
  BY DEF Maps, Refreshes
<1>3. refresher' \in [Waiting -> RefreshRow]
      /\ \A q \in Waiting : refresher'[q] = IF q = w THEN RefreshIdle ELSE refresher[q]
  BY <1>0, <1>1, <1>2
<1>4. ListenTypes'
  BY <1>0, <1>2, <1>3 DEF ListenTypes, RefreshRow, Table
<1>5. RefreshHeld' /\ ingestFaults' \in 0..MaxIngestFaults /\ ingestFaults <= ingestFaults'
  <2>1. handler' = handler \/ \E h : handler' = [handler EXCEPT ![w] = h]
    BY DEF Maps
  <2>2. RefreshHeld'
    BY <1>0, <1>1, <1>3, <2>1, IngestNumbers DEF IngestInv, RefreshHeld
  <2>. QED
    BY <1>0, <1>2, <2>2, IngestNumbers
<1>6. CASE w = "loop"
  <2>1. handler' = handler
    BY <1>6 DEF Maps
  <2>2. IngestTypeOK'
    BY <1>0, <1>2, <1>4, <2>1 DEF IngestTypeOK, ListenTypes, StoredTypes, RefreshRow, HandlerRow,
       CleanerRow, Table, Stored
  <2>3. CleanerHeld' /\ StatCountsMessages'
    BY <1>2, <2>1, StoredKept
  <2>4. \A q \in Posts : PostHeld(q)'
    BY <1>2, <2>1 DEF IngestInv, PostHeld, Stored
  <2>. QED
    BY <1>5, <2>2, <2>3, <2>4 DEF IngestInv
<1>7. CASE w # "loop"
  <2>1. w \in Posts /\ handler[w] \in HandlerRow /\ handler[w].pc = "refresh"
        /\ handler[w].key \in ChannelKeys
    BY <1>0, <1>2, <1>7 DEF IngestInv, RefreshHeld, PostHeld, Waiting
  <2>2. PICK v \in MappedState : v = refresher[w].found[handler[w].key]
    BY <1>0, <2>1 DEF RefreshRow
  <2>3. PICK h \in HandlerRow :
          h = [handler[w] EXCEPT !.pc = IF v.mapped THEN "parse" ELSE "unnamed", !.seen = v]
    BY <2>1 DEF HandlerRow, Ends
  <2>4. handler' = [handler EXCEPT ![w] = h]
    BY <1>7, <2>2, <2>3 DEF Maps, Named
  <2>5. /\ h.pc # "none" /\ h.key = handler[w].key /\ h.tries = handler[w].tries
        /\ handler[w].tries # MaxWrites /\ handler[w].tries \in Nat
    BY <1>0, <2>1, <2>3, PostTypes DEF HandlerRow, IngestInv, PostHeld
  <2>6. /\ handler[w].pc # "saved" /\ h.key \in ChannelKeys
        /\ handler[w].tries <= h.tries /\ h.tries # MaxWrites
    BY <2>1, <2>5
  <2>7. IngestInv /\ w \in Posts /\ h \in HandlerRow /\ UNCHANGED <<Table, Stored>>
        /\ ListenTypes' /\ RefreshHeld'
    BY <1>2, <1>4, <1>5, <2>1
  <2>. QED
    BY <1>5, <2>4, <2>5, <2>6, <2>7, HandlerMoves
<1>. QED
  BY <1>6, <1>7

(* The steps of a handler before the commit, and its failures.             *)
LEMMA HandlersKeep ==
    ASSUME IngestInv, NEW p \in Posts,
           \/ LooksUpName(p) \/ Parses(p) \/ HandlerRaises(p) \/ Inserts(p) \/ Counts(p)
           \/ CountFails(p) \/ WriteFails(p) \/ \E k \in ChannelKeys : Arrives(p, k)
    PROVE  IngestInv'
<1>0. /\ IngestTypeOK /\ ListenTypes /\ StoredTypes /\ handler \in [Posts -> HandlerRow]
      /\ handler[p] \in HandlerRow /\ refresher \in [Waiting -> RefreshRow] /\ p \in Waiting
      /\ mapping \in [ChannelKeys -> MappedState] /\ MaxWrites \in Nat /\ MaxWrites > 0
      /\ handler[p].tries \in 0..MaxWrites /\ handler[p].tries \in Nat
  BY IngestTypeParts, IngestNumbers, PostTypes DEF IngestInv, ListenTypes
<1>1. UNCHANGED <<Table, mapping, signature, Stored>>
  BY DEF LooksUpName, Parses, HandlerRaises, Inserts, Counts, CountFails, WriteFails, Arrives,
     Listening
<1>2. ingestFaults' \in 0..MaxIngestFaults /\ ingestFaults <= ingestFaults'
  BY <1>0, IngestErrs
     DEF LooksUpName, Parses, HandlerRaises, Inserts, Counts, CountFails, WriteFails, Arrives
<1>3. RefreshIdle \in RefreshRow /\ RefreshIdle.pc = "idle"
  BY IngestNumbers DEF RefreshIdle, RefreshRow, NoChannel, Unmapped, RowState, MappedState, Profiles
<1>4. /\ refresher' = refresher \/ refresher' = [refresher EXCEPT ![p] = RefreshIdle]
      /\ handler[p].pc = "refresh" => refresher' = [refresher EXCEPT ![p] = RefreshIdle]
  BY DEF LooksUpName, Parses, HandlerRaises, Inserts, Counts, CountFails, WriteFails, Arrives,
     Listening, Refreshes
<1>5. ListenTypes'
  BY <1>0, <1>1, <1>3, <1>4 DEF ListenTypes, Table
<1>6. ASSUME NEW h \in HandlerRow, handler' = [handler EXCEPT ![p] = h], handler[p].pc # "saved",
             h.pc # "none", h.key \in ChannelKeys,
             handler[p].pc # "none" => h.key = handler[p].key,
             handler[p].tries <= h.tries,
             h.tries = MaxWrites => h.pc \in {"logged", "killed"}
      PROVE  IngestInv'
  <2>1. RefreshHeld'
    <3>1. handler[p].pc # "refresh" => refresher[p].pc = "idle"
      BY DEF IngestInv, RefreshHeld
    <3>2. refresher'[p].pc = "idle"
      BY <1>0, <1>3, <1>4, <3>1
    <3>3. \A q \in Posts : q # p => refresher'[q] = refresher[q] /\ handler'[q] = handler[q]
      BY <1>0, <1>3, <1>4, <1>6, IngestNumbers
    <3>. QED
      BY <3>2, <3>3 DEF IngestInv, RefreshHeld
  <2>. QED
    BY <1>1, <1>2, <1>5, <1>6, <2>1, HandlerMoves
<1>7. /\ handler[p].pc # "none" => handler[p].key \in ChannelKeys
      /\ handler[p].tries = MaxWrites => handler[p].pc \in {"logged", "killed"}
  BY DEF IngestInv, PostHeld
<1>18. ASSUME NEW h \in HandlerRow, handler' = [handler EXCEPT ![p] = h],
              handler[p].pc \notin {"logged", "killed", "saved"}, h.tries = handler[p].tries,
              h.pc # "none", h.key \in ChannelKeys,
              handler[p].pc # "none" => h.key = handler[p].key
       PROVE  IngestInv'
  <2>1. handler[p].pc # "saved" /\ handler[p].tries # MaxWrites
    BY <1>7, <1>18
  <2>2. handler[p].tries <= h.tries /\ h.tries # MaxWrites
    BY <1>0, <1>18, <2>1
  <2>. QED
    BY <1>6, <1>18, <2>1, <2>2
<1>8. ASSUME NEW k \in ChannelKeys, Arrives(p, k)
      PROVE  IngestInv'
  <2>1. PICK pc \in {"chat", "skipped"} : pc = IF mapping[k].mapped THEN "chat" ELSE "skipped"
    OBVIOUS
  <2>2. PICK h \in HandlerRow : h = [[handler[p] EXCEPT !.key = k] EXCEPT !.pc = pc]
    BY <1>0, <2>1 DEF HandlerRow, Ends
  <2>3. handler' = [handler EXCEPT ![p] = h] /\ handler[p].pc = "none"
    BY <1>0, <1>8, <2>1, <2>2 DEF Arrives
  <2>4. h.pc = pc /\ h.key = k /\ h.tries = handler[p].tries
    BY <1>0, <2>2 DEF HandlerRow
  <2>. QED
    <3>1. /\ handler[p].pc \notin {"logged", "killed", "saved"} /\ h.tries = handler[p].tries
          /\ h.pc # "none" /\ h.key \in ChannelKeys
      BY <2>1, <2>3, <2>4
    <3>. QED
      BY <1>18, <2>3, <3>1
<1>9. CASE LooksUpName(p)
  <2>1. handler[p].pc = "chat" /\ handler[p].key \in ChannelKeys
    BY <1>7, <1>9 DEF LooksUpName
  <2>2. PICK v \in MappedState : v = mapping[handler[p].key]
    BY <1>0, <2>1
  <2>3. PICK pc \in {"parse", "refresh"} : pc = IF v.mapped THEN "parse" ELSE "refresh"
    OBVIOUS
  <2>4. PICK h \in HandlerRow : h = [handler[p] EXCEPT !.pc = pc, !.seen = v]
    BY <1>0, <2>3 DEF HandlerRow
  <2>5. handler' = [handler EXCEPT ![p] = h]
    BY <1>9, <2>2, <2>3, <2>4 DEF LooksUpName, Named
  <2>6. h.pc = pc /\ h.key = handler[p].key /\ h.tries = handler[p].tries
    BY <1>0, <2>4 DEF HandlerRow
  <2>. QED
    <3>1. /\ handler[p].pc \notin {"logged", "killed", "saved"} /\ h.tries = handler[p].tries
          /\ h.pc # "none" /\ h.key = handler[p].key /\ h.key \in ChannelKeys
      BY <2>1, <2>3, <2>6
    <3>. QED
      BY <1>18, <2>5, <3>1
<1>10. ASSUME NEW pc \in {"insert", "filtered", "logged", "commit", "count"}, Handles(p, pc),
              handler[p].pc \in {"chat", "refresh", "parse", "insert", "count"}
       PROVE  IngestInv'
  <2>1. PICK h \in HandlerRow : h = [handler[p] EXCEPT !.pc = pc]
    BY <1>0 DEF HandlerRow, Ends
  <2>2. handler' = [handler EXCEPT ![p] = h]
    BY <1>0, <1>10, <2>1 DEF Handles
  <2>3. h.pc = pc /\ h.key = handler[p].key /\ h.tries = handler[p].tries
    BY <1>0, <2>1 DEF HandlerRow
  <2>. QED
    <3>1. /\ handler[p].pc \notin {"logged", "killed", "saved"} /\ h.tries = handler[p].tries
          /\ h.pc # "none" /\ h.key = handler[p].key /\ h.key \in ChannelKeys
      BY <1>7, <1>10, <2>3
    <3>. QED
      BY <1>18, <2>2, <3>1
<1>11. ASSUME handler' = [handler EXCEPT ![p] = AttemptFails(handler[p])],
              handler[p].pc \in {"insert", "count", "commit"}
       PROVE  IngestInv'
  <2>1. handler[p].tries # MaxWrites
    BY <1>7, <1>11
  <2>2. PICK pc \in {"logged", "insert"} :
          pc = IF handler[p].tries = MaxWrites - 1 THEN "logged" ELSE "insert"
    OBVIOUS
  <2>3. PICK h \in HandlerRow : h = [handler[p] EXCEPT !.pc = pc, !.tries = @ + 1, !.counts = FALSE]
    <3>1. handler[p].tries + 1 \in 0..MaxWrites
      BY <1>0, <2>1
    <3>. QED
      BY <1>0, <2>2, <3>1 DEF HandlerRow, Ends
  <2>4. handler' = [handler EXCEPT ![p] = h]
    BY <1>11, <2>2, <2>3 DEF AttemptFails
  <2>5. h.pc = pc /\ h.key = handler[p].key /\ h.tries = handler[p].tries + 1
    BY <1>0, <2>3 DEF HandlerRow
  <2>6. handler[p].tries <= h.tries /\ (h.tries = MaxWrites => pc = "logged")
    BY <1>0, <2>2, <2>5
  <2>. QED
    BY <1>6, <1>7, <1>11, <2>2, <2>4, <2>5, <2>6
<1>12. CASE Parses(p)
  BY <1>10, <1>12 DEF Parses
<1>13. CASE HandlerRaises(p)
  BY <1>10, <1>13 DEF HandlerRaises
<1>14. CASE Inserts(p)
  <2>1. handler[p].pc = "insert"
    BY <1>14 DEF Inserts
  <2>2. Handles(p, "count") \/ handler' = [handler EXCEPT ![p] = AttemptFails(handler[p])]
    BY <1>0, <1>14 DEF Inserts, Handles
  <2>. QED
    BY <1>10, <1>11, <2>1, <2>2
<1>15. CASE Counts(p)
  <2>1. PICK h \in HandlerRow : h = [[handler[p] EXCEPT !.pc = "commit"] EXCEPT !.counts = TRUE]
    BY <1>0 DEF HandlerRow
  <2>2. handler' = [handler EXCEPT ![p] = h] /\ handler[p].pc = "count"
    BY <1>0, <1>15, <2>1 DEF Counts
  <2>3. h.pc = "commit" /\ h.key = handler[p].key /\ h.tries = handler[p].tries
    BY <1>0, <2>1 DEF HandlerRow
  <2>. QED
    <3>1. /\ handler[p].pc \notin {"logged", "killed", "saved"} /\ h.tries = handler[p].tries
          /\ h.pc # "none" /\ h.key = handler[p].key /\ h.key \in ChannelKeys
      BY <1>7, <2>2, <2>3
    <3>. QED
      BY <1>18, <2>2, <3>1
<1>16. CASE CountFails(p)
  BY <1>10, <1>16 DEF CountFails
<1>17. CASE WriteFails(p)
  BY <1>11, <1>17 DEF WriteFails
<1>. QED
  BY <1>8, <1>9, <1>12, <1>13, <1>14, <1>15, <1>16, <1>17

(* A commit, with its answer or without.                                   *)
LEMMA CommitsKeep ==
    ASSUME IngestInv, NEW p \in Posts, Commits(p) \/ AnswerLost(p)
    PROVE  IngestInv'
<1>0. /\ IngestTypeOK /\ ListenTypes /\ StoredTypes /\ handler \in [Posts -> HandlerRow]
      /\ handler[p] \in HandlerRow /\ unanswered \in [Posts -> 0..MaxIngestFaults]
      /\ channelEdits \in 0..MaxChannelEdits /\ MaxWrites \in Nat /\ MaxIngestFaults \in Nat
      /\ handler[p].tries \in 0..MaxWrites /\ handler[p].tries \in Nat
      /\ ingestFaults \in Nat /\ copies[p] \in Nat /\ unanswered[p] \in Nat
  BY IngestTypeParts, IngestNumbers, PostTypes DEF IngestInv, StoredTypes
<1>1. UNCHANGED <<Table, Listening>> /\ handler[p].pc = "commit" /\ Committed(p)
  BY DEF Commits, AnswerLost
<1>2. /\ handler[p].key \in ChannelKeys /\ handler[p].tries < MaxWrites
      /\ copies[p] <= unanswered[p] /\ unanswered[p] <= handler[p].tries
      /\ unanswered[p] <= ingestFaults
  BY <1>0, <1>1 DEF IngestInv, PostHeld
<1>3. PICK h \in HandlerRow :
         /\ handler' = [handler EXCEPT ![p] = h] /\ h.key = handler[p].key /\ h.pc # "none"
         /\ \/ /\ h.pc = "saved" /\ h.tries = handler[p].tries
               /\ unanswered' = unanswered /\ ingestFaults' = ingestFaults
            \/ /\ h.pc \in {"logged", "insert"} /\ h.tries = handler[p].tries + 1
               /\ (h.tries = MaxWrites => h.pc = "logged")
               /\ unanswered' = [unanswered EXCEPT ![p] = @ + 1]
               /\ ingestFaults < MaxIngestFaults /\ ingestFaults' = ingestFaults + 1
  <2>1. CASE Commits(p)
    <3>1. PICK h \in HandlerRow : h = [handler[p] EXCEPT !.pc = "saved"]
      BY <1>0 DEF HandlerRow, Ends
    <3>2. h.pc = "saved" /\ h.key = handler[p].key /\ h.tries = handler[p].tries
      BY <1>0, <3>1 DEF HandlerRow
    <3>3. handler' = [handler EXCEPT ![p] = h] /\ UNCHANGED <<unanswered, ingestFaults>>
      BY <1>0, <2>1, <3>1 DEF Commits, Handles
    <3>. QED
      BY <3>2, <3>3
  <2>2. CASE AnswerLost(p)
    <3>1. PICK pc \in {"logged", "insert"} :
            pc = IF handler[p].tries = MaxWrites - 1 THEN "logged" ELSE "insert"
      OBVIOUS
    <3>2. PICK h \in HandlerRow : h = [handler[p] EXCEPT !.pc = pc, !.tries = @ + 1, !.counts = FALSE]
      <4>1. handler[p].tries + 1 \in 0..MaxWrites
        BY <1>0, <1>2
      <4>. QED
        BY <1>0, <3>1, <4>1 DEF HandlerRow, Ends
    <3>3. h.pc = pc /\ h.key = handler[p].key /\ h.tries = handler[p].tries + 1
      BY <1>0, <3>2 DEF HandlerRow
    <3>4. h.tries = MaxWrites => pc = "logged"
      BY <1>0, <3>1, <3>3
    <3>5. /\ handler' = [handler EXCEPT ![p] = h] /\ unanswered' = [unanswered EXCEPT ![p] = @ + 1]
          /\ ingestFaults < MaxIngestFaults /\ ingestFaults' = ingestFaults + 1
      BY <2>2, <3>1, <3>2 DEF AnswerLost, AttemptFails, Errs
    <3>. QED
      BY <3>1, <3>3, <3>4, <3>5
  <2>. QED
    BY <2>1, <2>2
<1>4. handler' \in [Posts -> HandlerRow]
      /\ \A q \in Posts : handler'[q] = IF q = p THEN h ELSE handler[q]
  BY <1>0, <1>3
<1>5. /\ copies' \in [Posts -> 0..MaxWrites] /\ channelStat' \in [ChannelKeys -> Nat]
      /\ cleaner' \in CleanerRow /\ drifted' \in SUBSET ChannelKeys
      /\ \A q \in Posts : copies'[q] = IF q = p THEN copies[p] + 1 ELSE copies[q]
      /\ CleanerHeld' /\ StatCountsMessages'
  <2>1. \A q \in Posts : handler'[q].key = handler[q].key
                         /\ (handler'[q].pc = "none" <=> handler[q].pc = "none")
    BY <1>1, <1>3, <1>4
  <2>. QED
    BY <1>1, <2>1, CommittedKeeps
<1>6. /\ ingestFaults' \in 0..MaxIngestFaults /\ ingestFaults' \in Nat
      /\ unanswered' \in [Posts -> 0..MaxIngestFaults]
      /\ unanswered'[p] <= ingestFaults' /\ ingestFaults <= ingestFaults'
      /\ \A q \in Posts : q # p => unanswered'[q] = unanswered[q]
  <2>0. ingestFaults \in 0..MaxIngestFaults
    BY <1>0, PostTypes
  <2>1. CASE unanswered' = unanswered /\ ingestFaults' = ingestFaults
    BY <1>0, <1>2, <2>0, <2>1
  <2>2. CASE /\ unanswered' = [unanswered EXCEPT ![p] = @ + 1]
             /\ ingestFaults < MaxIngestFaults /\ ingestFaults' = ingestFaults + 1
    <3>1. unanswered[p] + 1 \in 0..MaxIngestFaults
      BY <1>0, <1>2, <2>2
    <3>. QED
      BY <1>0, <1>2, <2>0, <2>2, <3>1
  <2>. QED
    BY <1>3, <2>1, <2>2
<1>7. IngestTypeOK'
  BY <1>0, <1>1, <1>4, <1>5, <1>6 DEF IngestTypeOK, ListenTypes, StoredTypes, RefreshRow,
     HandlerRow, CleanerRow, Table, Listening
<1>8. RefreshHeld'
  <2>1. refresher' = refresher
    BY <1>1 DEF Listening
  <2>. QED
    BY <1>1, <1>4, <2>1 DEF IngestInv, RefreshHeld
<1>9. ASSUME NEW q \in Posts
      PROVE  PostHeld(q)'
  <2>1. CASE q # p
    <3>1. handler'[q] = handler[q] /\ copies'[q] = copies[q] /\ unanswered'[q] = unanswered[q]
      BY <1>4, <1>5, <1>6, <2>1
    <3>2. PostHeld(q) /\ unanswered[q] \in Nat
      BY <1>0, PostTypes DEF IngestInv
    <3>. QED
      BY <1>0, <1>6, <3>1, <3>2 DEF PostHeld
  <2>2. CASE q = p
    <3>1. handler'[p] = h /\ copies'[p] = copies[p] + 1 /\ h.key \in ChannelKeys
      BY <1>2, <1>3, <1>4, <1>5
    <3>2. CASE /\ h.pc = "saved" /\ h.tries = handler[p].tries
               /\ unanswered' = unanswered /\ ingestFaults' = ingestFaults
      BY <1>0, <1>2, <2>2, <3>1, <3>2 DEF PostHeld
    <3>3. CASE /\ h.pc \in {"logged", "insert"} /\ h.tries = handler[p].tries + 1
               /\ (h.tries = MaxWrites => h.pc = "logged")
               /\ unanswered' = [unanswered EXCEPT ![p] = @ + 1]
      <4>1. unanswered'[p] = unanswered[p] + 1
        BY <1>0, <3>3
      <4>. QED
        BY <1>0, <1>2, <1>6, <2>2, <3>1, <3>3, <4>1 DEF PostHeld
    <3>. QED
      BY <1>3, <3>2, <3>3
  <2>. QED
    BY <2>1, <2>2
<1>. QED
  BY <1>5, <1>7, <1>8, <1>9 DEF IngestInv

(* The process dies: what was handled is lost, nothing is saved.           *)
LEMMA DeathKeeps ==
    ASSUME IngestInv, MonitorDies
    PROVE  IngestInv'
<1>0. /\ IngestTypeOK /\ ListenTypes /\ StoredTypes /\ handler \in [Posts -> HandlerRow]
      /\ channelEdits \in 0..MaxChannelEdits
  BY IngestTypeParts DEF IngestInv
<1>1. RefreshIdle \in RefreshRow /\ Unmapped \in MappedState
  BY IngestNumbers DEF RefreshIdle, RefreshRow, NoChannel, Unmapped, RowState, MappedState, Profiles
<1>2. /\ UNCHANGED <<Table, Stored>> /\ refresher' = Starting
      /\ mapping' = [k \in ChannelKeys |-> Unmapped] /\ signature' = KnownKeys
      /\ handler' = [p \in Posts |-> IF handler[p].pc \in {"none"} \cup Ends THEN handler[p]
                                     ELSE [handler[p] EXCEPT !.pc = "killed", !.counts = FALSE]]
  BY DEF MonitorDies
<1>3. ingestFaults' \in 0..MaxIngestFaults /\ ingestFaults <= ingestFaults'
  BY <1>0, IngestErrs DEF MonitorDies
<1>4. ASSUME NEW p \in Posts
      PROVE  /\ handler'[p] \in HandlerRow /\ handler'[p].key = handler[p].key
             /\ handler'[p].tries = handler[p].tries
             /\ handler'[p].pc \in {handler[p].pc, "killed"}
             /\ (handler'[p].pc = "none" <=> handler[p].pc = "none")
             /\ (handler[p].pc \in {"saved", "logged", "killed"} => handler'[p].pc = handler[p].pc)
  <2>1. PICK h \in HandlerRow : h = [handler[p] EXCEPT !.pc = "killed", !.counts = FALSE]
    BY <1>0 DEF HandlerRow, Ends
  <2>2. handler[p] \in HandlerRow /\ h.pc = "killed" /\ h.key = handler[p].key
        /\ h.tries = handler[p].tries
    BY <1>0, <2>1 DEF HandlerRow
  <2>3. handler'[p] = IF handler[p].pc \in {"none"} \cup Ends THEN handler[p] ELSE h
    BY <1>2, <2>1
  <2>. QED
    BY <2>2, <2>3 DEF Ends
<1>5. handler' \in [Posts -> HandlerRow]
  BY <1>2, <1>4
<1>6. /\ refresher' \in [Waiting -> RefreshRow]
      /\ \A w \in Waiting : refresher'[w].pc = "idle"
  <2>1. PICK s \in RefreshRow : s = [RefreshIdle EXCEPT !.force = TRUE]
    BY <1>1 DEF RefreshRow
  <2>2. s.pc = "idle" /\ RefreshIdle.pc = "idle"
    BY <2>1 DEF RefreshIdle
  <2>. QED
    BY <1>1, <1>2, <2>1, <2>2 DEF Starting
<1>7. ListenTypes'
  <2>1. KnownKeys \in SUBSET ChannelKeys
    BY DEF KnownKeys
  <2>. QED
    BY <1>0, <1>1, <1>2, <1>6, <2>1 DEF ListenTypes, Table
<1>8. IngestTypeOK'
  BY <1>0, <1>2, <1>3, <1>5, <1>7 DEF IngestTypeOK, ListenTypes, StoredTypes, RefreshRow,
     HandlerRow, CleanerRow, Table, Stored
<1>9. CleanerHeld' /\ StatCountsMessages'
  BY <1>2, <1>4, StoredKept
<1>10. RefreshHeld'
  BY <1>6, IngestNumbers DEF RefreshHeld
<1>11. ASSUME NEW p \in Posts
       PROVE  PostHeld(p)'
  <2>1. /\ PostHeld(p) /\ UNCHANGED <<copies, unanswered>> /\ ingestFaults \in Nat
        /\ ingestFaults' \in Nat /\ unanswered[p] \in Nat /\ copies[p] \in Nat
        /\ handler[p].tries \in Nat
    <3>1. PostHeld(p) /\ UNCHANGED <<copies, unanswered>>
      BY <1>2 DEF IngestInv, Stored
    <3>2. /\ ingestFaults \in Nat /\ unanswered[p] \in Nat /\ copies[p] \in Nat
          /\ handler[p].tries \in Nat
      BY <1>0, PostTypes
    <3>3. ingestFaults' \in Nat
      BY <1>3, IngestNumbers
    <3>. QED
      BY <3>1, <3>2, <3>3
  <2>2. /\ handler'[p].key = handler[p].key /\ handler'[p].tries = handler[p].tries
        /\ handler'[p].pc \in {handler[p].pc, "killed"}
        /\ (handler'[p].pc = "none" <=> handler[p].pc = "none")
        /\ (handler[p].pc \in {"saved", "logged", "killed"} => handler'[p].pc = handler[p].pc)
    BY <1>4
  <2>. QED
    BY <1>3, <2>1, <2>2 DEF PostHeld
<1>. QED
  BY <1>8, <1>9, <1>10, <1>11 DEF IngestInv

LEMMA IngestInitially ==
    ASSUME IngestInit
    PROVE  IngestInv
<1>1. /\ RefreshIdle \in RefreshRow /\ Unmapped \in MappedState /\ NoChannel \in RowState
      /\ Unposted \in HandlerRow /\ NotCleaning \in CleanerRow
      /\ Unposted.pc = "none" /\ Unposted.key = Nobody /\ Unposted.tries = 0
  BY IngestNumbers DEF RefreshIdle, RefreshRow, NoChannel, Unmapped, RowState, MappedState,
     Profiles, Unposted, HandlerRow, NotCleaning, CleanerRow
<1>2. /\ refresher \in [Waiting -> RefreshRow]
      /\ \A w \in Waiting : refresher[w].pc = "idle"
  <2>1. PICK s \in RefreshRow : s = [RefreshIdle EXCEPT !.force = TRUE]
    BY <1>1 DEF RefreshRow
  <2>2. s.pc = "idle" /\ RefreshIdle.pc = "idle"
    BY <2>1 DEF RefreshIdle
  <2>. QED
    BY <1>1, <2>1, <2>2 DEF Starting, IngestInit
<1>3. IngestTypeOK
  <2>1. /\ channelRows \in [ChannelKeys -> RowState] /\ mapping \in [ChannelKeys -> MappedState]
        /\ handler \in [Posts -> HandlerRow] /\ cleaner \in CleanerRow
    BY <1>1 DEF IngestInit
  <2>2. /\ copies \in [Posts -> 0..MaxWrites] /\ channelStat \in [ChannelKeys -> Nat]
        /\ unanswered \in [Posts -> 0..MaxIngestFaults] /\ drifted \subseteq ChannelKeys
        /\ rowsMade \in 0..MaxRows /\ signature \subseteq ChannelKeys
        /\ channelEdits \in 0..MaxChannelEdits /\ ingestFaults \in 0..MaxIngestFaults
    BY IngestNumbers DEF IngestInit
  <2>. QED
    BY <1>2, <2>1, <2>2, IngestTypeParts DEF ListenTypes, StoredTypes
<1>4. RefreshHeld /\ CleanerHeld
  BY <1>2, IngestNumbers DEF RefreshHeld, CleanerHeld, IngestInit, NotCleaning
<1>5. \A p \in Posts : PostHeld(p)
  BY <1>1, IngestNumbers DEF PostHeld, IngestInit
<1>6. StatCountsMessages
  <2> SUFFICES ASSUME NEW k \in ChannelKeys
               PROVE  channelStat[k] = Cardinality(RowsOf(PostsOf(k)))
    BY DEF StatCountsMessages, CountOf
  <2>1. PostsOf(k) = {}
    BY <1>1, IngestNumbers DEF PostsOf, IngestInit
  <2>2. RowsOf({}) = {}
    BY DEF RowsOf
  <2>. QED
    BY <2>1, <2>2, FS_EmptySet DEF IngestInit
<1>. QED
  BY <1>3, <1>4, <1>5, <1>6 DEF IngestInv

LEMMA IngestStep ==
    IngestInv /\ [IngestNext]_ingestVars => IngestInv'
<1> SUFFICES ASSUME IngestInv, [IngestNext]_ingestVars
             PROVE  IngestInv'
  OBVIOUS
<1>1. CASE UNCHANGED ingestVars
  <2>1. UNCHANGED <<Table, Listening, handler, Stored, ingestFaults>>
    BY <1>1 DEF ingestVars, Table, Listening, Stored
  <2>2. CleanerHeld' /\ StatCountsMessages'
    BY <2>1, StoredKept
  <2>3. RefreshHeld' /\ \A p \in Posts : PostHeld(p)'
    BY <2>1 DEF IngestInv, RefreshHeld, PostHeld, Listening, Stored
  <2>4. IngestTypeOK'
    BY <2>1 DEF IngestInv, IngestTypeOK, Table, Listening, Stored
  <2>. QED
    BY <2>2, <2>3, <2>4 DEF IngestInv
<1>2. ASSUME NEW k \in ChannelKeys,
             \/ AddChannel(k) \/ DeleteChannel(k)
             \/ \E new \in ChannelKeys, profile \in Profiles : SaveChannel(k, new, profile)
      PROVE  IngestInv'
  BY <1>2, EditsKeep
<1>3. ASSUME NEW w \in Waiting, RefreshSteps(w) \/ \E k \in ChannelKeys : ResolveFails(w, k)
      PROVE  IngestInv'
  BY <1>3, RefreshKeeps, MapsKeeps DEF RefreshSteps
<1>4. ASSUME NEW p \in Posts,
             \/ HandlerSteps(p) \/ HandlerRaises(p) \/ CountFails(p) \/ WriteFails(p)
             \/ AnswerLost(p) \/ CleanupReads(p) \/ MessageGoes(p)
             \/ \E k \in ChannelKeys : Arrives(p, k)
      PROVE  IngestInv'
  <2>1. CASE \/ LooksUpName(p) \/ Parses(p) \/ HandlerRaises(p) \/ Inserts(p) \/ Counts(p)
             \/ CountFails(p) \/ WriteFails(p) \/ \E k \in ChannelKeys : Arrives(p, k)
    BY <2>1, HandlersKeep
  <2>2. CASE Commits(p) \/ AnswerLost(p)
    BY <2>2, CommitsKeep
  <2>3. CASE CleanupReads(p) \/ MessageGoes(p)
    BY <2>3, DeletionsKeep
  <2>. QED
    BY <1>4, <2>1, <2>2, <2>3 DEF HandlerSteps
<1>5. CASE CleanupCommits
  BY <1>5, DeletionsKeep
<1>6. CASE MonitorDies
  BY <1>6, DeathKeeps
<1>. QED
  BY <1>1, <1>2, <1>3, <1>4, <1>5, <1>6 DEF IngestNext

(* The monitor's state stays of its type.                                  *)
THEOREM IngestTypeCorrect == IngestSpec => []IngestTypeOK
<1>1. IngestInv => IngestTypeOK
  BY DEF IngestInv
<1>. QED
  BY <1>1, IngestInitially, IngestStep, PTL DEF IngestSpec

(* A post has one row at most unless the answer of a commit was lost, its  *)
(* attempts end in the table or in the log, and the statistic of a channel *)
(* counts its messages.                                                    *)
THEOREM PostsAlwaysAccounted == IngestSpec => []PostsAreAccounted
<1>1. IngestInv => PostsAreAccounted
  <2> SUFFICES ASSUME IngestInv
               PROVE  SavedOrLogged
    BY DEF IngestInv, PostsAreAccounted
  <2>1. \A p \in Posts : PostHeld(p)
    BY DEF IngestInv
  <2>. QED
    BY <2>1 DEF SavedOrLogged, PostHeld
<1>. QED
  BY <1>1, IngestInitially, IngestStep, PTL DEF IngestSpec

----------------------------------------------------------------------------
(* The catalogue.  Before two deletions have overlapped there is one at a  *)
(* time, and what it has read stays true until it ends (DeletionHeld): it  *)
(* holds the statistic and the target it is going to delete, no click is   *)
(* on its way to its reference, and the count it is going to write is that *)
(* of the clicks of the other references.                                  *)

TxRow == [op: {"none", "save", "index", "click"} \cup Deletions, msg: Messages \cup {NoMsg},
          at: {"begin", "refs", "stats", "blocked", "count", "insert", "purge",
               "drop", "end", "seen", "missing", "upsert"},
          target: {"none", "share", "insert", "delete"}, stat: {"none", "update", "delete"},
          row: Nat, count: Nat, had: BOOLEAN]

ClicksLeft(m) == Cardinality(ClicksOn(Messages \ {m}))

(* A number of clicks: of the c that there are, or of those thrown away.   *)
TellsOf(n, c) == IF expired THEN n \in {0, counted} ELSE n = c

(* What a transaction is, whatever the others do.                          *)
TxHeld(t) ==
    /\ t.op # "none" => t.msg \in Messages
    /\ t.op = "click" /\ t.at = "end" => t.stat = "update"
    /\ t.op \in {"save", "index"} => t.target # "delete"
    /\ t.op = "click" => ~t.had

(* What a deletion has found out and the others leave true.                *)
DeletionHeld(a, t) ==
    /\ t.at # "end" => t.had /\ t.target = "none"
    /\ ~t.had => t.stat = "none" /\ t.target = "none"
    /\ t.target = "delete" => refs = {t.msg} /\ Free(a, "target", {"share", "insert", "delete"})
    /\ t.stat = "delete" => Free(a, "stat", {"update", "delete"})
    /\ t.had => t.msg \in refs
    /\ t.had /\ t.at \notin {"begin", "refs"} => ~Clicking(a, t.msg)
    /\ t.at = "blocked" => stat > 0 /\ t.row = statRow
    /\ t.had /\ t.at \notin {"begin", "refs", "stats", "blocked"} /\ t.stat # "delete" =>
          clicks[t.msg] = 0
    /\ t.at = "insert" => stat > 0
    /\ t.at \in {"insert", "purge", "drop", "end"} /\ t.stat = "delete" =>
          TellsOf(t.count, ClicksLeft(t.msg))
    /\ t.at = "end" /\ t.had =>
          t.target = "delete" \/ protected \/ released \/ refs # {t.msg}

Deletes(a) == tx[a].op \in Deletions
Clicks(m) == clicks[m] + (IF tx["api"].op = "click" THEN 1 ELSE 0)

CatalogHeld ==
    /\ \A a, b \in Actors : Deletes(a) /\ Deletes(b) => a = b
    /\ \A a \in Actors : Deletes(a) => DeletionHeld(a, tx[a])
    /\ \A a \in Actors : tx[a].op = "click" => tx[a].msg \in refs
    /\ TellsOf(stat, Cardinality(ClicksOn(Messages)))
    /\ \A m \in Messages : clicks[m] > 0 => m \in refs
    /\ refs # {} => target
    /\ target /\ ~protected => refs # {} \/ released

CatalogInv ==
    /\ CatalogTypeOK /\ (\A a \in Actors : TxHeld(tx[a]))
    /\ (\A m \in Messages : Clicks(m) <= clickCount)
    /\ (expired => tx["api"].op # "click" /\ \A m \in Messages : clicks[m] = 0)
    /\ (~overlapped => CatalogHeld)

LEMMA CatalogParts ==
    CatalogTypeOK <=>
        /\ saved \subseteq Messages /\ linked \subseteq Messages /\ refs \subseteq Messages
        /\ target \in BOOLEAN /\ protected \in BOOLEAN
        /\ clicks \in [Messages -> 0..MaxClicks] /\ stat \in Nat /\ statRow \in Nat
        /\ tx \in [Actors -> TxRow]
        /\ clickCount \in 0..MaxClicks /\ catalogOps \in 0..MaxCatalogOps
        /\ overlapped \in BOOLEAN /\ expired \in BOOLEAN /\ counted \in Nat
        /\ released \in BOOLEAN
BY DEF CatalogTypeOK, TxRow

LEMMA CatalogNumbers ==
    /\ MaxClicks \in Nat /\ MaxCatalogOps \in Nat /\ NoMsg \notin Messages
    /\ IsFiniteSet(Messages) /\ Nothing \in TxRow /\ Nothing.op = "none"
    /\ "api" \in Actors /\ "dedup" \in Actors
BY LinkCatalogAssumption DEF NoMsg, Nothing, TxRow, Actors

LEMMA ClicksAreFinite ==
    ASSUME CatalogTypeOK, NEW S \in SUBSET Messages
    PROVE  IsFiniteSet(ClicksOn(S)) /\ Cardinality(ClicksOn(S)) \in Nat
<1>1. IsFiniteSet(Messages) /\ IsFiniteSet(1..MaxClicks)
  BY CatalogNumbers, FS_Interval
<1>2. IsFiniteSet(S)
  BY <1>1, FS_Subset
<1>3. IsFiniteSet(S \X (1..MaxClicks))
  BY <1>1, <1>2, FS_Product
<1>4. ClicksOn(S) \in SUBSET (S \X (1..MaxClicks))
  BY DEF ClicksOn
<1>5. IsFiniteSet(ClicksOn(S))
  BY <1>3, <1>4, FS_Subset
<1>. QED
  BY <1>5, FS_CardinalityType

LEMMA NoClicks ==
    ASSUME CatalogTypeOK, NEW S \in SUBSET Messages
    PROVE  Cardinality(ClicksOn(S)) = 0 <=> \A m \in S : clicks[m] = 0
<1>1. IsFiniteSet(ClicksOn(S))
  BY ClicksAreFinite
<1>2. Cardinality(ClicksOn(S)) = 0 <=> ClicksOn(S) = {}
  BY <1>1, FS_EmptySet
<1>3. clicks \in [Messages -> 0..MaxClicks] /\ MaxClicks \in Nat
  BY CatalogParts, CatalogNumbers
<1>4. ASSUME NEW m \in S, clicks[m] # 0
      PROVE  <<m, 1>> \in ClicksOn(S)
  BY <1>3, <1>4 DEF ClicksOn
<1>5. ASSUME \A m \in S : clicks[m] = 0
      PROVE  ClicksOn(S) = {}
  <2>1. \A c \in S \X (1..MaxClicks) : c[1] \in S /\ c[2] \in 1..MaxClicks
    OBVIOUS
  <2>2. \A c \in S \X (1..MaxClicks) : ~(c[2] <= clicks[c[1]])
    BY <1>3, <1>5, <2>1
  <2>. QED
    BY <2>2 DEF ClicksOn
<1>. QED
  BY <1>2, <1>4, <1>5

LEMMA ClickAdded ==
    ASSUME CatalogTypeOK, NEW m \in Messages, clicks[m] < MaxClicks,
           clicks' = [clicks EXCEPT ![m] = @ + 1], NEW S \in SUBSET Messages
    PROVE  /\ m \notin S => ClicksOn(S)' = ClicksOn(S)
           /\ m \in S => Cardinality(ClicksOn(S))' = Cardinality(ClicksOn(S)) + 1
<1> DEFINE n == clicks[m] + 1
<1>1. /\ clicks \in [Messages -> 0..MaxClicks] /\ n \in 1..MaxClicks /\ n \in Nat
      /\ MaxClicks \in Nat /\ clicks[m] \in Nat
  BY CatalogParts, CatalogNumbers
<1>2. \A q \in Messages : clicks'[q] = IF q = m THEN n ELSE clicks[q]
  BY <1>1
<1>3. \A r \in S \X (1..MaxClicks) : r[1] \in Messages /\ r[2] \in 1..MaxClicks
                                     /\ r[2] \in Nat /\ r = <<r[1], r[2]>>
  BY <1>1
<1>4. CASE m \notin S
  BY <1>2, <1>3, <1>4 DEF ClicksOn
<1>5. CASE m \in S
  <2>1. /\ <<m, n>> \in S \X (1..MaxClicks) /\ ~(n <= clicks[m])
    BY <1>1, <1>5
  <2>2. ClicksOn(S)' = ClicksOn(S) \cup {<<m, n>>}
    <3>1. \A r \in S \X (1..MaxClicks) :
             r[2] <= clicks'[r[1]] <=> (r[2] <= clicks[r[1]] \/ r = <<m, n>>)
      <4> TAKE r \in S \X (1..MaxClicks)
      <4>1. CASE r[1] # m
        BY <1>2, <1>3, <4>1
      <4>2. CASE r[1] = m
        <5>1. r[2] <= n <=> (r[2] <= clicks[m] \/ r[2] = n)
          BY <1>1, <1>3
        <5>. QED
          BY <1>2, <1>3, <4>2, <5>1
      <4>. QED
        BY <4>1, <4>2
    <3>. QED
      BY <2>1, <3>1 DEF ClicksOn
  <2>3. <<m, n>> \notin ClicksOn(S)
    BY <2>1 DEF ClicksOn
  <2>4. IsFiniteSet(ClicksOn(S))
    BY ClicksAreFinite
  <2>. QED
    <3> DEFINE R == ClicksOn(S)
    <3>1. IsFiniteSet(R) /\ <<m, n>> \notin R
      BY <2>3, <2>4
    <3> HIDE DEF R
    <3>2. Cardinality(R \cup {<<m, n>>}) = Cardinality(R) + 1
      BY <3>1, FS_AddElement
    <3>. QED
      BY <1>5, <2>2, <3>2 DEF R
<1>. QED
  BY <1>4, <1>5

LEMMA ClicksGone ==
    ASSUME CatalogTypeOK, NEW m \in Messages, clicks' = [clicks EXCEPT ![m] = 0],
           NEW S \in SUBSET Messages
    PROVE  ClicksOn(S)' = ClicksOn(S \ {m})
<1>1. clicks \in [Messages -> 0..MaxClicks] /\ MaxClicks \in Nat
  BY CatalogParts, CatalogNumbers
<1>2. \A q \in Messages : clicks'[q] = IF q = m THEN 0 ELSE clicks[q]
  BY <1>1
<1>3. \A r \in S \X (1..MaxClicks) : r[1] \in Messages /\ r[1] \in S /\ r[2] \in 1..MaxClicks
                                     /\ r[2] > 0 /\ r = <<r[1], r[2]>>
  BY <1>1
<1>4. \A r \in S \X (1..MaxClicks) :
         r[2] <= clicks'[r[1]] <=> r[1] # m /\ r[2] <= clicks[r[1]]
  BY <1>1, <1>2, <1>3
<1>5. \A r \in (S \ {m}) \X (1..MaxClicks) : r \in S \X (1..MaxClicks) /\ r[1] # m
  OBVIOUS
<1>6. \A r \in S \X (1..MaxClicks) : r[1] # m => r \in (S \ {m}) \X (1..MaxClicks)
  BY <1>3
<1>. QED
  BY <1>4, <1>5, <1>6 DEF ClicksOn

(* A step of one transaction that commits nothing: it keeps what it knows, *)
(* and takes nothing from a deletion.                                      *)
LEMMA TxMoves ==
    ASSUME CatalogInv, NEW a \in Actors, NEW t \in TxRow, tx' = [tx EXCEPT ![a] = t],
           UNCHANGED Rows, TxHeld(t),
           clickCount' \in 0..MaxClicks, clickCount <= clickCount',
           t.op = "click" => tx[a].op = "click" \/ (clickCount' = clickCount + 1 /\ ~expired),
           catalogOps' \in 0..MaxCatalogOps, overlapped' \in BOOLEAN,
           UNCHANGED <<counted, released>>,
           ~overlapped' =>
             /\ ~overlapped
             /\ t.op = "click" => t.msg \in refs
             /\ t.op \in Deletions => DeletionHeld(a, t) /\ \A b \in Others(a) : ~Deletes(b)
             /\ \A b \in Others(a) : Deletes(b) =>
                  /\ tx[b].target = "delete" => t.target = "none"
                  /\ tx[b].stat = "delete" => t.stat = "none"
                  /\ t.op = "click" => t.msg # tx[b].msg \/ tx[b].at = "begin" \/ ~tx[b].had
                                       \/ tx[b].at = "refs"
    PROVE  CatalogInv'
<1>0. /\ CatalogTypeOK /\ tx \in [Actors -> TxRow] /\ clicks \in [Messages -> 0..MaxClicks]
      /\ clickCount \in 0..MaxClicks /\ MaxClicks \in Nat
  BY CatalogParts, CatalogNumbers DEF CatalogInv
<1>1. /\ tx' \in [Actors -> TxRow] /\ tx'[a] = t
      /\ \A b \in Actors : b # a => tx'[b] = tx[b]
  BY <1>0
<1>2. CatalogTypeOK'
  BY <1>0, <1>1 DEF CatalogTypeOK, TxRow, Rows
<1>3. \A b \in Actors : TxHeld(tx'[b])
  BY <1>1 DEF CatalogInv
<1>4. \A m \in Messages : Clicks(m)' <= clickCount'
  <2> TAKE m \in Messages
  <2>1. Clicks(m) <= clickCount /\ clicks[m] \in Nat /\ clicks' = clicks
        /\ clickCount \in Nat /\ clickCount' \in Nat
    BY <1>0 DEF CatalogInv, Rows
  <2>2. tx'["api"].op = "click" => tx["api"].op = "click" \/ clickCount' = clickCount + 1
    BY <1>1, CatalogNumbers
  <2>. QED
    BY <2>1, <2>2 DEF Clicks
<1>6. (expired => tx["api"].op # "click" /\ \A m \in Messages : clicks[m] = 0)'
  BY <1>1 DEF CatalogInv, Rows
<1>5. ASSUME ~overlapped'
      PROVE  CatalogHeld'
  <2>1. CatalogHeld
    BY Zenon, <1>5 DEF CatalogInv
  <2>2. \A b, c \in Actors : Deletes(b)' /\ Deletes(c)' => b = c
    BY <1>1, <1>5, <2>1 DEF CatalogHeld, Deletes, Others
  <2>3. ASSUME NEW b \in Actors, Deletes(b)'
        PROVE  DeletionHeld(b, tx[b])'
    <3>0. /\ UNCHANGED <<refs, stat, statRow, clicks, protected, expired, counted, released>>
          /\ \A S : ClicksOn(S)' = ClicksOn(S)
      BY DEF Rows, ClicksOn
    <3>1. CASE b = a
      <4>1. DeletionHeld(a, t) /\ tx'[b] = t /\ t.op \in Deletions
        BY <1>1, <1>5, <2>3, <3>1 DEF Deletes
      <4>2. \A c \in Others(a) : tx'[c] = tx[c] /\ c \in Actors
        BY <1>1 DEF Others
      <4>3. DeletionHeld(a, t)'
        BY <3>0, <4>1, <4>2 DEF DeletionHeld, Free, Holds, Clicking, ClicksLeft, TellsOf
      <4>. QED
        BY <3>1, <4>1, <4>3
    <3>2. CASE b # a
      <4>1. /\ DeletionHeld(b, tx[b]) /\ tx'[b] = tx[b] /\ b \in Others(a) /\ Deletes(b)
            /\ tx[b] \in TxRow
        BY <1>0, <1>1, <2>1, <2>3, <3>2 DEF Deletes, CatalogHeld, Others
      <4>2. /\ tx[b].target = "delete" => t.target = "none"
            /\ tx[b].stat = "delete" => t.stat = "none"
            /\ t.op = "click" => t.msg # tx[b].msg \/ tx[b].at = "begin" \/ ~tx[b].had
                                 \/ tx[b].at = "refs"
        BY <1>5, <4>1
      <4>3. \A c \in Others(b) : tx'[c] = IF c = a THEN t ELSE tx[c]
        BY <1>1 DEF Others
      <4>4. tx[b].target = "delete" => Free(b, "target", {"share", "insert", "delete"})'
        BY <4>1, <4>2, <4>3 DEF DeletionHeld, Free, Holds
      <4>5. tx[b].stat = "delete" => Free(b, "stat", {"update", "delete"})'
        BY <4>1, <4>2, <4>3 DEF DeletionHeld, Free, Holds
      <4>6. tx[b].had /\ tx[b].at \notin {"begin", "refs"} => ~Clicking(b, tx[b].msg)'
        BY <4>1, <4>2, <4>3 DEF DeletionHeld, Clicking
      <4>. QED
        <5>1. PICK r \in TxRow : r = tx[b] /\ r = tx'[b]
          BY <4>1
        <5>2. /\ DeletionHeld(b, r) /\ ClicksLeft(r.msg)' = ClicksLeft(r.msg)
              /\ r.target = "delete" => Free(b, "target", {"share", "insert", "delete"})'
              /\ r.stat = "delete" => Free(b, "stat", {"update", "delete"})'
              /\ r.had /\ r.at \notin {"begin", "refs"} => ~Clicking(b, r.msg)'
          BY <3>0, <4>1, <4>4, <4>5, <4>6, <5>1 DEF ClicksLeft
        <5>3. DeletionHeld(b, r)'
          BY <3>0, <5>2 DEF DeletionHeld, TellsOf
        <5>. QED
          BY <5>1, <5>3
    <3>. QED
      BY <3>1, <3>2
  <2>4. /\ TellsOf(stat, Cardinality(ClicksOn(Messages)))'
        /\ (\A m \in Messages : clicks[m] > 0 => m \in refs)'
        /\ (refs # {} => target)'
        /\ (target /\ ~protected => refs # {} \/ released)'
    BY <2>1 DEF CatalogHeld, Rows, ClicksOn, TellsOf
  <2>5. \A b \in Actors : tx'[b].op = "click" => tx'[b].msg \in refs'
    BY <1>1, <1>5, <2>1 DEF CatalogHeld, Rows
  <2>. QED
    BY <2>2, <2>3, <2>4, <2>5 DEF CatalogHeld
<1>. QED
  BY Zenon, <1>2, <1>3, <1>4, <1>5, <1>6 DEF CatalogInv

(* What another transaction has is nothing a deletion holds.               *)
LEMMA Untaken ==
    ASSUME CatalogInv, ~overlapped, NEW a \in Actors, NEW b \in Others(a), Deletes(b)
    PROVE  /\ tx[b].target = "delete" => tx[a].target = "none"
           /\ tx[b].stat = "delete" => tx[a].stat = "none"
           /\ tx[a].op = "click" => tx[a].msg # tx[b].msg \/ tx[b].at = "begin" \/ ~tx[b].had
                                    \/ tx[b].at = "refs"
<1>1. tx[a] \in TxRow /\ a \in Others(b) /\ b \in Actors
  BY CatalogParts DEF CatalogInv, Others
<1>2. DeletionHeld(b, tx[b])
  <2>1. CatalogHeld
    BY Zenon DEF CatalogInv
  <2>. QED
    BY <1>1, <2>1 DEF CatalogHeld
<1>3. tx[b].target = "delete" => tx[a].target \notin {"share", "insert", "delete"}
  BY <1>1, <1>2 DEF DeletionHeld, Free, Holds
<1>4. tx[b].stat = "delete" => tx[a].stat \notin {"update", "delete"}
  BY <1>1, <1>2 DEF DeletionHeld, Free, Holds
<1>5. tx[b].had /\ tx[b].at \notin {"begin", "refs"} /\ tx[a].op = "click"
         => tx[a].msg # tx[b].msg
  BY <1>1, <1>2 DEF DeletionHeld, Clicking
<1>. QED
  BY <1>1, <1>3, <1>4, <1>5 DEF TxRow

(* The end of a transaction, whatever it was.                              *)
LEMMA RollbackKeeps ==
    ASSUME CatalogInv, NEW a \in Actors, Rollback(a)
    PROVE  CatalogInv'
<1>1. /\ clickCount \in 0..MaxClicks /\ catalogOps \in 0..MaxCatalogOps /\ overlapped \in BOOLEAN
      /\ MaxClicks \in Nat
  BY CatalogParts, CatalogNumbers DEF CatalogInv
<1>2. /\ UNCHANGED Rows /\ UNCHANGED <<clickCount, catalogOps, overlapped>>
      /\ tx' = [tx EXCEPT ![a] = Nothing] /\ UNCHANGED <<counted, released>>
  BY DEF Rollback, Histories, Bounds
<1>3. PICK t \in TxRow : t = Nothing
  BY CatalogNumbers
<1>4. t.op = "none" /\ t.target = "none" /\ t.stat = "none" /\ t.had = FALSE
  BY <1>3 DEF Nothing
<1>5. TxHeld(t)
  BY <1>4 DEF TxHeld
<1>6. t.op \notin Deletions /\ t.op # "click"
  BY <1>4 DEF Deletions
<1>. QED
  <2>1. clickCount <= clickCount' /\ t.op # "click"
    BY <1>1, <1>2, <1>6
  <2>2. ~overlapped' =>
        /\ ~overlapped
        /\ t.op = "click" => t.msg \in refs
        /\ t.op \in Deletions => DeletionHeld(a, t) /\ \A b \in Others(a) : ~Deletes(b)
        /\ \A b \in Others(a) : Deletes(b) =>
                  /\ tx[b].target = "delete" => t.target = "none"
                  /\ tx[b].stat = "delete" => t.stat = "none"
                  /\ t.op = "click" => t.msg # tx[b].msg \/ tx[b].at = "begin" \/ ~tx[b].had
                                       \/ tx[b].at = "refs"
    BY Zenon, <1>2, <1>4, <1>6, <2>1
  <2>3. UNCHANGED Rows /\ tx' = [tx EXCEPT ![a] = t] /\ UNCHANGED <<counted, released>>
    BY <1>2, <1>3
  <2>4. /\ clickCount' \in 0..MaxClicks /\ catalogOps' \in 0..MaxCatalogOps
        /\ overlapped' \in BOOLEAN
    BY <1>1, <1>2
  <2>. QED
    BY <1>5, <2>1, <2>2, <2>3, <2>4, TxMoves

(* A step of a deletion that commits nothing.                              *)
LEMMA DeletionMoves ==
    ASSUME CatalogInv, NEW a \in Actors, Deletes(a), NEW t \in TxRow,
           tx' = [tx EXCEPT ![a] = t], t.op = tx[a].op, t.msg = tx[a].msg,
           UNCHANGED Rows, UNCHANGED Histories,
           ~overlapped => DeletionHeld(a, t)
    PROVE  CatalogInv'
<1>1. /\ clickCount \in 0..MaxClicks /\ catalogOps \in 0..MaxCatalogOps /\ overlapped \in BOOLEAN
      /\ MaxClicks \in Nat
  BY CatalogParts, CatalogNumbers DEF CatalogInv
<1>2. /\ UNCHANGED <<clickCount, catalogOps, overlapped>> /\ clickCount <= clickCount'
      /\ UNCHANGED <<counted, released>>
  BY <1>1 DEF Histories, Bounds
<1>3. TxHeld(t) /\ t.op # "click"
  BY DEF TxHeld, CatalogInv, Deletes, Deletions
<1>4. ASSUME ~overlapped
      PROVE  \A b \in Others(a) : ~Deletes(b)
  <2>1. CatalogHeld
    BY Zenon, <1>4 DEF CatalogInv
  <2>. QED
    BY <2>1 DEF CatalogHeld, Others
<1>5. ~overlapped' =>
        /\ ~overlapped
        /\ t.op = "click" => t.msg \in refs
        /\ t.op \in Deletions => DeletionHeld(a, t) /\ \A b \in Others(a) : ~Deletes(b)
        /\ \A b \in Others(a) : Deletes(b) =>
                  /\ tx[b].target = "delete" => t.target = "none"
                  /\ tx[b].stat = "delete" => t.stat = "none"
                  /\ t.op = "click" => t.msg # tx[b].msg \/ tx[b].at = "begin" \/ ~tx[b].had
                                       \/ tx[b].at = "refs"
  BY Zenon, <1>2, <1>3, <1>4
<1>. QED
  BY <1>1, <1>2, <1>3, <1>5, TxMoves

(* A deletion begins, alone or not.                                        *)
LEMMA DeletionStartsKeep ==
    ASSUME CatalogInv, NEW a \in Actors, NEW op \in Deletions, NEW m \in Messages,
           DeletionStarts(a, op, m)
    PROVE  CatalogInv'
<1>1. /\ clickCount \in 0..MaxClicks /\ catalogOps \in 0..MaxCatalogOps /\ overlapped \in BOOLEAN
      /\ MaxClicks \in Nat /\ MaxCatalogOps \in Nat
  BY CatalogParts, CatalogNumbers DEF CatalogInv
<1>2. PICK at \in {"begin", "end"} : at = IF m \in refs THEN "begin" ELSE "end"
  OBVIOUS
<1>3. PICK had \in BOOLEAN : had = (m \in refs)
  <2>1. (m \in refs) \in BOOLEAN
    OBVIOUS
  <2>. QED
    BY Zenon, <2>1
<1>4. PICK t \in TxRow : t = [Nothing EXCEPT !.op = op, !.msg = m, !.had = had, !.at = at]
  BY <1>2, CatalogNumbers DEF TxRow
<1>5. /\ t.op = op /\ t.msg = m /\ t.had = had /\ t.at = at /\ t.target = "none"
      /\ t.stat = "none" /\ op # "click" /\ op \notin {"save", "index"}
  BY <1>4 DEF Nothing, Deletions
<1>6. /\ UNCHANGED Rows /\ tx' = [tx EXCEPT ![a] = t]
      /\ catalogOps < MaxCatalogOps /\ catalogOps' = catalogOps + 1 /\ clickCount' = clickCount
      /\ overlapped' = (overlapped \/ \E b \in Others(a) : Deletes(b))
      /\ UNCHANGED <<counted, released>>
  BY <1>2, <1>3, <1>4 DEF DeletionStarts, Deletes
<1>7. TxHeld(t)
  BY <1>5 DEF TxHeld
<1>8. /\ clickCount' \in 0..MaxClicks /\ clickCount <= clickCount'
      /\ catalogOps' \in 0..MaxCatalogOps /\ overlapped' \in BOOLEAN
  BY <1>1, <1>6
<1>9. DeletionHeld(a, t)
  BY <1>2, <1>3, <1>5 DEF DeletionHeld
<1>10. ~overlapped' =>
        /\ ~overlapped
        /\ t.op = "click" => t.msg \in refs
        /\ t.op \in Deletions => DeletionHeld(a, t) /\ \A b \in Others(a) : ~Deletes(b)
        /\ \A b \in Others(a) : Deletes(b) =>
                  /\ tx[b].target = "delete" => t.target = "none"
                  /\ tx[b].stat = "delete" => t.stat = "none"
                  /\ t.op = "click" => t.msg # tx[b].msg \/ tx[b].at = "begin" \/ ~tx[b].had
                                       \/ tx[b].at = "refs"
  BY Zenon, <1>5, <1>6, <1>9
<1>11. /\ t.op = "click" => tx[a].op = "click" \/ (clickCount' = clickCount + 1 /\ ~expired)
       /\ UNCHANGED <<counted, released>>
  BY <1>5, <1>6
<1>. QED
  BY <1>6, <1>7, <1>8, <1>10, <1>11, TxMoves

LEMMA DeletionFacts ==
    ASSUME CatalogInv, NEW a \in Actors, Deletes(a)
    PROVE  /\ tx[a] \in TxRow /\ tx[a].msg \in Messages /\ stat \in Nat /\ statRow \in Nat
           /\ clicks[tx[a].msg] \in Nat /\ ClicksLeft(tx[a].msg) \in Nat
           /\ tx[a].op \in Deletions
           /\ ~overlapped =>
                /\ DeletionHeld(a, tx[a])
                /\ stat = 0 => clicks[tx[a].msg] = 0 /\ ClicksLeft(tx[a].msg) = 0
                /\ ClicksLeft(tx[a].msg) # 0 => refs # {tx[a].msg}
                /\ refs # {} => target
                /\ expired => ClicksLeft(tx[a].msg) = 0
                /\ ClicksLeft(tx[a].msg) # 0 => stat > 0
<1>1. /\ CatalogTypeOK /\ tx \in [Actors -> TxRow] /\ clicks \in [Messages -> 0..MaxClicks]
      /\ MaxClicks \in Nat /\ stat \in Nat /\ statRow \in Nat
  BY CatalogParts, CatalogNumbers DEF CatalogInv
<1>2. tx[a].op \in Deletions /\ tx[a].msg \in Messages
  BY DEF Deletes, CatalogInv, TxHeld, Deletions
<1>3. PICK m \in Messages : m = tx[a].msg
  BY <1>2
<1>4. PICK S \in SUBSET Messages : S = Messages \ {m}
  OBVIOUS
<1>5. ClicksLeft(m) \in Nat /\ (ClicksLeft(m) = 0 <=> \A q \in S : clicks[q] = 0)
  BY <1>1, <1>4, ClicksAreFinite, NoClicks DEF ClicksLeft
<1>6. ASSUME ~overlapped
      PROVE  /\ DeletionHeld(a, tx[a])
             /\ stat = 0 => clicks[m] = 0 /\ ClicksLeft(m) = 0
             /\ ClicksLeft(m) # 0 => refs # {m}
             /\ refs # {} => target
             /\ expired => ClicksLeft(m) = 0
             /\ ClicksLeft(m) # 0 => stat > 0
  <2>1. CatalogHeld
    BY Zenon, <1>6 DEF CatalogInv
  <2>4. expired => \A q \in Messages : clicks[q] = 0
    BY DEF CatalogInv
  <2>2. stat = 0 => \A q \in Messages : clicks[q] = 0
    BY <1>1, <2>1, <2>4, NoClicks DEF CatalogHeld, TellsOf
  <2>3. ASSUME ClicksLeft(m) # 0
        PROVE  refs # {m}
    <3>1. PICK q \in S : clicks[q] # 0
      BY <1>5, <2>3
    <3>2. q \in Messages /\ q # m /\ clicks[q] > 0
      BY <1>1, <1>4, <3>1
    <3>. QED
      BY <2>1, <3>2 DEF CatalogHeld
  <2>. QED
    BY <1>1, <1>4, <1>5, <2>1, <2>2, <2>3, <2>4 DEF CatalogHeld
<1>7. tx[a] \in TxRow /\ clicks[m] \in Nat
  BY <1>1
<1>. QED
  BY Zenon, <1>1, <1>2, <1>3, <1>5, <1>6, <1>7

(* The steps of a deletion in order: events, reference, statistic, count,  *)
(* new statistic, orphan.                                                  *)
LEMMA DeletionReads ==
    ASSUME CatalogInv, NEW a \in Actors,
           DeletesEvents(a) \/ DeletesRefs(a) \/ DeletesStat(a) \/ StatUnblocks(a)
    PROVE  CatalogInv'
<1>0. Deletes(a)
  BY DEF DeletesEvents, DeletesRefs, DeletesStat, StatUnblocks, Is, Deletes
<1>1. /\ tx[a] \in TxRow /\ tx[a].msg \in Messages /\ stat \in Nat /\ statRow \in Nat
      /\ clicks[tx[a].msg] \in Nat /\ ClicksLeft(tx[a].msg) \in Nat
      /\ ~overlapped => DeletionHeld(a, tx[a])
      /\ ~overlapped => (stat = 0 => clicks[tx[a].msg] = 0)
  BY <1>0, DeletionFacts
<1>2. CASE DeletesEvents(a)
  <2>1. PICK t \in TxRow : t = [tx[a] EXCEPT !.at = "refs", !.count = clicks[tx[a].msg]]
    BY <1>1 DEF TxRow
  <2>2. /\ t.op = tx[a].op /\ t.msg = tx[a].msg /\ t.at = "refs" /\ t.target = tx[a].target
        /\ t.stat = tx[a].stat /\ t.had = tx[a].had
    BY <1>1, <2>1 DEF TxRow
  <2>3. tx' = [tx EXCEPT ![a] = t] /\ UNCHANGED Rows /\ UNCHANGED Histories /\ tx[a].at = "begin"
    BY <1>2, <2>1 DEF DeletesEvents, Is
  <2>4. ~overlapped => DeletionHeld(a, t)
    BY <1>1, <2>2, <2>3 DEF DeletionHeld
  <2>. QED
    BY <1>0, <2>2, <2>3, <2>4, DeletionMoves
<1>3. CASE DeletesRefs(a) /\ ~Rollback(a)
  <2>1. PICK t \in TxRow : t = [tx[a] EXCEPT !.at = "stats"]
    BY <1>1 DEF TxRow
  <2>2. /\ t.op = tx[a].op /\ t.msg = tx[a].msg /\ t.at = "stats" /\ t.target = tx[a].target
        /\ t.stat = tx[a].stat /\ t.had = tx[a].had
    BY <1>1, <2>1 DEF TxRow
  <2>3. /\ tx' = [tx EXCEPT ![a] = t] /\ UNCHANGED Rows /\ UNCHANGED Histories
        /\ tx[a].at = "refs" /\ ~Clicking(a, tx[a].msg)
    BY <1>3, <2>1 DEF DeletesRefs, Is, To
  <2>4. ~overlapped => DeletionHeld(a, t)
    BY <1>1, <2>2, <2>3 DEF DeletionHeld
  <2>. QED
    BY <1>0, <2>2, <2>3, <2>4, DeletionMoves
<1>4. CASE DeletesStat(a)
  <2>0. PICK at \in {"blocked", "count"}, st \in {"delete", "none"} :
          /\ at = IF stat > 0 /\ ~Free(a, "stat", {"update", "delete"}) THEN "blocked" ELSE "count"
          /\ st = IF stat > 0 /\ Free(a, "stat", {"update", "delete"}) THEN "delete" ELSE "none"
    OBVIOUS
  <2>1. PICK t \in TxRow : t = [tx[a] EXCEPT !.row = statRow, !.at = at, !.stat = st]
    BY <1>1, <2>0 DEF TxRow
  <2>2. /\ t.op = tx[a].op /\ t.msg = tx[a].msg /\ t.at = at /\ t.target = tx[a].target
        /\ t.stat = st /\ t.had = tx[a].had /\ t.row = statRow
    BY <1>1, <2>1 DEF TxRow
  <2>3. /\ tx' = [tx EXCEPT ![a] = t] /\ UNCHANGED Rows /\ UNCHANGED Histories
        /\ tx[a].at = "stats"
    BY <1>1, <1>4, <2>0, <2>1 DEF DeletesStat, Is
  <2>4. ~overlapped => DeletionHeld(a, t)
    BY <1>1, <2>0, <2>2, <2>3 DEF DeletionHeld
  <2>. QED
    BY <1>0, <2>2, <2>3, <2>4, DeletionMoves
<1>5. CASE StatUnblocks(a)
  <2>0. PICK st \in {"delete", "none"} :
          st = IF stat > 0 /\ statRow = tx[a].row THEN "delete" ELSE "none"
    OBVIOUS
  <2>1. PICK t \in TxRow : t = [tx[a] EXCEPT !.at = "count", !.stat = st]
    BY <1>1, <2>0 DEF TxRow
  <2>2. /\ t.op = tx[a].op /\ t.msg = tx[a].msg /\ t.at = "count" /\ t.target = tx[a].target
        /\ t.stat = st /\ t.had = tx[a].had
    BY <1>1, <2>1 DEF TxRow
  <2>3. /\ tx' = [tx EXCEPT ![a] = t] /\ UNCHANGED Rows /\ UNCHANGED Histories
        /\ tx[a].at = "blocked" /\ Free(a, "stat", {"update", "delete"})
    BY <1>1, <1>5, <2>0, <2>1 DEF StatUnblocks, Is
  <2>4. ~overlapped => DeletionHeld(a, t)
    BY <1>1, <2>0, <2>2, <2>3 DEF DeletionHeld
  <2>. QED
    BY <1>0, <2>2, <2>3, <2>4, DeletionMoves
<1>. QED
  BY <1>2, <1>3, <1>4, <1>5, RollbackKeeps

LEMMA DeletionWrites ==
    ASSUME CatalogInv, NEW a \in Actors,
           Recounts(a) \/ InsertsStat(a) \/ Purges(a) \/ Drops(a)
    PROVE  CatalogInv'
<1>0. Deletes(a)
  BY DEF Recounts, InsertsStat, Purges, Drops, Is, Deletes
<1>1. /\ tx[a] \in TxRow /\ tx[a].msg \in Messages /\ stat \in Nat /\ statRow \in Nat
      /\ clicks[tx[a].msg] \in Nat /\ ClicksLeft(tx[a].msg) \in Nat
      /\ ~overlapped => DeletionHeld(a, tx[a])
      /\ ~overlapped => /\ stat = 0 => ClicksLeft(tx[a].msg) = 0
                        /\ ClicksLeft(tx[a].msg) # 0 => refs # {tx[a].msg}
                        /\ refs # {} => target
                        /\ expired => ClicksLeft(tx[a].msg) = 0
                        /\ ClicksLeft(tx[a].msg) # 0 => stat > 0
  BY <1>0, DeletionFacts
<1>2. Remaining(a) = ClicksLeft(tx[a].msg)
  BY DEF Remaining, ClicksLeft
<1>3. PICK n \in Nat : n = ClicksLeft(tx[a].msg)
  BY <1>1
<1>4. CASE Recounts(a)
  <2>0. PICK at \in {"purge", "insert"} : at = IF n = 0 THEN "purge" ELSE "insert"
    OBVIOUS
  <2>1. PICK t \in TxRow : t = [tx[a] EXCEPT !.at = at, !.count = n]
    BY <1>1, <2>0 DEF TxRow
  <2>2. /\ t.op = tx[a].op /\ t.msg = tx[a].msg /\ t.at = at /\ t.target = tx[a].target
        /\ t.stat = tx[a].stat /\ t.had = tx[a].had /\ t.count = n
    BY <1>1, <2>1 DEF TxRow
  <2>3. /\ tx' = [tx EXCEPT ![a] = t] /\ UNCHANGED Rows /\ UNCHANGED Histories
        /\ tx[a].at = "count"
    BY <1>1, <1>2, <1>3, <1>4, <2>0, <2>1 DEF Recounts, Is
  <2>4. ~overlapped => DeletionHeld(a, t)
    BY <1>1, <1>3, <2>0, <2>2, <2>3 DEF DeletionHeld, TellsOf
  <2>. QED
    BY <1>0, <2>2, <2>3, <2>4, DeletionMoves
<1>5. CASE InsertsStat(a) /\ ~Rollback(a)
  <2>1. PICK t \in TxRow : t = [tx[a] EXCEPT !.at = "purge", !.stat = "delete"]
    BY <1>1 DEF TxRow
  <2>2. /\ t.op = tx[a].op /\ t.msg = tx[a].msg /\ t.at = "purge" /\ t.target = tx[a].target
        /\ t.stat = "delete" /\ t.had = tx[a].had /\ t.count = tx[a].count
    BY <1>1, <2>1 DEF TxRow
  <2>3. /\ tx' = [tx EXCEPT ![a] = t] /\ UNCHANGED Rows /\ UNCHANGED Histories
        /\ tx[a].at = "insert" /\ Free(a, "stat", {"update", "delete"})
        /\ (stat > 0 => tx[a].stat = "delete")
    BY <1>5, <2>1 DEF InsertsStat, Is
  <2>4. ~overlapped => DeletionHeld(a, t)
    BY <1>1, <2>2, <2>3 DEF DeletionHeld
  <2>. QED
    BY <1>0, <2>2, <2>3, <2>4, DeletionMoves
<1>6. CASE Purges(a)
  <2>0. PICK at \in {"drop", "end"} : at = IF Orphaned(a) THEN "drop" ELSE "end"
    OBVIOUS
  <2>1. PICK t \in TxRow : t = [tx[a] EXCEPT !.at = at]
    BY <1>1, <2>0 DEF TxRow
  <2>2. /\ t.op = tx[a].op /\ t.msg = tx[a].msg /\ t.at = at /\ t.target = tx[a].target
        /\ t.stat = tx[a].stat /\ t.had = tx[a].had /\ t.count = tx[a].count
    BY <1>1, <2>1 DEF TxRow
  <2>3. /\ tx' = [tx EXCEPT ![a] = t] /\ UNCHANGED Rows /\ UNCHANGED Histories
        /\ tx[a].at = "purge"
    BY <1>1, <1>6, <2>0, <2>1 DEF Purges, Is, To
  <2>4. ~overlapped /\ at = "end" => protected \/ refs # {tx[a].msg}
    BY <1>1, <1>2, <2>0 DEF Orphaned
  <2>5. ~overlapped => DeletionHeld(a, t)
    BY <1>1, <2>0, <2>2, <2>3, <2>4 DEF DeletionHeld
  <2>. QED
    BY <1>0, <2>2, <2>3, <2>5, DeletionMoves
<1>7. CASE Drops(a) /\ ~Rollback(a)
  <2>0. PICK g \in {"delete", "none"} : g = IF target THEN "delete" ELSE "none"
    OBVIOUS
  <2>1. PICK t \in TxRow : t = [tx[a] EXCEPT !.at = "end", !.count = 0, !.stat = "delete", !.target = g]
    BY <1>1, <2>0 DEF TxRow
  <2>2. /\ t.op = tx[a].op /\ t.msg = tx[a].msg /\ t.at = "end" /\ t.target = g
        /\ t.stat = "delete" /\ t.had = tx[a].had /\ t.count = 0
    BY <1>1, <2>1 DEF TxRow
  <2>3. /\ tx' = [tx EXCEPT ![a] = t] /\ UNCHANGED Rows /\ UNCHANGED Histories
        /\ tx[a].at = "drop" /\ Free(a, "stat", {"update", "delete"})
        /\ Free(a, "target", {"share", "insert", "delete"})
        /\ (target => refs \subseteq {tx[a].msg} /\ Remaining(a) = 0)
    BY <1>7, <2>0, <2>1 DEF Drops, Is, Orphaned
  <2>4. ~overlapped => tx[a].had /\ tx[a].msg \in refs
    BY <1>1, <2>3 DEF DeletionHeld
  <2>5. ~overlapped => target /\ g = "delete" /\ refs = {tx[a].msg} /\ ClicksLeft(tx[a].msg) = 0
    BY <1>1, <1>2, <2>0, <2>3, <2>4
  <2>6. ~overlapped => DeletionHeld(a, t)
    BY <1>1, <2>2, <2>3, <2>4, <2>5 DEF DeletionHeld, TellsOf
  <2>. QED
    BY <1>0, <2>2, <2>3, <2>6, DeletionMoves
<1>. QED
  BY <1>4, <1>5, <1>6, <1>7, RollbackKeeps

(* A step of a transaction that deletes nothing: what it takes, no         *)
(* deletion holds.                                                         *)
LEMMA WriterMoves ==
    ASSUME CatalogInv, NEW a \in Actors, NEW t \in TxRow, tx' = [tx EXCEPT ![a] = t],
           UNCHANGED Rows, TxHeld(t), t.op \notin Deletions, UNCHANGED overlapped,
           clickCount' \in 0..MaxClicks, clickCount <= clickCount',
           t.op = "click" => tx[a].op = "click" \/ (clickCount' = clickCount + 1 /\ ~expired),
           catalogOps' \in 0..MaxCatalogOps, UNCHANGED <<counted, released>>,
           ~overlapped /\ t.op = "click" => t.msg \in refs,
           ~overlapped => \A b \in Others(a) : Deletes(b) =>
                  /\ tx[b].target = "delete" => t.target \in {"none", tx[a].target}
                  /\ tx[b].stat = "delete" => t.stat \in {"none", tx[a].stat}
                  /\ t.op = "click" => \/ t.msg # tx[b].msg \/ tx[b].at = "begin" \/ ~tx[b].had
                                       \/ tx[b].at = "refs"
                                       \/ tx[a].op = "click" /\ t.msg = tx[a].msg
    PROVE  CatalogInv'
<1>1. overlapped \in BOOLEAN /\ overlapped' \in BOOLEAN
  BY CatalogParts DEF CatalogInv
<1>2. ASSUME ~overlapped, NEW b \in Others(a), Deletes(b)
      PROVE  /\ tx[b].target = "delete" => t.target = "none"
             /\ tx[b].stat = "delete" => t.stat = "none"
             /\ t.op = "click" => t.msg # tx[b].msg \/ tx[b].at = "begin" \/ ~tx[b].had
                                  \/ tx[b].at = "refs"
  BY <1>2, Untaken
<1>3. ~overlapped' =>
        /\ ~overlapped
        /\ t.op = "click" => t.msg \in refs
        /\ t.op \in Deletions => DeletionHeld(a, t) /\ \A b \in Others(a) : ~Deletes(b)
        /\ \A b \in Others(a) : Deletes(b) =>
                  /\ tx[b].target = "delete" => t.target = "none"
                  /\ tx[b].stat = "delete" => t.stat = "none"
                  /\ t.op = "click" => t.msg # tx[b].msg \/ tx[b].at = "begin" \/ ~tx[b].had
                                       \/ tx[b].at = "refs"
  BY Zenon, <1>2
<1>. QED
  BY <1>1, <1>3, TxMoves

LEMMA WritersKeep ==
    ASSUME CatalogInv, NEW m \in Messages, NEW a \in Actors,
           \/ SaveStarts(a, m) \/ LooksUp(a) \/ Refers(a)
           \/ a = "api" /\ (IndexStarts(m) \/ ClickStarts(m) \/ Upserts)
    PROVE  CatalogInv'
<1>0. /\ tx[a] \in TxRow /\ clickCount \in 0..MaxClicks /\ clickCount \in Nat
      /\ catalogOps \in 0..MaxCatalogOps /\ MaxClicks \in Nat /\ MaxCatalogOps \in Nat
      /\ Nothing \in TxRow /\ TxHeld(tx[a])
  BY CatalogParts, CatalogNumbers DEF CatalogInv
<1>1. CASE SaveStarts(a, m)
  <2>1. PICK t \in TxRow : t = [Nothing EXCEPT !.op = "save", !.msg = m]
    BY <1>0 DEF TxRow
  <2>2. t.op = "save" /\ t.msg = m /\ t.target = "none" /\ t.stat = "none" /\ t.had = FALSE
    BY <2>1 DEF Nothing
  <2>3. /\ tx' = [tx EXCEPT ![a] = t] /\ UNCHANGED Rows
        /\ UNCHANGED <<clickCount, catalogOps, overlapped, counted, released>>
    BY <1>1, <2>1 DEF SaveStarts, Starts, Histories, Bounds
  <2>4. TxHeld(t) /\ t.op \notin Deletions /\ t.op # "click"
    BY <2>2 DEF TxHeld, Deletions
  <2>9. \A b \in Others(a) : Deletes(b) =>
                  /\ tx[b].target = "delete" => t.target \in {"none", tx[a].target}
                  /\ tx[b].stat = "delete" => t.stat \in {"none", tx[a].stat}
                  /\ t.op = "click" => \/ t.msg # tx[b].msg \/ tx[b].at = "begin" \/ ~tx[b].had
                                       \/ tx[b].at = "refs"
                                       \/ tx[a].op = "click" /\ t.msg = tx[a].msg
    BY <2>2, <2>4
  <2>10. /\ UNCHANGED overlapped /\ clickCount' \in 0..MaxClicks /\ clickCount <= clickCount'
         /\ catalogOps' \in 0..MaxCatalogOps /\ UNCHANGED Rows /\ tx' = [tx EXCEPT ![a] = t]
         /\ UNCHANGED <<counted, released>>
    BY <1>0, <2>3
  <2>. QED
    BY <2>4, <2>9, <2>10, WriterMoves
<1>2. CASE a = "api" /\ IndexStarts(m)
  <2>1. PICK t \in TxRow : t = [Nothing EXCEPT !.op = "index", !.msg = m]
    BY <1>0 DEF TxRow
  <2>2. t.op = "index" /\ t.msg = m /\ t.target = "none" /\ t.stat = "none" /\ t.had = FALSE
    BY <2>1 DEF Nothing
  <2>3. /\ tx' = [tx EXCEPT ![a] = t] /\ UNCHANGED Rows
        /\ UNCHANGED <<clickCount, overlapped, counted, released>>
        /\ catalogOps' \in 0..MaxCatalogOps
    BY <1>0, <1>2, <2>1 DEF IndexStarts, Starts
  <2>4. TxHeld(t) /\ t.op \notin Deletions /\ t.op # "click"
    BY <2>2 DEF TxHeld, Deletions
  <2>9. \A b \in Others(a) : Deletes(b) =>
                  /\ tx[b].target = "delete" => t.target \in {"none", tx[a].target}
                  /\ tx[b].stat = "delete" => t.stat \in {"none", tx[a].stat}
                  /\ t.op = "click" => \/ t.msg # tx[b].msg \/ tx[b].at = "begin" \/ ~tx[b].had
                                       \/ tx[b].at = "refs"
                                       \/ tx[a].op = "click" /\ t.msg = tx[a].msg
    BY <2>2, <2>4
  <2>10. /\ UNCHANGED overlapped /\ clickCount' \in 0..MaxClicks /\ clickCount <= clickCount'
         /\ catalogOps' \in 0..MaxCatalogOps /\ UNCHANGED Rows /\ tx' = [tx EXCEPT ![a] = t]
         /\ UNCHANGED <<counted, released>>
    BY <1>0, <2>3
  <2>. QED
    BY <2>4, <2>9, <2>10, WriterMoves
<1>3. ASSUME NEW at \in {"seen", "missing", "end"}, NEW g \in {"none", "share", "insert"},
             tx[a].op \in {"save", "index"}, tx' = [tx EXCEPT ![a] = [@ EXCEPT !.at = at, !.target = g]],
             UNCHANGED <<Rows, Histories>>,
             g = tx[a].target \/ Free(a, "target", {"delete", "insert"})
      PROVE  CatalogInv'
  <2>1. PICK t \in TxRow : t = [tx[a] EXCEPT !.at = at, !.target = g]
    BY <1>0 DEF TxRow
  <2>2. t.op = tx[a].op /\ t.msg = tx[a].msg /\ t.target = g /\ t.stat = tx[a].stat
    BY <1>0, <2>1 DEF TxRow
  <2>3. /\ tx' = [tx EXCEPT ![a] = t] /\ UNCHANGED Rows
        /\ UNCHANGED <<clickCount, catalogOps, overlapped, counted, released>>
    BY <1>0, <1>3, <2>1 DEF Histories, Bounds
  <2>4. TxHeld(t) /\ t.op \notin Deletions /\ t.op # "click"
    BY <1>0, <1>3, <2>2 DEF TxHeld, Deletions
  <2>5. \A b \in Others(a) : tx[b].target = "delete" => t.target = tx[a].target
    BY <1>3, <2>2 DEF Free, Holds
  <2>9. \A b \in Others(a) : Deletes(b) =>
                  /\ tx[b].target = "delete" => t.target \in {"none", tx[a].target}
                  /\ tx[b].stat = "delete" => t.stat \in {"none", tx[a].stat}
                  /\ t.op = "click" => \/ t.msg # tx[b].msg \/ tx[b].at = "begin" \/ ~tx[b].had
                                       \/ tx[b].at = "refs"
                                       \/ tx[a].op = "click" /\ t.msg = tx[a].msg
    BY <2>2, <2>4, <2>5
  <2>10. /\ UNCHANGED overlapped /\ clickCount' \in 0..MaxClicks /\ clickCount <= clickCount'
         /\ catalogOps' \in 0..MaxCatalogOps /\ UNCHANGED Rows /\ tx' = [tx EXCEPT ![a] = t]
         /\ UNCHANGED <<counted, released>>
    BY <1>0, <2>3
  <2>. QED
    BY <2>4, <2>9, <2>10, WriterMoves
<1>4. CASE LooksUp(a)
  <2>1. PICK at \in {"seen", "missing"} : at = IF target THEN "seen" ELSE "missing"
    OBVIOUS
  <2>2. tx[a].op \in {"save", "index"} /\ UNCHANGED <<Rows, Histories>>
        /\ tx' = [tx EXCEPT ![a] = [@ EXCEPT !.at = at]]
    BY <1>4, <2>1 DEF LooksUp, Is, To
  <2>3. PICK g \in {"none", "share", "insert"} : g = tx[a].target
    BY <1>0, <2>2 DEF TxHeld, TxRow
  <2>4. [tx[a] EXCEPT !.at = at] = [tx[a] EXCEPT !.at = at, !.target = g]
    BY <1>0, <2>3 DEF TxRow
  <2>. QED
    BY <1>3, <2>1, <2>2, <2>3, <2>4
<1>5. CASE Refers(a) /\ ~Rollback(a)
  <2>1. /\ tx[a].op \in {"save", "index"} /\ UNCHANGED <<Rows, Histories>>
        /\ Free(a, "target", {"delete", "insert"})
    BY <1>5 DEF Refers, Rollback
  <2>2. PICK h \in {"none", "share", "insert"} : h = tx[a].target
    BY <1>0, <2>1 DEF TxHeld, TxRow
  <2>3. PICK g \in {"share", "insert"} : g = IF target THEN "share" ELSE "insert"
    OBVIOUS
  <2>4. \/ tx' = [tx EXCEPT ![a].at = "end", ![a].target = g]
        \/ tx' = [tx EXCEPT ![a].at = "end"]
    BY <1>5, <2>3 DEF Refers, To
  <2>5. \/ tx' = [tx EXCEPT ![a] = [@ EXCEPT !.at = "end", !.target = g]]
        \/ tx' = [tx EXCEPT ![a] = [@ EXCEPT !.at = "end", !.target = h]]
    <3>1. tx \in [Actors -> TxRow]
      BY CatalogParts DEF CatalogInv
    <3>2. CASE tx' = [tx EXCEPT ![a].at = "end", ![a].target = g]
      BY <1>0, <3>1, <3>2
    <3>3. CASE tx' = [tx EXCEPT ![a].at = "end"]
      <4>1. [tx[a] EXCEPT !.at = "end"] = [tx[a] EXCEPT !.at = "end", !.target = h]
        BY <1>0, <2>2 DEF TxRow
      <4>. QED
        BY <3>3, <4>1
    <3>. QED
      BY <2>4, <3>2, <3>3
  <2>. QED
    BY <1>3, <2>1, <2>2, <2>3, <2>5
<1>6. CASE a = "api" /\ ClickStarts(m)
  <2>1. PICK t \in TxRow : t = [Nothing EXCEPT !.op = "click", !.msg = m, !.target = "share"]
    BY <1>0 DEF TxRow
  <2>2. /\ t.op = "click" /\ t.msg = m /\ t.target = "share" /\ t.stat = "none" /\ t.had = FALSE
        /\ t.at = "begin"
    BY <2>1 DEF Nothing
  <2>3. /\ tx' = [tx EXCEPT ![a] = t] /\ UNCHANGED Rows
        /\ UNCHANGED <<catalogOps, overlapped, counted, released>> /\ ~expired
        /\ clickCount' = clickCount + 1
        /\ clickCount < MaxClicks /\ m \in refs /\ ~Deleting(a, m)
    BY <1>0, <1>6, <2>1 DEF ClickStarts
  <2>4. TxHeld(t) /\ t.op \notin Deletions
    BY <2>2 DEF TxHeld, Deletions
  <2>5. clickCount' \in 0..MaxClicks /\ clickCount <= clickCount'
    BY <1>0, <2>3
  <2>6. ASSUME ~overlapped, NEW b \in Others(a), Deletes(b)
        PROVE  /\ tx[b].target # "delete"
               /\ t.msg # tx[b].msg \/ tx[b].at = "begin" \/ ~tx[b].had
    <3>1. /\ b \in Actors /\ DeletionHeld(b, tx[b])
      <4>1. CatalogHeld
        BY Zenon, <2>6 DEF CatalogInv
      <4>. QED
        BY <2>6, <4>1 DEF CatalogHeld, Others
    <3>2. ~(tx[b].msg = m /\ tx[b].had /\ tx[b].at # "begin")
      BY <2>3, <2>6 DEF Deleting, Deletes
    <3>3. tx[b].target = "delete" => refs = {tx[b].msg} /\ tx[b].had /\ tx[b].at = "end"
      BY <3>1 DEF DeletionHeld
    <3>. QED
      BY <2>2, <2>3, <3>2, <3>3
  <2>. QED
    BY <1>0, <2>2, <2>3, <2>4, <2>5, <2>6, WriterMoves
<1>7. CASE a = "api" /\ Upserts
  <2>1. PICK t \in TxRow : t = [[tx[a] EXCEPT !.at = "end"] EXCEPT !.stat = "update"]
    BY <1>0 DEF TxRow
  <2>2. /\ t.op = tx[a].op /\ t.msg = tx[a].msg /\ t.target = tx[a].target /\ t.stat = "update"
        /\ t.had = tx[a].had
    BY <1>0, <2>1 DEF TxRow
  <2>3. /\ tx' = [tx EXCEPT ![a] = t] /\ UNCHANGED Rows /\ tx[a].op = "click"
        /\ UNCHANGED <<clickCount, catalogOps, overlapped, counted, released>>
        /\ Free(a, "stat", {"update", "delete"})
    BY <1>0, <1>7, <2>1 DEF Upserts, Is, Histories, Bounds
  <2>4. TxHeld(t) /\ t.op \notin Deletions
    BY <1>0, <2>2, <2>3 DEF TxHeld, Deletions
  <2>5. \A b \in Others(a) : tx[b].stat # "delete"
    BY <2>3 DEF Free, Holds
  <2>9. \A b \in Others(a) : Deletes(b) =>
                  /\ tx[b].target = "delete" => t.target \in {"none", tx[a].target}
                  /\ tx[b].stat = "delete" => t.stat \in {"none", tx[a].stat}
                  /\ t.op = "click" => \/ t.msg # tx[b].msg \/ tx[b].at = "begin" \/ ~tx[b].had
                                       \/ tx[b].at = "refs"
                                       \/ tx[a].op = "click" /\ t.msg = tx[a].msg
    BY <2>2, <2>3, <2>5
  <2>10. /\ UNCHANGED overlapped /\ clickCount' \in 0..MaxClicks /\ clickCount <= clickCount'
         /\ catalogOps' \in 0..MaxCatalogOps /\ UNCHANGED Rows /\ tx' = [tx EXCEPT ![a] = t]
         /\ UNCHANGED <<counted, released>>
    BY <1>0, <2>3
  <2>. QED
    <3>1. ~overlapped => CatalogHeld
      BY Zenon DEF CatalogInv
    <3>2. ~overlapped => t.msg \in refs
      BY <2>2, <2>3, <3>1 DEF CatalogHeld
    <3>3. t.op = "click" => tx[a].op = "click"
      BY <2>3
    <3>. QED
      BY <2>2, <2>3, <2>4, <2>9, <2>10, <3>2, <3>3, WriterMoves
<1>. QED
  BY <1>1, <1>2, <1>4, <1>5, <1>6, <1>7, RollbackKeeps

(* What the end of a transaction leaves to the deletions that go on.       *)
LEMMA CommitLeaves ==
    ASSUME CatalogInv, NEW a \in Actors, tx' = [tx EXCEPT ![a] = Nothing]
    PROVE  /\ tx' \in [Actors -> TxRow] /\ \A b \in Actors : TxHeld(tx'[b])
           /\ \A b \in Actors : tx'[b].op # "none" => b # a /\ tx'[b] = tx[b]
           /\ \A b \in Actors : Deletes(b)' => b # a /\ tx'[b] = tx[b] /\ Deletes(b) /\ b \in Others(a)
           /\ ~overlapped => \A b, c \in Actors : Deletes(b)' /\ Deletes(c)' => b = c
           /\ ~overlapped => \A b \in Actors : Deletes(b)' =>
                /\ tx[b] \in TxRow /\ DeletionHeld(b, tx[b])
                /\ tx[b].target = "delete" => Free(b, "target", {"share", "insert", "delete"})'
                /\ tx[b].stat = "delete" => Free(b, "stat", {"update", "delete"})'
                /\ tx[b].had /\ tx[b].at \notin {"begin", "refs"} => ~Clicking(b, tx[b].msg)'
<1>0. /\ tx \in [Actors -> TxRow] /\ Nothing \in TxRow /\ Nothing.op = "none"
      /\ Nothing.target = "none" /\ Nothing.stat = "none" /\ ~Nothing.had
      /\ "none" \notin Deletions
  BY CatalogParts, CatalogNumbers DEF CatalogInv, Nothing, Deletions
<1>1. /\ tx' \in [Actors -> TxRow]
      /\ \A b \in Actors : tx'[b] = IF b = a THEN Nothing ELSE tx[b]
  BY <1>0
<1>2. \A b \in Actors : TxHeld(tx'[b])
  <2>1. TxHeld(Nothing)
    BY <1>0 DEF TxHeld
  <2>. QED
    BY <1>1, <2>1 DEF CatalogInv
<1>3. \A b \in Actors : tx'[b].op # "none" => b # a /\ tx'[b] = tx[b]
  BY <1>0, <1>1
<1>4. \A b \in Actors : Deletes(b)' => b # a /\ tx'[b] = tx[b] /\ Deletes(b) /\ b \in Others(a)
  BY <1>0, <1>1 DEF Deletes, Others
<1>5. ASSUME ~overlapped
      PROVE  CatalogHeld
  BY Zenon, <1>5 DEF CatalogInv
<1>6. ASSUME ~overlapped, NEW b \in Actors, Deletes(b)'
      PROVE  /\ tx[b] \in TxRow /\ DeletionHeld(b, tx[b])
             /\ tx[b].target = "delete" => Free(b, "target", {"share", "insert", "delete"})'
             /\ tx[b].stat = "delete" => Free(b, "stat", {"update", "delete"})'
             /\ tx[b].had /\ tx[b].at \notin {"begin", "refs"} => ~Clicking(b, tx[b].msg)'
  <2>1. tx[b] \in TxRow /\ DeletionHeld(b, tx[b]) /\ tx'[b] = tx[b]
    BY <1>0, <1>4, <1>5, <1>6 DEF CatalogHeld
  <2>2. \A c \in Others(b) : tx'[c] = IF c = a THEN Nothing ELSE tx[c]
    BY <1>1 DEF Others
  <2>3. tx[b].target = "delete" => Free(b, "target", {"share", "insert", "delete"})'
    BY <1>0, <2>1, <2>2 DEF DeletionHeld, Free, Holds
  <2>4. tx[b].stat = "delete" => Free(b, "stat", {"update", "delete"})'
    BY <1>0, <2>1, <2>2 DEF DeletionHeld, Free, Holds
  <2>5. tx[b].had /\ tx[b].at \notin {"begin", "refs"} => ~Clicking(b, tx[b].msg)'
    BY <1>0, <2>1, <2>2 DEF DeletionHeld, Clicking
  <2>. QED
    BY <2>1, <2>3, <2>4, <2>5
<1>7. ~overlapped => \A b, c \in Actors : Deletes(b)' /\ Deletes(c)' => b = c
  BY <1>4, <1>5 DEF CatalogHeld
<1>. QED
  BY Zenon, <1>1, <1>2, <1>3, <1>4, <1>6, <1>7

(* A message is committed with its reference, or without it.               *)
LEMMA IndexCommitKeeps ==
    ASSUME CatalogInv, NEW a \in Actors, IndexCommits(a)
    PROVE  CatalogInv'
<1>0. /\ CatalogTypeOK /\ tx[a] \in TxRow /\ tx[a].op \in {"save", "index"}
      /\ tx[a].target \in {"none", "share", "insert"}
      /\ tx' = [tx EXCEPT ![a] = Nothing]
      /\ UNCHANGED <<protected, clicks, stat, statRow, clickCount, catalogOps, overlapped,
                     expired, counted, released>>
  BY CatalogParts DEF CatalogInv, IndexCommits, Is, Histories, Bounds, TxHeld, TxRow
<1>1. PICK m \in Messages : m = tx[a].msg
  BY <1>0 DEF CatalogInv, TxHeld
<1>2. /\ saved' = saved \cup {m} /\ linked' \in {linked, linked \cup {m}}
      /\ \/ tx[a].target = "none" /\ refs' = refs /\ target' = target
         \/ tx[a].target # "none" /\ refs' = refs \cup {m} /\ target' = TRUE
  BY <1>1 DEF IndexCommits
<1>3. /\ tx' \in [Actors -> TxRow] /\ \A b \in Actors : TxHeld(tx'[b])
      /\ \A b \in Actors : tx'[b].op # "none" => b # a /\ tx'[b] = tx[b]
  BY <1>0, CommitLeaves
<1>4. CatalogTypeOK'
  <2>1. /\ saved' \subseteq Messages /\ linked' \subseteq Messages /\ refs' \subseteq Messages
        /\ target' \in BOOLEAN
    BY <1>0, <1>2, CatalogParts
  <2>. QED
    BY <1>0, <1>3, <2>1 DEF CatalogTypeOK, TxRow
<1>5. \A q \in Messages : Clicks(q)' <= clickCount'
  BY <1>0, <1>3, CatalogNumbers DEF Clicks, CatalogInv
<1>7. (expired => tx["api"].op # "click" /\ \A q \in Messages : clicks[q] = 0)'
  BY <1>0, <1>3, CatalogNumbers DEF CatalogInv
<1>6. ASSUME ~overlapped
      PROVE  CatalogHeld'
  <2>1. CatalogHeld
    BY Zenon, <1>6 DEF CatalogInv
  <2>2. /\ refs \subseteq refs' /\ \A S : ClicksOn(S)' = ClicksOn(S)
    BY <1>0, <1>2 DEF ClicksOn
  <2>3. ASSUME NEW b \in Actors, Deletes(b)'
        PROVE  DeletionHeld(b, tx[b])'
    <3>1. PICK r \in TxRow : r = tx[b] /\ r = tx'[b]
      BY <1>0, <1>6, <2>3, CommitLeaves
    <3>2. /\ DeletionHeld(b, r) /\ ClicksLeft(r.msg)' = ClicksLeft(r.msg)
          /\ r.target = "delete" => Free(b, "target", {"share", "insert", "delete"})'
          /\ r.stat = "delete" => Free(b, "stat", {"update", "delete"})'
          /\ r.had /\ r.at \notin {"begin", "refs"} => ~Clicking(b, r.msg)'
      BY <1>0, <1>6, <2>2, <2>3, <3>1, CommitLeaves DEF ClicksLeft
    <3>3. r.target = "delete" => tx[a].target = "none"
      <4>1. b \in Others(a) /\ Deletes(b)
        BY <1>0, <2>3, CommitLeaves
      <4>. QED
        BY <1>6, <3>1, <4>1, Untaken
    <3>4. r.target = "delete" => refs' = {r.msg}
      BY <1>2, <3>2, <3>3 DEF DeletionHeld
    <3>5. /\ r.had => r.msg \in refs'
          /\ r.at = "end" /\ r.had =>
                r.target = "delete" \/ protected \/ released \/ refs' # {r.msg}
      BY <2>2, <3>2 DEF DeletionHeld
    <3>6. DeletionHeld(b, r)'
      BY <1>0, <3>2, <3>4, <3>5 DEF DeletionHeld, TellsOf
    <3>. QED
      BY <3>1, <3>6
  <2>4. \A b, c \in Actors : Deletes(b)' /\ Deletes(c)' => b = c
    BY <1>0, <1>6, CommitLeaves
  <2>5. \A b \in Actors : tx'[b].op = "click" => tx'[b].msg \in refs'
    BY <1>3, <2>1, <2>2 DEF CatalogHeld
  <2>6. /\ TellsOf(stat, Cardinality(ClicksOn(Messages)))'
        /\ (\A q \in Messages : clicks[q] > 0 => q \in refs)'
        /\ (refs # {} => target)'
        /\ (target /\ ~protected => refs # {} \/ released)'
    BY <1>0, <1>2, <2>1, <2>2 DEF CatalogHeld, TellsOf
  <2>. QED
    BY <2>3, <2>4, <2>5, <2>6 DEF CatalogHeld
<1>. QED
  BY Zenon, <1>0, <1>3, <1>4, <1>5, <1>6, <1>7 DEF CatalogInv

(* A click is committed and counted.                                       *)
LEMMA ClickCommitKeeps ==
    ASSUME CatalogInv, ClickCommits
    PROVE  CatalogInv'
<1>0. /\ CatalogTypeOK /\ "api" \in Actors /\ tx["api"] \in TxRow
      /\ tx["api"].op = "click" /\ tx["api"].at = "end" /\ tx["api"].stat = "update"
      /\ tx["api"].msg \in Messages
      /\ tx' = [tx EXCEPT !["api"] = Nothing] /\ stat' = stat + 1 /\ stat \in Nat /\ statRow \in Nat
      /\ statRow' = (IF stat = 0 THEN statRow + 1 ELSE statRow)
      /\ UNCHANGED <<saved, linked, refs, target, protected, clickCount, catalogOps, overlapped,
                     expired, counted, released>>
      /\ clicks \in [Messages -> 0..MaxClicks] /\ clickCount \in 0..MaxClicks
      /\ MaxClicks \in Nat /\ ~expired
  BY CatalogParts, CatalogNumbers DEF CatalogInv, ClickCommits, Is, Histories, Bounds, TxHeld
<1>1. PICK m \in Messages : m = tx["api"].msg
  BY <1>0
<1>2. clicks' = [clicks EXCEPT ![m] = @ + 1]
  BY <1>1 DEF ClickCommits
<1>3. clicks[m] + 1 <= clickCount /\ clicks[m] < MaxClicks
  <2>1. Clicks(m) <= clickCount
    BY DEF CatalogInv
  <2>. QED
    BY <1>0, <2>1 DEF Clicks
<1>4. /\ clicks' \in [Messages -> 0..MaxClicks] /\ stat' \in Nat /\ statRow' \in Nat
      /\ \A q \in Messages : clicks'[q] = IF q = m THEN clicks[m] + 1 ELSE clicks[q]
  BY <1>0, <1>2, <1>3
<1>5. /\ tx' \in [Actors -> TxRow] /\ \A b \in Actors : TxHeld(tx'[b])
      /\ \A b \in Actors : tx'[b].op # "none" => b # "api" /\ tx'[b] = tx[b]
  BY <1>0, CommitLeaves
<1>6. CatalogTypeOK'
  BY <1>0, <1>4, <1>5 DEF CatalogTypeOK, TxRow
<1>7. \A q \in Messages : Clicks(q)' <= clickCount'
  <2> TAKE q \in Messages
  <2>1. Clicks(q) <= clickCount /\ clicks[q] \in Nat /\ clickCount \in Nat
    BY <1>0 DEF CatalogInv
  <2>2. clicks'[q] <= clickCount /\ tx'["api"].op # "click"
    BY <1>0, <1>3, <1>4, <1>5, <2>1 DEF Clicks
  <2>. QED
    BY <1>0, <1>4, <2>1, <2>2 DEF Clicks
<1>8. ASSUME ~overlapped
      PROVE  CatalogHeld'
  <2>1. CatalogHeld
    BY Zenon, <1>8 DEF CatalogInv
  <2>2. m \in refs
    BY <1>0, <1>1, <2>1 DEF CatalogHeld
  <2>3. ASSUME NEW b \in Actors, Deletes(b)'
        PROVE  DeletionHeld(b, tx[b])'
    <3>1. PICK r \in TxRow : r = tx[b] /\ r = tx'[b]
      BY <1>0, <1>8, <2>3, CommitLeaves
    <3>2. /\ DeletionHeld(b, r) /\ b \in Others("api") /\ Deletes(b)
          /\ r.target = "delete" => Free(b, "target", {"share", "insert", "delete"})'
          /\ r.stat = "delete" => Free(b, "stat", {"update", "delete"})'
          /\ r.had /\ r.at \notin {"begin", "refs"} => ~Clicking(b, r.msg)'
      BY ZenonT(40), <1>0, <1>8, <2>3, <3>1, CommitLeaves
    <3>3. r.stat # "delete"
      BY <1>0, <1>8, <3>1, <3>2, Untaken
    <3>4. r.had /\ r.at \notin {"begin", "refs"} => clicks'[r.msg] = clicks[r.msg]
      <4>1. r.had /\ r.at \notin {"begin", "refs"} => r.msg # m
        BY <1>0, <1>1, <1>8, <3>1, <3>2, Untaken
      <4>. QED
        BY <1>2, <4>1, <1>0
    <3>5. /\ r.at = "blocked" => stat' > 0 /\ r.row = statRow'
          /\ r.at = "insert" => stat' > 0
      BY <1>0, <3>2 DEF DeletionHeld
    <3>6. DeletionHeld(b, r)'
      BY <1>0, <3>2, <3>3, <3>4, <3>5 DEF DeletionHeld, TellsOf
    <3>. QED
      BY <3>1, <3>6
  <2>4. \A b, c \in Actors : Deletes(b)' /\ Deletes(c)' => b = c
    BY <1>0, <1>8, CommitLeaves
  <2>5. \A b \in Actors : tx'[b].op = "click" => tx'[b].msg \in refs'
    BY <1>0, <1>5, <2>1 DEF CatalogHeld
  <2>6. TellsOf(stat, Cardinality(ClicksOn(Messages)))'
    <3>1. Cardinality(ClicksOn(Messages))' = Cardinality(ClicksOn(Messages)) + 1
      <4>1. PICK S \in SUBSET Messages : S = Messages
        OBVIOUS
      <4>2. Cardinality(ClicksOn(S))' = Cardinality(ClicksOn(S)) + 1
        BY <1>0, <1>2, <1>3, <4>1, ClickAdded
      <4>. QED
        BY <4>1, <4>2
    <3>. QED
      BY <1>0, <2>1, <3>1 DEF CatalogHeld, TellsOf
  <2>7. /\ (\A q \in Messages : clicks[q] > 0 => q \in refs)'
        /\ (refs # {} => target)'
        /\ (target /\ ~protected => refs # {} \/ released)'
    BY <1>0, <1>4, <2>1, <2>2 DEF CatalogHeld
  <2>. QED
    BY <2>3, <2>4, <2>5, <2>6, <2>7 DEF CatalogHeld
<1>. QED
  BY Zenon, <1>0, <1>5, <1>6, <1>7, <1>8 DEF CatalogInv

(* A deletion is committed: what it writes is what there is.               *)
LEMMA DeletionCommitKeeps ==
    ASSUME CatalogInv, NEW a \in Actors, DeletionCommits(a), ~Rollback(a)
    PROVE  CatalogInv'
<1>0. /\ CatalogTypeOK /\ tx[a] \in TxRow /\ Deletes(a) /\ tx[a].at = "end"
      /\ tx[a].msg \in Messages
      /\ tx' = [tx EXCEPT ![a] = Nothing] /\ stat \in Nat /\ statRow \in Nat
      /\ UNCHANGED <<protected, clickCount, catalogOps, overlapped, expired, counted>>
      /\ clicks \in [Messages -> 0..MaxClicks] /\ clickCount \in 0..MaxClicks
      /\ MaxClicks \in Nat
  <2>1. Deletes(a) /\ tx[a].at = "end"
    BY DEF DeletionCommits, Is, Deletes
  <2>2. tx' = [tx EXCEPT ![a] = Nothing] /\ UNCHANGED <<protected, clickCount, catalogOps, overlapped>>
        /\ UNCHANGED <<expired, counted>>
    BY DEF DeletionCommits, Bounds
  <2>. QED
    BY <2>1, <2>2, DeletionFacts, CatalogParts, CatalogNumbers DEF CatalogInv
<1>1. PICK m \in Messages : m = tx[a].msg
  BY <1>0
<1>2. /\ saved' \in {saved, saved \ {m}} /\ linked' \in {linked, linked \ {m}}
      /\ refs' = refs \ {m} /\ clicks' = [clicks EXCEPT ![m] = 0]
      /\ target' = (target /\ tx[a].target # "delete")
      /\ \/ tx[a].stat = "delete" /\ stat' = tx[a].count /\ statRow' = statRow + 1
         \/ tx[a].stat # "delete" /\ stat' = stat /\ statRow' = statRow
      /\ ~(m \in refs /\ ~tx[a].had)
      /\ released' = (released /\ target')
  BY <1>1 DEF DeletionCommits
<1>3. /\ tx' \in [Actors -> TxRow] /\ \A b \in Actors : TxHeld(tx'[b])
      /\ \A b \in Actors : tx'[b].op # "none" => b # a /\ tx'[b] = tx[b]
  BY <1>0, CommitLeaves
<1>4. /\ clicks' \in [Messages -> 0..MaxClicks] /\ stat' \in Nat /\ statRow' \in Nat
      /\ \A q \in Messages : clicks'[q] = IF q = m THEN 0 ELSE clicks[q]
  <2>1. tx[a].count \in Nat
    BY <1>0 DEF TxRow
  <2>. QED
    BY <1>0, <1>2, <2>1
<1>5. CatalogTypeOK'
  <2>1. /\ saved' \subseteq Messages /\ linked' \subseteq Messages /\ refs' \subseteq Messages
        /\ target' \in BOOLEAN
    BY <1>0, <1>2, CatalogParts
  <2>2. released' \in BOOLEAN
    BY <1>2
  <2>. QED
    BY <1>0, <1>3, <1>4, <2>1, <2>2 DEF CatalogTypeOK, TxRow
<1>8. (expired => tx["api"].op # "click" /\ \A q \in Messages : clicks[q] = 0)'
  BY <1>0, <1>3, <1>4, CatalogNumbers DEF CatalogInv
<1>6. \A q \in Messages : Clicks(q)' <= clickCount'
  <2> TAKE q \in Messages
  <2>1. Clicks(q) <= clickCount /\ clicks[q] \in Nat /\ clickCount \in Nat /\ clicks'[q] <= clicks[q]
    BY <1>0, <1>4 DEF CatalogInv
  <2>2. tx'["api"].op = "click" => tx["api"].op = "click"
    BY <1>3, CatalogNumbers
  <2>. QED
    BY <1>0, <1>4, <2>1, <2>2 DEF Clicks
<1>7. ASSUME ~overlapped
      PROVE  CatalogHeld'
  <2>1. CatalogHeld /\ DeletionHeld(a, tx[a])
    <3>1. CatalogHeld
      BY Zenon, <1>7 DEF CatalogInv
    <3>. QED
      BY <1>0, <3>1 DEF CatalogHeld
  <2>2. \A b \in Actors : ~Deletes(b)'
    <3>1. \A b \in Actors : Deletes(b)' => b # a /\ Deletes(b)
      BY <1>0, CommitLeaves
    <3>. QED
      BY <1>0, <2>1, <3>1 DEF CatalogHeld
  <2>3. \A b \in Actors : tx'[b].op = "click" => tx'[b].msg \in refs'
    <3>1. \A b \in Actors : tx'[b].op = "click" => tx[b].op = "click" /\ tx[b].msg = tx'[b].msg
                                                   /\ tx[b].msg \in refs /\ b \in Others(a)
      BY <1>3, <2>1 DEF CatalogHeld, Others
    <3>2. tx[a].had => ~Clicking(a, m)
      BY <1>0, <1>1, <2>1 DEF DeletionHeld
    <3>3. \A b \in Actors : tx'[b].op = "click" => tx[b].msg # m
      BY <1>2, <3>1, <3>2 DEF Clicking
    <3>. QED
      BY <1>2, <3>1, <3>3
  <2>4. TellsOf(stat, Cardinality(ClicksOn(Messages)))'
    <3>1. CASE tx[a].stat = "delete"
      <4>1. TellsOf(stat', ClicksLeft(m))
        BY <1>0, <1>1, <1>2, <2>1, <3>1 DEF DeletionHeld
      <4>2. ClicksOn(Messages)' = ClicksOn(Messages \ {m})
        <5>1. PICK S \in SUBSET Messages : S = Messages
          OBVIOUS
        <5>2. ClicksOn(S)' = ClicksOn(S \ {m})
          BY <1>0, <1>2, ClicksGone
        <5>. QED
          BY <5>1, <5>2
      <4>. QED
        BY <1>0, <4>1, <4>2 DEF ClicksLeft, TellsOf
    <3>2. CASE tx[a].stat # "delete"
      <4>1. clicks[m] = 0
        <5>1. CASE tx[a].had
          BY <1>0, <1>1, <2>1, <3>2, <5>1 DEF DeletionHeld
        <5>2. CASE ~tx[a].had
          BY <1>0, <1>2, <2>1, <5>2 DEF CatalogHeld
        <5>. QED
          BY <5>1, <5>2
      <4>2. clicks' = clicks
        BY <1>0, <1>2, <4>1
      <4>. QED
        BY <1>0, <1>2, <2>1, <3>2, <4>2 DEF CatalogHeld, ClicksOn, TellsOf
    <3>. QED
      BY <3>1, <3>2
  <2>5. (\A q \in Messages : clicks[q] > 0 => q \in refs)'
    BY <1>0, <1>2, <1>4, <2>1 DEF CatalogHeld
  <2>6. tx[a].target = "delete" => refs' = {}
    BY <1>1, <1>2, <2>1 DEF DeletionHeld
  <2>7. tx[a].target # "delete" /\ ~protected /\ target => refs' # {} \/ released
    <3>1. CASE tx[a].had
      BY <1>0, <1>1, <1>2, <2>1, <3>1 DEF DeletionHeld
    <3>2. CASE ~tx[a].had
      BY <1>2, <2>1, <3>2 DEF CatalogHeld
    <3>. QED
      BY <3>1, <3>2
  <2>8. (refs # {} => target)' /\ (target /\ ~protected => refs # {} \/ released)'
    <3>1. target' <=> (target /\ tx[a].target # "delete")
      BY Zenon, <1>2
    <3>2. refs' # {} => refs # {}
      BY <1>2
    <3>3. refs # {} => target
      BY <2>1 DEF CatalogHeld
    <3>4. protected' = protected
      BY <1>0
    <3>5. released' <=> (released /\ target')
      BY Zenon, <1>2
    <3>. QED
      BY Zenon, <2>6, <2>7, <3>1, <3>2, <3>3, <3>4, <3>5
  <2>. QED
    BY <2>2, <2>3, <2>4, <2>5, <2>8 DEF CatalogHeld
<1>. QED
  BY Zenon, <1>0, <1>3, <1>5, <1>6, <1>7, <1>8 DEF CatalogInv

(* What names the target comes and goes beside references and deletions.   *)
LEMMA ProtectionKeeps ==
    ASSUME CatalogInv, Protects \/ Unprotects
    PROVE  CatalogInv'
<1>0. /\ UNCHANGED <<saved, linked, refs, target, clicks, stat, statRow, expired, tx,
                     clickCount, overlapped, counted>>
      /\ catalogOps' \in 0..MaxCatalogOps /\ protected' \in BOOLEAN /\ released' \in BOOLEAN
      /\ released => released'
  <2>1. CatalogTypeOK /\ MaxCatalogOps \in Nat
    BY CatalogNumbers DEF CatalogInv
  <2>2. CASE Protects
    <3>1. catalogOps \in 0..MaxCatalogOps /\ released \in BOOLEAN /\ catalogOps < MaxCatalogOps
          /\ catalogOps' = catalogOps + 1
      BY <2>1, <2>2, CatalogParts DEF Protects
    <3>2. catalogOps' \in 0..MaxCatalogOps
      BY <2>1, <3>1
    <3>. QED
      BY <2>2, <3>1, <3>2 DEF Protects
  <2>3. CASE Unprotects
    <3>1. catalogOps \in 0..MaxCatalogOps /\ released \in BOOLEAN
      BY <2>1, CatalogParts
    <3>2. released' \in BOOLEAN /\ (released => released')
      BY <2>3, <3>1 DEF Unprotects
    <3>. QED
      BY <2>3, <3>1, <3>2 DEF Unprotects, Bounds
  <2>. QED
    BY <2>2, <2>3
<1>1. \/ protected'
      \/ released' = (released \/ refs = {}
                      \/ \E a \in Actors : tx[a].op \in Deletions /\ refs = {tx[a].msg})
  BY DEF Protects, Unprotects
<1>2. CatalogTypeOK'
  BY <1>0, CatalogParts DEF CatalogInv, CatalogTypeOK
<1>3. /\ \A a \in Actors : TxHeld(tx'[a])
      /\ \A m \in Messages : Clicks(m)' <= clickCount'
      /\ (expired => tx["api"].op # "click" /\ \A m \in Messages : clicks[m] = 0)'
  BY <1>0 DEF CatalogInv, Clicks
<1>4. ASSUME ~overlapped
      PROVE  CatalogHeld'
  <2>1. CatalogHeld
    BY Zenon, <1>4 DEF CatalogInv
  <2>2. \A S : ClicksOn(S)' = ClicksOn(S)
    BY <1>0 DEF ClicksOn
  <2>3. ASSUME NEW a \in Actors, Deletes(a)
        PROVE  DeletionHeld(a, tx[a])'
    <3>1. DeletionHeld(a, tx[a])
      BY <2>1, <2>3 DEF CatalogHeld
    <3>2. tx[a].at = "end" /\ tx[a].had =>
             tx[a].target = "delete" \/ protected' \/ released' \/ refs # {tx[a].msg}
      BY <1>1, <2>3 DEF Deletes
    <3>3. /\ ClicksLeft(tx[a].msg)' = ClicksLeft(tx[a].msg)
          /\ Free(a, "target", {"share", "insert", "delete"})'
               = Free(a, "target", {"share", "insert", "delete"})
          /\ Free(a, "stat", {"update", "delete"})' = Free(a, "stat", {"update", "delete"})
          /\ Clicking(a, tx[a].msg)' = Clicking(a, tx[a].msg)
      BY <1>0, <2>2 DEF ClicksLeft, Free, Holds, Clicking
    <3>4. TellsOf(tx[a].count, ClicksLeft(tx[a].msg))' = TellsOf(tx[a].count, ClicksLeft(tx[a].msg))
      BY <1>0, <3>3 DEF TellsOf
    <3>. QED
      BY <1>0, <3>1, <3>2, <3>3, <3>4 DEF DeletionHeld
  <2>4. (target /\ ~protected => refs # {} \/ released)'
    BY <1>0, <1>1
  <2>5. TellsOf(stat, Cardinality(ClicksOn(Messages)))'
    BY <1>0, <2>1, <2>2 DEF CatalogHeld, TellsOf
  <2>. QED
    BY <1>0, <2>1, <2>3, <2>4, <2>5 DEF CatalogHeld, Deletes
<1>. QED
  BY Zenon, <1>0, <1>2, <1>3, <1>4 DEF CatalogInv

(* Retention throws the events away, and waits for a deletion of some.     *)
LEMMA EventsExpireKeep ==
    ASSUME CatalogInv, EventsExpire
    PROVE  CatalogInv'
<1>0. /\ UNCHANGED <<saved, linked, refs, target, protected, stat, statRow, tx,
                     clickCount, catalogOps, overlapped, released>>
      /\ ~expired /\ expired' = TRUE /\ tx["api"].op # "click"
      /\ clicks' = [m \in Messages |-> 0] /\ counted' = Cardinality(ClicksOn(Messages))
      /\ \A a \in Actors : tx[a].op \in Deletions /\ tx[a].had /\ tx[a].at # "begin" =>
                              clicks[tx[a].msg] = 0
      /\ CatalogTypeOK /\ MaxClicks \in Nat /\ clickCount \in Nat
      /\ clicks \in [Messages -> 0..MaxClicks]
  BY CatalogParts, CatalogNumbers DEF CatalogInv, EventsExpire, Bounds
<1>1. counted' \in Nat
  <2>1. PICK S \in SUBSET Messages : S = Messages
    OBVIOUS
  <2>. QED
    BY <1>0, <2>1, ClicksAreFinite
<1>2. clicks' \in [Messages -> 0..MaxClicks] /\ \A m \in Messages : clicks'[m] = 0
  BY <1>0
<1>3. CatalogTypeOK'
  BY <1>0, <1>1, <1>2, CatalogParts DEF CatalogTypeOK
<1>4. /\ \A a \in Actors : TxHeld(tx'[a])
      /\ (expired => tx["api"].op # "click" /\ \A m \in Messages : clicks[m] = 0)'
  BY <1>0, <1>2 DEF CatalogInv
<1>5. \A m \in Messages : Clicks(m)' <= clickCount'
  BY <1>0, <1>2 DEF Clicks
<1>6. ASSUME ~overlapped
      PROVE  CatalogHeld'
  <2>1. CatalogHeld
    BY Zenon, <1>6 DEF CatalogInv
  <2>2. ASSUME NEW m \in Messages, clicks[m] = 0
        PROVE  ClicksLeft(m) = counted'
    <3>1. \A c \in Messages \X (1..MaxClicks) : c[2] \in 1..MaxClicks /\ c[1] \in Messages
      OBVIOUS
    <3>2. \A c \in Messages \X (1..MaxClicks) :
             c[2] <= clicks[c[1]] => c \in (Messages \ {m}) \X (1..MaxClicks)
      BY <1>0, <2>2, <3>1
    <3>3. \A c \in (Messages \ {m}) \X (1..MaxClicks) : c \in Messages \X (1..MaxClicks)
      OBVIOUS
    <3>4. ClicksOn(Messages) = ClicksOn(Messages \ {m})
      BY <3>2, <3>3 DEF ClicksOn
    <3>. QED
      BY <1>0, <3>4 DEF ClicksLeft
  <2>3. ASSUME NEW a \in Actors, Deletes(a)
        PROVE  DeletionHeld(a, tx[a])'
    <3>1. DeletionHeld(a, tx[a]) /\ tx[a].msg \in Messages
      BY <2>1, <2>3 DEF CatalogHeld, CatalogInv, TxHeld, Deletes, Deletions
    <3>2. tx[a].at \in {"insert", "purge", "drop", "end"} /\ tx[a].stat = "delete" =>
             TellsOf(tx[a].count, ClicksLeft(tx[a].msg))'
      <4>1. tx[a].stat = "delete" => tx[a].had
        BY <3>1 DEF DeletionHeld
      <4>2. tx[a].had /\ tx[a].at # "begin" => ClicksLeft(tx[a].msg) = counted'
        BY <1>0, <2>2, <2>3, <3>1 DEF Deletes
      <4>3. tx[a].at \in {"insert", "purge", "drop", "end"} /\ tx[a].stat = "delete" =>
               tx[a].count = ClicksLeft(tx[a].msg)
        BY <1>0, <3>1 DEF DeletionHeld, TellsOf
      <4>. QED
        BY <1>0, <4>1, <4>2, <4>3 DEF TellsOf
    <3>3. /\ Free(a, "target", {"share", "insert", "delete"})'
               = Free(a, "target", {"share", "insert", "delete"})
          /\ Free(a, "stat", {"update", "delete"})' = Free(a, "stat", {"update", "delete"})
          /\ Clicking(a, tx[a].msg)' = Clicking(a, tx[a].msg)
      BY <1>0 DEF Free, Holds, Clicking
    <3>. QED
      BY <1>0, <1>2, <3>1, <3>2, <3>3 DEF DeletionHeld
  <2>4. TellsOf(stat, Cardinality(ClicksOn(Messages)))'
    BY <1>0, <2>1 DEF CatalogHeld, TellsOf
  <2>. QED
    BY <1>0, <1>2, <2>1, <2>3, <2>4 DEF CatalogHeld, Deletes
<1>. QED
  BY Zenon, <1>0, <1>3, <1>4, <1>5, <1>6 DEF CatalogInv

LEMMA CatalogInitially ==
    ASSUME CatalogInit
    PROVE  CatalogInv
<1>1. /\ \A a \in Actors : tx[a] = Nothing /\ tx[a].op = "none" /\ tx[a].msg = NoMsg
      /\ clicks = [m \in Messages |-> 0] /\ refs = {} /\ target = FALSE /\ stat = 0
      /\ clickCount = 0 /\ expired = FALSE
  BY DEF CatalogInit, Nothing
<1>2. CatalogTypeOK
  <2>1. tx \in [Actors -> TxRow]
    BY CatalogNumbers DEF CatalogInit
  <2>2. clicks \in [Messages -> 0..MaxClicks] /\ clickCount \in 0..MaxClicks
        /\ catalogOps \in 0..MaxCatalogOps
    BY CatalogNumbers DEF CatalogInit
  <2>. QED
    BY <2>1, <2>2, CatalogParts DEF CatalogInit
<1>3. \A a \in Actors : TxHeld(tx[a])
  BY <1>1 DEF TxHeld
<1>4. \A m \in Messages : Clicks(m) <= clickCount
  BY <1>1, CatalogNumbers DEF Clicks
<1>5. CatalogHeld
  <2>1. \A a \in Actors : ~Deletes(a) /\ tx[a].op # "click"
    BY <1>1 DEF Deletes, Deletions
  <2>2. stat = Cardinality(ClicksOn(Messages))
    <3>1. PICK S \in SUBSET Messages : S = Messages
      OBVIOUS
    <3>2. \A m \in S : clicks[m] = 0
      BY <1>1, <3>1
    <3>3. Cardinality(ClicksOn(S)) = 0
      BY <1>2, <3>2, NoClicks
    <3>. QED
      BY <1>1, <3>1, <3>3
  <2>. QED
    BY <1>1, <2>1, <2>2 DEF CatalogHeld, TellsOf
<1>. QED
  BY <1>1, <1>2, <1>3, <1>4, <1>5 DEF CatalogInv

LEMMA CatalogStep ==
    CatalogInv /\ [CatalogNext]_catalogVars => CatalogInv'
<1> SUFFICES ASSUME CatalogInv, [CatalogNext]_catalogVars
             PROVE  CatalogInv'
  OBVIOUS
<1>0. Savers \in SUBSET Actors /\ "api" \in Actors /\ "dedup" \in Actors
  BY DEF Actors
<1>1. CASE UNCHANGED catalogVars
  <2>0. UNCHANGED <<saved, linked, refs, target, protected, clicks, stat, statRow,
                    tx, clickCount, catalogOps, overlapped, expired, counted, released>>
    BY <1>1 DEF catalogVars
  <2>1. CatalogTypeOK' /\ \A a \in Actors : TxHeld(tx'[a])
    BY <2>0 DEF CatalogInv, CatalogTypeOK
  <2>2. \A m \in Messages : Clicks(m)' <= clickCount'
    BY <2>0 DEF CatalogInv, Clicks
  <2>3. ~overlapped => CatalogHeld'
    <3>1. ~overlapped => CatalogHeld
      BY Zenon DEF CatalogInv
    <3>2. CatalogHeld => CatalogHeld'
      <4>1. \A m : ClicksLeft(m)' = ClicksLeft(m) /\ \A S : ClicksOn(S)' = ClicksOn(S)
        BY <2>0 DEF ClicksLeft, ClicksOn
      <4>2. ASSUME NEW a \in Actors, DeletionHeld(a, tx[a])
            PROVE  DeletionHeld(a, tx[a])'
        BY <2>0, <4>1, <4>2 DEF DeletionHeld, Free, Holds, Clicking, TellsOf
      <4>. QED
        BY <2>0, <4>1, <4>2 DEF CatalogHeld, Deletes, TellsOf
    <3>. QED
      BY Zenon, <3>1, <3>2
  <2>4. (expired => tx["api"].op # "click" /\ \A q \in Messages : clicks[q] = 0)'
    BY <2>0 DEF CatalogInv
  <2>. QED
    BY Zenon, <2>0, <2>1, <2>2, <2>3, <2>4 DEF CatalogInv
<1>2. ASSUME NEW m \in Messages,
             \/ IndexStarts(m) \/ ClickStarts(m) \/ \E a \in Savers : SaveStarts(a, m)
      PROVE  CatalogInv'
  BY <1>0, <1>2, WritersKeep
<1>3. ASSUME NEW a \in Savers \cup {"api"}, LooksUp(a) \/ Refers(a) \/ IndexCommits(a)
      PROVE  CatalogInv'
  <2>1. a \in Actors
    BY <1>0
  <2>2. LooksUp(a) \/ Refers(a) => \E m \in Messages : TRUE
    BY <2>1 DEF LooksUp, Refers, Is, CatalogInv, TxHeld
  <2>. QED
    BY <1>3, <2>1, <2>2, WritersKeep, IndexCommitKeeps
<1>4. CASE Upserts
  <2>1. \E m \in Messages : TRUE
    BY <1>0, <1>4 DEF Upserts, Is, CatalogInv, TxHeld
  <2>. QED
    BY <1>0, <1>4, <2>1, WritersKeep
<1>5. CASE ClickCommits
  BY <1>5, ClickCommitKeeps
<1>6. ASSUME NEW a \in {"api", "dedup"},
             \/ \E op \in Deletions, m \in Messages : DeletionStarts(a, op, m)
             \/ DeletesEvents(a) \/ DeletesRefs(a) \/ DeletesStat(a) \/ StatUnblocks(a)
             \/ Recounts(a) \/ InsertsStat(a) \/ Purges(a) \/ Drops(a) \/ DeletionCommits(a)
      PROVE  CatalogInv'
  <2>1. a \in Actors
    BY <1>0
  <2>2. CASE \E op \in Deletions, m \in Messages : DeletionStarts(a, op, m)
    BY <2>1, <2>2, DeletionStartsKeep
  <2>3. CASE DeletesEvents(a) \/ DeletesRefs(a) \/ DeletesStat(a) \/ StatUnblocks(a)
    BY <2>1, <2>3, DeletionReads
  <2>4. CASE Recounts(a) \/ InsertsStat(a) \/ Purges(a) \/ Drops(a)
    BY <2>1, <2>4, DeletionWrites
  <2>5. CASE DeletionCommits(a)
    BY <2>1, <2>5, DeletionCommitKeeps, RollbackKeeps
  <2>. QED
    BY <1>6, <2>2, <2>3, <2>4, <2>5
<1>7. ASSUME NEW a \in Actors, Aborts(a)
      PROVE  CatalogInv'
  BY <1>7, RollbackKeeps DEF Aborts
<1>8. CASE Protects \/ Unprotects \/ EventsExpire
  BY <1>8, ProtectionKeeps, EventsExpireKeep
<1>. QED
  BY <1>1, <1>2, <1>3, <1>4, <1>5, <1>6, <1>7, <1>8 DEF CatalogNext

(* The catalogue's state stays of its type.                                *)
THEOREM CatalogTypeCorrect == CatalogSpec => []CatalogTypeOK
<1>1. CatalogInv => CatalogTypeOK
  BY DEF CatalogInv
<1>. QED
  BY <1>1, CatalogInitially, CatalogStep, PTL DEF CatalogSpec

(* Until two deletions overlap, the statistic is the number of clicks, or  *)
(* what is left of it when their events have been thrown away, and a       *)
(* target that nothing protects has a reference, unless a batch that was   *)
(* deleted had protected it.                                               *)
THEOREM CatalogAlwaysAgrees == CatalogSpec => []CatalogAgrees
<1>1. CatalogInv => CatalogAgrees
  <2> SUFFICES ASSUME CatalogInv
               PROVE  CatalogAgrees
    OBVIOUS
  <2>1. ~overlapped => CatalogHeld
    BY Zenon DEF CatalogInv
  <2>2. CatalogHeld => /\ TellsOf(stat, Cardinality(ClicksOn(Messages)))
                       /\ (target /\ ~protected => refs # {} \/ released)
    BY Zenon DEF CatalogHeld
  <2>. QED
    BY <2>1, <2>2 DEF CatalogAgrees, StatMatchesClicks, TargetIsReferenced, TellsOf
<1>. QED
  BY <1>1, CatalogInitially, CatalogStep, PTL DEF CatalogSpec

----------------------------------------------------------------------------
(* Link checks.  A task's status is not final anywhere before its checking *)
(* is over (RunnerHeld), so that a caller that has read a final status     *)
(* knows; and a caller that is prompt, because no marker was written since *)
(* it read, finds no other task checking when it creates one (CallerHeld). *)

NonFinal(s) == s.state \notin Finals
CheckOpen(t) == runner[t].pc = "none" \/ Checking(t)
PastRow(r) == \/ r.pc \in {"clear", "unlink", "done"}
              \/ r.pc \in {"load", "store"} /\ r.goal = "finally"
CheckedRow(r) == \/ r.pc \in {"end", "clear", "unlink", "done", "lost"}
                 \/ r.pc \in {"load", "store"} /\ r.goal \in {"result", "finally"}

(* A task that was told to stop while it worked is on its way to an end    *)
(* that is not "completed".                                                *)
AskedRow(r, s, kept) ==
    /\ kept = "none" /\ s.state # "completed"
    /\ \/ r.pc = "work" /\ s.stop
       \/ r.pc = "load" /\ r.goal \in {"callback", "last"} /\ s.stop
       \/ r.pc = "store" /\ r.goal \in {"callback", "last"} /\ r.seen.stop
       \/ r.pc \in {"load", "store"} /\ r.goal = "result" /\ r.result # "completed"
       \/ r.pc = "end" /\ r.result # "completed"
       \/ PastRow(r) \/ r.pc = "lost"

RunnerHeld(t) ==
    LET r == runner[t] IN
    /\ r.pc # "none" => statusFile[t] # NoStatus
    /\ r.goal = "finally" => r.pc \in {"load", "store"}
    /\ CheckOpen(t) => NonFinal(statusFile[t]) /\ NonFinal(r.seen)
                       /\ \A p \in CheckProcs : NonFinal(memory[p][t])
    /\ PastRow(r) => statusFile[t].state \in Finals \/ t \in revived
    /\ rows[t] # "none" => CheckedRow(r)
    /\ t \in askedAtWork => AskedRow(r, statusFile[t], rows[t])
    /\ r.pc = "unlink" /\ ~r.late /\ ~crossed => \A u \in CheckTasks : ~Checking(u)

(* What a caller has read, as far as it is prompt.                         *)
CallerHeld(c) ==
    /\ c.pc \in {"recover", "clear", "unlink", "create", "mark"} => c.op = "start"
    /\ c.pc \notin {"idle", "create"} => c.task \in CheckTasks
    /\ c.op = "start" /\ c.pc \notin {"idle", "create", "mark"} =>
          runner[c.task].pc # "none"
    /\ c.op = "start" /\ c.pc \in {"load", "store"} /\ AtWork(c.task) =>
          c.read.proc = runner[c.task].proc /\ ~PidIsFree(c.read)
    /\ c.pc = "recover" => ~AtWork(c.task)
    /\ c.pc = "mark" => runner[c.task].pc = "none" /\ statusFile[c.task] # NoStatus
    /\ c.pc = "store" /\ CheckOpen(c.task) => NonFinal(c.seen)
    /\ c.op = "start" /\ ~c.late /\ ~crossed =>
         /\ c.pc \in {"load", "store"} => \A u \in CheckTasks : Checking(u) => u = c.task
         /\ c.pc \in {"recover", "clear", "unlink", "create", "mark"} =>
               \A u \in CheckTasks : ~Checking(u)

MarksApart == \A p, q \in CheckProcs :
    caller[p].pc = "mark" /\ caller[q].pc = "mark" /\ caller[p].task = caller[q].task => p = q

MarkerHeld ==
    marker.task # NoCheck =>
        /\ runner[marker.task].pc # "none" /\ runner[marker.task].proc = marker.proc
        /\ marker.pid <= pid[marker.proc]
        /\ AtWork(marker.task) => ~PidIsFree(marker)
        /\ runner[marker.task].pc = "lost" => PidIsFree(marker) \/ marker.task \in orphaned

CheckInv ==
    /\ LinkCheckTypeOK
    /\ \A t \in CheckTasks : RunnerHeld(t)
    /\ \A p \in CheckProcs : CallerHeld(caller[p])
    /\ MarksApart /\ MarkerHeld
    /\ ~crossed => \A t \in CheckTasks : Checking(t) => marker.task = t

LEMMA CheckParts ==
    CheckInv =>
        /\ statusFile \in [CheckTasks -> Status]
        /\ memory \in [CheckProcs -> [CheckTasks -> Status]]
        /\ marker \in Marker /\ caller \in [CheckProcs -> CallerState]
        /\ runner \in [CheckTasks -> RunnerState]
        /\ rows \in [CheckTasks -> {"none", "stats", "full"}]
        /\ checkAsks \in Nat /\ pid \in [CheckProcs -> Nat]
        /\ askedAtWork \in SUBSET CheckTasks /\ revived \in SUBSET CheckTasks
        /\ orphaned \in SUBSET CheckTasks /\ crossed \in BOOLEAN
BY DEF CheckInv, LinkCheckTypeOK

LEMMA CheckNames ==
    /\ Api \in CheckProcs /\ NoCheck \notin CheckTasks /\ MaxCheckAsks \in Nat
    /\ NoStatus \in Status /\ NonFinal(NoStatus) /\ NoMarker \in Marker
    /\ NoRunner \in RunnerState /\ IdleCaller \in CallerState
BY LinkCheckAssumption DEF NoStatus, Status, States, Finals, NonFinal, NoMarker, Marker,
   NoRunner, RunnerState, IdleCaller, CallerState

(* A step of the thread of one task that leaves the marker alone, or       *)
(* removes it: nothing starts to be checked.                               *)
LEMMA ThreadMovesOn ==
    ASSUME CheckInv, NEW t \in CheckTasks, NEW r \in RunnerState, NEW s \in Status,
           NEW kept \in {"none", "stats", "full"},
           runner' = [runner EXCEPT ![t] = r], statusFile' = [statusFile EXCEPT ![t] = s],
           rows' = [rows EXCEPT ![t] = kept],
           memory' \in [CheckProcs -> [CheckTasks -> Status]],
           \A p \in CheckProcs, u \in CheckTasks : u # t => memory'[p][u] = memory[p][u],
           UNCHANGED <<caller, checkAsks, pid, askedAtWork, revived, orphaned>>,
           marker' \in Marker, crossed' \in BOOLEAN, crossed => crossed',
           \/ marker' = marker
           \/ marker'.task = NoCheck /\ (~crossed' => \A u \in CheckTasks : ~Checking(u)),
           AtWork(t), r.pc \notin {"none", "lost"}, r.proc = runner[t].proc, s # NoStatus,
           r.goal = "finally" => r.pc \in {"load", "store"},
           (r.pc # "done" /\ ~PastRow(r)) => Checking(t),
           Checking(t) /\ ~PastRow(r) =>
              NonFinal(s) /\ NonFinal(r.seen) /\ \A p \in CheckProcs : NonFinal(memory'[p][t]),
           PastRow(r) => s.state \in Finals \/ t \in revived,
           kept # "none" => CheckedRow(r),
           t \in askedAtWork => AskedRow(r, s, kept),
           r.pc = "unlink" /\ ~r.late /\ ~crossed' => \A u \in CheckTasks : ~Checking(u)
    PROVE  CheckInv'
<1>0. /\ statusFile \in [CheckTasks -> Status] /\ runner \in [CheckTasks -> RunnerState]
      /\ rows \in [CheckTasks -> {"none", "stats", "full"}] /\ LinkCheckTypeOK
  BY CheckParts DEF CheckInv
<1>1. /\ runner' \in [CheckTasks -> RunnerState] /\ runner'[t] = r
      /\ statusFile' \in [CheckTasks -> Status] /\ statusFile'[t] = s
      /\ rows' \in [CheckTasks -> {"none", "stats", "full"}] /\ rows'[t] = kept
      /\ \A u \in CheckTasks : u # t => runner'[u] = runner[u] /\ statusFile'[u] = statusFile[u]
                                        /\ rows'[u] = rows[u]
  BY <1>0
<1>2. LinkCheckTypeOK'
  BY <1>0, <1>1 DEF LinkCheckTypeOK
<1>3. /\ \A u \in CheckTasks : Checking(u)' => Checking(u)
      /\ \A u \in CheckTasks : AtWork(u)' => AtWork(u)
      /\ \A u \in CheckTasks : runner'[u].pc = "none" <=> runner[u].pc = "none"
      /\ \A u \in CheckTasks : runner'[u].proc = runner[u].proc
      /\ \A u \in CheckTasks : runner'[u].pc = "lost" => runner[u].pc = "lost"
      /\ Checking(t)' => Checking(t) /\ ~PastRow(r)
  <2>1. \A u \in CheckTasks : u # t => (AtWork(u)' <=> AtWork(u)) /\ (Checking(u)' <=> Checking(u))
    BY <1>1 DEF AtWork, Checking
  <2>2. Checking(t)' => r.pc # "done" /\ ~PastRow(r)
    BY <1>1 DEF Checking, AtWork, PastRow
  <2>3. Checking(t)' => Checking(t)
    BY <2>2
  <2>4. runner[t].pc # "none"
    BY DEF AtWork
  <2>. QED
    BY <1>1, <2>1, <2>2, <2>3, <2>4
<1>4. \A u \in CheckTasks : CheckOpen(u)' => CheckOpen(u)
  BY <1>3 DEF CheckOpen
<1>5. ASSUME NEW u \in CheckTasks
      PROVE  RunnerHeld(u)'
  <2>1. CASE u # t
    <3>1. RunnerHeld(u)
      BY DEF CheckInv
    <3>2. /\ runner'[u] = runner[u] /\ statusFile'[u] = statusFile[u] /\ rows'[u] = rows[u]
          /\ \A p \in CheckProcs : memory'[p][u] = memory[p][u]
      BY <1>1, <2>1
    <3>3. PICK q \in RunnerState : q = runner[u] /\ q = runner'[u]
      BY <1>0, <3>2
    <3>. QED
      BY <1>3, <1>4, <3>1, <3>2, <3>3 DEF RunnerHeld
  <2>2. CASE u = t
    <3>1. runner'[t].pc # "none" => statusFile'[t] # NoStatus
      BY <1>1
    <3>2. CheckOpen(t)' => Checking(t) /\ ~PastRow(r)
      BY <1>1, <1>3 DEF CheckOpen
    <3>3. CheckOpen(t)' => /\ NonFinal(statusFile'[t]) /\ NonFinal(runner'[t].seen)
                           /\ \A p \in CheckProcs : NonFinal(memory'[p][t])
      BY <1>1, <3>2
    <3>4. t \in askedAtWork' => AskedRow(runner'[t], statusFile'[t], rows'[t])
      BY <1>1
    <3>5. /\ PastRow(runner'[t]) => statusFile'[t].state \in Finals \/ t \in revived'
          /\ rows'[t] # "none" => CheckedRow(runner'[t])
          /\ runner'[t].goal = "finally" => runner'[t].pc \in {"load", "store"}
      BY <1>1
    <3>6. runner'[t].pc = "unlink" /\ ~runner'[t].late /\ ~crossed' =>
             \A v \in CheckTasks : ~Checking(v)'
      BY <1>1, <1>3
    <3>. QED
      BY <2>2, <3>1, <3>3, <3>4, <3>5, <3>6 DEF RunnerHeld
  <2>. QED
    BY <2>1, <2>2
<1>6. ASSUME NEW p \in CheckProcs
      PROVE  CallerHeld(caller[p])'
  <2>1. PICK c \in CallerState : c = caller[p] /\ c = caller'[p]
    BY CheckParts
  <2>2. CallerHeld(c)
    BY <2>1 DEF CheckInv
  <2>3. c.pc = "mark" => c.task # t
    BY <2>2 DEF CallerHeld, AtWork
  <2>4. c.pc = "mark" => runner'[c.task].pc = "none" /\ statusFile'[c.task] # NoStatus
    BY <1>1, <2>2, <2>3 DEF CallerHeld
  <2>5. CallerHeld(c)'
    BY <1>3, <1>4, <2>2, <2>4 DEF CallerHeld, PidIsFree
  <2>. QED
    BY <2>1, <2>5
<1>7. MarksApart'
  BY DEF CheckInv, MarksApart
<1>8. MarkerHeld'
  <2>1. CASE marker' = marker
    <3>1. marker.task # NoCheck => marker.task \in CheckTasks
      BY CheckParts DEF Marker
    <3>. QED
      BY <1>3, <2>1, <3>1 DEF CheckInv, MarkerHeld, PidIsFree
  <2>2. CASE marker'.task = NoCheck
    BY <2>2 DEF MarkerHeld
  <2>. QED
    BY <2>1, <2>2
<1>9. ~crossed' => \A u \in CheckTasks : Checking(u)' => marker'.task = u
  BY <1>3 DEF CheckInv
<1>. QED
  BY <1>2, <1>5, <1>6, <1>7, <1>8, <1>9 DEF CheckInv

LEMMA ThreadMoves ==
    ASSUME CheckInv, NEW t \in CheckTasks, NEW r \in RunnerState, NEW s \in Status,
           NEW kept \in {"none", "stats", "full"},
           runner' = [runner EXCEPT ![t] = r], statusFile' = [statusFile EXCEPT ![t] = s],
           rows' = [rows EXCEPT ![t] = kept],
           memory' \in [CheckProcs -> [CheckTasks -> Status]],
           \A p \in CheckProcs, u \in CheckTasks : u # t => memory'[p][u] = memory[p][u],
           UNCHANGED <<marker, caller, checkAsks, pid, askedAtWork, revived, orphaned, crossed>>,
           AtWork(t), r.pc \notin {"none", "lost"}, r.proc = runner[t].proc, s # NoStatus,
           r.goal = "finally" => r.pc \in {"load", "store"},
           (r.pc # "done" /\ ~PastRow(r)) => Checking(t),
           Checking(t) /\ ~PastRow(r) =>
              NonFinal(s) /\ NonFinal(r.seen) /\ \A p \in CheckProcs : NonFinal(memory'[p][t]),
           PastRow(r) => s.state \in Finals \/ t \in revived,
           kept # "none" => CheckedRow(r),
           t \in askedAtWork => AskedRow(r, s, kept),
           r.pc = "unlink" /\ ~r.late /\ ~crossed => \A u \in CheckTasks : ~Checking(u)
    PROVE  CheckInv'
BY CheckParts, ThreadMovesOn

LEMMA ThreadFacts ==
    ASSUME CheckInv, NEW t \in CheckTasks, AtWork(t)
    PROVE  /\ runner[t] \in RunnerState /\ statusFile[t] \in Status /\ statusFile[t] # NoStatus
           /\ rows[t] \in {"none", "stats", "full"} /\ RunnerHeld(t)
           /\ statusFile = [statusFile EXCEPT ![t] = statusFile[t]]
           /\ rows = [rows EXCEPT ![t] = rows[t]]
           /\ memory \in [CheckProcs -> [CheckTasks -> Status]]
           /\ runner \in [CheckTasks -> RunnerState]
<1>1. RunnerHeld(t) /\ runner[t].pc # "none"
  BY DEF CheckInv, AtWork
<1>2. statusFile[t] # NoStatus
  BY <1>1 DEF RunnerHeld
<1>3. /\ statusFile = [statusFile EXCEPT ![t] = statusFile[t]]
      /\ rows = [rows EXCEPT ![t] = rows[t]]
  BY CheckParts
<1>. QED
  BY <1>1, <1>2, <1>3, CheckParts

(* How the record of a thread looks after one of its steps.                *)
LEMMA ThreadFails ==
    ASSUME CheckInv, NEW t \in CheckTasks, AtWork(t), Fails(t)
    PROVE  \E r \in RunnerState :
              /\ runner' = [runner EXCEPT ![t] = r] /\ r.pc = "load" /\ r.goal = "result"
              /\ r.result = "failed" /\ r.seen = runner[t].seen
              /\ r.proc = runner[t].proc /\ r.late = runner[t].late
<1>1. PICK r0 \in RunnerState : r0 = runner[t]
  BY ThreadFacts
<1>2. PICK r \in RunnerState : r = [r0 EXCEPT !.pc = "load", !.goal = "result", !.result = "failed"]
  BY DEF RunnerState, Finals
<1>3. /\ r.pc = "load" /\ r.goal = "result" /\ r.result = "failed" /\ r.seen = r0.seen
      /\ r.proc = r0.proc /\ r.late = r0.late
  BY <1>2 DEF RunnerState
<1>4. runner' = [runner EXCEPT ![t] = [r0 EXCEPT !.pc = "load", !.goal = "result", !.result = "failed"]]
  <2>1. runner' = [runner EXCEPT ![t].pc = "load", ![t].goal = "result", ![t].result = "failed"]
    BY DEF Fails
  <2>. QED
    BY <1>1, <2>1, ThreadFacts
<1>5. runner' = [runner EXCEPT ![t] = r]
  BY <1>2, <1>4
<1>. QED
  BY <1>1, <1>3, <1>5

LEMMA ThreadStepsTo ==
    ASSUME CheckInv, NEW t \in CheckTasks, AtWork(t),
           NEW pc \in {"work", "save", "clear", "unlink"}, Steps(t, pc)
    PROVE  \E r \in RunnerState :
              /\ runner' = [runner EXCEPT ![t] = r] /\ r.pc = pc
              /\ r.goal = runner[t].goal /\ r.result = runner[t].result
              /\ r.seen = runner[t].seen /\ r.proc = runner[t].proc /\ r.late = runner[t].late
<1>1. PICK r0 \in RunnerState : r0 = runner[t]
  BY ThreadFacts
<1>2. PICK r \in RunnerState : r = [r0 EXCEPT !.pc = pc]
  BY DEF RunnerState
<1>3. /\ r.pc = pc /\ r.goal = r0.goal /\ r.result = r0.result /\ r.seen = r0.seen
      /\ r.proc = r0.proc /\ r.late = r0.late
  BY <1>2 DEF RunnerState
<1>4. runner' = [runner EXCEPT ![t] = r]
  BY <1>1, <1>2, ThreadFacts DEF Steps
<1>. QED
  BY <1>1, <1>3, <1>4

LEMMA ThreadReadsFor ==
    ASSUME CheckInv, NEW t \in CheckTasks, AtWork(t),
           NEW goal \in {"first", "callback", "last", "result", "finally"}, Reads(t, goal)
    PROVE  \E r \in RunnerState :
              /\ runner' = [runner EXCEPT ![t] = r] /\ r.pc = "load" /\ r.goal = goal
              /\ r.result = runner[t].result /\ r.seen = runner[t].seen
              /\ r.proc = runner[t].proc /\ r.late = runner[t].late
<1>1. PICK r0 \in RunnerState : r0 = runner[t]
  BY ThreadFacts
<1>2. PICK r \in RunnerState : r = [r0 EXCEPT !.pc = "load", !.goal = goal]
  BY DEF RunnerState
<1>3. /\ r.pc = "load" /\ r.goal = goal /\ r.result = r0.result /\ r.seen = r0.seen
      /\ r.proc = r0.proc /\ r.late = r0.late
  BY <1>2 DEF RunnerState
<1>4. runner' = [runner EXCEPT ![t] = [r0 EXCEPT !.pc = "load", !.goal = goal]]
  <2>1. runner' = [runner EXCEPT ![t].pc = "load", ![t].goal = goal]
    BY DEF Reads
  <2>. QED
    BY <1>1, <2>1, ThreadFacts
<1>5. runner' = [runner EXCEPT ![t] = r]
  BY <1>2, <1>4
<1>. QED
  BY <1>1, <1>3, <1>5

LEMMA ThreadLeaves ==
    ASSUME CheckInv, NEW t \in CheckTasks, AtWork(t), Leaves(t)
    PROVE  \E r \in RunnerState :
              /\ runner' = [runner EXCEPT ![t] = r] /\ r.proc = runner[t].proc
              /\ PastRow(r) /\ r.pc \in {"load", "done"}
              /\ (r.goal = "finally" <=> r.pc = "load")
              /\ r.late = FALSE
<1>1. PICK r0 \in RunnerState : r0 = runner[t]
  BY ThreadFacts
<1>2. r0.proc \in CheckProcs
  BY DEF RunnerState
<1>3. PICK r \in RunnerState :
        r = IF r0.early THEN [Left(r0, "load") EXCEPT !.goal = "finally"] ELSE Left(r0, "done")
  BY <1>2, CheckNames DEF Left, NoRunner, RunnerState
<1>4. /\ r.proc = r0.proc /\ r.pc \in {"load", "done"} /\ r.late = FALSE
      /\ (r.goal = "finally" <=> r.pc = "load")
  BY <1>2, <1>3 DEF Left, NoRunner
<1>5. PastRow(r)
  BY <1>4 DEF PastRow
<1>6. runner' = [runner EXCEPT ![t] = r]
  BY <1>1, <1>3, ThreadFacts DEF Leaves
<1>. QED
  BY <1>1, <1>4, <1>5, <1>6

(* A thread reads its status file, and goes on with what it has read.      *)
LEMMA ThreadReadsKeep ==
    ASSUME CheckInv, NEW t \in CheckTasks, RunnerLoads(t) \/ RunnerStores(t) \/ Work(t)
    PROVE  CheckInv'
<1>0. AtWork(t) /\ runner[t].pc \in {"load", "store", "work"}
  BY DEF RunnerLoads, RunnerStores, Work, At, AtWork
<1>1. PICK r0 \in RunnerState, s \in Status, kept \in {"none", "stats", "full"} :
        /\ r0 = runner[t] /\ s = statusFile[t] /\ kept = rows[t] /\ s # NoStatus
        /\ statusFile = [statusFile EXCEPT ![t] = s] /\ rows = [rows EXCEPT ![t] = kept]
  BY <1>0, ThreadFacts
<1>2. /\ r0.goal = "finally" => r0.pc \in {"load", "store"}
      /\ Checking(t) => NonFinal(s) /\ NonFinal(r0.seen) /\ \A p \in CheckProcs : NonFinal(memory[p][t])
      /\ PastRow(r0) => s.state \in Finals \/ t \in revived
      /\ kept # "none" => CheckedRow(r0)
      /\ t \in askedAtWork => AskedRow(r0, s, kept)
      /\ Checking(t) <=> r0.goal # "finally"
  BY <1>0, <1>1, ThreadFacts DEF RunnerHeld, CheckOpen, Checking, AtWork
<1>3. /\ memory \in [CheckProcs -> [CheckTasks -> Status]]
      /\ UNCHANGED <<statusFile, rows, marker, caller, checkAsks, pid, askedAtWork, revived, orphaned, crossed>>
  BY <1>0, ThreadFacts DEF RunnerLoads, RunnerStores, Work
<1>4. ASSUME NEW r \in RunnerState, runner' = [runner EXCEPT ![t] = r],
             memory' \in [CheckProcs -> [CheckTasks -> Status]],
             \A p \in CheckProcs, u \in CheckTasks : u # t => memory'[p][u] = memory[p][u],
             r.pc \notin {"none", "lost", "unlink"}, r.proc = r0.proc,
             r.goal = "finally" => r.pc = "store",
             r.pc # "done" /\ ~PastRow(r) => r0.goal # "finally",
             r0.goal # "finally" /\ ~PastRow(r) =>
                NonFinal(r.seen) /\ \A p \in CheckProcs : NonFinal(memory'[p][t]),
             PastRow(r) => PastRow(r0),
             CheckedRow(r0) => CheckedRow(r),
             t \in askedAtWork => AskedRow(r, s, kept)
      PROVE  CheckInv'
  <2>1. /\ r.goal = "finally" => r.pc \in {"load", "store"}
        /\ (r.pc # "done" /\ ~PastRow(r)) => Checking(t)
        /\ Checking(t) /\ ~PastRow(r) =>
              NonFinal(s) /\ NonFinal(r.seen) /\ \A p \in CheckProcs : NonFinal(memory'[p][t])
        /\ PastRow(r) => s.state \in Finals \/ t \in revived
        /\ kept # "none" => CheckedRow(r)
        /\ r.pc = "unlink" /\ ~r.late /\ ~crossed => \A u \in CheckTasks : ~Checking(u)
    BY <1>2, <1>4
  <2>2. statusFile' = [statusFile EXCEPT ![t] = s] /\ rows' = [rows EXCEPT ![t] = kept]
    BY <1>1, <1>3
  <2>3. /\ UNCHANGED <<marker, caller, checkAsks, pid, askedAtWork, revived, orphaned, crossed>>
        /\ AtWork(t) /\ r.pc \notin {"none", "lost"} /\ r.proc = runner[t].proc /\ s # NoStatus
    BY <1>0, <1>1, <1>3, <1>4
  <2>. QED
    BY <1>4, <2>1, <2>2, <2>3, ThreadMoves
<1>5. CASE RunnerLoads(t)
  <2>1. PICK r \in RunnerState : r = [r0 EXCEPT !.pc = "store", !.seen = s]
    BY DEF RunnerState
  <2>2. r.pc = "store" /\ r.seen = s /\ r.goal = r0.goal /\ r.proc = r0.proc /\ r.result = r0.result
    BY <2>1 DEF RunnerState
  <2>3. runner' = [runner EXCEPT ![t] = r] /\ memory' = memory /\ r0.pc = "load"
    <3>1. runner' = [runner EXCEPT ![t].pc = "store", ![t].seen = statusFile[t]]
      BY <1>5 DEF RunnerLoads
    <3>. QED
      BY <1>0, <1>1, <1>5, <2>1, <3>1, ThreadFacts DEF RunnerLoads, At
  <2>4. t \in askedAtWork => AskedRow(r, s, kept)
    BY <1>2, <2>2, <2>3 DEF AskedRow, PastRow
  <2>5. /\ PastRow(r) => PastRow(r0) /\ r0.goal = "finally"
        /\ CheckedRow(r0) => CheckedRow(r)
        /\ r0.goal = "finally" => PastRow(r)
    BY <2>2, <2>3 DEF PastRow, CheckedRow
  <2>. QED
    BY <1>2, <1>3, <1>4, <2>2, <2>3, <2>4, <2>5
<1>6. CASE Work(t)
  <2>0. r0.pc = "work" /\ memory' = memory
    BY <1>1, <1>6 DEF Work, At
  <2>2. PICK r \in RunnerState :
          /\ runner' = [runner EXCEPT ![t] = r] /\ r.pc = "load" /\ r.seen = r0.seen
          /\ r.goal \in {"callback", "last", "result"} /\ r.proc = r0.proc
          /\ r.goal = "result" => r.result = "failed"
    <3>1. CASE Reads(t, "callback")
      BY <1>0, <1>1, <3>1, ThreadReadsFor
    <3>2. CASE Reads(t, "last")
      BY <1>0, <1>1, <3>2, ThreadReadsFor
    <3>3. CASE Fails(t)
      BY <1>0, <1>1, <3>3, ThreadFails
    <3>. QED
      BY <1>6, <3>1, <3>2, <3>3 DEF Work
  <2>3. runner' = [runner EXCEPT ![t] = r] /\ memory' = memory /\ r0.pc = "work"
    BY <2>0, <2>2
  <2>4. t \in askedAtWork => AskedRow(r, s, kept)
    BY <1>2, <2>2, <2>3 DEF AskedRow, PastRow
  <2>5. ~PastRow(r) /\ ~CheckedRow(r0) /\ r0.goal # "finally"
    BY <1>2, <2>2, <2>3 DEF PastRow, CheckedRow
  <2>. QED
    BY <1>2, <1>3, <1>4, <2>2, <2>3, <2>4, <2>5
<1>7. CASE RunnerStores(t)
  <2>0. /\ r0.pc = "store" /\ NoStatus \in Status /\ NonFinal(NoStatus)
        /\ r0.seen \in Status /\ r0.proc \in CheckProcs
        /\ Store(r0.proc, t, r0.seen)
    BY <1>1, <1>7, CheckNames DEF RunnerStores, At, RunnerState
  <2>1. /\ memory' \in [CheckProcs -> [CheckTasks -> Status]]
        /\ \A p \in CheckProcs, u \in CheckTasks :
              memory'[p][u] \in {memory[p][u], r0.seen}
        /\ \A p \in CheckProcs, u \in CheckTasks : u # t => memory'[p][u] = memory[p][u]
    BY <1>3, <2>0 DEF Store
  <2>2. Checking(t) => NonFinal(r0.seen) /\ \A p \in CheckProcs : NonFinal(memory'[p][t])
    BY <1>2, <2>1
  <2>3. PICK r \in RunnerState :
          /\ runner' = [runner EXCEPT ![t] = r] /\ r.proc = r0.proc /\ r.seen = NoStatus
          /\ \/ r0.goal = "finally" /\ r.goal = "first" /\ r.pc \in {"clear", "done"}
             \/ r0.goal = "result" /\ r.goal = "first" /\ r.pc = "end" /\ r.result = r0.result
             \/ /\ r0.goal \in {"first", "callback", "last"} /\ r0.seen.stop
                /\ r.pc = "load" /\ r.goal = "result" /\ r.result = "stopped"
             \/ /\ r0.goal \in {"first", "callback", "last"} /\ ~r0.seen.stop
                /\ r.goal = "first" /\ r.pc \in {"work", "end", "note", "saving"}
    <3> DEFINE Then(pc) == [r0 EXCEPT !.pc = pc, !.seen = NoStatus, !.goal = "first"]
    <3>1. ASSUME NEW pc \in {"clear", "end", "work", "note", "saving"}
          PROVE  Then(pc) \in RunnerState /\ Then(pc).pc = pc /\ Then(pc).goal = "first"
                 /\ Then(pc).seen = NoStatus /\ Then(pc).proc = r0.proc
                 /\ Then(pc).result = r0.result
      BY <2>0 DEF RunnerState
    <3>2. /\ Left(r0, "done") \in RunnerState /\ Left(r0, "done").pc = "done"
          /\ Left(r0, "done").goal = "first" /\ Left(r0, "done").seen = NoStatus
          /\ Left(r0, "done").proc = r0.proc
      BY <2>0, CheckNames DEF Left, NoRunner, RunnerState
    <3>3. PICK q \in RunnerState : q = [Then("load") EXCEPT !.goal = "result", !.result = "stopped"]
      BY <2>0 DEF RunnerState, Finals
    <3>4. q.pc = "load" /\ q.goal = "result" /\ q.result = "stopped" /\ q.seen = NoStatus
          /\ q.proc = r0.proc
      BY <2>0, <3>3 DEF RunnerState
    <3>5. ASSUME NEW x \in {"completed", "failed"}
          PROVE  /\ [Then("end") EXCEPT !.result = x, !.early = TRUE] \in RunnerState
                 /\ [Then("end") EXCEPT !.result = x, !.early = TRUE].pc = "end"
                 /\ [Then("end") EXCEPT !.result = x, !.early = TRUE].goal = "first"
                 /\ [Then("end") EXCEPT !.result = x, !.early = TRUE].seen = NoStatus
                 /\ [Then("end") EXCEPT !.result = x, !.early = TRUE].proc = r0.proc
      BY <2>0 DEF RunnerState, Finals
    <3>6. CASE r0.goal = "finally"
      <4>1. \/ runner' = [runner EXCEPT ![t] = Then("clear")]
            \/ runner' = [runner EXCEPT ![t] = Left(r0, "done")]
        BY <1>1, <1>7, <3>6 DEF RunnerStores
      <4>. QED
        BY <3>1, <3>2, <3>6, <4>1
    <3>7. CASE r0.goal = "result"
      <4>1. runner' = [runner EXCEPT ![t] = Then("end")]
        BY <1>1, <1>7, <3>7 DEF RunnerStores
      <4>. QED
        BY <3>1, <3>7, <4>1
    <3>8. CASE r0.goal \in {"first", "callback", "last"} /\ r0.seen.stop
      <4>1. runner' = [runner EXCEPT ![t] = q]
        BY <1>1, <1>7, <3>3, <3>8 DEF RunnerStores
      <4>. QED
        BY <3>4, <3>8, <4>1
    <3>9. CASE r0.goal = "first" /\ ~r0.seen.stop
      <4>1. \/ runner' = [runner EXCEPT ![t] = Then("work")]
            \/ \E x \in {"completed", "failed"} :
                  runner' = [runner EXCEPT ![t] = [Then("end") EXCEPT !.result = x, !.early = TRUE]]
        <5>1. \E next \in {Then("work")} \cup
                        {[Then("end") EXCEPT !.result = x, !.early = TRUE] :
                           x \in {"completed", "failed"}} :
                 runner' = [runner EXCEPT ![t] = next]
          <6>1. runner[t].goal = "first" /\ ~runner[t].seen.stop
            BY <1>1, <3>9
          <6>2. \E next \in
                   {[runner[t] EXCEPT !.pc = "work", !.seen = NoStatus, !.goal = "first"]} \cup
                   {[[runner[t] EXCEPT !.pc = "end", !.seen = NoStatus, !.goal = "first"]
                       EXCEPT !.result = x, !.early = TRUE] : x \in {"completed", "failed"}} :
                   runner' = [runner EXCEPT ![t] = next]
            BY <1>7, <6>1 DEF RunnerStores
          <6>3. \E next \in
                   {[r0 EXCEPT !.pc = "work", !.seen = NoStatus, !.goal = "first"]} \cup
                   {[[r0 EXCEPT !.pc = "end", !.seen = NoStatus, !.goal = "first"]
                       EXCEPT !.result = x, !.early = TRUE] : x \in {"completed", "failed"}} :
                   runner' = [runner EXCEPT ![t] = next]
            BY ZenonT(40), <1>1, <6>2
          <6>. QED
            BY Zenon, <6>3
        <5>. QED
          BY <5>1
      <4>2. CASE runner' = [runner EXCEPT ![t] = Then("work")]
        BY <3>1, <3>9, <4>2
      <4>3. ASSUME NEW x \in {"completed", "failed"},
                   runner' = [runner EXCEPT ![t] = [Then("end") EXCEPT !.result = x, !.early = TRUE]]
            PROVE  \E r \in RunnerState :
                      /\ runner' = [runner EXCEPT ![t] = r] /\ r.proc = r0.proc /\ r.seen = NoStatus
                      /\ r.goal = "first" /\ r.pc = "end"
        BY <3>5, <4>3
      <4>. QED
        BY <3>9, <4>1, <4>2, <4>3
    <3>10. CASE r0.goal \in {"callback", "last"} /\ ~r0.seen.stop
      <4>1. \/ runner' = [runner EXCEPT ![t] = Then("note")]
            \/ runner' = [runner EXCEPT ![t] = Then("saving")]
        BY <1>1, <1>7, <3>10 DEF RunnerStores
      <4>. QED
        BY <3>1, <3>10, <4>1
    <3>11. r0.goal \in {"first", "callback", "last", "result", "finally"}
      BY DEF RunnerState
    <3>. QED
      BY <3>6, <3>7, <3>8, <3>9, <3>10, <3>11
  <2>4. t \in askedAtWork => AskedRow(r, s, kept)
    BY <1>2, <2>0, <2>3 DEF AskedRow, PastRow
  <2>5. /\ PastRow(r) => PastRow(r0)
        /\ CheckedRow(r0) => CheckedRow(r)
        /\ r0.goal = "finally" => r.pc = "done" \/ PastRow(r)
    BY <2>0, <2>3 DEF PastRow, CheckedRow
  <2>6. /\ r.pc \notin {"none", "lost", "unlink"} /\ r.goal # "finally"
        /\ NonFinal(r.seen)
    BY <2>0, <2>3
  <2>. QED
    BY <1>2, <1>4, <2>1, <2>2, <2>3, <2>4, <2>5, <2>6
<1>. QED
  BY <1>5, <1>6, <1>7

(* A thread writes its status, or saves what it found.                     *)
LEMMA ThreadNotes ==
    ASSUME CheckInv, NEW t \in CheckTasks, Note(t)
    PROVE  CheckInv'
<1>0. AtWork(t) /\ runner[t].pc \in {"note", "saving"} /\ Checking(t)
  <2>1. AtWork(t) /\ runner[t].pc \in {"note", "saving"}
    BY DEF Note, AtWork
  <2>2. runner[t].goal # "finally"
    BY <2>1, ThreadFacts DEF RunnerHeld
  <2>. QED
    BY <2>1, <2>2 DEF Checking
<1>1. PICK r0 \in RunnerState, kept \in {"none", "stats", "full"}, p \in CheckProcs :
        /\ r0 = runner[t] /\ kept = rows[t] /\ rows = [rows EXCEPT ![t] = kept] /\ p = r0.proc
  BY <1>0, ThreadFacts DEF RunnerState
<1>2. /\ statusFile \in [CheckTasks -> Status] /\ memory \in [CheckProcs -> [CheckTasks -> Status]]
      /\ statusFile[t] # NoStatus /\ NonFinal(statusFile[t]) /\ NonFinal(r0.seen)
      /\ \A q \in CheckProcs : NonFinal(memory[q][t])
      /\ r0.goal # "finally" /\ (kept # "none" => CheckedRow(r0))
      /\ t \in askedAtWork => AskedRow(r0, statusFile[t], kept)
  BY <1>0, <1>1, ThreadFacts, CheckParts DEF RunnerHeld, CheckOpen, Checking
<1>3. PICK s \in Status : s = Current(p, t) /\ s # NoStatus /\ NonFinal(s)
  BY <1>2 DEF Current
<1>4. /\ statusFile' = [statusFile EXCEPT ![t] = s] /\ memory' = [memory EXCEPT ![p][t] = s]
      /\ UNCHANGED <<rows, marker, caller, checkAsks, pid, askedAtWork, revived, orphaned, crossed>>
  BY <1>1, <1>3 DEF Note, Write
<1>5. /\ memory' \in [CheckProcs -> [CheckTasks -> Status]]
      /\ \A q \in CheckProcs, u \in CheckTasks : u # t => memory'[q][u] = memory[q][u]
      /\ \A q \in CheckProcs : memory'[q][t] \in {s, memory[q][t]}
  BY <1>2, <1>4
<1>6. PICK r \in RunnerState :
        /\ runner' = [runner EXCEPT ![t] = r] /\ r.pc \in {"work", "save"}
        /\ r.goal = r0.goal /\ r.seen = r0.seen /\ r.proc = r0.proc
  <2>1. Steps(t, "work") \/ Steps(t, "save")
    BY DEF Note
  <2>. QED
    BY <1>0, <1>1, <2>1, ThreadStepsTo
<1>7. ~PastRow(r) /\ ~CheckedRow(r0) /\ t \notin askedAtWork
  BY <1>0, <1>1, <1>2, <1>6 DEF PastRow, CheckedRow, AskedRow
<1>8. /\ rows' = [rows EXCEPT ![t] = kept]
      /\ AtWork(t) /\ r.pc \notin {"none", "lost"} /\ r.proc = runner[t].proc
      /\ r.goal = "finally" => r.pc \in {"load", "store"}
      /\ (r.pc # "done" /\ ~PastRow(r)) => Checking(t)
      /\ Checking(t) /\ ~PastRow(r) =>
            NonFinal(s) /\ NonFinal(r.seen) /\ \A q \in CheckProcs : NonFinal(memory'[q][t])
      /\ PastRow(r) => s.state \in Finals \/ t \in revived
      /\ kept # "none" => CheckedRow(r)
      /\ t \in askedAtWork => AskedRow(r, s, kept)
      /\ r.pc = "unlink" /\ ~r.late /\ ~crossed => \A u \in CheckTasks : ~Checking(u)
  BY <1>0, <1>1, <1>2, <1>3, <1>4, <1>5, <1>6, <1>7
<1>. QED
  BY <1>3, <1>4, <1>5, <1>6, <1>8, ThreadMoves

LEMMA ThreadSaves ==
    ASSUME CheckInv, NEW t \in CheckTasks, Save(t)
    PROVE  CheckInv'
<1>0. AtWork(t) /\ runner[t].pc = "save" /\ Checking(t)
  <2>1. AtWork(t) /\ runner[t].pc = "save"
    BY DEF Save, At, AtWork
  <2>2. runner[t].goal # "finally"
    BY <2>1, ThreadFacts DEF RunnerHeld
  <2>. QED
    BY <2>1, <2>2 DEF Checking
<1>1. PICK r0 \in RunnerState, s \in Status :
        /\ r0 = runner[t] /\ s = statusFile[t] /\ s # NoStatus
        /\ statusFile = [statusFile EXCEPT ![t] = s]
  BY <1>0, ThreadFacts
<1>2. /\ memory \in [CheckProcs -> [CheckTasks -> Status]]
      /\ NonFinal(s) /\ NonFinal(r0.seen) /\ \A q \in CheckProcs : NonFinal(memory[q][t])
      /\ r0.goal # "finally" /\ t \notin askedAtWork
  BY <1>0, <1>1, ThreadFacts, CheckParts DEF RunnerHeld, CheckOpen, Checking, AskedRow, PastRow
<1>3. UNCHANGED <<statusFile, memory, marker, caller, checkAsks, pid, askedAtWork, revived, orphaned, crossed>>
  BY DEF Save
<1>4. PICK r \in RunnerState, kept \in {"none", "stats", "full"} :
        /\ runner' = [runner EXCEPT ![t] = r] /\ rows' = [rows EXCEPT ![t] = kept]
        /\ (r.pc = "load" /\ r.goal = "result") \/ (r.pc = "end" /\ r.goal = r0.goal)
        /\ r.seen = r0.seen /\ r.proc = r0.proc
  <2>1. CASE Fails(t) /\ \E w \in {"none", "stats"} : rows' = [rows EXCEPT ![t] = w]
    <3>1. PICK w \in {"none", "stats"} : rows' = [rows EXCEPT ![t] = w]
      BY <2>1
    <3>2. Fails(t)
      BY <2>1
    <3>3. PICK r \in RunnerState :
            /\ runner' = [runner EXCEPT ![t] = r] /\ r.pc = "load" /\ r.goal = "result"
            /\ r.seen = r0.seen /\ r.proc = r0.proc
      BY <1>0, <1>1, <3>2, ThreadFails
    <3>4. w \in {"none", "stats", "full"}
      OBVIOUS
    <3>5. /\ runner' = [runner EXCEPT ![t] = r] /\ rows' = [rows EXCEPT ![t] = w]
          /\ (r.pc = "load" /\ r.goal = "result") \/ (r.pc = "end" /\ r.goal = r0.goal)
          /\ r.seen = r0.seen /\ r.proc = r0.proc
      BY <3>1, <3>3
    <3>. QED
      BY Zenon, <3>4, <3>5
  <2>2. CASE /\ rows' = [rows EXCEPT ![t] = "full"]
             /\ runner' = [runner EXCEPT ![t].pc = "end", ![t].result = "completed"]
    <3>1. PICK r \in RunnerState : r = [r0 EXCEPT !.pc = "end", !.result = "completed"]
      BY DEF RunnerState, Finals
    <3>2. r.pc = "end" /\ r.goal = r0.goal /\ r.seen = r0.seen /\ r.proc = r0.proc
      BY <3>1 DEF RunnerState
    <3>3. runner' = [runner EXCEPT ![t] = [r0 EXCEPT !.pc = "end", !.result = "completed"]]
      BY <1>0, <1>1, <2>2, ThreadFacts
    <3>4. runner' = [runner EXCEPT ![t] = r]
      BY <3>1, <3>3
    <3>. QED
      BY <2>2, <3>2, <3>4
  <2>. QED
    BY <2>1, <2>2 DEF Save
<1>5. ~PastRow(r) /\ CheckedRow(r)
  BY <1>2, <1>4 DEF PastRow, CheckedRow
<1>6. /\ memory' \in [CheckProcs -> [CheckTasks -> Status]]
      /\ \A q \in CheckProcs, u \in CheckTasks : u # t => memory'[q][u] = memory[q][u]
      /\ statusFile' = [statusFile EXCEPT ![t] = s]
      /\ UNCHANGED <<marker, caller, checkAsks, pid, askedAtWork, revived, orphaned, crossed>>
  BY <1>1, <1>2, <1>3
<1>7. /\ AtWork(t) /\ r.pc \notin {"none", "lost"} /\ r.proc = runner[t].proc
      /\ r.goal = "finally" => r.pc \in {"load", "store"}
      /\ (r.pc # "done" /\ ~PastRow(r)) => Checking(t)
      /\ Checking(t) /\ ~PastRow(r) =>
            NonFinal(s) /\ NonFinal(r.seen) /\ \A q \in CheckProcs : NonFinal(memory'[q][t])
      /\ PastRow(r) => s.state \in Finals \/ t \in revived
      /\ kept # "none" => CheckedRow(r)
      /\ t \in askedAtWork => AskedRow(r, s, kept)
      /\ r.pc = "unlink" /\ ~r.late /\ ~crossed => \A u \in CheckTasks : ~Checking(u)
  BY <1>0, <1>1, <1>2, <1>3, <1>4, <1>5
<1>. QED
  BY <1>1, <1>4, <1>6, <1>7, ThreadMoves

LEMMA ThreadEnds ==
    ASSUME CheckInv, NEW t \in CheckTasks, End(t)
    PROVE  CheckInv'
<1>0. AtWork(t) /\ runner[t].pc = "end" /\ Checking(t)
  <2>1. AtWork(t) /\ runner[t].pc = "end"
    BY DEF End, At, AtWork
  <2>2. runner[t].goal # "finally"
    BY <2>1, ThreadFacts DEF RunnerHeld
  <2>. QED
    BY <2>1, <2>2 DEF Checking
<1>1. PICK r0 \in RunnerState, kept \in {"none", "stats", "full"}, p \in CheckProcs, x \in Finals :
        /\ r0 = runner[t] /\ kept = rows[t] /\ rows = [rows EXCEPT ![t] = kept]
        /\ p = r0.proc /\ x = r0.result
  BY <1>0, ThreadFacts DEF RunnerState
<1>2. /\ statusFile \in [CheckTasks -> Status] /\ memory \in [CheckProcs -> [CheckTasks -> Status]]
      /\ t \in askedAtWork => kept = "none" /\ x # "completed"
  BY <1>0, <1>1, ThreadFacts, CheckParts DEF RunnerHeld, AskedRow, PastRow
<1>3. PICK s \in Status : /\ s = [Current(p, t) EXCEPT !.state = x]
                          /\ s.state = x /\ s # NoStatus /\ s.state \in Finals
  <2>1. Current(p, t) \in Status
    BY <1>2 DEF Current
  <2>2. [Current(p, t) EXCEPT !.state = x] \in Status
    BY <2>1 DEF Status, States, Finals
  <2>3. [Current(p, t) EXCEPT !.state = x].state = x /\ x # "none"
    BY <2>1 DEF Status, Finals
  <2>. QED
    BY <2>2, <2>3 DEF NoStatus
<1>4. /\ statusFile' = [statusFile EXCEPT ![t] = s] /\ memory' = [memory EXCEPT ![p][t] = s]
      /\ UNCHANGED <<rows, marker, caller, checkAsks, pid, askedAtWork, revived, orphaned, crossed>>
  BY <1>1, <1>3 DEF End, Write
<1>5. /\ memory' \in [CheckProcs -> [CheckTasks -> Status]]
      /\ \A q \in CheckProcs, u \in CheckTasks : u # t => memory'[q][u] = memory[q][u]
  BY <1>2, <1>4
<1>6. PICK r \in RunnerState :
        /\ runner' = [runner EXCEPT ![t] = r]
        /\ (r.pc = "clear" /\ r.goal # "finally") \/ (r.pc = "load" /\ r.goal = "finally")
        /\ r.proc = r0.proc
  <2>1. CASE Steps(t, "clear")
    <3>1. r0.goal # "finally"
      BY <1>0, <1>1 DEF Checking
    <3>2. PICK r \in RunnerState :
            /\ runner' = [runner EXCEPT ![t] = r] /\ r.pc = "clear"
            /\ r.goal = r0.goal /\ r.proc = r0.proc
      BY <1>0, <1>1, <2>1, ThreadStepsTo
    <3>. QED
      BY <1>1, <3>1, <3>2
  <2>2. CASE Reads(t, "finally")
    BY <1>0, <1>1, <2>2, ThreadReadsFor
  <2>. QED
    BY <2>1, <2>2 DEF End
<1>7. PastRow(r) /\ CheckedRow(r) /\ (t \in askedAtWork => AskedRow(r, s, kept))
  BY <1>2, <1>3, <1>6 DEF PastRow, CheckedRow, AskedRow
<1>8. /\ rows' = [rows EXCEPT ![t] = kept]
      /\ AtWork(t) /\ r.pc \notin {"none", "lost"} /\ r.proc = runner[t].proc
      /\ r.goal = "finally" => r.pc \in {"load", "store"}
      /\ (r.pc # "done" /\ ~PastRow(r)) => Checking(t)
      /\ Checking(t) /\ ~PastRow(r) =>
            NonFinal(s) /\ NonFinal(r.seen) /\ \A q \in CheckProcs : NonFinal(memory'[q][t])
      /\ PastRow(r) => s.state \in Finals \/ t \in revived
      /\ kept # "none" => CheckedRow(r)
      /\ r.pc = "unlink" /\ ~r.late /\ ~crossed => \A u \in CheckTasks : ~Checking(u)
  BY <1>0, <1>1, <1>3, <1>4, <1>6, <1>7
<1>. QED
  BY <1>3, <1>4, <1>5, <1>6, <1>7, <1>8, ThreadMoves

(* The marker names only the task that is being checked, so that when it   *)
(* names one that is not, none is.                                         *)
LEMMA MarkedAlone ==
    ASSUME CheckInv, NEW t \in CheckTasks, ~Checking(t), NamesIt(t), ~crossed
    PROVE  \A u \in CheckTasks : ~Checking(u)
BY CheckNames DEF CheckInv, NamesIt

LEMMA ThreadClears ==
    ASSUME CheckInv, NEW t \in CheckTasks, RunnerClears(t)
    PROVE  CheckInv'
<1>0. AtWork(t) /\ runner[t].pc = "clear" /\ ~Checking(t)
  BY DEF RunnerClears, At, AtWork, Checking
<1>1. PICK r0 \in RunnerState, s \in Status, kept \in {"none", "stats", "full"} :
        /\ r0 = runner[t] /\ s = statusFile[t] /\ kept = rows[t] /\ s # NoStatus
        /\ statusFile = [statusFile EXCEPT ![t] = s] /\ rows = [rows EXCEPT ![t] = kept]
  BY <1>0, ThreadFacts
<1>2. /\ PastRow(r0) /\ (s.state \in Finals \/ t \in revived)
      /\ r0.goal # "finally" /\ (t \in askedAtWork => kept = "none" /\ s.state # "completed")
  <2>1. PastRow(r0)
    BY <1>0, <1>1 DEF PastRow
  <2>. QED
    BY <1>0, <1>1, <2>1, ThreadFacts DEF RunnerHeld, AskedRow
<1>3. /\ UNCHANGED <<statusFile, memory, rows, marker, caller, checkAsks, pid, askedAtWork,
                     revived, orphaned, crossed>>
      /\ memory \in [CheckProcs -> [CheckTasks -> Status]]
  BY CheckParts DEF RunnerClears
<1>4. PICK r \in RunnerState :
        /\ runner' = [runner EXCEPT ![t] = r] /\ r.proc = r0.proc /\ PastRow(r)
        /\ r.pc \in {"unlink", "load", "done"}
        /\ r.goal = "finally" => r.pc = "load"
        /\ r.pc = "unlink" => NamesIt(t)
  <2>1. CASE NamesIt(t) /\ Steps(t, "unlink")
    <3>1. PICK r \in RunnerState :
            /\ runner' = [runner EXCEPT ![t] = r] /\ r.pc = "unlink"
            /\ r.goal = r0.goal /\ r.proc = r0.proc
      BY <1>0, <1>1, <2>1, ThreadStepsTo
    <3>2. PastRow(r)
      BY <3>1 DEF PastRow
    <3>. QED
      BY <1>2, <2>1, <3>1, <3>2
  <2>2. CASE Leaves(t)
    BY <1>0, <1>1, <2>2, ThreadLeaves
  <2>. QED
    BY <2>1, <2>2 DEF RunnerClears
<1>5. CheckedRow(r) /\ (t \in askedAtWork => AskedRow(r, s, kept))
  BY <1>2, <1>4 DEF PastRow, CheckedRow, AskedRow
<1>6. r.pc = "unlink" /\ ~r.late /\ ~crossed => \A u \in CheckTasks : ~Checking(u)
  BY <1>0, <1>4, MarkedAlone
<1>7. /\ rows' = [rows EXCEPT ![t] = kept] /\ statusFile' = [statusFile EXCEPT ![t] = s]
      /\ memory' \in [CheckProcs -> [CheckTasks -> Status]]
      /\ \A q \in CheckProcs, u \in CheckTasks : u # t => memory'[q][u] = memory[q][u]
      /\ UNCHANGED <<marker, caller, checkAsks, pid, askedAtWork, revived, orphaned, crossed>>
  BY <1>1, <1>3
<1>8. /\ AtWork(t) /\ r.pc \notin {"none", "lost"} /\ r.proc = runner[t].proc
      /\ r.goal = "finally" => r.pc \in {"load", "store"}
      /\ (r.pc # "done" /\ ~PastRow(r)) => Checking(t)
      /\ Checking(t) /\ ~PastRow(r) =>
            NonFinal(s) /\ NonFinal(r.seen) /\ \A q \in CheckProcs : NonFinal(memory'[q][t])
      /\ PastRow(r) => s.state \in Finals \/ t \in revived
      /\ kept # "none" => CheckedRow(r)
  BY <1>0, <1>1, <1>2, <1>4, <1>5
<1>. QED
  BY <1>1, <1>4, <1>5, <1>6, <1>7, <1>8, ThreadMoves

(* A step of a caller that starts no thread.                               *)
LEMMA CallerMoves ==
    ASSUME CheckInv, NEW p \in CheckProcs, NEW c \in CallerState,
           caller' = [caller EXCEPT ![p] = c],
           statusFile' \in [CheckTasks -> Status],
           memory' \in [CheckProcs -> [CheckTasks -> Status]],
           marker' \in Marker, checkAsks' \in Nat, crossed' \in BOOLEAN, crossed => crossed',
           askedAtWork' \subseteq CheckTasks, revived' \subseteq CheckTasks,
           revived \subseteq revived', UNCHANGED <<runner, rows, pid, orphaned>>,
           \A t \in CheckTasks : statusFile[t] # NoStatus => statusFile'[t] # NoStatus,
           \A t \in CheckTasks : CheckOpen(t) =>
              NonFinal(statusFile'[t]) /\ \A q \in CheckProcs : NonFinal(memory'[q][t]),
           \A t \in CheckTasks : PastRow(runner[t]) =>
              statusFile'[t].state \in Finals \/ t \in revived',
           \A t \in askedAtWork' : AskedRow(runner[t], statusFile'[t], rows[t]),
           \/ marker' = marker
           \/ marker'.task = NoCheck /\ (~crossed' => \A u \in CheckTasks : ~Checking(u)),
           CallerHeld(c)',
           c.pc = "mark" => \A q \in CheckProcs :
              q # p /\ caller[q].pc = "mark" => caller[q].task # c.task
    PROVE  CheckInv'
<1>0. /\ caller \in [CheckProcs -> CallerState] /\ runner \in [CheckTasks -> RunnerState]
      /\ LinkCheckTypeOK
  BY CheckParts DEF CheckInv
<1>1. /\ caller' \in [CheckProcs -> CallerState] /\ caller'[p] = c
      /\ \A q \in CheckProcs : q # p => caller'[q] = caller[q]
  BY <1>0
<1>2. LinkCheckTypeOK'
  BY <1>0, <1>1 DEF LinkCheckTypeOK
<1>3. /\ \A u \in CheckTasks : Checking(u)' <=> Checking(u)
      /\ \A u \in CheckTasks : AtWork(u)' <=> AtWork(u)
      /\ \A u \in CheckTasks : CheckOpen(u)' <=> CheckOpen(u)
  BY DEF Checking, AtWork, CheckOpen
<1>4. ASSUME NEW t \in CheckTasks
      PROVE  RunnerHeld(t)'
  <2>1. RunnerHeld(t) /\ runner'[t] = runner[t] /\ rows'[t] = rows[t]
    BY DEF CheckInv
  <2>2. PICK r \in RunnerState : r = runner[t] /\ r = runner'[t]
    BY <1>0, <2>1
  <2>3. /\ r.pc # "none" => statusFile'[t] # NoStatus
        /\ r.goal = "finally" => r.pc \in {"load", "store"}
        /\ rows'[t] # "none" => CheckedRow(r)
    BY <2>1, <2>2 DEF RunnerHeld
  <2>4. CheckOpen(t)' => /\ NonFinal(statusFile'[t]) /\ NonFinal(r.seen)
                         /\ \A q \in CheckProcs : NonFinal(memory'[q][t])
    BY <1>3, <2>1, <2>2 DEF RunnerHeld
  <2>5. /\ PastRow(r) => statusFile'[t].state \in Finals \/ t \in revived'
        /\ t \in askedAtWork' => AskedRow(r, statusFile'[t], rows'[t])
    BY <2>1, <2>2
  <2>6. r.pc = "unlink" /\ ~r.late /\ ~crossed' => \A u \in CheckTasks : ~Checking(u)'
    BY <1>3, <2>1, <2>2 DEF RunnerHeld
  <2>. QED
    BY <2>2, <2>3, <2>4, <2>5, <2>6 DEF RunnerHeld
<1>5. ASSUME NEW q \in CheckProcs
      PROVE  CallerHeld(caller[q])'
  <2>1. CASE q = p
    BY <1>1, <2>1
  <2>2. CASE q # p
    <3>1. PICK d \in CallerState : d = caller[q] /\ d = caller'[q]
      BY <1>0, <1>1, <2>2
    <3>2. CallerHeld(d)
      BY <3>1 DEF CheckInv
    <3>3. CallerHeld(d)'
      BY <1>3, <3>2 DEF CallerHeld, PidIsFree
    <3>. QED
      BY <3>1, <3>3
  <2>. QED
    BY <2>1, <2>2
<1>6. MarksApart'
  <2>1. ASSUME NEW a1 \in CheckProcs, NEW a2 \in CheckProcs, caller'[a1].pc = "mark",
               caller'[a2].pc = "mark", caller'[a1].task = caller'[a2].task, a1 # a2
        PROVE  FALSE
    <3>1. CASE a1 # p /\ a2 # p
      BY <1>1, <2>1, <3>1 DEF CheckInv, MarksApart
    <3>2. CASE a1 = p \/ a2 = p
      BY <1>1, <2>1, <3>2
    <3>. QED
      BY <3>1, <3>2
  <2>. QED
    BY <2>1 DEF MarksApart
<1>7. MarkerHeld'
  <2>1. CASE marker' = marker
    BY <2>1 DEF CheckInv, MarkerHeld, AtWork, PidIsFree
  <2>2. CASE marker'.task = NoCheck
    BY <2>2 DEF MarkerHeld
  <2>. QED
    BY <2>1, <2>2
<1>8. ~crossed' => \A u \in CheckTasks : Checking(u)' => marker'.task = u
  BY <1>3 DEF CheckInv
<1>. QED
  BY <1>2, <1>4, <1>5, <1>6, <1>7, <1>8 DEF CheckInv

(* What the last lemma asks of a step that writes no status.               *)
LEMMA StatusesStay ==
    ASSUME CheckInv
    PROVE  /\ \A t \in CheckTasks : CheckOpen(t) =>
                 NonFinal(statusFile[t]) /\ \A q \in CheckProcs : NonFinal(memory[q][t])
           /\ \A t \in CheckTasks : PastRow(runner[t]) =>
                 statusFile[t].state \in Finals \/ t \in revived
           /\ \A t \in askedAtWork : AskedRow(runner[t], statusFile[t], rows[t])
BY CheckParts DEF CheckInv, RunnerHeld

LEMMA CallerFacts ==
    ASSUME CheckInv, NEW p \in CheckProcs
    PROVE  caller[p] \in CallerState /\ CallerHeld(caller[p])
BY CheckParts DEF CheckInv

(* A caller reads the marker, or is told which task to look at.            *)
LEMMA CallerStartsKeep ==
    ASSUME CheckInv, NEW p \in CheckProcs, StartReads(p)
    PROVE  CheckInv'
<1>1. /\ UNCHANGED <<statusFile, memory, marker, runner, rows, pid, askedAtWork, revived, orphaned, crossed>>
      /\ checkAsks' \in Nat
  BY CheckParts DEF StartReads
<1>2. PICK m \in Marker : m = marker
  BY CheckParts
<1>3. PICK c \in CallerState :
        c = [IdleCaller EXCEPT !.op = "start", !.task = m.task, !.read = m,
                               !.pc = IF m.task = NoCheck THEN "create" ELSE "load"]
  BY CheckNames DEF IdleCaller, CallerState, Marker
<1>4. /\ c.op = "start" /\ c.task = m.task /\ c.late = FALSE
      /\ c.read = m
      /\ c.pc = IF m.task = NoCheck THEN "create" ELSE "load"
  BY <1>3 DEF IdleCaller
<1>5. caller' = [caller EXCEPT ![p] = c]
  BY <1>2, <1>3 DEF StartReads
<1>6. CallerHeld(c)'
  <2>1. m.task # NoCheck => /\ m.task \in CheckTasks /\ runner[m.task].pc # "none"
                            /\ runner[m.task].proc = m.proc
                            /\ AtWork(m.task) => ~PidIsFree(m)
    BY <1>2 DEF CheckInv, MarkerHeld, Marker
  <2>2. ~crossed => \A u \in CheckTasks : Checking(u) => m.task = u
    BY <1>2 DEF CheckInv
  <2>3. CallerHeld(c)
    BY CheckNames, <1>4, <2>1, <2>2 DEF CallerHeld
  <2>. QED
    BY <1>1, <2>3 DEF CallerHeld, AtWork, Checking, CheckOpen, PidIsFree
<1>7. /\ statusFile' \in [CheckTasks -> Status]
      /\ memory' \in [CheckProcs -> [CheckTasks -> Status]]
      /\ marker' \in Marker /\ crossed' \in BOOLEAN /\ (crossed => crossed')
      /\ askedAtWork' \subseteq CheckTasks /\ revived' \subseteq CheckTasks
      /\ revived \subseteq revived' /\ UNCHANGED <<runner, rows, pid, orphaned>> /\ marker' = marker
  BY <1>1, CheckParts
<1>8. /\ \A t \in CheckTasks : statusFile[t] # NoStatus => statusFile'[t] # NoStatus
      /\ \A t \in CheckTasks : CheckOpen(t) =>
            NonFinal(statusFile'[t]) /\ \A q \in CheckProcs : NonFinal(memory'[q][t])
      /\ \A t \in CheckTasks : PastRow(runner[t]) =>
            statusFile'[t].state \in Finals \/ t \in revived'
      /\ \A t \in askedAtWork' : AskedRow(runner[t], statusFile'[t], rows[t])
  BY <1>1, StatusesStay
<1>9. c.pc # "mark"
  BY <1>4
<1>. QED
  BY <1>1, <1>5, <1>6, <1>7, <1>8, <1>9, CallerMoves

LEMMA CallerAsksKeep ==
    ASSUME CheckInv, NEW p \in CheckProcs, NEW op \in {"stop", "poll"}, NEW k \in CheckTasks,
           AskStatus(p, op, k)
    PROVE  CheckInv'
<1>1. /\ UNCHANGED <<statusFile, memory, marker, runner, rows, pid, askedAtWork, revived, orphaned, crossed>>
      /\ checkAsks' \in Nat
  BY CheckParts DEF AskStatus
<1>3. PICK c \in CallerState : c = [IdleCaller EXCEPT !.op = op, !.task = k, !.pc = "load"]
  BY CheckNames DEF IdleCaller, CallerState
<1>4. c.op = op /\ c.task = k /\ c.pc = "load"
  BY <1>3 DEF IdleCaller
<1>5. caller' = [caller EXCEPT ![p] = c]
  BY <1>3 DEF AskStatus
<1>6. CallerHeld(c)'
  BY <1>4 DEF CallerHeld
<1>7. /\ statusFile' \in [CheckTasks -> Status]
      /\ memory' \in [CheckProcs -> [CheckTasks -> Status]]
      /\ marker' \in Marker /\ crossed' \in BOOLEAN /\ (crossed => crossed')
      /\ askedAtWork' \subseteq CheckTasks /\ revived' \subseteq CheckTasks
      /\ revived \subseteq revived' /\ UNCHANGED <<runner, rows, pid, orphaned>> /\ marker' = marker
  BY <1>1, CheckParts
<1>8. /\ \A t \in CheckTasks : statusFile[t] # NoStatus => statusFile'[t] # NoStatus
      /\ \A t \in CheckTasks : CheckOpen(t) =>
            NonFinal(statusFile'[t]) /\ \A q \in CheckProcs : NonFinal(memory'[q][t])
      /\ \A t \in CheckTasks : PastRow(runner[t]) =>
            statusFile'[t].state \in Finals \/ t \in revived'
      /\ \A t \in askedAtWork' : AskedRow(runner[t], statusFile'[t], rows[t])
  BY <1>1, StatusesStay
<1>9. c.pc # "mark"
  BY <1>4
<1>. QED
  BY <1>1, <1>5, <1>6, <1>7, <1>8, <1>9, CallerMoves

(* The record of a caller after a step that changes one or two fields.     *)
LEMMA CallerGoes ==
    ASSUME CheckInv, NEW p \in CheckProcs,
           NEW pc \in {"create", "unlink", "clear"}, Goes(p, pc)
    PROVE  \E c \in CallerState :
              /\ caller' = [caller EXCEPT ![p] = c] /\ c.pc = pc
              /\ c.op = caller[p].op /\ c.task = caller[p].task
              /\ c.read = caller[p].read /\ c.late = caller[p].late
<1>1. PICK d \in CallerState : d = caller[p]
  BY CallerFacts
<1>2. PICK c \in CallerState : c = [d EXCEPT !.pc = pc]
  BY DEF CallerState
<1>3. c.pc = pc /\ c.op = d.op /\ c.task = d.task /\ c.read = d.read /\ c.late = d.late
  BY <1>2 DEF CallerState
<1>4. caller' = [caller EXCEPT ![p] = c]
  BY <1>1, <1>2, CheckParts DEF Goes
<1>. QED
  BY <1>1, <1>3, <1>4

LEMMA CallerLoadsKeep ==
    ASSUME CheckInv, NEW p \in CheckProcs, CallerLoads(p)
    PROVE  CheckInv'
<1>1. /\ UNCHANGED <<statusFile, memory, marker, runner, rows, checkAsks, pid, askedAtWork,
                     revived, orphaned, crossed>>
      /\ checkAsks' \in Nat
  BY CheckParts DEF CallerLoads
<1>2. PICK d \in CallerState : d = caller[p] /\ d.pc = "load" /\ CallerHeld(d)
  BY CallerFacts DEF CallerLoads
<1>3. d.task \in CheckTasks /\ statusFile[d.task] \in Status
  BY <1>2, CheckParts DEF CallerHeld
<1>4. PICK c \in CallerState : c = [d EXCEPT !.pc = "store", !.seen = statusFile[d.task]]
  BY <1>3 DEF CallerState
<1>5. /\ c.pc = "store" /\ c.op = d.op /\ c.task = d.task /\ c.read = d.read /\ c.late = d.late
      /\ c.seen = statusFile[d.task]
  BY <1>4 DEF CallerState
<1>6. caller' = [caller EXCEPT ![p] = c]
  <2>1. caller' = [caller EXCEPT ![p].pc = "store", ![p].seen = statusFile[caller[p].task]]
    BY DEF CallerLoads
  <2>2. caller' = [caller EXCEPT ![p] = [d EXCEPT !.pc = "store", !.seen = statusFile[d.task]]]
    BY <1>2, <2>1, CheckParts
  <2>. QED
    BY <1>4, <2>2
<1>7. CallerHeld(c)'
  <2>1. CheckOpen(d.task) => NonFinal(statusFile[d.task])
    BY <1>3, StatusesStay
  <2>2. CallerHeld(c)
    BY <1>2, <1>5, <2>1 DEF CallerHeld
  <2>. QED
    BY <1>1, <2>2 DEF CallerHeld, AtWork, Checking, CheckOpen, PidIsFree
<1>8. /\ statusFile' \in [CheckTasks -> Status]
      /\ memory' \in [CheckProcs -> [CheckTasks -> Status]]
      /\ marker' \in Marker /\ crossed' \in BOOLEAN /\ (crossed => crossed')
      /\ askedAtWork' \subseteq CheckTasks /\ revived' \subseteq CheckTasks
      /\ revived \subseteq revived' /\ UNCHANGED <<runner, rows, pid, orphaned>> /\ marker' = marker
  BY <1>1, CheckParts
<1>9. /\ \A t \in CheckTasks : statusFile[t] # NoStatus => statusFile'[t] # NoStatus
      /\ \A t \in CheckTasks : CheckOpen(t) =>
            NonFinal(statusFile'[t]) /\ \A q \in CheckProcs : NonFinal(memory'[q][t])
      /\ \A t \in CheckTasks : PastRow(runner[t]) =>
            statusFile'[t].state \in Finals \/ t \in revived'
      /\ \A t \in askedAtWork' : AskedRow(runner[t], statusFile'[t], rows[t])
  BY <1>1, StatusesStay
<1>10. c.pc # "mark"
  BY <1>5
<1>. QED
  BY <1>1, <1>6, <1>7, <1>8, <1>9, <1>10, CallerMoves

LEMMA CallerClearsKeep ==
    ASSUME CheckInv, NEW p \in CheckProcs, CallerClears(p)
    PROVE  CheckInv'
<1>1. /\ UNCHANGED <<statusFile, memory, marker, runner, rows, checkAsks, pid, askedAtWork,
                     revived, orphaned, crossed>>
      /\ checkAsks' \in Nat
  BY CheckParts DEF CallerClears
<1>2. PICK d \in CallerState : d = caller[p] /\ d.pc = "clear" /\ CallerHeld(d)
  BY CallerFacts DEF CallerClears
<1>3. PICK c \in CallerState :
        /\ caller' = [caller EXCEPT ![p] = c] /\ c.pc \in {"unlink", "create"}
        /\ c.op = d.op /\ c.task = d.task /\ c.read = d.read /\ c.late = d.late
  <2>1. Goes(p, "unlink") \/ Goes(p, "create")
    BY DEF CallerClears
  <2>. QED
    BY <1>2, <2>1, CallerGoes
<1>4. CallerHeld(c)'
  <2>1. CallerHeld(c)
    BY <1>2, <1>3 DEF CallerHeld
  <2>. QED
    BY <1>1, <2>1 DEF CallerHeld, AtWork, Checking, CheckOpen, PidIsFree
<1>5. /\ statusFile' \in [CheckTasks -> Status]
      /\ memory' \in [CheckProcs -> [CheckTasks -> Status]]
      /\ marker' \in Marker /\ crossed' \in BOOLEAN /\ (crossed => crossed')
      /\ askedAtWork' \subseteq CheckTasks /\ revived' \subseteq CheckTasks
      /\ revived \subseteq revived' /\ UNCHANGED <<runner, rows, pid, orphaned>> /\ marker' = marker
  BY <1>1, CheckParts
<1>6. /\ \A t \in CheckTasks : statusFile[t] # NoStatus => statusFile'[t] # NoStatus
      /\ \A t \in CheckTasks : CheckOpen(t) =>
            NonFinal(statusFile'[t]) /\ \A q \in CheckProcs : NonFinal(memory'[q][t])
      /\ \A t \in CheckTasks : PastRow(runner[t]) =>
            statusFile'[t].state \in Finals \/ t \in revived'
      /\ \A t \in askedAtWork' : AskedRow(runner[t], statusFile'[t], rows[t])
  BY <1>1, StatusesStay
<1>7. c.pc # "mark"
  BY <1>3
<1>. QED
  BY <1>1, <1>3, <1>4, <1>5, <1>6, <1>7, CallerMoves

LEMMA CallerUnlinksKeep ==
    ASSUME CheckInv, NEW p \in CheckProcs, CallerUnlinks(p)
    PROVE  CheckInv'
<1>1. /\ UNCHANGED <<statusFile, memory, runner, rows, checkAsks, pid, askedAtWork, revived, orphaned>>
      /\ checkAsks' \in Nat /\ marker' = NoMarker /\ crossed' = (crossed \/ caller[p].late)
  BY CheckParts DEF CallerUnlinks
<1>2. PICK d \in CallerState : d = caller[p] /\ d.pc = "unlink" /\ CallerHeld(d)
  BY CallerFacts DEF CallerUnlinks
<1>3. PICK c \in CallerState :
        /\ caller' = [caller EXCEPT ![p] = c] /\ c.pc = "create"
        /\ c.op = d.op /\ c.task = d.task /\ c.read = d.read /\ c.late = d.late
  <2>1. Goes(p, "create")
    BY DEF CallerUnlinks
  <2>. QED
    BY <1>2, <2>1, CallerGoes
<1>4. d.late \in BOOLEAN /\ crossed \in BOOLEAN /\ crossed' \in BOOLEAN
      /\ (crossed => crossed') /\ (~crossed' => ~crossed /\ ~d.late)
  <2>1. d.late \in BOOLEAN /\ crossed \in BOOLEAN
    BY CheckParts DEF CallerState
  <2>2. crossed' = (crossed \/ d.late)
    BY <1>1, <1>2
  <2>. QED
    BY Zenon, <2>1, <2>2
<1>5. ~crossed' => \A u \in CheckTasks : ~Checking(u)
  BY <1>2, <1>4 DEF CallerHeld
<1>6. CallerHeld(c)'
  <2>1. CallerHeld(c)
    BY <1>2, <1>3 DEF CallerHeld
  <2>. QED
    BY <1>1, <1>4, <2>1 DEF CallerHeld, AtWork, Checking, CheckOpen, PidIsFree
<1>7. /\ statusFile' \in [CheckTasks -> Status]
      /\ memory' \in [CheckProcs -> [CheckTasks -> Status]]
      /\ marker' \in Marker /\ marker'.task = NoCheck
      /\ askedAtWork' \subseteq CheckTasks /\ revived' \subseteq CheckTasks
      /\ revived \subseteq revived' /\ UNCHANGED <<runner, rows, pid, orphaned>>
  BY <1>1, CheckParts, CheckNames DEF NoMarker
<1>8. /\ \A t \in CheckTasks : statusFile[t] # NoStatus => statusFile'[t] # NoStatus
      /\ \A t \in CheckTasks : CheckOpen(t) =>
            NonFinal(statusFile'[t]) /\ \A q \in CheckProcs : NonFinal(memory'[q][t])
      /\ \A t \in CheckTasks : PastRow(runner[t]) =>
            statusFile'[t].state \in Finals \/ t \in revived'
      /\ \A t \in askedAtWork' : AskedRow(runner[t], statusFile'[t], rows[t])
  BY <1>1, StatusesStay
<1>9. c.pc # "mark"
  BY <1>3
<1>. QED
  BY <1>1, <1>3, <1>4, <1>5, <1>6, <1>7, <1>8, <1>9, CallerMoves

(* A caller finds that the task it asked about is not being checked.       *)
LEMMA NoneChecking ==
    ASSUME CheckInv, NEW d \in CallerState, CallerHeld(d), d.op = "start",
           d.pc \in {"load", "store", "recover", "clear", "unlink"},
           ~CheckOpen(d.task), ~d.late, ~crossed
    PROVE  \A u \in CheckTasks : ~Checking(u)
BY DEF CallerHeld, CheckOpen

(* What it has read is stored, and decides what it does next.              *)
LEMMA CallerStoresKeep ==
    ASSUME CheckInv, NEW p \in CheckProcs, CallerStores(p)
    PROVE  CheckInv'
<1>1. /\ UNCHANGED <<statusFile, marker, runner, rows, checkAsks, pid, askedAtWork,
                     revived, orphaned, crossed>>
      /\ checkAsks' \in Nat
  BY CheckParts DEF CallerStores
<1>2. PICK d \in CallerState : d = caller[p] /\ d.pc = "store" /\ CallerHeld(d)
  BY CallerFacts DEF CallerStores
<1>3. /\ d.task \in CheckTasks /\ d.seen \in Status
      /\ CheckOpen(d.task) => NonFinal(d.seen)
      /\ memory \in [CheckProcs -> [CheckTasks -> Status]]
  BY <1>2, CheckParts DEF CallerHeld, CallerState
<1>4. /\ memory' \in [CheckProcs -> [CheckTasks -> Status]]
      /\ \A q \in CheckProcs, u \in CheckTasks : memory'[q][u] \in {memory[q][u], d.seen}
      /\ \A q \in CheckProcs, u \in CheckTasks : u # d.task => memory'[q][u] = memory[q][u]
  <2>1. Store(p, d.task, d.seen)
    BY <1>2 DEF CallerStores
  <2>. QED
    BY <1>3, <2>1 DEF Store
<1>0. PICK gone \in {FALSE, PidIsFree(d.read)} :
         caller' = [caller EXCEPT ![p] = IF Decision(d, gone) = "idle" THEN IdleCaller
                                         ELSE [d EXCEPT !.pc = Decision(d, gone), !.seen = NoStatus,
                                                        !.read = NoMarker]]
  BY <1>2, CheckParts DEF CallerStores
<1>5. Decision(d, gone) \in {"idle", "stop", "clear", "recover"}
      /\ (Decision(d, gone) \in {"clear", "recover"} => d.op = "start")
      /\ (Decision(d, gone) = "clear" => d.seen.state \in Finals)
      /\ (Decision(d, gone) = "recover" => PidIsFree(d.read))
      /\ (Decision(d, gone) = "stop" => d.op = "stop")
  <2>1. d.op \in {"poll", "stop", "start"}
    BY DEF CallerState
  <2>. QED
    BY <1>0, <2>1 DEF Decision
<1>6. PICK c \in CallerState :
        /\ caller' = [caller EXCEPT ![p] = c]
        /\ \/ c.pc = "idle" /\ c.op = "poll"
           \/ /\ c.pc = Decision(d, gone) /\ c.pc # "idle"
              /\ c.op = d.op /\ c.task = d.task /\ c.late = d.late
  <2>2. CASE Decision(d, gone) = "idle"
    <3>1. caller' = [caller EXCEPT ![p] = IdleCaller]
      BY <1>0, <2>2
    <3>2. IdleCaller \in CallerState /\ IdleCaller.pc = "idle" /\ IdleCaller.op = "poll"
      BY CheckNames DEF IdleCaller
    <3>. QED
      BY <3>1, <3>2
  <2>3. CASE Decision(d, gone) # "idle"
    <3>1. PICK c \in CallerState : c = [d EXCEPT !.pc = Decision(d, gone), !.seen = NoStatus,
                                                  !.read = NoMarker]
      BY <1>5, CheckNames DEF CallerState
    <3>2. c.pc = Decision(d, gone) /\ c.op = d.op /\ c.task = d.task /\ c.late = d.late
      BY <3>1 DEF CallerState
    <3>3. caller' = [caller EXCEPT ![p] = c]
      BY <1>0, <2>3, <3>1
    <3>. QED
      BY <2>3, <3>2, <3>3
  <2>. QED
    BY <2>2, <2>3
<1>7. c.pc \notin {"mark", "load", "store", "create", "unlink"}
  BY <1>5, <1>6
<1>8. CallerHeld(c)'
  <2>1. c.op = "start" => /\ c.pc \in {"clear", "recover"} /\ c.task = d.task /\ d.op = "start"
                          /\ c.late = d.late /\ ~CheckOpen(d.task)
                          /\ c.pc = "recover" => ~AtWork(d.task)
    <3>1. d.op = "start" => runner[d.task].pc # "none" /\ (PidIsFree(d.read) => ~AtWork(d.task))
      BY <1>2 DEF CallerHeld
    <3>2. d.op = "start" /\ Decision(d, gone) = "clear" => ~CheckOpen(d.task)
      BY <1>3, <1>5 DEF NonFinal
    <3>3. d.op = "start" /\ Decision(d, gone) = "recover" => ~CheckOpen(d.task)
      BY <1>5, <3>1 DEF CheckOpen, Checking
    <3>. QED
      BY <1>5, <1>6, <3>1, <3>2, <3>3
  <2>2. c.op = "start" /\ ~c.late /\ ~crossed => \A u \in CheckTasks : ~Checking(u)
    BY <1>2, <2>1, NoneChecking
  <2>3. CallerHeld(c)
    BY <1>2, <1>3, <1>5, <1>6, <1>7, <2>1, <2>2 DEF CallerHeld
  <2>. QED
    BY <1>1, <2>3 DEF CallerHeld, AtWork, Checking, CheckOpen, PidIsFree
<1>9. /\ statusFile' \in [CheckTasks -> Status]
      /\ marker' \in Marker /\ crossed' \in BOOLEAN /\ (crossed => crossed')
      /\ askedAtWork' \subseteq CheckTasks /\ revived' \subseteq CheckTasks
      /\ revived \subseteq revived' /\ UNCHANGED <<runner, rows, pid, orphaned>> /\ marker' = marker
  BY <1>1, CheckParts
<1>10. /\ \A t \in CheckTasks : statusFile[t] # NoStatus => statusFile'[t] # NoStatus
       /\ \A t \in CheckTasks : PastRow(runner[t]) =>
             statusFile'[t].state \in Finals \/ t \in revived'
       /\ \A t \in askedAtWork' : AskedRow(runner[t], statusFile'[t], rows[t])
  BY <1>1, StatusesStay
<1>11. \A t \in CheckTasks : CheckOpen(t) =>
          NonFinal(statusFile'[t]) /\ \A q \in CheckProcs : NonFinal(memory'[q][t])
  BY <1>1, <1>3, <1>4, StatusesStay
<1>. QED
  BY <1>1, <1>4, <1>6, <1>7, <1>8, <1>9, <1>10, <1>11, CallerMoves

(* A status is written to the memory of one process and to its file.       *)
LEMMA StatusWritten ==
    ASSUME CheckInv, NEW p \in CheckProcs, NEW t \in CheckTasks, NEW s \in Status, Write(p, t, s)
    PROVE  /\ statusFile' \in [CheckTasks -> Status] /\ statusFile'[t] = s
           /\ memory' \in [CheckProcs -> [CheckTasks -> Status]]
           /\ \A u \in CheckTasks : u # t => statusFile'[u] = statusFile[u]
           /\ \A u \in CheckTasks : CheckOpen(u) /\ (u = t => NonFinal(s)) =>
                 NonFinal(statusFile'[u]) /\ \A q \in CheckProcs : NonFinal(memory'[q][u])
<1>1. /\ statusFile' \in [CheckTasks -> Status] /\ statusFile'[t] = s
      /\ \A u \in CheckTasks : u # t => statusFile'[u] = statusFile[u]
  BY CheckParts DEF Write
<1>2. /\ memory' \in [CheckProcs -> [CheckTasks -> Status]]
      /\ \A q \in CheckProcs, u \in CheckTasks : memory'[q][u] \in {memory[q][u], s}
      /\ \A q \in CheckProcs, u \in CheckTasks : u # t => memory'[q][u] = memory[q][u]
  BY CheckParts DEF Write
<1>3. \A u \in CheckTasks : CheckOpen(u) /\ (u = t => NonFinal(s)) =>
         NonFinal(statusFile'[u]) /\ \A q \in CheckProcs : NonFinal(memory'[q][u])
  BY <1>1, <1>2, StatusesStay
<1>. QED
  BY <1>1, <1>2, <1>3

(* The request to stop is written, whatever state the task is in by now.   *)
LEMMA StopWritesKeep ==
    ASSUME CheckInv, NEW p \in CheckProcs, StopWrites(p)
    PROVE  CheckInv'
<1>1. PICK d \in CallerState : d = caller[p] /\ d.pc = "stop" /\ CallerHeld(d)
  BY CallerFacts DEF StopWrites
<1>2. PICK t \in CheckTasks : t = d.task
  BY <1>1 DEF CallerHeld
<1>3. PICK s \in Status : /\ s = [state |-> "stopping", stop |-> TRUE] /\ NonFinal(s) /\ s # NoStatus
                          /\ s.stop /\ s.state # "completed"
  <2> DEFINE s0 == [state |-> "stopping", stop |-> TRUE]
  <2>1. s0 \in Status
    BY DEF Status, States
  <2>2. NonFinal(s0) /\ s0 # NoStatus /\ s0.stop /\ s0.state # "completed"
    BY DEF NonFinal, Finals, NoStatus
  <2>. QED
    BY <2>1, <2>2
<1>4. /\ Write(p, t, s) /\ UNCHANGED <<marker, runner, rows, checkAsks, pid, orphaned, crossed>>
      /\ checkAsks' \in Nat
      /\ askedAtWork' = IF runner[t].pc = "work" THEN askedAtWork \cup {t} ELSE askedAtWork
      /\ revived' = IF statusFile[t].state \in Finals THEN revived \cup {t} ELSE revived
      /\ caller' = [caller EXCEPT ![p] = IdleCaller]
  <2>1. /\ Write(p, t, [state |-> "stopping", stop |-> TRUE])
        /\ UNCHANGED <<marker, runner, rows, checkAsks, pid, orphaned, crossed>>
        /\ askedAtWork' = IF runner[t].pc = "work" THEN askedAtWork \cup {t} ELSE askedAtWork
        /\ revived' = IF statusFile[t].state \in Finals THEN revived \cup {t} ELSE revived
        /\ caller' = [caller EXCEPT ![p] = IdleCaller]
    BY <1>1, <1>2 DEF StopWrites
  <2>. QED
    BY <1>3, <2>1, CheckParts
<1>5. /\ statusFile' \in [CheckTasks -> Status] /\ statusFile'[t] = s
      /\ memory' \in [CheckProcs -> [CheckTasks -> Status]]
      /\ \A u \in CheckTasks : u # t => statusFile'[u] = statusFile[u]
      /\ \A u \in CheckTasks : CheckOpen(u) =>
            NonFinal(statusFile'[u]) /\ \A q \in CheckProcs : NonFinal(memory'[q][u])
  BY <1>3, <1>4, StatusWritten
<1>6. IdleCaller \in CallerState /\ CallerHeld(IdleCaller)' /\ IdleCaller.pc # "mark"
  BY CheckNames DEF IdleCaller, CallerHeld
<1>7. \A u \in CheckTasks : PastRow(runner[u]) => statusFile'[u].state \in Finals \/ u \in revived'
  BY <1>4, <1>5, StatusesStay
<1>8. ASSUME NEW u \in askedAtWork'
      PROVE  AskedRow(runner[u], statusFile'[u], rows[u])
  <2>1. u \in CheckTasks /\ (u # t => u \in askedAtWork)
    BY <1>4, CheckParts
  <2>2. PICK r \in RunnerState, kept \in {"none", "stats", "full"} : r = runner[u] /\ kept = rows[u]
    BY <2>1, CheckParts
  <2>3. CASE u # t
    BY <1>5, <2>1, <2>3, StatusesStay
  <2>4. CASE u = t /\ u \in askedAtWork
    <3>1. AskedRow(r, statusFile[u], kept)
      BY <2>2, <2>4, StatusesStay
    <3>2. AskedRow(r, s, kept)
      BY <1>3, <3>1 DEF AskedRow
    <3>. QED
      BY <1>5, <2>2, <2>4, <3>2
  <2>5. CASE u = t /\ u \notin askedAtWork
    <3>1. r.pc = "work"
      BY <1>4, <2>2, <2>5
    <3>2. kept # "none" => CheckedRow(r)
      BY <2>1, <2>2 DEF CheckInv, RunnerHeld
    <3>3. kept = "none"
      BY <3>1, <3>2 DEF CheckedRow
    <3>4. AskedRow(r, s, kept)
      BY <1>3, <3>1, <3>3 DEF AskedRow
    <3>. QED
      BY <1>5, <2>2, <2>5, <3>4
  <2>. QED
    BY <2>3, <2>4, <2>5
<1>9. /\ marker' \in Marker /\ crossed' \in BOOLEAN /\ (crossed => crossed')
      /\ askedAtWork' \subseteq CheckTasks /\ revived' \subseteq CheckTasks
      /\ revived \subseteq revived' /\ UNCHANGED <<runner, rows, pid, orphaned>> /\ marker' = marker
  BY <1>4, CheckParts
<1>10. \A u \in CheckTasks : statusFile[u] # NoStatus => statusFile'[u] # NoStatus
  BY <1>3, <1>5
<1>. QED
  BY <1>4, <1>5, <1>6, <1>7, <1>8, <1>9, <1>10, CallerMoves

(* A task whose owner is gone is put down as stopped.                      *)
LEMMA RecoverKeeps ==
    ASSUME CheckInv, NEW p \in CheckProcs, Recover(p)
    PROVE  CheckInv'
<1>1. PICK d \in CallerState : d = caller[p] /\ d.pc = "recover" /\ CallerHeld(d)
  BY CallerFacts DEF Recover
<1>2. PICK t \in CheckTasks : t = d.task
  BY <1>1 DEF CallerHeld
<1>3. PICK s \in Status : /\ s = [state |-> "stopped", stop |-> TRUE] /\ s # NoStatus
                          /\ s.stop /\ s.state # "completed" /\ s.state \in Finals
  <2> DEFINE s0 == [state |-> "stopped", stop |-> TRUE]
  <2>1. s0 \in Status
    BY DEF Status, States
  <2>2. s0 # NoStatus /\ s0.stop /\ s0.state # "completed" /\ s0.state \in Finals
    BY DEF NonFinal, Finals, NoStatus
  <2>. QED
    BY <2>1, <2>2
<1>4. /\ Write(p, t, s)
      /\ UNCHANGED <<marker, runner, rows, checkAsks, pid, askedAtWork, revived, orphaned, crossed>>
      /\ checkAsks' \in Nat /\ Goes(p, "clear")
  BY <1>1, <1>2, <1>3, CheckParts DEF Recover
<1>5. /\ statusFile' \in [CheckTasks -> Status] /\ statusFile'[t] = s
      /\ memory' \in [CheckProcs -> [CheckTasks -> Status]]
      /\ \A u \in CheckTasks : u # t => statusFile'[u] = statusFile[u]
      /\ \A u \in CheckTasks : CheckOpen(u) /\ (u = t => NonFinal(s)) =>
            NonFinal(statusFile'[u]) /\ \A q \in CheckProcs : NonFinal(memory'[q][u])
  BY <1>3, <1>4, StatusWritten
<1>6. ~CheckOpen(t)
  BY <1>1, <1>2 DEF CallerHeld, CheckOpen, Checking
<1>7. PICK c \in CallerState :
        /\ caller' = [caller EXCEPT ![p] = c] /\ c.pc = "clear"
        /\ c.op = d.op /\ c.task = d.task /\ c.read = d.read /\ c.late = d.late
  BY <1>1, <1>4, CallerGoes
<1>8. CallerHeld(c)'
  <2>1. CallerHeld(c)
    BY <1>1, <1>7 DEF CallerHeld
  <2>. QED
    BY <1>4, <1>7, <2>1 DEF CallerHeld, AtWork, Checking, CheckOpen, PidIsFree
<1>9. \A u \in CheckTasks : PastRow(runner[u]) => statusFile'[u].state \in Finals \/ u \in revived'
  BY <1>3, <1>4, <1>5, StatusesStay
<1>10. ASSUME NEW u \in askedAtWork'
       PROVE  AskedRow(runner[u], statusFile'[u], rows[u])
  <2>1. u \in CheckTasks /\ u \in askedAtWork
    BY <1>4, CheckParts
  <2>2. PICK r \in RunnerState, kept \in {"none", "stats", "full"} : r = runner[u] /\ kept = rows[u]
    BY <2>1, CheckParts
  <2>3. AskedRow(r, statusFile[u], kept)
    BY <2>1, <2>2, StatusesStay
  <2>4. AskedRow(r, s, kept)
    BY <1>3, <2>3 DEF AskedRow
  <2>. QED
    BY <1>5, <2>1, <2>2, <2>3, <2>4
<1>11. /\ marker' \in Marker /\ crossed' \in BOOLEAN /\ (crossed => crossed')
       /\ askedAtWork' \subseteq CheckTasks /\ revived' \subseteq CheckTasks
       /\ revived \subseteq revived' /\ UNCHANGED <<runner, rows, pid, orphaned>> /\ marker' = marker
  BY <1>4, CheckParts
<1>12. /\ \A u \in CheckTasks : statusFile[u] # NoStatus => statusFile'[u] # NoStatus
       /\ \A u \in CheckTasks : CheckOpen(u) =>
             NonFinal(statusFile'[u]) /\ \A q \in CheckProcs : NonFinal(memory'[q][u])
  BY <1>3, <1>5, <1>6
<1>13. c.pc # "mark"
  BY <1>7
<1>. QED
  BY <1>4, <1>5, <1>7, <1>8, <1>9, <1>10, <1>11, <1>12, <1>13, CallerMoves

(* A task is created, with a status but no thread yet.                     *)
LEMMA CreateKeeps ==
    ASSUME CheckInv, NEW p \in CheckProcs, NEW t \in CheckTasks, Create(p, t)
    PROVE  CheckInv'
<1>1. PICK d \in CallerState : d = caller[p] /\ d.pc = "create" /\ CallerHeld(d)
  BY CallerFacts DEF Create
<1>3. PICK s \in Status : s = [state |-> "running", stop |-> FALSE] /\ s # NoStatus /\ NonFinal(s)
  <2> DEFINE s0 == [state |-> "running", stop |-> FALSE]
  <2>1. s0 \in Status
    BY DEF Status, States
  <2>2. NonFinal(s0) /\ s0 # NoStatus
    BY DEF NonFinal, Finals, NoStatus
  <2>. QED
    BY <2>1, <2>2
<1>4. /\ Write(p, t, s) /\ runner[t].pc = "none" /\ statusFile[t] = NoStatus
      /\ UNCHANGED <<marker, runner, rows, checkAsks, pid, askedAtWork, revived, orphaned, crossed>>
      /\ checkAsks' \in Nat
  BY <1>3, CheckParts DEF Create
<1>5. /\ statusFile' \in [CheckTasks -> Status] /\ statusFile'[t] = s
      /\ memory' \in [CheckProcs -> [CheckTasks -> Status]]
      /\ \A u \in CheckTasks : u # t => statusFile'[u] = statusFile[u]
      /\ \A u \in CheckTasks : CheckOpen(u) =>
            NonFinal(statusFile'[u]) /\ \A q \in CheckProcs : NonFinal(memory'[q][u])
  BY <1>3, <1>4, StatusWritten
<1>6. PICK c \in CallerState : c = [d EXCEPT !.pc = "mark", !.task = t]
  BY DEF CallerState
<1>7. c.pc = "mark" /\ c.op = d.op /\ c.task = t /\ c.late = d.late
  BY <1>6 DEF CallerState
<1>8. caller' = [caller EXCEPT ![p] = c]
  <2>1. caller' = [caller EXCEPT ![p].pc = "mark", ![p].task = t]
    BY DEF Create
  <2>2. caller' = [caller EXCEPT ![p] = [d EXCEPT !.pc = "mark", !.task = t]]
    BY <1>1, <2>1, CheckParts
  <2>. QED
    BY <1>6, <2>2
<1>9. CallerHeld(c)'
  <2>1. /\ c.op = "start" /\ c.task \in CheckTasks /\ runner'[c.task].pc = "none"
        /\ statusFile'[c.task] # NoStatus
    BY <1>1, <1>3, <1>4, <1>5, <1>7 DEF CallerHeld
  <2>2. ~c.late /\ ~crossed' => \A u \in CheckTasks : ~Checking(u)'
    BY <1>1, <1>4, <1>7 DEF CallerHeld, Checking, AtWork
  <2>. QED
    BY <1>7, <2>1, <2>2 DEF CallerHeld
<1>10. \A q \in CheckProcs : q # p /\ caller[q].pc = "mark" => caller[q].task # c.task
  <2>1. ASSUME NEW q \in CheckProcs, caller[q].pc = "mark"
        PROVE  statusFile[caller[q].task] # NoStatus
    BY <2>1, CallerFacts DEF CallerHeld
  <2>. QED
    BY <1>4, <1>7, <2>1
<1>11. /\ \A u \in CheckTasks : PastRow(runner[u]) => u # t
       /\ \A u \in askedAtWork : u # t
  <2>1. /\ \A u \in CheckTasks : PastRow(runner[u]) => u # t
    BY <1>4 DEF PastRow
  <2>2. ASSUME t \in askedAtWork
        PROVE  FALSE
    BY <1>4, <2>2, StatusesStay DEF AskedRow, PastRow
  <2>. QED
    BY <2>1, <2>2
<1>12. /\ \A u \in CheckTasks : PastRow(runner[u]) =>
             statusFile'[u].state \in Finals \/ u \in revived'
       /\ \A u \in askedAtWork' : AskedRow(runner[u], statusFile'[u], rows[u])
  BY <1>4, <1>5, <1>11, StatusesStay, CheckParts
<1>13. /\ marker' \in Marker /\ crossed' \in BOOLEAN /\ (crossed => crossed')
       /\ askedAtWork' \subseteq CheckTasks /\ revived' \subseteq CheckTasks
       /\ revived \subseteq revived' /\ UNCHANGED <<runner, rows, pid, orphaned>> /\ marker' = marker
  BY <1>4, CheckParts
<1>14. \A u \in CheckTasks : statusFile[u] # NoStatus => statusFile'[u] # NoStatus
  BY <1>3, <1>5
<1>. QED
  BY <1>4, <1>5, <1>8, <1>9, <1>10, <1>12, <1>13, <1>14, CallerMoves

LEMMA ThreadUnlinks ==
    ASSUME CheckInv, NEW t \in CheckTasks, RunnerUnlinks(t)
    PROVE  CheckInv'
<1>0. AtWork(t) /\ runner[t].pc = "unlink" /\ ~Checking(t)
  BY DEF RunnerUnlinks, At, AtWork, Checking
<1>1. PICK r0 \in RunnerState, s \in Status, kept \in {"none", "stats", "full"} :
        /\ r0 = runner[t] /\ s = statusFile[t] /\ kept = rows[t] /\ s # NoStatus
        /\ statusFile = [statusFile EXCEPT ![t] = s] /\ rows = [rows EXCEPT ![t] = kept]
  BY <1>0, ThreadFacts
<1>2. /\ PastRow(r0) /\ (s.state \in Finals \/ t \in revived)
      /\ (t \in askedAtWork => kept = "none" /\ s.state # "completed")
      /\ (~r0.late /\ ~crossed => \A u \in CheckTasks : ~Checking(u))
  <2>1. PastRow(r0)
    BY <1>0, <1>1 DEF PastRow
  <2>. QED
    BY <1>0, <1>1, <2>1, ThreadFacts DEF RunnerHeld, AskedRow
<1>3. /\ UNCHANGED <<statusFile, memory, rows, caller, checkAsks, pid, askedAtWork, revived, orphaned>>
      /\ memory \in [CheckProcs -> [CheckTasks -> Status]]
      /\ marker' = NoMarker /\ crossed' = (crossed \/ r0.late) /\ Leaves(t)
  BY <1>1, CheckParts DEF RunnerUnlinks
<1>4. PICK r \in RunnerState :
        /\ runner' = [runner EXCEPT ![t] = r] /\ r.proc = r0.proc /\ PastRow(r)
        /\ r.pc \in {"load", "done"} /\ (r.goal = "finally" => r.pc = "load")
  BY <1>0, <1>1, <1>3, ThreadLeaves
<1>5. CheckedRow(r) /\ (t \in askedAtWork => AskedRow(r, s, kept))
  BY <1>2, <1>4 DEF PastRow, CheckedRow, AskedRow
<1>6. crossed' \in BOOLEAN /\ (crossed => crossed') /\ (~crossed' => ~crossed /\ ~r0.late)
  <2>1. r0.late \in BOOLEAN /\ crossed \in BOOLEAN
    BY CheckParts DEF RunnerState
  <2>. QED
    BY Zenon, <1>3, <2>1
<1>7. marker' \in Marker /\ marker'.task = NoCheck /\ (~crossed' => \A u \in CheckTasks : ~Checking(u))
  BY <1>2, <1>3, <1>6, CheckNames DEF NoMarker
<1>8. /\ rows' = [rows EXCEPT ![t] = kept] /\ statusFile' = [statusFile EXCEPT ![t] = s]
      /\ memory' \in [CheckProcs -> [CheckTasks -> Status]]
      /\ \A q \in CheckProcs, u \in CheckTasks : u # t => memory'[q][u] = memory[q][u]
      /\ UNCHANGED <<caller, checkAsks, pid, askedAtWork, revived, orphaned>>
  BY <1>1, <1>3
<1>9. /\ AtWork(t) /\ r.pc \notin {"none", "lost"} /\ r.proc = runner[t].proc
      /\ r.goal = "finally" => r.pc \in {"load", "store"}
      /\ (r.pc # "done" /\ ~PastRow(r)) => Checking(t)
      /\ Checking(t) /\ ~PastRow(r) =>
            NonFinal(s) /\ NonFinal(r.seen) /\ \A p \in CheckProcs : NonFinal(memory'[p][t])
      /\ PastRow(r) => s.state \in Finals \/ t \in revived
      /\ kept # "none" => CheckedRow(r)
      /\ r.pc = "unlink" /\ ~r.late /\ ~crossed' => \A u \in CheckTasks : ~Checking(u)
  BY <1>0, <1>1, <1>2, <1>4, <1>5
<1>. QED
  BY <1>1, <1>4, <1>5, <1>6, <1>7, <1>8, <1>9, ThreadMovesOn

LEMMA ThreadStepKeeps ==
    ASSUME CheckInv, NEW t \in CheckTasks, RunnerSteps(t), ~Begin(t)
    PROVE  CheckInv'
BY ThreadReadsKeep, ThreadNotes, ThreadSaves, ThreadEnds, ThreadClears, ThreadUnlinks
   DEF RunnerSteps

(* A thread, and what a caller has read, while others move.                *)
LEMMA RunnerStays ==
    ASSUME CheckInv, NEW u \in CheckTasks, NEW q \in RunnerState, runner'[u] = q,
           q.pc = runner[u].pc, q.goal = runner[u].goal, q.seen = runner[u].seen,
           q.result = runner[u].result,
           UNCHANGED <<rows, askedAtWork, revived>>, statusFile'[u] = statusFile[u],
           \A p \in CheckProcs : memory'[p][u] \in {memory[p][u], NoStatus},
           q.pc = "unlink" /\ ~q.late /\ ~crossed' =>
              /\ ~runner[u].late /\ ~crossed
              /\ \A v \in CheckTasks : Checking(v)' => Checking(v)
    PROVE  RunnerHeld(u)'
<1>1. PICK r \in RunnerState : r = runner[u]
  BY CheckParts
<1>2. RunnerHeld(u)
  BY DEF CheckInv
<1>3. CheckOpen(u)' => CheckOpen(u)
  BY DEF CheckOpen, Checking, AtWork
<1>4. /\ PastRow(q) <=> PastRow(r)
      /\ CheckedRow(q) <=> CheckedRow(r)
      /\ AskedRow(r, statusFile[u], rows[u]) => AskedRow(q, statusFile'[u], rows'[u])
  BY <1>1 DEF PastRow, CheckedRow, AskedRow
<1>5. /\ q.pc # "none" => statusFile'[u] # NoStatus
      /\ q.goal = "finally" => q.pc \in {"load", "store"}
      /\ PastRow(q) => statusFile'[u].state \in Finals \/ u \in revived'
      /\ rows'[u] # "none" => CheckedRow(q)
      /\ u \in askedAtWork' => AskedRow(q, statusFile'[u], rows'[u])
  BY <1>1, <1>2, <1>4 DEF RunnerHeld
<1>6. CheckOpen(u)' => /\ NonFinal(statusFile'[u]) /\ NonFinal(q.seen)
                       /\ \A p \in CheckProcs : NonFinal(memory'[p][u])
  <2>1. CheckOpen(u)' => /\ NonFinal(statusFile[u]) /\ NonFinal(r.seen)
                         /\ \A p \in CheckProcs : NonFinal(memory[p][u])
    BY <1>1, <1>2, <1>3 DEF RunnerHeld
  <2>. QED
    BY <1>1, <2>1, CheckNames
<1>7. q.pc = "unlink" /\ ~q.late /\ ~crossed' => \A v \in CheckTasks : ~Checking(v)'
  BY <1>2 DEF RunnerHeld
<1>. QED
  BY <1>5, <1>6, <1>7 DEF RunnerHeld

(* The process that a task belongs to, and its process id.                 *)
SameOwner(u) == runner'[u].proc = runner[u].proc /\ pid'[runner[u].proc] = pid[runner[u].proc]

LEMMA CallerStays ==
    ASSUME CheckInv, NEW c \in CallerState, NEW d \in CallerState, CallerHeld(c),
           d.pc = c.pc, d.op = c.op, d.task = c.task, d.seen = c.seen, d.read = c.read,
           \A u \in CheckTasks : CheckOpen(u)' => CheckOpen(u),
           \A u \in CheckTasks : runner[u].pc # "none" =>
              runner'[u].pc # "none" /\ (AtWork(u)' => AtWork(u) /\ SameOwner(u)),
           \A u \in CheckTasks : statusFile[u] # NoStatus => statusFile'[u] # NoStatus,
           d.pc = "mark" => runner'[d.task].pc = "none",
           d.op = "start" /\ d.pc # "idle" /\ ~d.late /\ ~crossed' =>
              /\ ~c.late /\ ~crossed
              /\ \A u \in CheckTasks : Checking(u)' => Checking(u)
    PROVE  CallerHeld(d)'
<1>1. /\ d.pc \in {"recover", "clear", "unlink", "create", "mark"} => d.op = "start"
      /\ d.pc \notin {"idle", "create"} => d.task \in CheckTasks
  BY DEF CallerHeld
<1>2. /\ d.op = "start" /\ d.pc \notin {"idle", "create", "mark"} => runner'[d.task].pc # "none"
      /\ d.op = "start" /\ d.pc \in {"load", "store"} /\ AtWork(d.task)' =>
            d.read.proc = runner'[d.task].proc /\ ~PidIsFree(d.read)'
      /\ d.pc = "recover" => ~AtWork(d.task)'
  BY DEF CallerHeld, PidIsFree, SameOwner
<1>3. d.pc = "mark" => runner'[d.task].pc = "none" /\ statusFile'[d.task] # NoStatus
  BY <1>1 DEF CallerHeld
<1>4. d.pc = "store" /\ CheckOpen(d.task)' => NonFinal(d.seen)
  BY <1>1 DEF CallerHeld
<1>5. d.op = "start" /\ ~d.late /\ ~crossed' =>
         /\ d.pc \in {"load", "store"} => \A u \in CheckTasks : Checking(u)' => u = d.task
         /\ d.pc \in {"recover", "clear", "unlink", "create", "mark"} =>
               \A u \in CheckTasks : ~Checking(u)'
  BY DEF CallerHeld
<1>. QED
  BY <1>1, <1>2, <1>3, <1>4, <1>5 DEF CallerHeld, AtWork

(* Whoever has read the marker that is replaced is late.                   *)
LEMMA CallersLate ==
    ASSUME NEW cs \in [CheckProcs -> CallerState]
    PROVE  /\ LateCallers(cs) \in [CheckProcs -> CallerState]
           /\ \A q \in CheckProcs :
                 /\ LateCallers(cs)[q].pc = cs[q].pc /\ LateCallers(cs)[q].op = cs[q].op
                 /\ LateCallers(cs)[q].task = cs[q].task /\ LateCallers(cs)[q].seen = cs[q].seen
                 /\ LateCallers(cs)[q].read = cs[q].read
                 /\ cs[q].op = "start" /\ cs[q].pc # "idle" => LateCallers(cs)[q].late
<1>1. ASSUME NEW q \in CheckProcs
      PROVE  /\ LateCallers(cs)[q] \in CallerState
             /\ LateCallers(cs)[q].pc = cs[q].pc /\ LateCallers(cs)[q].op = cs[q].op
             /\ LateCallers(cs)[q].task = cs[q].task /\ LateCallers(cs)[q].seen = cs[q].seen
             /\ LateCallers(cs)[q].read = cs[q].read
             /\ cs[q].op = "start" /\ cs[q].pc # "idle" => LateCallers(cs)[q].late
  <2>1. PICK c \in CallerState : c = cs[q]
    OBVIOUS
  <2>2. PICK d \in CallerState : d = [c EXCEPT !.late = TRUE]
    BY DEF CallerState
  <2>3. d.pc = c.pc /\ d.op = c.op /\ d.task = c.task /\ d.seen = c.seen /\ d.read = c.read /\ d.late
    BY <2>2 DEF CallerState
  <2>4. LateCallers(cs)[q] = IF c.op = "start" /\ c.pc # "idle" THEN d ELSE c
    BY <2>1, <2>2 DEF LateCallers
  <2>. QED
    BY <2>1, <2>3, <2>4
<1>2. LateCallers(cs) = [q \in CheckProcs |-> LateCallers(cs)[q]]
  BY DEF LateCallers
<1>. QED
  BY <1>1, <1>2

LEMMA RunnersLate ==
    ASSUME NEW rs \in [CheckTasks -> RunnerState]
    PROVE  /\ LateRunners(rs) \in [CheckTasks -> RunnerState]
           /\ \A u \in CheckTasks :
                 /\ LateRunners(rs)[u].pc = rs[u].pc /\ LateRunners(rs)[u].proc = rs[u].proc
                 /\ LateRunners(rs)[u].seen = rs[u].seen /\ LateRunners(rs)[u].goal = rs[u].goal
                 /\ LateRunners(rs)[u].result = rs[u].result
                 /\ rs[u].pc = "unlink" => LateRunners(rs)[u].late
<1>1. ASSUME NEW u \in CheckTasks
      PROVE  /\ LateRunners(rs)[u] \in RunnerState
             /\ LateRunners(rs)[u].pc = rs[u].pc /\ LateRunners(rs)[u].proc = rs[u].proc
             /\ LateRunners(rs)[u].seen = rs[u].seen /\ LateRunners(rs)[u].goal = rs[u].goal
             /\ LateRunners(rs)[u].result = rs[u].result
             /\ rs[u].pc = "unlink" => LateRunners(rs)[u].late
  <2>1. PICK r \in RunnerState : r = rs[u]
    OBVIOUS
  <2>2. PICK q \in RunnerState : q = [r EXCEPT !.late = TRUE]
    BY DEF RunnerState
  <2>3. /\ q.pc = r.pc /\ q.proc = r.proc /\ q.seen = r.seen /\ q.goal = r.goal
        /\ q.result = r.result /\ q.late
    BY <2>2 DEF RunnerState
  <2>4. LateRunners(rs)[u] = IF r.pc = "unlink" THEN q ELSE r
    BY <2>1, <2>2 DEF LateRunners
  <2>. QED
    BY <2>1, <2>3, <2>4
<1>2. LateRunners(rs) = [u \in CheckTasks |-> LateRunners(rs)[u]]
  BY DEF LateRunners
<1>. QED
  BY <1>1, <1>2

(* The new task's marker, and its thread.                                  *)
LEMMA MarkKeeps ==
    ASSUME CheckInv, NEW p \in CheckProcs, Mark(p)
    PROVE  CheckInv'
<1>1. PICK d \in CallerState : d = caller[p] /\ d.pc = "mark" /\ CallerHeld(d)
  BY CallerFacts DEF Mark
<1>2. PICK t \in CheckTasks : /\ t = d.task /\ runner[t].pc = "none" /\ statusFile[t] # NoStatus
                              /\ d.op = "start"
  BY <1>1 DEF CallerHeld
<1>3. PICK b \in RunnerState : b = [NoRunner EXCEPT !.pc = "begin", !.proc = p]
  BY CheckNames DEF NoRunner, RunnerState
<1>4. b.pc = "begin" /\ b.proc = p /\ b.seen = NoStatus /\ b.goal = "first"
  BY <1>3 DEF NoRunner
<1> DEFINE rs == [runner EXCEPT ![t] = b]
           cs == [caller EXCEPT ![p] = IdleCaller]
<1>5. /\ marker' = [task |-> t, proc |-> p, pid |-> pid[p]]
      /\ crossed' = (crossed \/ d.late) /\ runner' = LateRunners(rs) /\ caller' = LateCallers(cs)
      /\ UNCHANGED <<statusFile, memory, rows, checkAsks, pid, askedAtWork, revived, orphaned>>
  BY <1>1, <1>2, <1>3 DEF Mark, MarkerIs
<1>6. /\ rs \in [CheckTasks -> RunnerState] /\ rs[t] = b
      /\ \A u \in CheckTasks : u # t => rs[u] = runner[u]
      /\ cs \in [CheckProcs -> CallerState] /\ cs[p] = IdleCaller
      /\ \A q \in CheckProcs : q # p => cs[q] = caller[q]
  BY CheckParts, CheckNames
<1> HIDE DEF rs, cs
<1>7. /\ runner' \in [CheckTasks -> RunnerState]
      /\ \A u \in CheckTasks :
            /\ runner'[u].pc = rs[u].pc /\ runner'[u].proc = rs[u].proc
            /\ runner'[u].seen = rs[u].seen /\ runner'[u].goal = rs[u].goal
            /\ runner'[u].result = rs[u].result
            /\ rs[u].pc = "unlink" => runner'[u].late
  BY <1>5, <1>6, RunnersLate
<1>8. /\ caller' \in [CheckProcs -> CallerState]
      /\ \A q \in CheckProcs :
            /\ caller'[q].pc = cs[q].pc /\ caller'[q].op = cs[q].op
            /\ caller'[q].task = cs[q].task /\ caller'[q].seen = cs[q].seen
            /\ caller'[q].read = cs[q].read
            /\ cs[q].op = "start" /\ cs[q].pc # "idle" => caller'[q].late
  BY <1>5, <1>6, CallersLate
<1>9. crossed' \in BOOLEAN /\ (~crossed' => ~crossed /\ ~d.late)
  <2>1. d.late \in BOOLEAN /\ crossed \in BOOLEAN
    BY CheckParts DEF CallerState
  <2>. QED
    BY Zenon, <1>5, <2>1
<1>10. LinkCheckTypeOK'
  <2>1. marker' \in Marker
    BY <1>5, CheckParts DEF Marker
  <2>. QED
    BY <1>5, <1>7, <1>8, <1>9, <2>1 DEF CheckInv, LinkCheckTypeOK
<1>11. /\ \A u \in CheckTasks : u # t => (AtWork(u)' <=> AtWork(u)) /\ (Checking(u)' <=> Checking(u))
       /\ \A u \in CheckTasks : CheckOpen(u)' => CheckOpen(u)
       /\ \A u \in CheckTasks : runner[u].pc # "none" => u # t /\ runner'[u].pc # "none"
  <2>1. \A u \in CheckTasks : u # t => runner'[u].pc = runner[u].pc /\ runner'[u].goal = runner[u].goal
    BY <1>6, <1>7
  <2>2. \A u \in CheckTasks : u # t => (AtWork(u)' <=> AtWork(u)) /\ (Checking(u)' <=> Checking(u))
    BY <2>1 DEF AtWork, Checking
  <2>3. CheckOpen(t)
    BY <1>2 DEF CheckOpen
  <2>4. \A u \in CheckTasks : u # t => (CheckOpen(u)' <=> CheckOpen(u))
    BY <2>1, <2>2 DEF CheckOpen
  <2>. QED
    BY <1>2, <2>1, <2>2, <2>3, <2>4
<1>12. ASSUME NEW u \in CheckTasks
       PROVE  RunnerHeld(u)'
  <2>1. CASE u # t
    <3>1. PICK q \in RunnerState : q = runner'[u]
      BY <1>7
    <3>2. /\ q.pc = runner[u].pc /\ q.goal = runner[u].goal /\ q.seen = runner[u].seen
          /\ q.result = runner[u].result /\ (q.pc = "unlink" => q.late)
      BY <1>6, <1>7, <2>1, <3>1
    <3>3. /\ UNCHANGED <<rows, askedAtWork, revived>> /\ statusFile'[u] = statusFile[u]
          /\ \A p1 \in CheckProcs : memory'[p1][u] \in {memory[p1][u], NoStatus}
      BY <1>5
    <3>. QED
      BY <3>1, <3>2, <3>3, RunnerStays
  <2>2. CASE u = t
    <3>1. PICK r \in RunnerState : r = runner[t] /\ r.pc = "none"
      BY <1>2, CheckParts
    <3>2. /\ NonFinal(statusFile[t]) /\ \A p1 \in CheckProcs : NonFinal(memory[p1][t])
          /\ rows[t] # "none" => CheckedRow(r)
          /\ t \in askedAtWork => AskedRow(r, statusFile[t], rows[t])
      BY <1>2, <3>1 DEF CheckInv, RunnerHeld, CheckOpen
    <3>3. rows[t] = "none" /\ t \notin askedAtWork
      BY <3>1, <3>2 DEF CheckedRow, AskedRow, PastRow
    <3>4. PICK q \in RunnerState : q = runner'[t] /\ q.pc = "begin" /\ q.goal = "first"
                                   /\ q.seen = NoStatus
      BY <1>4, <1>6, <1>7
    <3>5. ~PastRow(q)
      BY <3>4 DEF PastRow
    <3>6. /\ statusFile'[t] = statusFile[t] /\ rows'[t] = "none" /\ t \notin askedAtWork'
          /\ NonFinal(statusFile'[t]) /\ NonFinal(q.seen)
          /\ \A p1 \in CheckProcs : NonFinal(memory'[p1][t])
      BY <1>5, <3>2, <3>3, <3>4, CheckNames
    <3>. QED
      BY <1>2, <2>2, <3>4, <3>5, <3>6 DEF RunnerHeld
  <2>. QED
    BY <2>1, <2>2
<1>13. ASSUME NEW q \in CheckProcs
       PROVE  CallerHeld(caller[q])'
  <2>1. PICK e \in CallerState : e = caller'[q]
    BY <1>8
  <2>2. CASE q = p
    <3>1. e.pc = "idle" /\ e.op = "poll"
      BY <1>6, <1>8, <2>1, <2>2 DEF IdleCaller
    <3>2. CallerHeld(e)'
      BY <3>1 DEF CallerHeld
    <3>. QED
      BY <2>1, <3>2
  <2>3. CASE q # p
    <3>1. PICK c \in CallerState : c = caller[q] /\ CallerHeld(c)
      BY CallerFacts
    <3>2. /\ e.pc = c.pc /\ e.op = c.op /\ e.task = c.task /\ e.seen = c.seen /\ e.read = c.read
          /\ e.op = "start" /\ e.pc # "idle" => e.late
      BY <1>6, <1>8, <2>1, <2>3, <3>1
    <3>3. e.pc = "mark" => runner'[e.task].pc = "none"
      <4>1. SUFFICES ASSUME e.pc = "mark" PROVE runner'[e.task].pc = "none"
        OBVIOUS
      <4>2. c.task # t
        BY <1>1, <1>2, <2>3, <3>1, <3>2, <4>1 DEF CheckInv, MarksApart
      <4>3. c.task \in CheckTasks /\ runner[c.task].pc = "none"
        BY <3>1, <3>2, <4>1 DEF CallerHeld
      <4>. QED
        BY <1>6, <1>7, <3>2, <4>2, <4>3
    <3>4. /\ \A u \in CheckTasks : runner[u].pc # "none" =>
                runner'[u].pc # "none" /\ (AtWork(u)' => AtWork(u) /\ SameOwner(u))
          /\ \A u \in CheckTasks : CheckOpen(u)' => CheckOpen(u)
          /\ \A u \in CheckTasks : statusFile[u] # NoStatus => statusFile'[u] # NoStatus
      BY <1>5, <1>6, <1>7, <1>11 DEF SameOwner
    <3>5. CallerHeld(e)'
      BY <3>1, <3>2, <3>3, <3>4, CallerStays
    <3>. QED
      BY <2>1, <3>5
  <2>. QED
    BY <2>2, <2>3
<1>14. MarksApart'
  <2>1. \A q \in CheckProcs : caller'[q].pc = "mark" =>
           caller[q].pc = "mark" /\ caller'[q].task = caller[q].task
    BY <1>6, <1>8 DEF IdleCaller
  <2>. QED
    BY <2>1 DEF CheckInv, MarksApart
<1>15. MarkerHeld'
  <2>1. runner'[t].pc = "begin" /\ runner'[t].proc = p /\ pid' = pid /\ pid[p] \in Nat
    BY <1>4, <1>5, <1>6, <1>7, CheckParts
  <2>2. marker'.task = t /\ marker'.proc = p /\ marker'.pid = pid[p]
    BY <1>5
  <2>. QED
    BY <2>1, <2>2 DEF MarkerHeld, PidIsFree
<1>16. ~crossed' => \A u \in CheckTasks : Checking(u)' => marker'.task = u
  <2>1. ~crossed' => \A u \in CheckTasks : ~Checking(u)
    BY <1>1, <1>2, <1>9 DEF CallerHeld
  <2>. QED
    BY <1>5, <1>11, <2>1
<1>. QED
  BY <1>10, <1>12, <1>13, <1>14, <1>15, <1>16 DEF CheckInv

(* The thread writes the marker once more when it begins.                  *)
LEMMA BeginKeeps ==
    ASSUME CheckInv, NEW t \in CheckTasks, Begin(t)
    PROVE  CheckInv'
<1>0. AtWork(t) /\ runner[t].pc = "begin" /\ Checking(t)
  <2>1. AtWork(t) /\ runner[t].pc = "begin"
    BY DEF Begin, At, AtWork
  <2>2. runner[t].goal # "finally"
    BY <2>1, ThreadFacts DEF RunnerHeld
  <2>. QED
    BY <2>1, <2>2 DEF Checking
<1>1. PICK r0 \in RunnerState, p \in CheckProcs : r0 = runner[t] /\ p = r0.proc
  BY <1>0, ThreadFacts DEF RunnerState
<1>2. /\ statusFile \in [CheckTasks -> Status] /\ memory \in [CheckProcs -> [CheckTasks -> Status]]
      /\ NonFinal(r0.seen) /\ rows[t] = "none" /\ t \notin askedAtWork
  BY <1>0, <1>1, ThreadFacts, CheckParts
     DEF RunnerHeld, CheckOpen, Checking, CheckedRow, AskedRow, PastRow
<1>3. PICK s \in Status : s = [Current(p, t) EXCEPT !.state = "running"]
                          /\ s # NoStatus /\ NonFinal(s)
  <2>1. Current(p, t) \in Status
    BY <1>2 DEF Current
  <2>2. [Current(p, t) EXCEPT !.state = "running"] \in Status
    BY <2>1 DEF Status, States
  <2>3. [Current(p, t) EXCEPT !.state = "running"].state = "running"
    BY <2>1 DEF Status
  <2>. QED
    BY <2>2, <2>3 DEF NoStatus, NonFinal, Finals
<1>4. PICK b \in RunnerState : b = [r0 EXCEPT !.pc = "load", !.goal = "first"]
  BY DEF RunnerState
<1>5. b.pc = "load" /\ b.goal = "first" /\ b.seen = r0.seen /\ b.proc = p
  BY <1>1, <1>4 DEF RunnerState
<1> DEFINE rs == [runner EXCEPT ![t] = b]
<1>6. /\ marker' = [task |-> t, proc |-> p, pid |-> pid[p]]
      /\ Write(p, t, s) /\ runner' = LateRunners(rs)
      /\ caller' = IF marker.task = t THEN caller ELSE LateCallers(caller)
      /\ UNCHANGED <<rows, checkAsks, pid, askedAtWork, revived, orphaned, crossed>>
  <2>1. [runner EXCEPT ![t].pc = "load", ![t].goal = "first"]
          = [runner EXCEPT ![t] = [r0 EXCEPT !.pc = "load", !.goal = "first"]]
    BY <1>1, CheckParts
  <2>2. rs = [runner EXCEPT ![t].pc = "load", ![t].goal = "first"]
    BY <1>4, <2>1
  <2>3. runner' = LateRunners([runner EXCEPT ![t].pc = "load", ![t].goal = "first"])
    BY DEF Begin
  <2>4. runner' = LateRunners(rs)
    BY <2>2, <2>3
  <2>. QED
    BY <1>1, <1>3, <2>4 DEF Begin, MarkerIs
<1>7. rs \in [CheckTasks -> RunnerState] /\ rs[t] = b
      /\ \A u \in CheckTasks : u # t => rs[u] = runner[u]
  BY CheckParts
<1> HIDE DEF rs
<1>8. /\ runner' \in [CheckTasks -> RunnerState]
      /\ \A u \in CheckTasks :
            /\ runner'[u].pc = rs[u].pc /\ runner'[u].proc = rs[u].proc
            /\ runner'[u].seen = rs[u].seen /\ runner'[u].goal = rs[u].goal
            /\ runner'[u].result = rs[u].result
            /\ rs[u].pc = "unlink" => runner'[u].late
  BY <1>6, <1>7, RunnersLate
<1>9. /\ caller' \in [CheckProcs -> CallerState]
      /\ \A q \in CheckProcs :
            /\ caller'[q].pc = caller[q].pc /\ caller'[q].op = caller[q].op
            /\ caller'[q].task = caller[q].task /\ caller'[q].seen = caller[q].seen
            /\ caller'[q].read = caller[q].read
            /\ caller'[q] = caller[q]
               \/ (caller[q].op = "start" /\ caller[q].pc # "idle" => caller'[q].late)
  <2>1. caller \in [CheckProcs -> CallerState]
    BY CheckParts
  <2>2. CASE caller' = caller
    BY <2>1, <2>2
  <2>3. CASE caller' = LateCallers(caller)
    BY <2>1, <2>3, CallersLate
  <2>. QED
    BY <1>6, <2>2, <2>3
<1>10. /\ statusFile' \in [CheckTasks -> Status] /\ statusFile'[t] = s
       /\ memory' \in [CheckProcs -> [CheckTasks -> Status]]
       /\ \A u \in CheckTasks : u # t => statusFile'[u] = statusFile[u]
       /\ \A u \in CheckTasks : CheckOpen(u) /\ (u = t => NonFinal(s)) =>
             NonFinal(statusFile'[u]) /\ \A q \in CheckProcs : NonFinal(memory'[q][u])
  BY <1>3, <1>6, StatusWritten
<1>11. \A q \in CheckProcs, u \in CheckTasks : u # t => memory'[q][u] = memory[q][u]
  BY <1>2, <1>6 DEF Write
<1>12. LinkCheckTypeOK'
  <2>1. marker' \in Marker
    BY <1>6, CheckParts DEF Marker
  <2>. QED
    BY <1>6, <1>8, <1>9, <1>10, <2>1 DEF CheckInv, LinkCheckTypeOK
<1>13. /\ \A u \in CheckTasks : AtWork(u)' <=> AtWork(u)
       /\ \A u \in CheckTasks : Checking(u)' <=> Checking(u)
       /\ \A u \in CheckTasks : CheckOpen(u)' <=> CheckOpen(u)
       /\ \A u \in CheckTasks : runner'[u].pc = "none" <=> runner[u].pc = "none"
  <2>1. \A u \in CheckTasks : u # t => runner'[u].pc = runner[u].pc /\ runner'[u].goal = runner[u].goal
    BY <1>7, <1>8
  <2>2. runner'[t].pc = "load" /\ runner'[t].goal = "first"
    BY <1>5, <1>7, <1>8
  <2>3. AtWork(t)' /\ Checking(t)'
    BY <2>2 DEF AtWork, Checking
  <2>4. \A u \in CheckTasks : u # t => (AtWork(u)' <=> AtWork(u)) /\ (Checking(u)' <=> Checking(u))
    BY <2>1 DEF AtWork, Checking
  <2>5. \A u \in CheckTasks : runner'[u].pc = "none" <=> runner[u].pc = "none"
    BY <1>0, <2>1, <2>2
  <2>6. \A u \in CheckTasks : Checking(u)' <=> Checking(u)
    BY <1>0, <2>3, <2>4
  <2>. QED
    BY <1>0, <2>3, <2>4, <2>5, <2>6 DEF CheckOpen
<1>14. ASSUME NEW u \in CheckTasks
       PROVE  RunnerHeld(u)'
  <2>1. CASE u # t
    <3>1. PICK q \in RunnerState : q = runner'[u]
      BY <1>8
    <3>2. /\ q.pc = runner[u].pc /\ q.goal = runner[u].goal /\ q.seen = runner[u].seen
          /\ q.result = runner[u].result /\ (q.pc = "unlink" => q.late)
      BY <1>7, <1>8, <2>1, <3>1
    <3>3. /\ UNCHANGED <<rows, askedAtWork, revived>> /\ statusFile'[u] = statusFile[u]
          /\ \A p1 \in CheckProcs : memory'[p1][u] \in {memory[p1][u], NoStatus}
      BY <1>6, <1>10, <1>11, <2>1
    <3>. QED
      BY <3>1, <3>2, <3>3, RunnerStays
  <2>2. CASE u = t
    <3>1. PICK q \in RunnerState : q = runner'[t] /\ q.pc = "load" /\ q.goal = "first"
                                   /\ q.seen = r0.seen
      BY <1>5, <1>7, <1>8
    <3>2. ~PastRow(q)
      BY <3>1 DEF PastRow
    <3>3. /\ statusFile'[t] = s /\ rows'[t] = "none" /\ t \notin askedAtWork'
          /\ NonFinal(statusFile'[t]) /\ NonFinal(q.seen)
          /\ \A p1 \in CheckProcs : NonFinal(memory'[p1][t])
      BY <1>0, <1>2, <1>3, <1>6, <1>10, <3>1 DEF CheckOpen
    <3>. QED
      BY <1>3, <2>2, <3>1, <3>2, <3>3 DEF RunnerHeld
  <2>. QED
    BY <2>1, <2>2
<1>15. ASSUME NEW q \in CheckProcs
       PROVE  CallerHeld(caller[q])'
  <2>1. PICK c \in CallerState, e \in CallerState : c = caller[q] /\ CallerHeld(c) /\ e = caller'[q]
    BY <1>9, CallerFacts
  <2>2. /\ e.pc = c.pc /\ e.op = c.op /\ e.task = c.task /\ e.seen = c.seen /\ e.read = c.read
        /\ e = c \/ (e.op = "start" /\ e.pc # "idle" => e.late)
    BY <1>9, <2>1
  <2>3. e.pc = "mark" => runner'[e.task].pc = "none"
    BY <1>13, <2>1, <2>2 DEF CallerHeld
  <2>4. /\ \A u \in CheckTasks : runner[u].pc # "none" =>
              runner'[u].pc # "none" /\ (AtWork(u)' => AtWork(u) /\ SameOwner(u))
        /\ \A u \in CheckTasks : CheckOpen(u)' => CheckOpen(u)
        /\ \A u \in CheckTasks : statusFile[u] # NoStatus => statusFile'[u] # NoStatus
    BY <1>1, <1>3, <1>5, <1>6, <1>7, <1>8, <1>10, <1>13 DEF SameOwner
  <2>5. e.op = "start" /\ e.pc # "idle" /\ ~e.late /\ ~crossed' =>
           /\ ~c.late /\ ~crossed
           /\ \A u \in CheckTasks : Checking(u)' => Checking(u)
    BY <1>6, <1>13, <2>2
  <2>6. CallerHeld(e)'
    BY <2>1, <2>2, <2>3, <2>4, <2>5, CallerStays
  <2>. QED
    BY <2>1, <2>6
<1>16. MarksApart'
  BY <1>9 DEF CheckInv, MarksApart
<1>17. MarkerHeld'
  <2>1. runner'[t].pc = "load" /\ runner'[t].proc = p /\ pid' = pid /\ pid[p] \in Nat
    BY <1>5, <1>6, <1>7, <1>8, CheckParts
  <2>2. marker'.task = t /\ marker'.proc = p /\ marker'.pid = pid[p]
    BY <1>6
  <2>. QED
    BY <2>1, <2>2 DEF MarkerHeld, PidIsFree
<1>18. ~crossed' => \A u \in CheckTasks : Checking(u)' => marker'.task = u
  BY <1>0, <1>6, <1>13 DEF CheckInv
<1>. QED
  BY <1>12, <1>14, <1>15, <1>16, <1>17, <1>18 DEF CheckInv

(* A process dies: its threads are lost, what is in the files stays.       *)
LEMMA CrashKeeps ==
    ASSUME CheckInv, NEW p \in CheckProcs, NEW same \in BOOLEAN, CrashCheck(p, same)
    PROVE  CheckInv'
<1>1. /\ UNCHANGED <<statusFile, marker, rows, askedAtWork, revived, crossed>>
      /\ pid \in [CheckProcs -> Nat] /\ pid' = [pid EXCEPT ![p] = IF same THEN @ ELSE @ + 1]
      /\ memory \in [CheckProcs -> [CheckTasks -> Status]]
      /\ memory' = [memory EXCEPT ![p] = [t \in CheckTasks |-> NoStatus]]
      /\ caller \in [CheckProcs -> CallerState] /\ caller' = [caller EXCEPT ![p] = IdleCaller]
      /\ checkAsks' \in Nat
  BY CheckParts DEF CrashCheck
<1>2. /\ pid' \in [CheckProcs -> Nat] /\ pid'[p] = (IF same THEN pid[p] ELSE pid[p] + 1)
      /\ \A q \in CheckProcs : q # p => pid'[q] = pid[q]
      /\ memory' \in [CheckProcs -> [CheckTasks -> Status]]
      /\ \A q \in CheckProcs, u \in CheckTasks : memory'[q][u] \in {memory[q][u], NoStatus}
      /\ caller' \in [CheckProcs -> CallerState] /\ caller'[p] = IdleCaller
      /\ \A q \in CheckProcs : q # p => caller'[q] = caller[q]
  BY <1>1, CheckNames
<1>3. ASSUME NEW u \in CheckTasks
      PROVE  /\ runner'[u] \in RunnerState
             /\ runner'[u].proc = runner[u].proc
             /\ \/ runner'[u] = runner[u] /\ ~(runner[u].proc = p /\ AtWork(u))
                \/ /\ runner'[u].pc = "lost" /\ runner'[u].goal = "first"
                   /\ runner[u].proc = p /\ runner[u].pc \notin {"none", "done"}
  <2>1. PICK r \in RunnerState : r = runner[u]
    BY CheckParts
  <2>2. runner'[u] = IF r.proc = p /\ r.pc \notin {"none", "done"} THEN Left(r, "lost") ELSE r
    BY <2>1 DEF CrashCheck
  <2>3. /\ Left(r, "lost") \in RunnerState /\ Left(r, "lost").pc = "lost"
        /\ Left(r, "lost").goal = "first" /\ Left(r, "lost").proc = r.proc
    <3>1. r.proc \in CheckProcs
      BY DEF RunnerState
    <3>. QED
      BY <3>1, CheckNames DEF Left, NoRunner, RunnerState
  <2>. QED
    BY <2>1, <2>2, <2>3 DEF AtWork
<1>4. runner' \in [CheckTasks -> RunnerState]
  <2>1. runner' = [u \in CheckTasks |-> runner'[u]]
    BY DEF CrashCheck
  <2>. QED
    BY <1>3, <2>1
<1>5. LinkCheckTypeOK' /\ orphaned \subseteq orphaned'
  <2>1. orphaned \subseteq orphaned' /\ orphaned' \subseteq CheckTasks
    BY CheckParts DEF CrashCheck
  <2>. QED
    BY <1>1, <1>2, <1>4, <2>1 DEF CheckInv, LinkCheckTypeOK
<1>6. /\ \A u \in CheckTasks : AtWork(u)' => AtWork(u) /\ runner'[u] = runner[u] /\ runner[u].proc # p
      /\ \A u \in CheckTasks : Checking(u)' => Checking(u)
      /\ \A u \in CheckTasks : runner'[u].pc = "none" <=> runner[u].pc = "none"
      /\ \A u \in CheckTasks : CheckOpen(u)' => CheckOpen(u)
  <2>1. \A u \in CheckTasks : AtWork(u)' => AtWork(u) /\ runner'[u] = runner[u] /\ runner[u].proc # p
    BY <1>3 DEF AtWork
  <2>2. \A u \in CheckTasks : Checking(u)' => Checking(u)
    BY <2>1 DEF Checking
  <2>3. \A u \in CheckTasks : runner'[u].pc = "none" <=> runner[u].pc = "none"
    BY <1>3
  <2>. QED
    BY <2>1, <2>2, <2>3 DEF CheckOpen
<1>7. ASSUME NEW u \in CheckTasks
      PROVE  RunnerHeld(u)'
  <2>1. PICK q \in RunnerState : q = runner'[u]
    BY <1>4
  <2>2. CASE runner'[u] = runner[u]
    <3>1. /\ q.pc = runner[u].pc /\ q.goal = runner[u].goal /\ q.seen = runner[u].seen
          /\ q.result = runner[u].result
          /\ UNCHANGED <<rows, askedAtWork, revived>> /\ statusFile'[u] = statusFile[u]
          /\ \A p1 \in CheckProcs : memory'[p1][u] \in {memory[p1][u], NoStatus}
      BY <1>1, <1>2, <2>1, <2>2
    <3>2. q.pc = "unlink" /\ ~q.late /\ ~crossed' =>
             /\ ~runner[u].late /\ ~crossed
             /\ \A v \in CheckTasks : Checking(v)' => Checking(v)
      BY <1>1, <1>6, <2>1, <2>2
    <3>. QED
      BY <2>1, <3>1, <3>2, RunnerStays
  <2>3. CASE runner'[u] # runner[u]
    <3>1. q.pc = "lost" /\ q.goal = "first" /\ runner[u].pc # "none"
      BY <1>3, <2>1, <2>3
    <3>2. PICK r \in RunnerState : r = runner[u]
      BY CheckParts
    <3>3. /\ statusFile[u] # NoStatus
          /\ u \in askedAtWork => AskedRow(r, statusFile[u], rows[u])
      BY <3>1, <3>2 DEF CheckInv, RunnerHeld
    <3>4. /\ u \in askedAtWork' => AskedRow(q, statusFile'[u], rows'[u])
          /\ CheckedRow(q) /\ ~PastRow(q) /\ ~CheckOpen(u)'
      BY <1>1, <2>1, <3>1, <3>3 DEF AskedRow, CheckedRow, PastRow, CheckOpen, Checking, AtWork
    <3>. QED
      BY <1>1, <2>1, <3>1, <3>3, <3>4 DEF RunnerHeld
  <2>. QED
    BY <2>2, <2>3
<1>8. ASSUME NEW q \in CheckProcs
      PROVE  CallerHeld(caller[q])'
  <2>1. CASE q = p
    <3>1. PICK e \in CallerState : e = caller'[q] /\ e.pc = "idle" /\ e.op = "poll"
      BY <1>2, <2>1 DEF IdleCaller
    <3>2. CallerHeld(e)'
      BY <3>1 DEF CallerHeld
    <3>. QED
      BY <3>1, <3>2
  <2>2. CASE q # p
    <3>1. PICK c \in CallerState : c = caller[q] /\ CallerHeld(c) /\ c = caller'[q]
      BY <1>2, <2>2, CallerFacts
    <3>2. c.pc = "mark" => runner'[c.task].pc = "none"
      BY <1>6, <3>1 DEF CallerHeld
    <3>3. /\ \A u \in CheckTasks : runner[u].pc # "none" =>
                runner'[u].pc # "none" /\ (AtWork(u)' => AtWork(u) /\ SameOwner(u))
          /\ \A u \in CheckTasks : CheckOpen(u)' => CheckOpen(u)
          /\ \A u \in CheckTasks : statusFile[u] # NoStatus => statusFile'[u] # NoStatus
      <4>1. ASSUME NEW u \in CheckTasks, AtWork(u)'
            PROVE  AtWork(u) /\ SameOwner(u)
        <5>1. AtWork(u) /\ runner'[u].proc = runner[u].proc /\ runner[u].proc # p
          BY <1>3, <1>6, <4>1
        <5>2. runner[u].proc \in CheckProcs
          BY CheckParts DEF RunnerState
        <5>. QED
          BY <1>2, <5>1, <5>2 DEF SameOwner
      <4>. QED
        BY <1>1, <1>6, <4>1
    <3>4. c.op = "start" /\ c.pc # "idle" /\ ~c.late /\ ~crossed' =>
             /\ ~c.late /\ ~crossed
             /\ \A u \in CheckTasks : Checking(u)' => Checking(u)
      BY <1>1, <1>6
    <3>5. CallerHeld(c)'
      BY <3>1, <3>2, <3>3, <3>4, CallerStays
    <3>. QED
      BY <3>1, <3>5
  <2>. QED
    BY <2>1, <2>2
<1>9. MarksApart'
  <2>1. \A q \in CheckProcs : caller'[q].pc = "mark" => caller'[q] = caller[q]
    BY <1>2 DEF IdleCaller
  <2>. QED
    BY <2>1 DEF CheckInv, MarksApart
<1>10. MarkerHeld'
  <2>1. SUFFICES ASSUME marker.task # NoCheck PROVE MarkerHeld'
    BY <1>1 DEF MarkerHeld
  <2>2. PICK m \in Marker : m = marker /\ m = marker' /\ m.task \in CheckTasks /\ m.proc \in CheckProcs
    BY <1>1, <2>1, CheckParts DEF Marker
  <2>3. /\ runner[m.task].pc # "none" /\ runner[m.task].proc = m.proc /\ m.pid \in Nat
        /\ m.pid <= pid[m.proc]
        /\ AtWork(m.task) => m.pid = pid[m.proc]
        /\ runner[m.task].pc = "lost" => m.pid # pid[m.proc] \/ m.task \in orphaned
    BY <2>1, <2>2 DEF CheckInv, MarkerHeld, Marker, PidIsFree
  <2>4. /\ runner'[m.task].pc # "none" /\ runner'[m.task].proc = m.proc
        /\ m.pid <= pid'[m.proc]
        /\ AtWork(m.task)' => m.pid = pid'[m.proc]
        /\ runner'[m.task].pc = "lost" => m.pid # pid'[m.proc] \/ m.task \in orphaned'
    <3>1. /\ pid[m.proc] \in Nat
          /\ pid'[m.proc] = (IF m.proc = p /\ ~same THEN pid[m.proc] + 1 ELSE pid[m.proc])
      BY <1>1, <1>2, <2>2
    <3>2. runner'[m.task].pc = "lost" => runner[m.task].pc = "lost" \/ (m.proc = p /\ runner[m.task].pc \notin {"none", "done"})
      BY <1>3, <2>2, <2>3
    <3>3. AtWork(m.task)' => AtWork(m.task) /\ m.proc # p
      BY <1>6, <2>2, <2>3
    <3>4. runner'[m.task].pc # "none" /\ runner'[m.task].proc = m.proc
      BY <1>3, <1>6, <2>2, <2>3
    <3>5. same /\ AtWork(m.task) /\ m.proc = p => m.task \in orphaned'
      BY <2>2, <2>3 DEF CrashCheck
    <3>6. m.proc = p /\ runner[m.task].pc \notin {"none", "done", "lost"} => AtWork(m.task)
      BY DEF AtWork
    <3>7. runner'[m.task].pc = "lost" => m.pid # pid'[m.proc] \/ m.task \in orphaned'
      <4>1. CASE runner[m.task].pc = "lost"
        BY <1>5, <2>3, <3>1, <4>1
      <4>2. CASE runner[m.task].pc # "lost"
        BY <2>3, <3>1, <3>2, <3>5, <3>6, <4>2
      <4>. QED
        BY <4>1, <4>2
    <3>. QED
      BY <2>3, <3>1, <3>3, <3>4, <3>7
  <2>. QED
    BY <2>2, <2>4 DEF MarkerHeld, PidIsFree
<1>11. ~crossed' => \A u \in CheckTasks : Checking(u)' => marker'.task = u
  BY <1>1, <1>6 DEF CheckInv
<1>. QED
  BY <1>5, <1>7, <1>8, <1>9, <1>10, <1>11 DEF CheckInv

LEMMA CheckInitially == LinkCheckInit => CheckInv
<1> SUFFICES ASSUME LinkCheckInit PROVE CheckInv
  OBVIOUS
<1>1. LinkCheckTypeOK
  BY CheckNames DEF LinkCheckInit, LinkCheckTypeOK
<1>2. \A t \in CheckTasks : /\ runner[t] = NoRunner /\ statusFile[t] = NoStatus /\ rows[t] = "none"
                            /\ t \notin askedAtWork
                            /\ \A p \in CheckProcs : memory[p][t] = NoStatus
  BY DEF LinkCheckInit
<1>3. NoRunner.pc = "none" /\ NoRunner.goal = "first" /\ NoRunner.seen = NoStatus /\ ~PastRow(NoRunner)
  BY DEF NoRunner, PastRow
<1>4. \A t \in CheckTasks : RunnerHeld(t)
  BY <1>2, <1>3, CheckNames DEF RunnerHeld
<1>5. \A p \in CheckProcs : caller[p] = IdleCaller
  BY DEF LinkCheckInit
<1>6. IdleCaller.pc = "idle" /\ IdleCaller.op = "poll"
  BY DEF IdleCaller
<1>7. \A p \in CheckProcs : CallerHeld(caller[p])
  BY <1>5, <1>6 DEF CallerHeld
<1>8. MarksApart
  BY <1>5, <1>6 DEF MarksApart
<1>9. MarkerHeld
  BY DEF LinkCheckInit, NoMarker, MarkerHeld
<1>10. \A t \in CheckTasks : ~Checking(t)
  BY <1>2, <1>3 DEF Checking, AtWork
<1>. QED
  BY <1>1, <1>4, <1>7, <1>8, <1>9, <1>10 DEF CheckInv

LEMMA CheckIdles == CheckInv /\ UNCHANGED checkVars => CheckInv'
BY DEF CheckInv, checkVars, LinkCheckTypeOK, RunnerHeld, CallerHeld, MarksApart, MarkerHeld, PidIsFree,
   CheckOpen, Checking, AtWork, PastRow, CheckedRow, AskedRow, NonFinal

LEMMA CheckStep == CheckInv /\ [LinkCheckNext]_checkVars => CheckInv'
<1> SUFFICES ASSUME CheckInv, [LinkCheckNext]_checkVars PROVE CheckInv'
  OBVIOUS
<1>1. ASSUME NEW p \in CheckProcs,
             StartReads(p) \/ CallerSteps(p) \/ \E same \in BOOLEAN : CrashCheck(p, same)
      PROVE  CheckInv'
  BY <1>1, CallerStartsKeep, CrashKeeps, CallerLoadsKeep, CallerStoresKeep, StopWritesKeep,
     RecoverKeeps, CallerClearsKeep, CallerUnlinksKeep, MarkKeeps, CreateKeeps DEF CallerSteps
<1>2. ASSUME NEW p \in CheckProcs, NEW t \in CheckTasks, NEW op \in {"stop", "poll"},
             AskStatus(p, op, t)
      PROVE  CheckInv'
  BY <1>2, CallerAsksKeep
<1>3. ASSUME NEW t \in CheckTasks, RunnerSteps(t)
      PROVE  CheckInv'
  BY <1>3, BeginKeeps, ThreadStepKeeps
<1>4. CASE UNCHANGED checkVars
  BY <1>4, CheckIdles
<1>. QED
  BY <1>1, <1>2, <1>3, <1>4 DEF LinkCheckNext

(* Every link check variable keeps its type: start_or_reuse_task,          *)
(* request_task_stop, get_task_status and the thread of a task.            *)
THEOREM CheckTypeCorrect == LinkCheckSpec => []LinkCheckTypeOK
<1>1. CheckInv => LinkCheckTypeOK
  BY DEF CheckInv
<1>. QED
  BY <1>1, CheckInitially, CheckStep, PTL DEF LinkCheckSpec

(* One task is checked at a time unless a task was created, or a marker    *)
(* removed, on the strength of a marker that had been replaced since, and  *)
(* a marker never blocks the next task for good (start_or_reuse_task,      *)
(* _clear_active_task, _recover_stale_active_task).                        *)
THEOREM MarkerAlwaysGuards == LinkCheckSpec => []MarkerGuards
<1>1. CheckInv => MarkerGuards
  <2> SUFFICES ASSUME CheckInv PROVE MarkerGuards
    OBVIOUS
  <2>1. OneTaskRuns
    <3>1. crossed \in BOOLEAN
      BY CheckParts
    <3>. QED
      BY <3>1 DEF CheckInv, OneTaskRuns
  <2>2. MarkerIsFreed
    <3> SUFFICES ASSUME marker.task # NoCheck, ~AtWork(marker.task),
                        ~PidIsFree(marker), marker.task \notin orphaned
                 PROVE  statusFile[marker.task].state \in Finals \/ marker.task \in revived
      BY DEF MarkerIsFreed
    <3>1. PICK t \in CheckTasks : t = marker.task
      BY CheckParts DEF Marker
    <3>2. PICK r \in RunnerState : r = runner[t] /\ r.pc \in {"none", "done", "lost"}
      BY <3>1, CheckParts DEF AtWork
    <3>3. r.pc = "done"
      BY <3>1, <3>2 DEF CheckInv, MarkerHeld
    <3>4. PastRow(r)
      BY <3>3 DEF PastRow
    <3>. QED
      BY <3>1, <3>2, <3>4, StatusesStay
  <2>. QED
    BY <2>1, <2>2 DEF MarkerGuards
<1>. QED
  BY <1>1, CheckInitially, CheckStep, PTL DEF LinkCheckSpec

(* A task that is told to stop while it makes its network calls saves      *)
(* nothing and does not end as completed (should_stop_task).               *)
THEOREM StopAlwaysObeyed == LinkCheckSpec => []StopIsObeyed
<1>1. CheckInv => StopIsObeyed
  BY StatusesStay, CheckParts DEF StopIsObeyed, AskedRow
<1>. QED
  BY <1>1, CheckInitially, CheckStep, PTL DEF LinkCheckSpec

(***************************************************************************)
(* All of them beside each other                                           *)
(***************************************************************************)
(* Type correctness of the composition: the five leave each other's        *)
(* variables alone.                                                        *)
THEOREM ServicesTypeCorrect == Spec => []ServicesTypeOK
<1> DEFINE Inv == CheckInv /\ PlanInv /\ PublishInv /\ CatalogInv /\ IngestInv
<1>1. Init => Inv
  BY CheckInitially, PlanInitially, PublishInitially, CatalogInitially, IngestInitially DEF Init
<1>2. Inv /\ [Next]_vars => Inv'
  <2> SUFFICES ASSUME Inv, [Next]_vars PROVE Inv'
    OBVIOUS
  <2>1. [LinkCheckNext]_checkVars
    BY Zenon DEF Next, vars, CheckPart, PlanPart, PublishPart, CatalogPart, IngestPart
  <2>2. [LinkCheckPlanNext]_planVars
    BY Zenon DEF Next, vars, CheckPart, PlanPart, PublishPart, CatalogPart, IngestPart
  <2>3. [PublishNext]_publishVars
    BY Zenon DEF Next, vars, CheckPart, PlanPart, PublishPart, CatalogPart, IngestPart
  <2>4. [CatalogNext]_catalogVars
    BY Zenon DEF Next, vars, CheckPart, PlanPart, PublishPart, CatalogPart, IngestPart
  <2>5. [IngestNext]_ingestVars
    BY Zenon DEF Next, vars, CheckPart, PlanPart, PublishPart, CatalogPart, IngestPart
  <2>. QED
    BY <2>1, <2>2, <2>3, <2>4, <2>5, CheckStep, PlanStep, PublishStep, CatalogStep, IngestStep
<1>3. Inv => ServicesTypeOK
  BY DEF CheckInv, PlanInv, PublishInv, CatalogInv, IngestInv, ServicesTypeOK
<1> HIDE DEF Inv
<1>. QED
  BY <1>1, <1>2, <1>3, PTL DEF Spec
=============================================================================
