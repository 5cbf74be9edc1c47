------------------------------ MODULE AdminProofs ------------------------------
(***************************************************************************)
(* Proofs about accounts, their sessions and their batches, and about the  *)
(* AI centre's providers and route, for every number of accounts, sessions,*)
(* threads, providers, models and steps and every bound.                   *)
(***************************************************************************)
EXTENDS MCAdmin, FiniteSetTheorems, TLAPS

(***************************************************************************)
(* Accounts: types                                                         *)
(***************************************************************************)
LEMMA Rows ==
    /\ NoAccount \in AccountRow /\ NoSession \in SessionRow
    /\ NoBatch \in BatchRow /\ NotAsking \in Asks
    /\ [NoAccount EXCEPT !.exists = TRUE, !.role = "admin"] \in AccountRow
    /\ 0 \in 0..MaxTicks /\ 0 \in 0..MaxSessions /\ 0 \in 0..MaxBatches
<1>1. 0 \in 0..MaxTicks /\ 0 \in 0..MaxSessions /\ 0 \in 0..MaxBatches
  BY AccountAssumption
<1>2. NoAccount \in AccountRow
  BY <1>1 DEF NoAccount, AccountRow, Roles, Never
<1>3. [NoAccount EXCEPT !.exists = TRUE, !.role = "admin"] \in AccountRow
  BY <1>2 DEF AccountRow, Roles
<1>4. NoSession \in SessionRow
  BY <1>1, AccountAssumption DEF NoSession, SessionRow
<1>5. NoBatch \in BatchRow
  BY DEF NoBatch, BatchRow, Roles
<1>6. NotAsking \in Asks
  BY <1>1 DEF NotAsking, Asks
<1>7. QED
  BY <1>1, <1>2, <1>3, <1>4, <1>5, <1>6

LEMMA AccountTypeInit == AccountInit => AccountTypeOK
<1> SUFFICES ASSUME AccountInit PROVE AccountTypeOK
  OBVIOUS
<1>1. accounts \in [Accounts -> AccountRow]
  BY Rows DEF AccountInit
<1>2. /\ sessions \in [SessionIds -> SessionRow]
      /\ batches \in [1..MaxBatches -> BatchRow]
      /\ asking \in [Threads -> Asks]
  BY Rows DEF AccountInit
<1>3. 0 \in 0..MaxSessions /\ 0 \in 0..MaxTicks /\ 0 \in 0..MaxAccountOps
  BY AccountAssumption
<1>4. QED
  BY <1>1, <1>2, <1>3 DEF AccountInit, AccountTypeOK

LEMMA RevokedType ==
    ASSUME AccountTypeOK, NEW ids
    PROVE  /\ Revoked(ids) \in [SessionIds -> SessionRow]
           /\ \A s \in SessionIds :
                /\ Revoked(ids)[s].owner = sessions[s].owner
                /\ Revoked(ids)[s].client = sessions[s].client
                /\ Revoked(ids)[s].seen = sessions[s].seen
                /\ Revoked(ids)[s].until = sessions[s].until
                /\ Revoked(ids)[s].epoch = sessions[s].epoch
                /\ Revoked(ids)[s].state
                      = IF s \in ids THEN "revoked" ELSE sessions[s].state
<1>1. \A s \in SessionIds : sessions[s] \in SessionRow
  BY DEF AccountTypeOK
<1>2. QED
  BY <1>1 DEF Revoked, SessionRow

LEMMA PolicyType ==
    ASSUME AccountTypeOK
    PROVE  policy.limit \in Nat /\ policy.window \in Nat /\ policy.ttl \in Nat
<1>1. policy \in Policies
  BY DEF AccountTypeOK
<1>2. policy.limit \in LimitChoices /\ policy.window \in Windows /\ policy.ttl \in Ttls
  BY <1>1 DEF Policies
<1>3. QED
  BY <1>2, AccountAssumption

(* A session as it is opened.                                              *)
NewSession(a, c) ==
    [state |-> "open", owner |-> a, client |-> c, seen |-> tick,
     until |-> tick + policy.ttl, epoch |-> epoch[a]]

LEMMA NewSessionType ==
    ASSUME AccountTypeOK, NEW a \in Accounts, NEW c \in Clients
    PROVE  NewSession(a, c) \in SessionRow
BY AccountAssumption, PolicyType DEF NewSession, SessionRow, AccountTypeOK

LEMMA LimitType ==
    ASSUME AccountTypeOK, NEW row \in AccountRow
    PROVE  LimitOf(row) \in Nat
BY PolicyType DEF LimitOf, AccountRow

(* The rows that the administrator and a login write.                      *)
CreatedRow(role, ends) ==
    [NoAccount EXCEPT !.exists = TRUE, !.role = role, !.ends = ends]
AdmittedRow(role, ends, b) ==
    [NoAccount EXCEPT !.exists = TRUE, !.role = role, !.ends = ends, !.source = b]
UpdatedRow(row, role, status, ends, override) ==
    [row EXCEPT !.role = role, !.status = status, !.ends = ends,
                !.override = override]

LEMMA CreatedRows ==
    ASSUME NEW role \in Roles, NEW ends \in Nat
    PROVE  /\ CreatedRow(role, ends) \in AccountRow
           /\ CreatedRow(role, ends).exists
           /\ CreatedRow(role, ends).source = 0
BY Rows DEF AccountRow, CreatedRow, NoAccount

LEMMA AdmittedRows ==
    ASSUME NEW role \in Roles, NEW ends \in Nat, NEW b \in 1..MaxBatches
    PROVE  /\ AdmittedRow(role, ends, b) \in AccountRow
           /\ AdmittedRow(role, ends, b).exists
           /\ AdmittedRow(role, ends, b).source = b
<1>1. b \in 0..MaxBatches
  BY AccountAssumption
<1>2. NoAccount \in AccountRow
  BY Rows
<1>3. QED
  BY <1>1, <1>2 DEF AccountRow, AdmittedRow

LEMMA UpdatedRows ==
    ASSUME NEW row \in AccountRow, NEW role \in Roles,
           NEW status \in {"active", "disabled"}, NEW ends \in Nat,
           NEW override \in Nat
    PROVE  /\ UpdatedRow(row, role, status, ends, override) \in AccountRow
           /\ UpdatedRow(row, role, status, ends, override).exists = row.exists
           /\ UpdatedRow(row, role, status, ends, override).source = row.source
BY DEF AccountRow, UpdatedRow

(* A thread past its first read knows a session.                           *)
AsksAreOfSessions ==
    \A h \in Threads : asking[h].pc # "idle" => asking[h].session \in SessionIds

(* A session that has been opened is that of an account that is there.     *)
OwnersExist ==
    \A s \in SessionIds : sessions[s].state # "none" => accounts[sessions[s].owner].exists

LEMMA Ids == IsFiniteSet(SessionIds) /\ SessionIds \subseteq Int
<1>1. SessionIds \subseteq Int
  BY AccountAssumption DEF SessionIds
<1>2. QED
  BY <1>1, FS_Interval, AccountAssumption DEF SessionIds

LEMMA AccountTypeStep ==
    AccountTypeOK /\ AsksAreOfSessions /\ [AccountNext]_accountVars => AccountTypeOK'
<1> SUFFICES ASSUME AccountTypeOK, AsksAreOfSessions, [AccountNext]_accountVars
             PROVE  AccountTypeOK'
  OBVIOUS
<1>t. /\ accounts \in [Accounts -> AccountRow]
      /\ sessions \in [SessionIds -> SessionRow] /\ signedIn \in 0..MaxSessions
      /\ policy \in Policies
      /\ batches \in [1..MaxBatches -> BatchRow]
      /\ asking \in [Threads -> Asks]
      /\ tick \in 0..MaxTicks /\ accountOps \in 0..MaxAccountOps
      /\ epoch \in [Accounts -> Nat] /\ granted \in [Accounts -> Nat]
      /\ revived \subseteq SessionIds
      /\ lapsed \in BOOLEAN /\ lowered \subseteq 1..MaxBatches
  BY DEF AccountTypeOK
<1>op. ASSUME AccountOp PROVE accountOps' \in 0..MaxAccountOps
  BY <1>op, <1>t, AccountAssumption DEF AccountOp
<1>rev. \A ids : Revoked(ids) \in [SessionIds -> SessionRow]
  BY RevokedType
<1>1. ASSUME NEW a \in Accounts, NEW c \in Clients, SignIn(a, c)
      PROVE  AccountTypeOK'
  <2> DEFINE same == {s \in OpenOf(a) : c # NoClient /\ sessions[s].client = c}
             over == OverLimit(a, OnlineOf(a) \ same)
  <2>1. /\ signedIn < MaxSessions /\ signedIn' = signedIn + 1
        /\ sessions' = [Revoked(same \cup over) EXCEPT ![signedIn + 1] =
                          NewSession(a, c)]
        /\ granted' = [granted EXCEPT ![a] = LimitOf(accounts[a])]
        /\ revived' = revived \ SessionsOf(a)
    BY <1>1 DEF SignIn, OpensSession, NewSession
  <2> HIDE DEF same, over
  <2>2. NewSession(a, c) \in SessionRow /\ LimitOf(accounts[a]) \in Nat
    BY <1>t, NewSessionType, LimitType
  <2>3. sessions' \in [SessionIds -> SessionRow]
    BY <2>1, <2>2, <1>rev
  <2>4. granted' \in [Accounts -> Nat] /\ revived' \subseteq SessionIds
    BY <2>1, <2>2, <1>t
  <2>5. signedIn' \in 0..MaxSessions
    BY <2>1, <1>t, AccountAssumption
  <2>6. QED
    BY <1>1, <1>t, <2>3, <2>4, <2>5 DEF SignIn, AccountTypeOK
<1>2. ASSUME NEW s \in SessionIds, SignOut(s) PROVE AccountTypeOK'
  BY <1>2, <1>t, <1>rev DEF SignOut, AccountTypeOK
<1>3. ASSUME NEW h \in Threads, NEW s \in SessionIds, ReadsSession(h, s)
      PROVE  AccountTypeOK'
  <2>1. sessions[s] \in SessionRow
    BY <1>t
  <2>2. s \in 0..MaxSessions
    BY AccountAssumption DEF SessionIds
  <2>3. [pc |-> "read", session |-> s, now |-> tick, seen |-> sessions[s].seen]
           \in Asks
    BY <1>t, <2>1, <2>2 DEF Asks, SessionRow
  <2>4. asking' \in [Threads -> Asks]
    BY <1>3, <1>t, <2>3 DEF ReadsSession
  <2>5. QED
    BY <1>3, <1>t, <2>4 DEF ReadsSession, Untouched, AccountTypeOK
<1>4. ASSUME NEW h \in Threads, ReadsAccount(h) PROVE AccountTypeOK'
  <2>1. asking[h] \in Asks
    BY <1>t
  <2>2. /\ [asking[h] EXCEPT !.pc = "restricted"] \in Asks
        /\ [asking[h] EXCEPT !.pc = "touch"] \in Asks
        /\ NotAsking \in Asks
    BY <2>1, Rows DEF Asks
  <2>3. asking' \in [Threads -> Asks]
    BY <1>4, <1>t, <2>2 DEF ReadsAccount
  <2>4. QED
    BY <1>4, <1>t, <2>3 DEF ReadsAccount, Untouched, AccountTypeOK
<1>5. ASSUME NEW h \in Threads, RevokesRestricted(h) PROVE AccountTypeOK'
  <2>1. sessions' \in [SessionIds -> SessionRow]
    BY <1>5, <1>t, <1>rev DEF RevokesRestricted
  <2>2. asking' \in [Threads -> Asks]
    BY <1>5, <1>t, Rows DEF RevokesRestricted
  <2>3. QED
    BY <1>5, <1>t, <2>1, <2>2 DEF RevokesRestricted, Untouched, AccountTypeOK
<1>6. ASSUME NEW h \in Threads, Touches(h) PROVE AccountTypeOK'
  <2> DEFINE s == asking[h].session
  <2>1. asking[h].now \in 0..MaxTicks /\ s \in SessionIds
    BY <1>6, <1>t DEF Touches, Asks, AsksAreOfSessions
  <2>2. sessions[s] \in SessionRow
    BY <1>t, <2>1
  <2>3. [sessions[s] EXCEPT !.seen = asking[h].now] \in SessionRow
    BY <2>1, <2>2 DEF SessionRow
  <2>4. sessions' \in [SessionIds -> SessionRow]
    BY <1>6, <1>t, <2>3 DEF Touches
  <2>5. asking' \in [Threads -> Asks] /\ revived' \subseteq SessionIds
    BY <1>6, <1>t, <2>1, Rows DEF Touches
  <2>6. QED
    BY <1>6, <1>t, <2>4, <2>5 DEF Touches, Untouched, AccountTypeOK
<1>7. ASSUME NEW a \in Accounts, NEW role \in Roles, NEW ends \in Endings,
             CreateAccount(a, role, ends)
      PROVE  AccountTypeOK'
  <2>1. CreatedRow(role, ends) \in AccountRow
    BY CreatedRows, AccountAssumption
  <2>2. accounts' = [accounts EXCEPT ![a] = CreatedRow(role, ends)]
    BY <1>7 DEF CreateAccount, CreatedRow
  <2>3. accounts' \in [Accounts -> AccountRow]
    BY <1>t, <2>1, <2>2
  <2>4. QED
    BY <1>7, <1>op, <1>t, <2>3 DEF CreateAccount, AccountTypeOK
<1>8. ASSUME NEW a \in Accounts, NEW role \in Roles, NEW ends \in Endings,
             NEW status \in {"active", "disabled"}, NEW override \in LimitChoices,
             UpdateAccount(a, role, status, ends, override)
      PROVE  AccountTypeOK'
  <2> DEFINE row == UpdatedRow(accounts[a], role, status, ends, override)
  <2>1. row \in AccountRow
    <3>1. accounts[a] \in AccountRow /\ ends \in Nat /\ override \in Nat
      BY <1>t, AccountAssumption
    <3>2. QED
      BY <3>1, UpdatedRows
  <2>2. /\ AccountOp /\ accounts' = [accounts EXCEPT ![a] = row]
        /\ IF IsActive(row) THEN UNCHANGED <<sessions, epoch>>
           ELSE sessions' = Revoked(OpenOf(a)) /\ epoch' = [epoch EXCEPT ![a] = @ + 1]
        /\ UNCHANGED <<signedIn, policy, batches, asking, tick, granted, revived,
                       lapsed, lowered>>
    BY <1>8 DEF UpdateAccount, UpdatedRow
  <2> HIDE DEF row
  <2>3. accounts' \in [Accounts -> AccountRow]
    BY <1>t, <2>1, <2>2
  <2>4. sessions' \in [SessionIds -> SessionRow] /\ epoch' \in [Accounts -> Nat]
    <3>1. CASE UNCHANGED <<sessions, epoch>>
      BY <1>t, <3>1
    <3>2. CASE sessions' = Revoked(OpenOf(a)) /\ epoch' = [epoch EXCEPT ![a] = @ + 1]
      BY <1>t, <1>rev, <3>2
    <3>3. QED
      BY <2>2, <3>1, <3>2
  <2>5. QED
    BY <1>op, <1>t, <2>2, <2>3, <2>4 DEF AccountTypeOK
<1>9. ASSUME NEW a \in Accounts, ChangePassword(a) PROVE AccountTypeOK'
  <2>1. sessions' \in [SessionIds -> SessionRow] /\ epoch' \in [Accounts -> Nat]
    BY <1>9, <1>t, <1>rev DEF ChangePassword
  <2>2. QED
    BY <1>9, <1>op, <1>t, <2>1 DEF ChangePassword, AccountTypeOK
<1>10. ASSUME NEW a \in Accounts, DeleteAccount(a) PROVE AccountTypeOK'
  <2>1. accounts' \in [Accounts -> AccountRow]
    BY <1>10, <1>t, Rows DEF DeleteAccount
  <2>2. sessions' \in [SessionIds -> SessionRow] /\ epoch' \in [Accounts -> Nat]
    BY <1>10, <1>t, Rows DEF DeleteAccount
  <2>3. QED
    BY <1>10, <1>op, <1>t, <2>1, <2>2 DEF DeleteAccount, AccountTypeOK
<1>11. ASSUME NEW chosen \in Policies, SavePolicy(chosen) PROVE AccountTypeOK'
  BY <1>11, <1>op, <1>t, AccountAssumption DEF SavePolicy, AccountTypeOK
<1>12. ASSUME NEW b \in 1..MaxBatches, NEW seats \in 1..2, NEW role \in Roles,
              NEW enabled \in BOOLEAN, SaveBatch(b, seats, role, enabled)
       PROVE  AccountTypeOK'
  <2>1. [made |-> TRUE, seats |-> seats, role |-> role, enabled |-> enabled] \in BatchRow
    BY DEF BatchRow
  <2>2. \A c \in 1..MaxBatches :
          [batches[c] EXCEPT !.enabled = @ /\ ~enabled] \in BatchRow
    BY <1>t DEF BatchRow
  <2>3. batches' \in [1..MaxBatches -> BatchRow]
    BY <1>12, <1>t, <2>1, <2>2 DEF SaveBatch
  <2>4. lowered' \subseteq 1..MaxBatches
    BY <1>12, <1>t DEF SaveBatch
  <2>5. QED
    BY <1>12, <1>op, <1>t, <2>3, <2>4 DEF SaveBatch, AccountTypeOK
<1>13. ASSUME NEW a \in Accounts, NEW b \in 1..MaxBatches, NEW c \in Clients,
              NEW ends \in Endings, Admit(a, b, c, ends)
       PROVE  AccountTypeOK'
  <2> DEFINE row == AdmittedRow(batches[b].role, ends, b)
  <2>1. row \in AccountRow
    <3>1. batches[b].role \in Roles /\ ends \in Nat
      BY <1>t, AccountAssumption DEF BatchRow
    <3>2. QED
      BY <3>1, AdmittedRows
  <2>2. accounts' = [accounts EXCEPT ![a] = row]
    BY <1>13 DEF Admit, AdmittedRow
  <2>3. accounts' \in [Accounts -> AccountRow] /\ accounts'[a] = row
    BY <1>t, <2>1, <2>2
  <2>4. LimitOf(accounts'[a]) \in Nat /\ NewSession(a, c) \in SessionRow
    BY <2>1, <2>3, LimitType, NewSessionType
  <2>5. \/ /\ signedIn < MaxSessions /\ signedIn' = signedIn + 1
           /\ sessions' = [sessions EXCEPT ![signedIn + 1] = NewSession(a, c)]
           /\ granted' = [granted EXCEPT ![a] = LimitOf(accounts'[a])]
        \/ UNCHANGED <<signedIn, sessions, granted>>
    BY <1>13 DEF Admit, NewSession
  <2>6. /\ signedIn' \in 0..MaxSessions /\ sessions' \in [SessionIds -> SessionRow]
        /\ granted' \in [Accounts -> Nat]
    <3>1. CASE UNCHANGED <<signedIn, sessions, granted>>
      BY <1>t, <3>1
    <3>2. CASE /\ signedIn < MaxSessions /\ signedIn' = signedIn + 1
               /\ sessions' = [sessions EXCEPT ![signedIn + 1] = NewSession(a, c)]
               /\ granted' = [granted EXCEPT ![a] = LimitOf(accounts'[a])]
      <4> DEFINE limit == LimitOf(accounts'[a])
      <4>1. limit \in Nat /\ granted' = [granted EXCEPT ![a] = limit]
        BY <2>4, <3>2
      <4> HIDE DEF limit
      <4>2. granted' \in [Accounts -> Nat]
        BY <1>t, <4>1
      <4>3. sessions' \in [SessionIds -> SessionRow]
        BY <1>t, <2>4, <3>2
      <4>4. signedIn' \in 0..MaxSessions
        BY <1>t, <3>2, AccountAssumption
      <4>5. QED
        BY <4>2, <4>3, <4>4
    <3>3. QED
      BY <2>5, <3>1, <3>2
  <2>7. QED
    BY <1>13, <1>t, <2>3, <2>6 DEF Admit, AccountTypeOK
<1>14. ASSUME Bootstrap PROVE AccountTypeOK'
  <2>1. accounts' \in [Accounts -> AccountRow]
    BY <1>14, <1>t, Rows DEF Bootstrap
  <2>2. QED
    BY <1>14, <1>t, <2>1 DEF Bootstrap, AccountTypeOK
<1>15. ASSUME TickPasses PROVE AccountTypeOK'
  BY <1>15, <1>t, AccountAssumption DEF TickPasses, AccountTypeOK
<1>16. ASSUME UNCHANGED accountVars PROVE AccountTypeOK'
  BY <1>16, <1>t DEF accountVars, AccountTypeOK
<1>17. QED
  BY <1>1, <1>2, <1>3, <1>4, <1>5, <1>6, <1>7, <1>8, <1>9, <1>10, <1>11, <1>12,
     <1>13, <1>14, <1>15, <1>16
     DEF AccountNext, Signing, Answering, ThreadStep, Administering, SavingPolicy,
         Admitting

(***************************************************************************)
(* Accounts: sessions and what ends them                                   *)
(***************************************************************************)
LEMMA AsksStep ==
    AccountTypeOK /\ AsksAreOfSessions /\ [AccountNext]_accountVars
        => AsksAreOfSessions'
<1> SUFFICES ASSUME AccountTypeOK, AsksAreOfSessions, [AccountNext]_accountVars
             PROVE  AsksAreOfSessions'
  OBVIOUS
<1>t. asking \in [Threads -> Asks]
  BY DEF AccountTypeOK
<1>1. ASSUME UNCHANGED asking PROVE AsksAreOfSessions'
  BY <1>1 DEF AsksAreOfSessions
<1>2. ASSUME NEW h \in Threads, asking' = [asking EXCEPT ![h] = NotAsking]
      PROVE  AsksAreOfSessions'
  BY <1>t, <1>2 DEF AsksAreOfSessions, NotAsking
<1>3. ASSUME NEW h \in Threads, NEW s \in SessionIds, ReadsSession(h, s)
      PROVE  AsksAreOfSessions'
  BY <1>t, <1>3 DEF AsksAreOfSessions, ReadsSession
<1>4. ASSUME NEW h \in Threads, ReadsAccount(h) PROVE AsksAreOfSessions'
  <2>1. \/ asking' = [asking EXCEPT ![h] = NotAsking]
        \/ asking' = [asking EXCEPT ![h] = [@ EXCEPT !.pc = "restricted"]]
        \/ asking' = [asking EXCEPT ![h] = [@ EXCEPT !.pc = "touch"]]
    BY <1>4 DEF ReadsAccount
  <2>2. asking[h] \in Asks /\ asking[h].session \in SessionIds
    BY <1>t, <1>4 DEF ReadsAccount, AsksAreOfSessions
  <2>3. /\ [asking[h] EXCEPT !.pc = "restricted"].session = asking[h].session
        /\ [asking[h] EXCEPT !.pc = "touch"].session = asking[h].session
    BY <2>2 DEF Asks
  <2>4. \A g \in Threads : g # h => asking'[g] = asking[g]
    BY <1>t, <2>1
  <2>5. asking'[h] = NotAsking \/ asking'[h].session = asking[h].session
    BY <1>t, <2>1, <2>3
  <2>6. QED
    BY <2>2, <2>4, <2>5 DEF AsksAreOfSessions, NotAsking
<1>5. CASE Signing \/ SavingPolicy \/ Bootstrap \/ TickPasses \/ UNCHANGED accountVars
  BY <1>1, <1>5 DEF Signing, SavingPolicy, SignIn, SignOut, SavePolicy, Bootstrap,
     TickPasses, accountVars
<1>6. CASE Answering
  BY <1>2, <1>3, <1>4, <1>6
     DEF Answering, ThreadStep, RevokesRestricted, Touches
<1>7. CASE Administering
  <2>1. ASSUME NEW a, NEW role, NEW ends, CreateAccount(a, role, ends)
        PROVE  UNCHANGED asking
    BY <2>1 DEF CreateAccount
  <2>2. ASSUME NEW a, NEW role, NEW status, NEW ends, NEW override,
               UpdateAccount(a, role, status, ends, override)
        PROVE  UNCHANGED asking
    BY <2>2 DEF UpdateAccount
  <2>3. ASSUME NEW a, ChangePassword(a) \/ DeleteAccount(a) PROVE UNCHANGED asking
    BY <2>3 DEF ChangePassword, DeleteAccount
  <2>4. QED
    BY <1>1, <1>7, <2>1, <2>2, <2>3 DEF Administering
<1>8. CASE Admitting
  BY <1>1, <1>8 DEF Admitting, SaveBatch, Admit
<1>9. QED
  BY <1>5, <1>6, <1>7, <1>8 DEF AccountNext

(* What a step leaves of a session: it is kept, and is not opened again;   *)
(* it goes; or it has just been opened, for an account that is there.      *)
Remains(s) ==
    /\ sessions'[s].owner = sessions[s].owner /\ sessions'[s].epoch = sessions[s].epoch
    /\ sessions'[s].state = "open" => sessions[s].state = "open"
    /\ sessions'[s].state # "none" => sessions[s].state # "none"
Kept(s) ==
    /\ Remains(s)
    /\ sessions'[s].state # "none" /\ accounts[sessions[s].owner].exists
         => accounts'[sessions[s].owner].exists
    /\ sessions'[s].state = "open" =>
         epoch'[sessions[s].owner] = epoch[sessions[s].owner]
Gone(s) == sessions'[s] = NoSession
Opened(s) ==
    \E a \in Accounts, c \in Clients :
        /\ sessions'[s] = NewSession(a, c) /\ accounts'[a].exists
        /\ epoch'[a] = epoch[a]
EachIsKept == \A s \in SessionIds : Kept(s) \/ Gone(s) \/ Opened(s)

LEMMA RevokedRemains ==
    ASSUME AccountTypeOK, NEW ids,
           \A s \in ids : s \in SessionIds => sessions[s].state # "none",
           sessions' = Revoked(ids)
    PROVE  \A s \in SessionIds :
              /\ Remains(s) /\ (s \in ids => sessions'[s].state = "revoked")
              /\ (s \notin ids => sessions'[s] = sessions[s])
<1>1. \A s \in SessionIds : s \notin ids => Revoked(ids)[s] = sessions[s]
  BY DEF Revoked
<1>2. QED
  BY <1>1, RevokedType DEF Remains

LEMMA SessionStep == AccountTypeOK /\ [AccountNext]_accountVars => EachIsKept
<1> SUFFICES ASSUME AccountTypeOK, [AccountNext]_accountVars PROVE EachIsKept
  OBVIOUS
<1>t. /\ accounts \in [Accounts -> AccountRow]
      /\ sessions \in [SessionIds -> SessionRow]
      /\ epoch \in [Accounts -> Nat]
  BY DEF AccountTypeOK
<1>o. \A s \in SessionIds : sessions[s] \in SessionRow /\ sessions[s].owner \in Accounts
  BY <1>t DEF SessionRow
<1>same. ASSUME sessions' = sessions, epoch' = epoch,
                \A a \in Accounts : accounts[a].exists => accounts'[a].exists
         PROVE  EachIsKept
  BY <1>same, <1>o DEF EachIsKept, Kept, Remains
<1>rev. ASSUME NEW ids, sessions' = Revoked(ids), epoch' = epoch, accounts' = accounts,
               \A s \in ids : s \in SessionIds => sessions[s].state # "none"
        PROVE  EachIsKept
  BY <1>rev, RevokedRemains DEF EachIsKept, Kept
<1>end. ASSUME NEW a \in Accounts, sessions' = Revoked(OpenOf(a)),
               epoch' = [epoch EXCEPT ![a] = @ + 1],
               \A b \in Accounts : accounts[b].exists => accounts'[b].exists
        PROVE  EachIsKept
  <2>1. \A s \in OpenOf(a) : s \in SessionIds => sessions[s].state # "none"
    BY DEF OpenOf, SessionsOf
  <2>2. \A s \in SessionIds :
           /\ Remains(s) /\ (s \in OpenOf(a) => sessions'[s].state = "revoked")
           /\ (s \notin OpenOf(a) => sessions'[s] = sessions[s])
    BY <1>end, <2>1, RevokedRemains
  <2>3. ASSUME NEW s \in SessionIds, sessions'[s].state = "open"
        PROVE  epoch'[sessions[s].owner] = epoch[sessions[s].owner]
    <3>1. s \notin OpenOf(a) /\ sessions[s].state = "open"
      BY <2>2, <2>3 DEF Remains
    <3>2. sessions[s].owner # a
      BY <3>1 DEF OpenOf, SessionsOf
    <3>3. QED
      BY <1>end, <1>o, <1>t, <3>2
  <2>4. QED
    BY <1>end, <1>o, <2>2, <2>3 DEF EachIsKept, Kept
<1>1. ASSUME NEW a \in Accounts, NEW c \in Clients, SignIn(a, c) PROVE EachIsKept
  <2> DEFINE same == {s \in OpenOf(a) : c # NoClient /\ sessions[s].client = c}
             over == OverLimit(a, OnlineOf(a) \ same)
             ids  == same \cup over
  <2>1. /\ sessions' = [Revoked(ids) EXCEPT ![signedIn + 1] = NewSession(a, c)]
        /\ accounts[a].exists /\ accounts' = accounts /\ epoch' = epoch
    BY <1>1 DEF SignIn, OpensSession, NewSession, IsActive, ActiveAt
  <2>2. \A s \in ids : s \in SessionIds => sessions[s].state # "none"
    BY DEF OpenOf, SessionsOf, OverLimit, OnlineOf
  <2> HIDE DEF ids, over, same
  <2>3. \A s \in SessionIds :
          /\ Revoked(ids)[s].owner = sessions[s].owner
          /\ Revoked(ids)[s].epoch = sessions[s].epoch
          /\ Revoked(ids)[s].state = IF s \in ids THEN "revoked" ELSE sessions[s].state
    BY RevokedType
  <2>4. \A s \in SessionIds : s # signedIn + 1 => sessions'[s] = Revoked(ids)[s]
    BY <2>1, RevokedType
  <2>5. ASSUME NEW s \in SessionIds, s = signedIn + 1 PROVE Opened(s)
    <3>1. sessions'[s] = NewSession(a, c)
      BY <2>1, <2>5, RevokedType
    <3>2. QED
      BY <2>1, <3>1 DEF Opened
  <2>6. ASSUME NEW s \in SessionIds, s # signedIn + 1 PROVE Kept(s)
    BY <2>1, <2>2, <2>3, <2>4, <2>6 DEF Kept, Remains
  <2>7. QED
    BY <2>5, <2>6 DEF EachIsKept
<1>2. ASSUME NEW s \in SessionIds, SignOut(s) PROVE EachIsKept
  BY <1>2, <1>rev DEF SignOut
<1>3. ASSUME NEW h \in Threads, RevokesRestricted(h) PROVE EachIsKept
  <2> DEFINE s == asking[h].session
  <2>1. sessions[s].state = "none" \/ \A r \in {s} : r \in SessionIds => sessions[r].state # "none"
    OBVIOUS
  <2>2. QED
    BY <1>3, <1>same, <1>rev, <2>1 DEF RevokesRestricted, Untouched
<1>4. ASSUME NEW h \in Threads, Touches(h) PROVE EachIsKept
  <2> DEFINE s == asking[h].session
  <2>1. accounts' = accounts /\ epoch' = epoch
    BY <1>4 DEF Touches, Untouched
  <2>2. ASSUME NEW r \in SessionIds
        PROVE  sessions'[r] = sessions[r]
               \/ sessions'[r] = [sessions[r] EXCEPT !.seen = asking[h].now]
    BY <1>4, <1>t DEF Touches
  <2>3. \A r \in SessionIds :
          LET touched == [sessions[r] EXCEPT !.seen = asking[h].now] IN
          /\ touched.owner = sessions[r].owner /\ touched.epoch = sessions[r].epoch
          /\ touched.state = sessions[r].state
    BY <1>o DEF SessionRow
  <2>4. \A r \in SessionIds : Remains(r)
    BY <2>2, <2>3 DEF Remains
  <2>5. QED
    BY <2>1, <2>4 DEF EachIsKept, Kept
<1>5. ASSUME NEW h \in Threads,
             ReadsAccount(h) \/ \E s \in SessionIds : ReadsSession(h, s)
      PROVE  EachIsKept
  BY <1>5, <1>same DEF ReadsAccount, ReadsSession, Untouched
<1>6. ASSUME NEW a \in Accounts, NEW role \in Roles, NEW ends \in Endings,
             CreateAccount(a, role, ends)
      PROVE  EachIsKept
  <2>1. sessions' = sessions /\ epoch' = epoch
        /\ accounts' = [accounts EXCEPT ![a] = CreatedRow(role, ends)]
    BY <1>6 DEF CreateAccount, CreatedRow
  <2>2. CreatedRow(role, ends).exists
    BY CreatedRows, AccountAssumption
  <2>3. QED
    BY <1>same, <1>t, <2>1, <2>2
<1>7. ASSUME NEW a \in Accounts, NEW role \in Roles, NEW ends \in Endings,
             NEW status \in {"active", "disabled"}, NEW override \in LimitChoices,
             UpdateAccount(a, role, status, ends, override)
      PROVE  EachIsKept
  <2> DEFINE row == UpdatedRow(accounts[a], role, status, ends, override)
  <2>1. /\ accounts' = [accounts EXCEPT ![a] = row]
        /\ IF IsActive(row) THEN UNCHANGED <<sessions, epoch>>
           ELSE sessions' = Revoked(OpenOf(a)) /\ epoch' = [epoch EXCEPT ![a] = @ + 1]
    BY <1>7 DEF UpdateAccount, UpdatedRow
  <2>2. row.exists = accounts[a].exists
    <3>1. accounts[a] \in AccountRow /\ ends \in Nat /\ override \in Nat
      BY <1>t, AccountAssumption
    <3>2. QED
      BY <3>1, UpdatedRows
  <2> HIDE DEF row
  <2>3. \A b \in Accounts : accounts[b].exists => accounts'[b].exists
    BY <1>t, <2>1, <2>2
  <2>4. QED
    BY <1>same, <1>end, <2>1, <2>3
<1>8. ASSUME NEW a \in Accounts, ChangePassword(a) PROVE EachIsKept
  BY <1>8, <1>end DEF ChangePassword
<1>9. ASSUME NEW a \in Accounts, DeleteAccount(a) PROVE EachIsKept
  <2>1. ASSUME NEW s \in SessionIds, s \in SessionsOf(a) PROVE Gone(s)
    BY <1>9, <2>1 DEF DeleteAccount, Gone
  <2>2. ASSUME NEW s \in SessionIds, s \notin SessionsOf(a) PROVE Kept(s)
    <3>1. sessions'[s] = sessions[s]
      BY <1>9, <2>2 DEF DeleteAccount
    <3>2. sessions[s].state = "none" \/ sessions[s].owner # a
      BY <2>2 DEF SessionsOf
    <3>3. \A d \in Accounts : d # a => accounts'[d] = accounts[d] /\ epoch'[d] = epoch[d]
      BY <1>9, <1>t DEF DeleteAccount
    <3>4. QED
      BY <1>o, <3>1, <3>2, <3>3 DEF Kept, Remains
  <2>3. QED
    BY <2>1, <2>2 DEF EachIsKept
<1>10. ASSUME NEW chosen, SavePolicy(chosen)
       PROVE  EachIsKept
  BY <1>10, <1>same DEF SavePolicy
<1>11. ASSUME NEW b, NEW seats, NEW role, NEW enabled, SaveBatch(b, seats, role, enabled)
       PROVE  EachIsKept
  BY <1>11, <1>same DEF SaveBatch
<1>12. ASSUME NEW a \in Accounts, NEW b \in 1..MaxBatches, NEW c \in Clients,
              NEW ends \in Endings, Admit(a, b, c, ends)
       PROVE  EachIsKept
  <2> DEFINE row == AdmittedRow(batches[b].role, ends, b)
  <2>1. row.exists
    <3>1. batches[b].role \in Roles /\ ends \in Nat
      BY AccountAssumption DEF AccountTypeOK, BatchRow
    <3>2. QED
      BY <3>1, AdmittedRows
  <2>2. /\ accounts' = [accounts EXCEPT ![a] = row] /\ epoch' = epoch
        /\ \/ sessions' = [sessions EXCEPT ![signedIn + 1] = NewSession(a, c)]
           \/ sessions' = sessions
    BY <1>12 DEF Admit, NewSession, AdmittedRow
  <2> HIDE DEF row
  <2>3. \A d \in Accounts : accounts[d].exists => accounts'[d].exists
    BY <1>t, <2>1, <2>2
  <2>4. CASE sessions' = sessions
    BY <1>same, <2>2, <2>3, <2>4
  <2>5. CASE sessions' = [sessions EXCEPT ![signedIn + 1] = NewSession(a, c)]
    <3>1. ASSUME NEW s \in SessionIds, s = signedIn + 1 PROVE Opened(s)
      <4>1. sessions'[s] = NewSession(a, c) /\ accounts'[a].exists
        BY <1>t, <2>1, <2>2, <2>5, <3>1
      <4>2. QED
        BY <2>2, <4>1 DEF Opened
    <3>2. ASSUME NEW s \in SessionIds, s # signedIn + 1 PROVE Kept(s)
      BY <1>o, <1>t, <2>2, <2>3, <2>5, <3>2 DEF Kept, Remains
    <3>3. QED
      BY <3>1, <3>2 DEF EachIsKept
  <2>6. QED
    BY <2>2, <2>4, <2>5
<1>13. ASSUME Bootstrap PROVE EachIsKept
  BY <1>13, <1>same DEF Bootstrap
<1>14. ASSUME TickPasses \/ UNCHANGED accountVars PROVE EachIsKept
  BY <1>14, <1>same DEF TickPasses, accountVars
<1>15. CASE Signing \/ Answering
  BY <1>1, <1>2, <1>3, <1>4, <1>5, <1>15 DEF Signing, Answering, ThreadStep
<1>16. CASE Administering
  BY <1>6, <1>7, <1>8, <1>9, <1>16 DEF Administering
<1>17. CASE SavingPolicy \/ Admitting
  BY <1>10, <1>11, <1>12, <1>17 DEF SavingPolicy, Admitting
<1>18. QED
  BY <1>13, <1>14, <1>15, <1>16, <1>17 DEF AccountNext

LEMMA OpenStep ==
    /\ AccountTypeOK /\ OpenIsCurrent /\ OwnersExist
    /\ [AccountNext]_accountVars
    => OpenIsCurrent' /\ OwnersExist'
<1> SUFFICES ASSUME AccountTypeOK, OpenIsCurrent, OwnersExist,
                    [AccountNext]_accountVars
             PROVE  OpenIsCurrent' /\ OwnersExist'
  OBVIOUS
<1>1. ASSUME NEW s \in SessionIds, Kept(s)
      PROVE  /\ sessions'[s].state = "open" =>
                    sessions'[s].epoch = epoch'[sessions'[s].owner]
             /\ sessions'[s].state # "none" => accounts'[sessions'[s].owner].exists
  BY <1>1 DEF Kept, Remains, OpenIsCurrent, OwnersExist
<1>2. ASSUME NEW s \in SessionIds, Gone(s) PROVE sessions'[s].state = "none"
  BY <1>2 DEF Gone, NoSession
<1>3. ASSUME NEW s \in SessionIds, Opened(s)
      PROVE  /\ sessions'[s].epoch = epoch'[sessions'[s].owner]
             /\ accounts'[sessions'[s].owner].exists
  BY <1>3 DEF Opened, NewSession
<1>4. QED
  BY <1>1, <1>2, <1>3, SessionStep DEF EachIsKept, OpenIsCurrent, OwnersExist

(***************************************************************************)
(* Accounts: the limit of sessions                                         *)
(***************************************************************************)
(* Of the sessions ids, those with fewer than n that were seen later are   *)
(* at most n: their ranks differ.                                          *)
LaterIn(ids, s) == {t \in ids : EarlierSeen(s, t)}

LEMMA LatestAreFew ==
    ASSUME AccountTypeOK, NEW ids \in SUBSET SessionIds, NEW n \in Nat,
           NEW kept \in SUBSET ids,
           \A s \in kept : Cardinality(LaterIn(ids, s)) < n
    PROVE  IsFiniteSet(kept) /\ Cardinality(kept) <= n
<1>1. IsFiniteSet(ids) /\ IsFiniteSet(kept)
  BY Ids, FS_Subset
<1>2. \A s \in ids : IsFiniteSet(LaterIn(ids, s)) /\ Cardinality(LaterIn(ids, s)) \in Nat
  <2> TAKE s \in ids
  <2>1. LaterIn(ids, s) \in SUBSET ids
    BY DEF LaterIn
  <2>2. QED
    BY <1>1, <2>1, FS_Subset, FS_CardinalityType
<1>3. \A s \in ids : s \in Int /\ sessions[s].seen \in Int
  BY Ids, AccountAssumption DEF AccountTypeOK, SessionRow
<1>4. ASSUME NEW s \in ids, NEW t \in ids, EarlierSeen(s, t)
      PROVE  Cardinality(LaterIn(ids, s)) # Cardinality(LaterIn(ids, t))
  <2>1. LaterIn(ids, t) \in SUBSET LaterIn(ids, s)
    BY <1>3, <1>4 DEF LaterIn, EarlierSeen
  <2>2. t \in LaterIn(ids, s) /\ t \notin LaterIn(ids, t)
    BY <1>3, <1>4 DEF LaterIn, EarlierSeen
  <2>3. QED
    BY <1>2, <2>1, <2>2, FS_Subset
<1>5. \A s, t \in kept : s # t =>
         Cardinality(LaterIn(ids, s)) # Cardinality(LaterIn(ids, t))
  <2>1. \A s, t \in kept : s # t => EarlierSeen(s, t) \/ EarlierSeen(t, s)
    BY <1>3 DEF EarlierSeen
  <2>2. QED
    BY <1>4, <2>1
<1>6. CASE Cardinality(kept) > n
  <2> DEFINE rank == [s \in kept |-> Cardinality(LaterIn(ids, s))]
  <2>1. rank \in [kept -> 0..(n - 1)]
    BY <1>2
  <2>2. IsFiniteSet(0..(n - 1)) /\ Cardinality(0..(n - 1)) = n
    BY FS_Interval
  <2> HIDE DEF rank
  <2>3. \E s, t \in kept : s # t /\ rank[s] = rank[t]
    BY <1>1, <1>6, <2>1, <2>2, FS_PigeonHole
  <2>4. QED
    BY <1>5, <2>3 DEF rank
<1>7. QED
  BY <1>1, <1>6, FS_CardinalityType

(* What a step that signs nobody in does to the sessions of an account     *)
(* that count: none is added.                                              *)
NoneAdded(a) ==
    /\ granted'[a] = granted[a]
    /\ OnlineOf(a)' \ revived' \subseteq OnlineOf(a) \ revived

LEMMA NoneAddedKeeps ==
    ASSUME NEW a \in Accounts, NoneAdded(a), AccountTypeOK,
           granted[a] # 0 => Cardinality(OnlineOf(a) \ revived) <= granted[a]
    PROVE  granted'[a] # 0 => Cardinality(OnlineOf(a)' \ revived') <= granted'[a]
<1>1. IsFiniteSet(OnlineOf(a) \ revived)
  <2>1. OnlineOf(a) \ revived \in SUBSET SessionIds
    BY DEF OnlineOf, OpenOf, SessionsOf
  <2>2. QED
    BY <2>1, Ids, FS_Subset
<1>2. granted[a] \in Nat
  BY DEF AccountTypeOK
<1>3. /\ IsFiniteSet(OnlineOf(a)' \ revived')
      /\ Cardinality(OnlineOf(a)' \ revived') <= Cardinality(OnlineOf(a) \ revived)
  BY <1>1, FS_Subset DEF NoneAdded
<1>4. QED
  BY <1>1, <1>2, <1>3, FS_CardinalityType DEF NoneAdded

(* A session that is kept as it was, or is revoked, adds none.             *)
LEMMA KeptAddsNone ==
    ASSUME AccountTypeOK, NEW a \in Accounts, granted'[a] = granted[a],
           tick' >= tick, tick' \in Int, policy' = policy,
           \A s \in SessionIds :
              s \in SessionsOf(a)' /\ sessions'[s].state = "open" /\ s \notin revived' =>
                 /\ s \in OpenOf(a) /\ s \notin revived
                 /\ sessions'[s].until = sessions[s].until
                 /\ sessions'[s].seen = sessions[s].seen
    PROVE  NoneAdded(a)
<1> SUFFICES ASSUME NEW s \in SessionIds, s \in OnlineOf(a)', s \notin revived'
             PROVE  s \in OnlineOf(a) /\ s \notin revived
  BY DEF NoneAdded, OnlineOf, OpenOf, SessionsOf
<1>1. /\ s \in SessionsOf(a)' /\ sessions'[s].state = "open"
      /\ sessions'[s].until > tick' /\ tick' - sessions'[s].seen <= policy.window
  BY DEF OnlineOf, OpenOf, IsOnline, SeenWithin
<1>2. /\ s \in OpenOf(a) /\ s \notin revived
      /\ sessions[s].until > tick' /\ tick' - sessions[s].seen <= policy.window
  BY <1>1
<1>3. policy.window \in Int /\ tick \in Int
  BY PolicyType DEF AccountTypeOK
<1>4. sessions[s].until \in Int /\ sessions[s].seen \in Int
  <2>1. sessions[s] \in SessionRow
    BY DEF AccountTypeOK
  <2>. QED
    BY <2>1, AccountAssumption DEF SessionRow
<1>5. QED
  BY <1>2, <1>3, <1>4 DEF OnlineOf, IsOnline, SeenWithin

LEMMA RevokedAddsNone ==
    ASSUME AccountTypeOK, NEW ids, NEW a \in Accounts,
           sessions' = Revoked(ids) \/ sessions' = sessions,
           \A s \in ids : s \in SessionIds => sessions[s].state # "none",
           granted' = granted, revived' = revived, tick' = tick, policy' = policy
    PROVE  NoneAdded(a)
<1>1. \A s \in SessionIds :
        /\ Remains(s)
        /\ sessions'[s].until = sessions[s].until /\ sessions'[s].seen = sessions[s].seen
  BY RevokedType, RevokedRemains DEF Remains
<1>2. ASSUME NEW s \in SessionIds, s \in SessionsOf(a)', sessions'[s].state = "open"
      PROVE  s \in OpenOf(a)
  BY <1>1, <1>2 DEF Remains, OpenOf, SessionsOf
<1>3. tick \in Int
  BY DEF AccountTypeOK
<1>4. QED
  BY <1>1, <1>2, <1>3, KeptAddsNone

(* Signing in: with those that make room gone, the account has room for    *)
(* the session that is opened.                                             *)
LEMMA SignInKeepsLimit ==
    ASSUME AccountTypeOK, NEW a \in Accounts, NEW c \in Clients, SignIn(a, c)
    PROVE  granted'[a] # 0 => Cardinality(OnlineOf(a)' \ revived') <= granted'[a]
<1> DEFINE same == {s \in OpenOf(a) : c # NoClient /\ sessions[s].client = c}
           ids  == OnlineOf(a) \ same
           over == OverLimit(a, ids)
           limit == LimitOf(accounts[a])
           new  == signedIn + 1
           kept == ids \ over
<1>1. /\ sessions' = [Revoked(same \cup over) EXCEPT ![new] = NewSession(a, c)]
      /\ granted' = [granted EXCEPT ![a] = limit] /\ tick' = tick /\ policy' = policy
  BY DEF SignIn, OpensSession, NewSession
<1>2. granted'[a] = limit /\ limit \in Nat
  BY <1>1, LimitType DEF AccountTypeOK
<1>3. ids \in SUBSET SessionIds /\ kept \in SUBSET ids
  BY DEF OnlineOf, OpenOf, SessionsOf
<1>4. OnlineOf(a)' \subseteq kept \cup {new}
  <2> SUFFICES ASSUME NEW s \in SessionIds, s \in OnlineOf(a)', s # new
               PROVE  s \in kept
    BY DEF OnlineOf, OpenOf, SessionsOf
  <2> DEFINE gone == same \cup over
  <2>1. sessions'[s] = Revoked(gone)[s]
    BY <1>1, RevokedType
  <2>2. /\ sessions'[s].state = "open" /\ sessions'[s].owner = a
        /\ sessions'[s].until > tick /\ tick - sessions'[s].seen <= policy.window
    BY <1>1 DEF OnlineOf, OpenOf, SessionsOf, IsOnline, SeenWithin
  <2> HIDE DEF gone
  <2>3. /\ s \notin gone /\ sessions[s].state = "open" /\ sessions[s].owner = a
        /\ sessions[s].until > tick /\ tick - sessions[s].seen <= policy.window
    BY <2>1, <2>2, RevokedType
  <2>4. s \in OnlineOf(a)
    BY <2>3 DEF OnlineOf, OpenOf, SessionsOf, IsOnline, SeenWithin
  <2>5. QED
    BY <2>3, <2>4 DEF gone
<1>5. CASE limit # 0
  <2>1. \A s \in kept : Cardinality(LaterIn(ids, s)) < limit - 1
    <3> TAKE s \in kept
    <3>1. ~(Cardinality(LaterIn(ids, s)) >= limit - 1)
      BY <1>5 DEF OverLimit, LaterIn
    <3>2. LaterIn(ids, s) \in SUBSET SessionIds
      BY <1>3 DEF LaterIn
    <3>3. Cardinality(LaterIn(ids, s)) \in Nat
      BY <3>2, Ids, FS_Subset, FS_CardinalityType
    <3>4. QED
      BY <3>1, <3>3, <1>2
  <2>2. limit - 1 \in Nat
    BY <1>2, <1>5
  <2> HIDE DEF kept, ids, limit, over, same
  <2>3. IsFiniteSet(kept) /\ Cardinality(kept) <= limit - 1
    BY <1>3, <2>1, <2>2, LatestAreFew
  <2>4. /\ IsFiniteSet(kept \cup {new})
        /\ Cardinality(kept \cup {new}) <= limit
    BY <1>2, <2>3, FS_AddElement, FS_CardinalityType
  <2>5. OnlineOf(a)' \ revived' \in SUBSET (kept \cup {new})
    BY <1>4
  <2>6. /\ IsFiniteSet(OnlineOf(a)' \ revived')
        /\ Cardinality(OnlineOf(a)' \ revived') <= Cardinality(kept \cup {new})
    BY <2>4, <2>5, FS_Subset
  <2>7. QED
    BY <1>2, <2>4, <2>6, FS_CardinalityType
<1>6. QED
  BY <1>2, <1>5

(* Signing in leaves the sessions of others alone.                         *)
LEMMA SignInAddsNoneElsewhere ==
    ASSUME AccountTypeOK, NEW a \in Accounts, NEW c \in Clients, SignIn(a, c),
           NEW b \in Accounts, b # a
    PROVE  NoneAdded(b)
<1> DEFINE same == {s \in OpenOf(a) : c # NoClient /\ sessions[s].client = c}
           gone == same \cup OverLimit(a, OnlineOf(a) \ same)
           new  == signedIn + 1
<1>1. /\ sessions' = [Revoked(gone) EXCEPT ![new] = NewSession(a, c)]
      /\ granted' = [granted EXCEPT ![a] = LimitOf(accounts[a])] /\ tick' = tick
      /\ revived' = revived \ SessionsOf(a) /\ policy' = policy
  BY DEF SignIn, OpensSession, NewSession
<1> HIDE DEF gone
<1>2. ASSUME NEW s \in SessionIds, s \in SessionsOf(b)', sessions'[s].state = "open",
             s \notin revived'
      PROVE  /\ s \in OpenOf(b) /\ s \notin revived
             /\ sessions'[s].until = sessions[s].until
             /\ sessions'[s].seen = sessions[s].seen
  <2>1. s # new
    <3> SUFFICES ASSUME s = new PROVE FALSE
      OBVIOUS
    <3>1. sessions'[s] = NewSession(a, c)
      BY <1>1, RevokedType
    <3>2. QED
      BY <1>2, <3>1 DEF NewSession, SessionsOf
  <2>2. sessions'[s] = Revoked(gone)[s]
    BY <1>1, <2>1, RevokedType
  <2>3. /\ sessions[s].state = "open" /\ sessions[s].owner = b
        /\ sessions'[s].until = sessions[s].until /\ sessions'[s].seen = sessions[s].seen
    BY <1>2, <2>2, RevokedType DEF SessionsOf
  <2>4. s \in OpenOf(b) /\ s \notin SessionsOf(a)
    BY <2>3 DEF OpenOf, SessionsOf
  <2>5. QED
    BY <1>1, <1>2, <2>3, <2>4
<1>3. granted'[b] = granted[b] /\ tick \in Int
  BY <1>1 DEF AccountTypeOK
<1>4. QED
  BY <1>1, <1>2, <1>3, KeptAddsNone

(* A session that is touched counts if it counted, or it was offline and   *)
(* is told apart.                                                          *)
LEMMA TouchAddsNone ==
    ASSUME AccountTypeOK, NEW h \in Threads, Touches(h), NEW a \in Accounts
    PROVE  NoneAdded(a)
<1> DEFINE s == asking[h].session
<1>1. /\ granted' = granted /\ tick' = tick /\ policy' = policy
      /\ revived' = IF IsOnline(s) THEN revived ELSE revived \cup {s}
  BY DEF Touches, Untouched
<1>2. \A r \in SessionIds : r # s => sessions'[r] = sessions[r]
  BY DEF Touches, AccountTypeOK
<1>3. \A r \in SessionIds :
         /\ sessions'[r].state = sessions[r].state
         /\ sessions'[r].owner = sessions[r].owner
  <2>1. \A r \in SessionIds : sessions[r] \in SessionRow
    BY DEF AccountTypeOK
  <2>2. \A r \in SessionIds :
           \/ sessions'[r] = sessions[r]
           \/ sessions'[r] = [sessions[r] EXCEPT !.seen = asking[h].now]
    BY DEF Touches, AccountTypeOK
  <2>3. QED
    BY <2>1, <2>2 DEF SessionRow
<1>4. OpenOf(a)' = OpenOf(a)
  BY <1>3 DEF OpenOf, SessionsOf
<1>5. ASSUME NEW r \in OnlineOf(a)', r \notin revived'
      PROVE  r \in OnlineOf(a) /\ r \notin revived
  <2>1. r \in OpenOf(a) /\ r \in SessionIds
    BY <1>4, <1>5 DEF OnlineOf, OpenOf, SessionsOf
  <2>2. CASE r = s
    BY <1>1, <1>5, <2>1, <2>2 DEF OnlineOf
  <2>3. CASE r # s
    <3>1. sessions'[r] = sessions[r] /\ r \notin revived
      BY <1>1, <1>2, <1>5, <2>1, <2>3
    <3>2. QED
      BY <1>1, <1>5, <2>1, <3>1 DEF OnlineOf, IsOnline, SeenWithin
  <2>4. QED
    BY <2>2, <2>3
<1>6. QED
  BY <1>1, <1>5 DEF NoneAdded

(* A new account has no session but the one it is admitted with.           *)
LEMMA AdmitKeepsLimit ==
    ASSUME AccountTypeOK, OwnersExist, LimitIsKept,
           NEW a \in Accounts, NEW b \in 1..MaxBatches,
           NEW c \in Clients, NEW ends \in Endings, Admit(a, b, c, ends),
           NEW d \in Accounts
    PROVE  granted'[d] # 0 => Cardinality(OnlineOf(d)' \ revived') <= granted'[d]
<1> DEFINE limit == LimitOf(accounts'[a])
           new == signedIn + 1
<1>1. /\ tick' = tick /\ revived' = revived /\ ~accounts[a].exists /\ policy' = policy
      /\ \/ /\ sessions' = [sessions EXCEPT ![new] = NewSession(a, c)]
            /\ granted' = [granted EXCEPT ![a] = limit]
         \/ sessions' = sessions /\ granted' = granted
  BY DEF Admit, NewSession
<1>2. limit \in Nat
  <2> DEFINE row == AdmittedRow(batches[b].role, ends, b)
  <2>1. row \in AccountRow
    <3>1. batches[b].role \in Roles /\ ends \in Nat
      BY AccountAssumption DEF AccountTypeOK, BatchRow
    <3>2. QED
      BY <3>1, AdmittedRows
  <2>2. accounts' = [accounts EXCEPT ![a] = row]
    BY DEF Admit, AdmittedRow
  <2> HIDE DEF row
  <2>3. accounts'[a] \in AccountRow
    BY <2>1, <2>2 DEF AccountTypeOK
  <2>4. QED
    BY <2>3, LimitType
<1> HIDE DEF limit
<1>3. sessions \in [SessionIds -> SessionRow] /\ granted \in [Accounts -> Nat]
  BY DEF AccountTypeOK
<1>4. CASE sessions' = sessions /\ granted' = granted
  <2>1. OnlineOf(d)' = OnlineOf(d)
    BY <1>1, <1>4 DEF OnlineOf, OpenOf, SessionsOf, IsOnline, SeenWithin
  <2>2. QED
    BY <1>1, <1>4, <2>1 DEF LimitIsKept
<1>5. CASE /\ sessions' = [sessions EXCEPT ![new] = NewSession(a, c)]
           /\ granted' = [granted EXCEPT ![a] = limit]
  <2>1. CASE d = a
    <3>1. SessionsOf(a)' \subseteq {new}
      BY <1>1, <1>3, <1>5 DEF OwnersExist, SessionsOf
    <3>2. OnlineOf(a)' \ revived' \in SUBSET {new}
      BY <3>1 DEF OnlineOf, OpenOf
    <3>3. Cardinality(OnlineOf(a)' \ revived') <= 1
      <4>1. IsFiniteSet({new}) /\ Cardinality({new}) = 1
        BY FS_Singleton
      <4>2. QED
        BY <3>2, <4>1, FS_Subset
    <3>4. IsFiniteSet(OnlineOf(a)' \ revived')
      BY <3>2, FS_Singleton, FS_Subset
    <3>5. granted'[a] = limit
      BY <1>3, <1>5
    <3>6. QED
      BY <1>2, <2>1, <3>3, <3>4, <3>5, FS_CardinalityType
  <2>2. CASE d # a
    <3>1. ASSUME NEW s \in SessionIds, s \in SessionsOf(d)', sessions'[s].state = "open",
                 s \notin revived'
          PROVE  /\ s \in OpenOf(d) /\ s \notin revived
                 /\ sessions'[s].until = sessions[s].until
                 /\ sessions'[s].seen = sessions[s].seen
      <4>1. s # new
        BY <1>3, <1>5, <2>2, <3>1 DEF NewSession, SessionsOf
      <4>2. sessions'[s] = sessions[s]
        BY <1>3, <1>5, <4>1
      <4>3. QED
        BY <1>1, <3>1, <4>2 DEF OpenOf, SessionsOf
    <3>2. granted'[d] = granted[d] /\ tick \in Int
      BY <1>3, <1>5, <2>2 DEF AccountTypeOK
    <3>3. NoneAdded(d)
      BY <1>1, <3>1, <3>2, KeptAddsNone
    <3>4. QED
      BY <3>3, NoneAddedKeeps DEF LimitIsKept
  <2>3. QED
    BY <2>1, <2>2
<1>6. QED
  BY <1>1, <1>4, <1>5

LEMMA DeleteAddsNone ==
    ASSUME AccountTypeOK, NEW a \in Accounts, DeleteAccount(a), NEW b \in Accounts
    PROVE  NoneAdded(b)
<1>1. ASSUME NEW s \in SessionIds, s \in SessionsOf(b)', sessions'[s].state = "open",
             s \notin revived'
      PROVE  /\ s \in OpenOf(b) /\ s \notin revived
             /\ sessions'[s].until = sessions[s].until
             /\ sessions'[s].seen = sessions[s].seen
  <2>1. s \notin SessionsOf(a)
    BY <1>1 DEF DeleteAccount, NoSession
  <2>2. sessions'[s] = sessions[s]
    BY <2>1 DEF DeleteAccount
  <2>3. QED
    BY <1>1, <2>1, <2>2 DEF DeleteAccount, OpenOf, SessionsOf
<1>2. granted' = granted /\ tick' = tick /\ tick \in Int /\ policy' = policy
  BY DEF DeleteAccount, AccountTypeOK
<1>3. QED
  BY <1>1, <1>2, KeptAddsNone

(* A session that a longer window brings online is told apart; the others  *)
(* that are online were so before.                                         *)
LEMMA PolicyAddsNone ==
    ASSUME NEW chosen, SavePolicy(chosen), NEW a \in Accounts
    PROVE  NoneAdded(a)
<1>1. /\ sessions' = sessions /\ tick' = tick /\ granted' = granted /\ policy' = chosen
      /\ revived' = revived \cup {s \in SessionIds : SeenWithin(s, chosen.window) /\ ~IsOnline(s)}
  BY DEF SavePolicy
<1>2. OpenOf(a)' = OpenOf(a)
  BY <1>1 DEF OpenOf, SessionsOf
<1>3. ASSUME NEW s \in OpenOf(a), IsOnline(s)', s \notin revived'
      PROVE  IsOnline(s) /\ s \notin revived
  <2>1. SeenWithin(s, chosen.window) /\ s \in SessionIds
    BY <1>1, <1>3 DEF IsOnline, SeenWithin, OpenOf, SessionsOf
  <2>2. QED
    BY <1>1, <1>3, <2>1
<1>4. QED
  BY <1>1, <1>2, <1>3 DEF NoneAdded, OnlineOf

LEMMA LimitStep ==
    AccountTypeOK /\ OwnersExist /\ LimitIsKept /\ [AccountNext]_accountVars
        => LimitIsKept'
<1> SUFFICES ASSUME AccountTypeOK, OwnersExist, LimitIsKept, [AccountNext]_accountVars,
                    NEW d \in Accounts
             PROVE  granted'[d] # 0 =>
                       Cardinality(OnlineOf(d)' \ revived') <= granted'[d]
  BY DEF LimitIsKept
<1>k. ASSUME NoneAdded(d)
      PROVE  granted'[d] # 0 => Cardinality(OnlineOf(d)' \ revived') <= granted'[d]
  BY <1>k, NoneAddedKeeps DEF LimitIsKept
<1>open. \A a \in Accounts : \A s \in OpenOf(a) :
            s \in SessionIds => sessions[s].state # "none"
  BY DEF OpenOf, SessionsOf
<1>same. ASSUME sessions' = sessions, granted' = granted, revived' = revived,
                tick' = tick, policy' = policy
         PROVE  NoneAdded(d)
  <2>1. SessionsOf(d)' = SessionsOf(d) /\ tick \in Int
    BY <1>same DEF SessionsOf, AccountTypeOK
  <2>2. QED
    BY <1>same, <2>1, KeptAddsNone DEF OpenOf
<1>1. ASSUME NEW a \in Accounts, NEW c \in Clients, SignIn(a, c)
      PROVE  granted'[d] # 0 => Cardinality(OnlineOf(d)' \ revived') <= granted'[d]
  BY <1>1, <1>k, SignInKeepsLimit, SignInAddsNoneElsewhere
<1>2. ASSUME NEW s \in SessionIds, SignOut(s) PROVE NoneAdded(d)
  BY <1>2, RevokedAddsNone DEF SignOut
<1>3. ASSUME NEW h \in Threads, RevokesRestricted(h) PROVE NoneAdded(d)
  <2> DEFINE s == asking[h].session
  <2>1. CASE sessions[s].state = "none"
    BY <1>3, <1>same, <2>1 DEF RevokesRestricted, Untouched
  <2>2. CASE sessions[s].state # "none"
    <3>1. \A r \in {s} : r \in SessionIds => sessions[r].state # "none"
      BY <2>2
    <3>2. QED
      BY <1>3, <2>2, <3>1, RevokedAddsNone DEF RevokesRestricted, Untouched
  <2>3. QED
    BY <2>1, <2>2
<1>4. ASSUME NEW h \in Threads, Touches(h) PROVE NoneAdded(d)
  BY <1>4, TouchAddsNone
<1>5. ASSUME NEW h \in Threads,
             ReadsAccount(h) \/ \E s \in SessionIds : ReadsSession(h, s)
      PROVE  NoneAdded(d)
  BY <1>5, <1>same DEF ReadsAccount, ReadsSession, Untouched
<1>6. ASSUME NEW a, NEW role, NEW ends, CreateAccount(a, role, ends)
      PROVE  NoneAdded(d)
  BY <1>6, <1>same DEF CreateAccount
<1>7. ASSUME NEW a \in Accounts, NEW role, NEW status, NEW ends, NEW override,
             UpdateAccount(a, role, status, ends, override)
      PROVE  NoneAdded(d)
  <2>1. /\ sessions' = sessions \/ sessions' = Revoked(OpenOf(a))
        /\ granted' = granted /\ revived' = revived /\ tick' = tick /\ policy' = policy
    BY <1>7 DEF UpdateAccount
  <2>2. QED
    BY <1>open, <2>1, RevokedAddsNone
<1>8. ASSUME NEW a \in Accounts, ChangePassword(a) PROVE NoneAdded(d)
  BY <1>8, <1>open, RevokedAddsNone DEF ChangePassword
<1>9. ASSUME NEW a \in Accounts, DeleteAccount(a) PROVE NoneAdded(d)
  BY <1>9, DeleteAddsNone
<1>10. ASSUME NEW chosen, SavePolicy(chosen) PROVE NoneAdded(d)
  BY <1>10, PolicyAddsNone
<1>11. ASSUME NEW b, NEW seats, NEW role, NEW enabled, SaveBatch(b, seats, role, enabled)
       PROVE  NoneAdded(d)
  BY <1>11, <1>same DEF SaveBatch
<1>12. ASSUME NEW a \in Accounts, NEW b \in 1..MaxBatches, NEW c \in Clients,
              NEW ends \in Endings, Admit(a, b, c, ends)
       PROVE  granted'[d] # 0 => Cardinality(OnlineOf(d)' \ revived') <= granted'[d]
  BY <1>12, AdmitKeepsLimit
<1>13. ASSUME Bootstrap \/ UNCHANGED accountVars PROVE NoneAdded(d)
  BY <1>13, <1>same DEF Bootstrap, accountVars
<1>14. ASSUME TickPasses PROVE NoneAdded(d)
  <2>1. /\ sessions' = sessions /\ granted' = granted /\ revived' = revived
        /\ tick' = tick + 1 /\ tick \in Int /\ policy' = policy
    BY <1>14 DEF TickPasses, AccountTypeOK
  <2>2. SessionsOf(d)' = SessionsOf(d)
    BY <2>1 DEF SessionsOf
  <2>3. QED
    BY <2>1, <2>2, KeptAddsNone DEF OpenOf
<1>15. CASE Signing \/ Answering
  BY <1>k, <1>1, <1>2, <1>3, <1>4, <1>5, <1>15 DEF Signing, Answering, ThreadStep
<1>16. CASE Administering
  BY <1>k, <1>6, <1>7, <1>8, <1>9, <1>16 DEF Administering
<1>17. CASE SavingPolicy \/ Admitting
  BY <1>k, <1>10, <1>11, <1>12, <1>17 DEF SavingPolicy, Admitting
<1>18. QED
  BY <1>k, <1>13, <1>14, <1>15, <1>16, <1>17 DEF AccountNext

(***************************************************************************)
(* Accounts: an administrator is left                                      *)
(***************************************************************************)
LEMMA AdminStep ==
    AccountTypeOK /\ AdminRemains /\ [AccountNext]_accountVars => AdminRemains'
<1> SUFFICES ASSUME AccountTypeOK, AdminRemains, [AccountNext]_accountVars
             PROVE  AdminRemains'
  OBVIOUS
<1>t. accounts \in [Accounts -> AccountRow]
  BY DEF AccountTypeOK
<1>same. ASSUME accounts' = accounts, tick' = tick, lapsed' = lapsed PROVE AdminRemains'
  BY <1>same DEF AdminRemains, IsLocalAdmin, IsAdmin, IsActive
(* An account that was none takes no administrator's place.                *)
<1>new. ASSUME NEW a \in Accounts, NEW row, accounts' = [accounts EXCEPT ![a] = row],
               ~accounts[a].exists, tick' = tick, lapsed' = lapsed
        PROVE  AdminRemains'
  <2>1. CASE lapsed
    BY <1>new, <2>1 DEF AdminRemains
  <2>2. ASSUME NEW b \in Accounts, IsLocalAdmin(accounts[b]) PROVE AdminRemains'
    <3>1. b # a
      BY <1>new, <2>2 DEF IsLocalAdmin, IsAdmin, IsActive, ActiveAt
    <3>2. accounts'[b] = accounts[b]
      BY <1>new, <1>t, <3>1
    <3>3. QED
      BY <1>new, <2>2, <3>2 DEF AdminRemains, IsLocalAdmin, IsAdmin, IsActive
  <2>3. QED
    BY <2>1, <2>2 DEF AdminRemains
(* A row is changed only if an administrator is left.                      *)
<1>becomes. ASSUME NEW a \in Accounts, NEW row, MayBecome(a, row),
                   accounts' = [accounts EXCEPT ![a] = row],
                   IsAdmin(row) => row.source = accounts[a].source,
                   tick' = tick, lapsed' = lapsed
            PROVE  AdminRemains'
  <2>1. CASE lapsed
    BY <1>becomes, <2>1 DEF AdminRemains
  <2>2. ASSUME NEW b \in Accounts, b # a, IsLocalAdmin(accounts[b]) PROVE AdminRemains'
    <3>1. accounts'[b] = accounts[b]
      BY <1>becomes, <1>t, <2>2
    <3>2. QED
      BY <1>becomes, <2>2, <3>1 DEF AdminRemains, IsLocalAdmin, IsAdmin, IsActive
  <2>3. CASE IsLocalAdmin(accounts[a])
    <3>1. CASE IsAdmin(row)
      <4>1. IsLocalAdmin(row) /\ accounts'[a] = row
        BY <1>becomes, <1>t, <2>3, <3>1 DEF IsLocalAdmin
      <4>2. QED
        BY <1>becomes, <4>1 DEF AdminRemains, IsLocalAdmin, IsAdmin, IsActive
    <3>2. CASE ~IsAdmin(row)
      BY <1>becomes, <2>2, <2>3, <3>2 DEF MayBecome, IsLocalAdmin
    <3>3. QED
      BY <3>1, <3>2
  <2>4. QED
    BY <2>1, <2>2, <2>3 DEF AdminRemains
<1>1. CASE Signing \/ SavingPolicy \/ UNCHANGED accountVars
  BY <1>1, <1>same DEF Signing, SavingPolicy, SignIn, SignOut, SavePolicy, accountVars
<1>2. CASE Answering
  BY <1>2, <1>same DEF Answering, ThreadStep, ReadsSession, ReadsAccount,
     RevokesRestricted, Touches, Untouched
<1>3. ASSUME NEW a \in Accounts, NEW role, NEW ends, CreateAccount(a, role, ends)
      PROVE  AdminRemains'
  BY <1>3, <1>new DEF CreateAccount
<1>4. ASSUME NEW a \in Accounts, NEW role \in Roles, NEW ends \in Endings,
             NEW status \in {"active", "disabled"}, NEW override \in LimitChoices,
             UpdateAccount(a, role, status, ends, override)
      PROVE  AdminRemains'
  <2> DEFINE row == UpdatedRow(accounts[a], role, status, ends, override)
  <2>1. /\ MayBecome(a, row) /\ accounts' = [accounts EXCEPT ![a] = row]
        /\ tick' = tick /\ lapsed' = lapsed
    BY <1>4 DEF UpdateAccount, UpdatedRow
  <2>2. row.source = accounts[a].source
    <3>1. accounts[a] \in AccountRow /\ ends \in Nat /\ override \in Nat
      BY <1>t, AccountAssumption
    <3>2. QED
      BY <3>1, UpdatedRows
  <2> HIDE DEF row
  <2>3. QED
    BY <1>becomes, <2>1, <2>2
<1>5. ASSUME NEW a \in Accounts, ChangePassword(a) PROVE AdminRemains'
  BY <1>5, <1>same DEF ChangePassword
<1>6. ASSUME NEW a \in Accounts, DeleteAccount(a) PROVE AdminRemains'
  <2>1. ~IsAdmin(NoAccount)
    BY DEF IsAdmin, NoAccount
  <2>2. QED
    BY <1>6, <1>becomes, <2>1 DEF DeleteAccount
<1>7. CASE Administering
  BY <1>3, <1>4, <1>5, <1>6, <1>7 DEF Administering
<1>8. ASSUME NEW b, NEW seats, NEW role, NEW enabled, SaveBatch(b, seats, role, enabled)
      PROVE  AdminRemains'
  BY <1>8, <1>same DEF SaveBatch
<1>9. ASSUME NEW a \in Accounts, NEW b, NEW c, NEW ends, Admit(a, b, c, ends)
      PROVE  AdminRemains'
  BY <1>9, <1>new DEF Admit
<1>10. CASE Admitting
  BY <1>8, <1>9, <1>10 DEF Admitting
<1>11. CASE Bootstrap
  BY <1>11, <1>new, AccountAssumption DEF Bootstrap
(* Time ends the validity of an administrator only as lapsed tells.        *)
<1>12. CASE TickPasses
  <2>1. /\ tick' = tick + 1 /\ accounts' = accounts /\ tick \in Nat
        /\ lapsed' = (\/ lapsed
                      \/ \E a \in Accounts : IsLocalAdmin(accounts[a])
                                             /\ accounts[a].ends = tick + 1)
    BY <1>12 DEF TickPasses, AccountTypeOK
  <2>2. CASE lapsed'
    BY <2>2 DEF AdminRemains
  <2>3. CASE ~lapsed'
    <3>1. PICK a \in Accounts : IsLocalAdmin(accounts[a])
      BY <2>1, <2>3 DEF AdminRemains
    <3>2. accounts[a].ends # tick + 1 /\ accounts[a].ends \in Nat
      BY <1>t, <2>1, <2>3, <3>1 DEF AccountRow
    <3>3. IsLocalAdmin(accounts[a])'
      BY <2>1, <3>1, <3>2 DEF IsLocalAdmin, IsAdmin, IsActive, ActiveAt, ValidAt
    <3>4. QED
      BY <3>3 DEF AdminRemains
  <2>4. QED
    BY <2>2, <2>3
<1>13. QED
  BY <1>1, <1>2, <1>7, <1>10, <1>11, <1>12 DEF AccountNext

(***************************************************************************)
(* Accounts: the seats of a batch                                          *)
(***************************************************************************)
LEMMA OneMore ==
    ASSUME NEW S, NEW x, IsFiniteSet(S)
    PROVE  IsFiniteSet(S \cup {x}) /\ Cardinality(S \cup {x}) <= Cardinality(S) + 1
<1>1. /\ IsFiniteSet(S \cup {x})
      /\ Cardinality(S \cup {x}) = IF x \in S THEN Cardinality(S) ELSE Cardinality(S) + 1
  BY FS_AddElement
<1>2. Cardinality(S) \in Nat
  BY FS_CardinalityType
<1>3. QED
  BY <1>1, <1>2

LEMMA AdmittedAreFinite ==
    \A b \in 1..MaxBatches :
        /\ IsFiniteSet(AdmittedBy(b)) /\ Cardinality(AdmittedBy(b)) \in Nat
        /\ IsFiniteSet(AdmittedBy(b)') /\ Cardinality(AdmittedBy(b)') \in Nat
<1> TAKE b \in 1..MaxBatches
<1>1. AdmittedBy(b) \in SUBSET Accounts /\ AdmittedBy(b)' \in SUBSET Accounts
  BY DEF AdmittedBy
<1>2. QED
  BY <1>1, AccountAssumption, FS_Subset, FS_CardinalityType

LEMMA SeatsStep ==
    AccountTypeOK /\ SeatsAreKept /\ [AccountNext]_accountVars => SeatsAreKept'
<1> SUFFICES ASSUME AccountTypeOK, SeatsAreKept, [AccountNext]_accountVars
             PROVE  SeatsAreKept'
  OBVIOUS
<1>t. /\ accounts \in [Accounts -> AccountRow]
      /\ batches \in [1..MaxBatches -> BatchRow]
  BY DEF AccountTypeOK
(* The accounts of a batch are no more than they were.                     *)
<1>fewer. ASSUME batches' = batches, lowered' = lowered,
                 \A b \in 1..MaxBatches : AdmittedBy(b)' \subseteq AdmittedBy(b)
          PROVE  SeatsAreKept'
  <2>1. ASSUME NEW b \in (1..MaxBatches) \ lowered
        PROVE  Cardinality(AdmittedBy(b)') <= batches'[b].seats
    <3>1. Cardinality(AdmittedBy(b)') <= Cardinality(AdmittedBy(b))
      BY <1>fewer, AdmittedAreFinite, FS_Subset
    <3>2. Cardinality(AdmittedBy(b)) <= batches[b].seats /\ batches[b].seats \in Nat
      BY <1>t DEF SeatsAreKept, BatchRow
    <3>3. QED
      BY <1>fewer, <3>1, <3>2, AdmittedAreFinite
  <2>2. QED
    BY <1>fewer, <2>1 DEF SeatsAreKept
<1>same. ASSUME accounts' = accounts, batches' = batches, lowered' = lowered
         PROVE  SeatsAreKept'
  BY <1>same, <1>fewer DEF AdmittedBy
(* An account that changes is of the batch it was of, or of none.          *)
<1>row. ASSUME NEW a \in Accounts, NEW row, accounts' = [accounts EXCEPT ![a] = row],
               batches' = batches, lowered' = lowered,
               \/ ~row.exists
               \/ row.source = 0
               \/ accounts[a].exists /\ row.source = accounts[a].source
        PROVE  SeatsAreKept'
  <2>1. \A b \in 1..MaxBatches : b # 0
    BY AccountAssumption
  <2>2. \A b \in 1..MaxBatches : AdmittedBy(b)' \subseteq AdmittedBy(b)
    BY <1>row, <1>t, <2>1 DEF AdmittedBy
  <2>3. QED
    BY <1>row, <1>fewer, <2>2
<1>1. CASE Signing \/ SavingPolicy \/ TickPasses \/ UNCHANGED accountVars
  BY <1>1, <1>same DEF Signing, SavingPolicy, SignIn, SignOut, SavePolicy, TickPasses,
     accountVars
<1>2. CASE Answering
  BY <1>2, <1>same DEF Answering, ThreadStep, ReadsSession, ReadsAccount,
     RevokesRestricted, Touches, Untouched
<1>3. ASSUME NEW a \in Accounts, NEW role \in Roles, NEW ends \in Endings,
             CreateAccount(a, role, ends)
      PROVE  SeatsAreKept'
  <2>1. /\ accounts' = [accounts EXCEPT ![a] = CreatedRow(role, ends)]
        /\ batches' = batches /\ lowered' = lowered
    BY <1>3 DEF CreateAccount, CreatedRow
  <2>2. CreatedRow(role, ends).source = 0
    BY CreatedRows, AccountAssumption
  <2>3. QED
    BY <1>row, <2>1, <2>2
<1>4. ASSUME NEW a \in Accounts, NEW role \in Roles, NEW ends \in Endings,
             NEW status \in {"active", "disabled"}, NEW override \in LimitChoices,
             UpdateAccount(a, role, status, ends, override)
      PROVE  SeatsAreKept'
  <2> DEFINE row == UpdatedRow(accounts[a], role, status, ends, override)
  <2>1. /\ accounts' = [accounts EXCEPT ![a] = row] /\ accounts[a].exists
        /\ batches' = batches /\ lowered' = lowered
    BY <1>4 DEF UpdateAccount, UpdatedRow
  <2>2. row.source = accounts[a].source
    <3>1. accounts[a] \in AccountRow /\ ends \in Nat /\ override \in Nat
      BY <1>t, AccountAssumption
    <3>2. QED
      BY <3>1, UpdatedRows
  <2> HIDE DEF row
  <2>3. QED
    BY <1>row, <2>1, <2>2
<1>5. ASSUME NEW a \in Accounts, ChangePassword(a) PROVE SeatsAreKept'
  BY <1>5, <1>same DEF ChangePassword
<1>6. ASSUME NEW a \in Accounts, DeleteAccount(a) PROVE SeatsAreKept'
  <2>1. ~NoAccount.exists
    BY DEF NoAccount
  <2>2. QED
    BY <1>6, <1>row, <2>1 DEF DeleteAccount
<1>7. CASE Administering
  BY <1>3, <1>4, <1>5, <1>6, <1>7 DEF Administering
(* Enabling a batch disables the others; fewer seats than accounts are     *)
(* told apart.                                                             *)
<1>8. ASSUME NEW b \in 1..MaxBatches, NEW seats \in 1..2, NEW role \in Roles,
             NEW enabled \in BOOLEAN, SaveBatch(b, seats, role, enabled)
      PROVE  SeatsAreKept'
  <2>1. /\ batches'[b].seats = seats /\ batches'[b].enabled = enabled
        /\ \A c \in 1..MaxBatches : c # b =>
              /\ batches'[c].seats = batches[c].seats
              /\ batches'[c].enabled = (batches[c].enabled /\ ~enabled)
    <3>1. ASSUME NEW c \in 1..MaxBatches, c # b
          PROVE  /\ batches'[c].seats = batches[c].seats
                 /\ batches'[c].enabled = (batches[c].enabled /\ ~enabled)
      <4>1. batches'[c] = [batches[c] EXCEPT !.enabled = @ /\ ~enabled]
        BY <1>8, <3>1 DEF SaveBatch
      <4>2. batches[c] \in BatchRow
        BY <1>t
      <4>3. QED
        BY <4>1, <4>2 DEF BatchRow
    <3>3. batches'[b].seats = seats /\ batches'[b].enabled = enabled
      BY <1>8 DEF SaveBatch
    <3>4. QED
      BY <3>1, <3>3
  <2>2. /\ accounts' = accounts
        /\ lowered' = IF Cardinality(AdmittedBy(b)) > seats THEN lowered \cup {b}
                      ELSE lowered
    BY <1>8 DEF SaveBatch
  <2>3. \A c \in 1..MaxBatches : AdmittedBy(c)' = AdmittedBy(c)
    BY <2>2 DEF AdmittedBy
  <2>4. ASSUME NEW c \in (1..MaxBatches) \ lowered'
        PROVE  Cardinality(AdmittedBy(c)') <= batches'[c].seats
    <3>1. CASE c = b
      BY <2>1, <2>2, <2>3, <2>4, <3>1, AdmittedAreFinite
    <3>2. CASE c # b
      BY <2>1, <2>2, <2>3, <2>4, <3>2 DEF SeatsAreKept
    <3>3. QED
      BY <3>1, <3>2
  <2>5. ASSUME NEW c \in 1..MaxBatches, NEW d \in 1..MaxBatches,
               batches'[c].enabled, batches'[d].enabled
        PROVE  c = d
    <3>1. CASE enabled
      BY <2>1, <2>5, <3>1
    <3>2. CASE ~enabled
      BY <2>1, <2>5, <3>2 DEF SeatsAreKept
    <3>3. QED
      BY <3>1, <3>2
  <2>6. QED
    BY <2>4, <2>5 DEF SeatsAreKept
(* A seat is taken only while there is one.                                *)
<1>9. ASSUME NEW a \in Accounts, NEW b \in 1..MaxBatches, NEW c \in Clients,
             NEW ends \in Endings, Admit(a, b, c, ends)
      PROVE  SeatsAreKept'
  <2> DEFINE row == AdmittedRow(batches[b].role, ends, b)
  <2>1. row.source = b
    <3>1. batches[b].role \in Roles /\ ends \in Nat
      BY <1>t, AccountAssumption DEF BatchRow
    <3>2. QED
      BY <3>1, AdmittedRows
  <2>2. /\ accounts' = [accounts EXCEPT ![a] = row] /\ batches' = batches
        /\ lowered' = lowered /\ Cardinality(AdmittedBy(b)) < batches[b].seats
    BY <1>9 DEF Admit, AdmittedRow, HasSeat
  <2> HIDE DEF row
  <2>3. AdmittedBy(b)' \subseteq AdmittedBy(b) \cup {a}
    BY <1>t, <2>1, <2>2 DEF AdmittedBy
  <2>4. \A d \in 1..MaxBatches : d # b => AdmittedBy(d)' \subseteq AdmittedBy(d)
    BY <1>t, <2>1, <2>2 DEF AdmittedBy
  <2>5. ASSUME NEW d \in (1..MaxBatches) \ lowered'
        PROVE  Cardinality(AdmittedBy(d)') <= batches'[d].seats
    <3>1. batches[d].seats \in Nat
      BY <1>t DEF BatchRow
    <3>2. CASE d = b
      <4>1. /\ IsFiniteSet(AdmittedBy(b) \cup {a})
            /\ Cardinality(AdmittedBy(b) \cup {a}) <= Cardinality(AdmittedBy(b)) + 1
        <5>1. IsFiniteSet(AdmittedBy(b)) /\ Cardinality(AdmittedBy(b)) \in Nat
          BY AdmittedAreFinite
        <5>2. QED
          BY <5>1, OneMore
      <4>2. Cardinality(AdmittedBy(b)') <= Cardinality(AdmittedBy(b) \cup {a})
        BY <2>3, <4>1, FS_Subset
      <4>3. Cardinality(AdmittedBy(b) \cup {a}) \in Nat
        BY <4>1, FS_CardinalityType
      <4>4. QED
        BY <2>2, <3>1, <3>2, <4>1, <4>2, <4>3, AdmittedAreFinite
    <3>3. CASE d # b
      <4>1. Cardinality(AdmittedBy(d)') <= Cardinality(AdmittedBy(d))
        BY <2>4, <3>3, AdmittedAreFinite, FS_Subset
      <4>2. Cardinality(AdmittedBy(d)) <= batches[d].seats
        BY <2>2 DEF SeatsAreKept
      <4>3. QED
        BY <2>2, <3>1, <4>1, <4>2, AdmittedAreFinite
    <3>4. QED
      BY <3>2, <3>3
  <2>6. QED
    BY <2>2, <2>5 DEF SeatsAreKept
<1>10. CASE Admitting
  BY <1>8, <1>9, <1>10 DEF Admitting
<1>11. CASE Bootstrap
  <2>1. [NoAccount EXCEPT !.exists = TRUE, !.role = "admin"].source = 0
    BY DEF NoAccount
  <2>2. QED
    BY <1>11, <1>row, <2>1, AccountAssumption DEF Bootstrap
<1>12. QED
  BY <1>1, <1>2, <1>7, <1>10, <1>11 DEF AccountNext

(***************************************************************************)
(* Accounts: theorems                                                      *)
(***************************************************************************)
AccountInv ==
    /\ AccountTypeOK /\ AsksAreOfSessions /\ OwnersExist
    /\ OpenIsCurrent /\ LimitIsKept /\ AccountsAreKept

LEMMA AccountInvInit == AccountInit => AccountInv
<1> SUFFICES ASSUME AccountInit PROVE AccountInv
  OBVIOUS
<1>1. AccountTypeOK
  BY AccountTypeInit
<1>2. AsksAreOfSessions /\ OwnersExist /\ OpenIsCurrent
  BY DEF AccountInit, AsksAreOfSessions, OwnersExist, OpenIsCurrent, NotAsking, NoSession
<1>3. LimitIsKept
  BY DEF AccountInit, LimitIsKept
<1>4. AdminRemains
  BY AccountAssumption DEF AccountInit, AdminRemains, IsLocalAdmin, IsAdmin, IsActive,
     ActiveAt, ValidAt, NoAccount, Never
<1>5. SeatsAreKept
  <2>1. \A b \in 1..MaxBatches : batches[b].seats = 0 /\ ~batches[b].enabled
    BY DEF AccountInit, NoBatch
  <2>2. \A b \in 1..MaxBatches : b # 0
    BY AccountAssumption
  <2>3. \A b \in 1..MaxBatches : AdmittedBy(b) = {}
    BY <2>2 DEF AccountInit, NoAccount, AdmittedBy
  <2>4. QED
    BY <2>1, <2>3, FS_EmptySet DEF SeatsAreKept
<1>6. QED
  BY <1>1, <1>2, <1>3, <1>4, <1>5 DEF AccountInv, AccountsAreKept

LEMMA AccountInvStep == AccountInv /\ [AccountNext]_accountVars => AccountInv'
BY AccountTypeStep, AsksStep, OpenStep, LimitStep, AdminStep, SeatsStep
   DEF AccountInv, AccountsAreKept

(* Type correctness of accounts, sessions, batches and what threads read.  *)
THEOREM AccountTypeCorrect == AccountSpec => []AccountTypeOK
<1>1. AccountInv => AccountTypeOK
  BY DEF AccountInv
<1>2. QED
  BY <1>1, AccountInvInit, AccountInvStep, PTL DEF AccountSpec

(* A session is open only if nothing has ended the sessions of its account *)
(* since it was opened, whatever threads had read before                   *)
(* (_resolve_current_user_from_token).                                     *)
THEOREM SessionsAlwaysCurrent == AccountSpec => []OpenIsCurrent
<1>1. AccountInv => OpenIsCurrent
  BY DEF AccountInv
<1>2. QED
  BY <1>1, AccountInvInit, AccountInvStep, PTL DEF AccountSpec

(* An account has no more sessions online than the limit at its last login *)
(* allowed, but for those that were offline then (create_login_session)    *)
(* and are used again, or online again under a longer window.              *)
THEOREM LimitAlwaysKept == AccountSpec => []LimitIsKept
<1>1. AccountInv => LimitIsKept
  BY DEF AccountInv
<1>2. QED
  BY <1>1, AccountInvInit, AccountInvStep, PTL DEF AccountSpec

(* An administrator with a password is left, a batch admits no more        *)
(* accounts than it has seats, and one at most admits                      *)
(* (_ensure_admin_not_removed, _resolve_admission_batch_for_update).       *)
THEOREM AccountsAlwaysKept == AccountSpec => []AccountsAreKept
<1>1. AccountInv => AccountsAreKept
  BY DEF AccountInv
<1>2. QED
  BY <1>1, AccountInvInit, AccountInvStep, PTL DEF AccountSpec

(***************************************************************************)
(* The AI centre: types                                                    *)
(***************************************************************************)
Lists == [Providers -> SUBSET Models]

LEMMA AiRows ==
    /\ Unknown \in Health /\ Healthy \in Health /\ NoProvider \in ProviderRow
    /\ NoStep \in StepRow /\ Idle \in Execution /\ Idle.pc = "idle"
<1>1. Unknown \in Health /\ Healthy \in Health
  BY DEF Unknown, Healthy, Health
<1>2. NoProvider \in ProviderRow
  BY <1>1 DEF NoProvider, ProviderRow
<1>3. (CHOOSE p \in Providers : TRUE) \in Providers
  BY AiAssumption
<1>4. NoStep \in StepRow
  BY <1>3 DEF NoStep, StepRow
<1>5. 0 \in 0..MaxAttempts /\ [p \in Providers |-> Unknown] \in [Providers -> Health]
  BY <1>1, AiAssumption
<1>6. Idle \in Execution /\ Idle.pc = "idle"
  BY <1>5 DEF Idle, Execution
<1>7. QED
  BY <1>1, <1>2, <1>4, <1>6

LEMMA AiTypes ==
    AiTypeOK <=>
        /\ providers \in [Providers -> ProviderRow]
        /\ listed \in Lists /\ offered \in Lists /\ preferred \in Lists
        /\ route \in ProfileRow /\ steps \in [StepIds -> StepRow]
        /\ stepIds \in 0..MaxSteps
        /\ executions \in [Executors -> Execution]
        /\ \A e \in Executors : executions[e].pc = "calling" => executions[e].attempts > 0
        /\ legacy \in BOOLEAN /\ aiTick \in 0..MaxAiTicks /\ aiOps \in 0..MaxAiOps
BY DEF AiTypeOK, Lists

LEMMA AiTypeInit == AiInit => AiTypeOK
<1> SUFFICES ASSUME AiInit PROVE AiTypeOK
  OBVIOUS
<1>1. listed \in Lists /\ offered \in Lists /\ preferred \in Lists
  BY DEF AiInit, Lists
<1>2. MaxAttempts \in 1..MaxAttempts
  BY AiAssumption
<1>3. route \in ProfileRow
  BY <1>2 DEF AiInit, ProfileRow
<1>4. 0 \in 0..MaxSteps /\ 0 \in 0..MaxAiTicks /\ 0 \in 0..MaxAiOps
  BY AiAssumption
<1>5. /\ providers \in [Providers -> ProviderRow] /\ steps \in [StepIds -> StepRow]
      /\ executions \in [Executors -> Execution]
      /\ \A e \in Executors : executions[e].pc = "idle"
  BY AiRows DEF AiInit
<1>6. QED
  BY <1>1, <1>3, <1>4, <1>5, AiTypes DEF AiInit

LEMMA FirstIsOne == ASSUME NEW S, S # {} PROVE First(S) \in S
BY DEF First

(* What is preferred after a save or a refresh.                            *)
LEMMA EnsuredIsOne ==
    ASSUME NEW known \in SUBSET Models, NEW on \in SUBSET known,
           NEW pref \in SUBSET known, Cardinality(pref) <= 1
    PROVE  /\ Ensured(known, on, pref) \in SUBSET known
           /\ Cardinality(Ensured(known, on, pref)) <= 1
           /\ known # {} => Cardinality(Ensured(known, on, pref)) = 1
           /\ on # {} => Ensured(known, on, pref) \subseteq on
<1>1. \A m : IsFiniteSet({m}) /\ Cardinality({m}) = 1
  BY FS_Singleton
<1>2. IsFiniteSet(known) /\ IsFiniteSet(pref)
  BY AiAssumption, FS_Subset
<1>3. pref # {} => Cardinality(pref) = 1 /\ \E m : pref = {m}
  <2>1. Cardinality(pref) \in Nat /\ (Cardinality(pref) = 0 <=> pref = {})
    BY <1>2, FS_EmptySet, FS_CardinalityType
  <2>2. Cardinality(pref) = 1 <=> \E m : pref = {m}
    BY <1>2, FS_Singleton
  <2>3. QED
    BY <2>1, <2>2
<1>4. CASE known = {}
  BY <1>4 DEF Ensured
<1>5. CASE known # {} /\ pref \cap on # {}
  BY <1>3, <1>5 DEF Ensured
<1>6. CASE known # {} /\ pref \cap on = {} /\ on # {}
  BY <1>1, <1>6, FirstIsOne DEF Ensured
<1>7. CASE known # {} /\ on = {} /\ pref # {}
  <2>1. Ensured(known, on, pref) = {First(pref)}
    BY <1>7 DEF Ensured
  <2>2. First(pref) \in known
    BY <1>7, FirstIsOne
  <2>3. QED
    BY <1>1, <1>7, <2>1, <2>2
<1>8. CASE known # {} /\ on = {} /\ pref = {}
  BY <1>1, <1>8, FirstIsOne DEF Ensured
<1>9. QED
  BY <1>4, <1>5, <1>6, <1>7, <1>8

(* A finite, nonempty set of numbers has a largest: were there none, the   *)
(* numbers of larger elements would be distinct, and too few.              *)
LEMMA MaxIsLargest ==
    ASSUME NEW S \in SUBSET Int, IsFiniteSet(S), S # {}
    PROVE  Max(S) \in S /\ \A x \in S : x <= Max(S)
<1> DEFINE above(x) == {y \in S : y > x}
           k == Cardinality(S)
<1>1. \A x \in S : /\ above(x) \in SUBSET S /\ IsFiniteSet(above(x))
                   /\ Cardinality(above(x)) \in Nat /\ Cardinality(above(x)) < k
  <2> TAKE x \in S
  <2>1. above(x) \in SUBSET S /\ above(x) # S
    OBVIOUS
  <2> HIDE DEF above
  <2>2. /\ IsFiniteSet(above(x)) /\ Cardinality(above(x)) <= k
        /\ Cardinality(above(x)) # k
    BY <2>1, FS_Subset
  <2>3. Cardinality(above(x)) \in Nat /\ k \in Nat
    BY <2>2, FS_CardinalityType
  <2>4. QED
    BY <2>1, <2>2, <2>3
<1>2. \E x \in S : above(x) = {}
  <2> SUFFICES ASSUME \A x \in S : above(x) # {} PROVE FALSE
    OBVIOUS
  <2> DEFINE rank == [x \in S |-> Cardinality(above(x))]
  <2>1. \A x \in S : Cardinality(above(x)) \in 1..(k - 1)
    <3> TAKE x \in S
    <3>1. Cardinality(above(x)) # 0
      BY <1>1, FS_EmptySet
    <3>2. k \in Nat
      BY FS_CardinalityType
    <3> HIDE DEF above, k
    <3>3. QED
      BY <1>1, <3>1, <3>2
  <2>2. k \in Nat /\ k # 0
    BY FS_CardinalityType, FS_EmptySet
  <2>3. IsFiniteSet(1..(k - 1)) /\ Cardinality(1..(k - 1)) < k
    <3> HIDE DEF k
    <3>1. QED
      <4>1. /\ IsFiniteSet(1..(k - 1))
            /\ Cardinality(1..(k - 1)) = IF 1 > k - 1 THEN 0 ELSE (k - 1) - 1 + 1
        BY <2>2, FS_Interval
      <4>2. QED
        BY <2>2, <4>1
  <2>4. rank \in [S -> 1..(k - 1)]
    BY <2>1
  <2> HIDE DEF rank
  <2>5. PICK w \in S, t \in S : w # t /\ rank[w] = rank[t]
    BY <2>3, <2>4, FS_PigeonHole
  <2>6. ASSUME NEW u \in S, NEW v \in S, u < v PROVE rank[u] # rank[v]
    <3>1. above(v) \in SUBSET above(u) /\ v \in above(u) /\ v \notin above(v)
      <4>1. u \in Int /\ v \in Int /\ \A z \in S : z \in Int
        OBVIOUS
      <4>2. v \in above(u) /\ v \notin above(v)
        BY <2>6, <4>1
      <4>3. \A z \in S : z > v => z > u
        <5> TAKE z \in S
        <5>1. z \in Int
          BY <4>1
        <5>2. QED
          BY <2>6, <4>1, <5>1
      <4>4. QED
        BY <4>2, <4>3
    <3> HIDE DEF above
    <3>2. Cardinality(above(v)) # Cardinality(above(u))
      BY <1>1, <3>1, FS_Subset
    <3>3. QED
      BY <3>2 DEF rank
  <2>7. QED
    BY <2>5, <2>6
<1>3. \E x \in S : \A y \in S : x >= y
  BY <1>2
<1>4. QED
  BY <1>3 DEF Max

LEMMA ListsTyped ==
    ASSUME NEW f \in Lists, NEW p \in Providers, NEW ms \in SUBSET Models
    PROVE  [f EXCEPT ![p] = ms] \in Lists
BY DEF Lists

(* The steps that are asked for: what save_ai_route makes of them.         *)
IsNew(asked, i)   == asked[i].id = 0 \/ ~steps[asked[i].id].made
Fresh(asked, i)   == stepIds + Cardinality({j \in 1..i : IsNew(asked, j)})
IdOf(asked, i)    == IF IsNew(asked, i) THEN Fresh(asked, i) ELSE asked[i].id
At(asked, s)      == {i \in 1..Len(asked) : IdOf(asked, i) = s}
NewOnes(asked)    == {i \in 1..Len(asked) : IsNew(asked, i)}
SavedStep(asked, s) ==
    IF At(asked, s) # {}
    THEN [made |-> TRUE, index |-> Max(At(asked, s)),
          provider |-> asked[Max(At(asked, s))].provider,
          model |-> asked[Max(At(asked, s))].model,
          enabled |-> asked[Max(At(asked, s))].enabled]
    ELSE IF steps[s].made THEN SetAside(s) ELSE NoStep

LEMMA SavesSteps ==
    ASSUME NEW profile, NEW asked, SaveRoute(profile, asked)
    PROVE  /\ AiOp /\ \A i \in 1..Len(asked) : asked[i].provider \in Made
           /\ stepIds' = stepIds + Cardinality(NewOnes(asked)) /\ stepIds' <= MaxSteps
           /\ steps' = [s \in StepIds |-> SavedStep(asked, s)]
           /\ route' = profile /\ KeepsModels
           /\ UNCHANGED <<providers, executions, legacy, aiTick>>
BY DEF SaveRoute, IsNew, Fresh, IdOf, At, NewOnes, SavedStep

LEMMA LargestAt ==
    ASSUME NEW asked \in Requests, NEW s, At(asked, s) # {}
    PROVE  /\ Max(At(asked, s)) \in 1..Len(asked)
           /\ IdOf(asked, Max(At(asked, s))) = s
           /\ asked[Max(At(asked, s))] \in StepAsked
<1>1. asked \in Seq(StepAsked) /\ Len(asked) \in Nat
  BY AiAssumption
<1>2. At(asked, s) \in SUBSET (1..Len(asked)) /\ At(asked, s) \in SUBSET Int
  BY DEF At
<1>3. IsFiniteSet(At(asked, s))
  <2>1. IsFiniteSet(1..Len(asked))
    BY <1>1, FS_Interval
  <2>2. QED
    BY <1>2, <2>1, FS_Subset
<1>4. Max(At(asked, s)) \in At(asked, s)
  BY <1>2, <1>3, MaxIsLargest
<1>5. QED
  BY <1>1, <1>4 DEF At

(* The places of the steps, and how many come before one of them.          *)
Places    == {steps[t].index : t \in StepIds}
Before(s) == {t \in StepIds : steps[t].made /\ steps[t].index < steps[s].index}

LEMMA StepIdsFinite == IsFiniteSet(StepIds)
BY AiAssumption, FS_Interval DEF StepIds

(* The places are the image of a finite set: one of them is the largest.   *)
LEMMA PlacesHaveMax ==
    ASSUME AiTypeOK, NEW s \in StepIds
    PROVE  /\ Max(Places) \in Nat /\ \A t \in StepIds : steps[t].index <= Max(Places)
           /\ IsFiniteSet(Before(s)) /\ Cardinality(Before(s)) \in Nat
<1>1. steps \in [StepIds -> StepRow]
  BY AiTypes
<1>2. \A t \in StepIds : steps[t].index \in Nat
  BY <1>1 DEF StepRow
<1>3. IsFiniteSet(Places)
  <2> DEFINE f == [t \in StepIds |-> steps[t].index]
  <2>1. f \in Surjection(StepIds, Places)
    BY DEF Places, Surjection
  <2>2. QED
    BY <2>1, StepIdsFinite, FS_Surjection
<1>4. Places \in SUBSET Nat /\ Places \in SUBSET Int /\ Places # {}
  BY <1>2 DEF Places
<1>5. Max(Places) \in Places /\ \A x \in Places : x <= Max(Places)
  BY <1>3, <1>4, MaxIsLargest
<1>6. Before(s) \in SUBSET StepIds
  BY DEF Before
<1>7. IsFiniteSet(Before(s)) /\ Cardinality(Before(s)) \in Nat
  BY <1>6, StepIdsFinite, FS_Subset, FS_CardinalityType
<1>8. QED
  BY <1>4, <1>5, <1>7 DEF Places

LEMMA SetAsideRow ==
    ASSUME AiTypeOK, NEW s \in StepIds
    PROVE  /\ SetAside(s) \in StepRow /\ SetAside(s).made = steps[s].made
           /\ SetAside(s).provider = steps[s].provider
           /\ SetAside(s).index = Max(Places) + 100 + Cardinality(Before(s))
<1>1. steps[s] \in StepRow
  BY AiTypes
<1>2. SetAside(s) = [steps[s] EXCEPT
                        !.index = Max(Places) + 100 + Cardinality(Before(s)),
                        !.enabled = FALSE]
  BY DEF SetAside, Places, Before
<1>3. Max(Places) + 100 + Cardinality(Before(s)) \in Nat
  BY PlacesHaveMax
<1>4. QED
  BY <1>1, <1>2, <1>3 DEF StepRow

LEMMA SavedRow ==
    ASSUME AiTypeOK, NEW asked \in Requests, NEW s \in StepIds
    PROVE  SavedStep(asked, s) \in StepRow
<1>1. CASE At(asked, s) # {}
  <2> DEFINE i == Max(At(asked, s))
  <2>1. i \in 1..Len(asked) /\ asked[i] \in StepAsked
    BY <1>1, LargestAt
  <2>2. i \in Nat
    BY <2>1
  <2>3. SavedStep(asked, s) =
           [made |-> TRUE, index |-> i, provider |-> asked[i].provider,
            model |-> asked[i].model, enabled |-> asked[i].enabled]
    BY <1>1 DEF SavedStep
  <2> HIDE DEF i
  <2>4. QED
    BY <2>1, <2>2, <2>3 DEF StepAsked, StepRow
<1>2. CASE At(asked, s) = {}
  BY <1>2, SetAsideRow, AiRows DEF SavedStep
<1>3. QED
  BY <1>1, <1>2

LEMMA CandidatesTyped == AiTypeOK => RouteCandidates \in SUBSET Candidate
<1> SUFFICES ASSUME AiTypeOK, NEW s \in StepIds, NEW m \in ModelsOf(s)
             PROVE  [step |-> s, index |-> steps[s].index, provider |-> steps[s].provider,
                     model |-> m] \in Candidate
  BY DEF RouteCandidates
<1>1. /\ steps[s] \in StepRow /\ offered \in Lists /\ preferred \in Lists
  BY AiTypes
<1>2. /\ steps[s].provider \in Providers /\ steps[s].index \in Nat
      /\ steps[s].model \in Models \cup {AnyModel}
  BY <1>1 DEF StepRow
<1>3. m \in Models \cup {AnyModel}
  <2> DEFINE p == steps[s].provider
  <2>1. offered[p] \in SUBSET Models /\ preferred[p] \in SUBSET Models
    BY <1>1, <1>2 DEF Lists
  <2>2. \/ m = steps[s].model
        \/ m = AnyModel
        \/ m \in offered[p]
        \/ offered[p] # {} /\ m = First(offered[p])
        \/ preferred[p] \cap offered[p] # {} /\ m = First(preferred[p] \cap offered[p])
    BY DEF ModelsOf
  <2>3. QED
    BY <1>2, <2>1, <2>2, FirstIsOne
<1>4. QED
  BY <1>2, <1>3 DEF Candidate

(* What is marked of a provider is a health.                               *)
LEMMA MarkedTyped ==
    ASSUME NEW ex \in Execution, NEW failed, NEW answered, AiTypeOK,
           MarksTried(ex, failed, answered)
    PROVE  providers' \in [Providers -> ProviderRow]
           /\ \A p \in Providers : /\ providers'[p].made = providers[p].made
                                   /\ providers'[p].default = providers[p].default
<1> SUFFICES ASSUME NEW p \in Providers
             PROVE  /\ providers'[p] \in ProviderRow
                    /\ providers'[p].made = providers[p].made
                    /\ providers'[p].default = providers[p].default
  BY DEF MarksTried
<1>1. providers[p] \in ProviderRow /\ ex.loaded[p] \in Health
  BY AiTypes DEF Execution
<1>2. providers[p].health \in Health
  BY <1>1 DEF ProviderRow
<1>3. \A new \in Health : Marked(p, ex.loaded[p], new) \in Health
  BY <1>1, <1>2 DEF Marked, Health
<1>4. aiTick \in Nat
  BY AiTypes, AiAssumption
<1>5. [status |-> "degraded", fails |-> ex.loaded[p].fails + 1,
       until |-> IF Cooldown > 0 THEN aiTick + Cooldown ELSE 0] \in Health
  BY <1>1, <1>4, AiAssumption DEF Health
<1>6. \/ providers'[p] = providers[p]
      \/ \E h \in Health : providers'[p] = [providers[p] EXCEPT !.health = h]
  BY <1>3, <1>5, AiRows DEF MarksTried
<1>7. QED
  BY <1>1, <1>6 DEF ProviderRow

(* What each request and each step of an execution does to the rows: the   *)
(* executions are left alone by the administrator.                         *)
LEMMA OpTyped == ASSUME AiTypeOK, AiOp PROVE aiOps' \in 0..MaxAiOps
<1>1. aiOps \in 0..MaxAiOps
  BY AiTypes
<1>2. QED
  BY <1>1, AiAssumption DEF AiOp

LEMMA HealthyRow ==
    ASSUME AiTypeOK, NEW p \in Providers,
           providers' = [providers EXCEPT ![p].health = Healthy]
    PROVE  /\ providers' \in [Providers -> ProviderRow]
           /\ \A q \in Providers : /\ providers'[q].made = providers[q].made
                                   /\ providers'[q].default = providers[q].default
<1>1. providers \in [Providers -> ProviderRow]
  BY AiTypes
<1>2. \A q \in Providers :
        \/ providers'[q] = providers[q]
        \/ providers'[q] = [providers[q] EXCEPT !.health = Healthy]
  BY <1>1
<1>3. \A q \in Providers : providers'[q] \in ProviderRow
  BY <1>1, <1>2, AiRows DEF ProviderRow
<1>4. \A q \in Providers : /\ providers'[q].made = providers[q].made
                           /\ providers'[q].default = providers[q].default
  BY <1>1, <1>2 DEF ProviderRow
<1>5. QED
  BY <1>1, <1>3, <1>4

(* The row a save writes.                                                  *)
SavedRowOf(p, enabled, default, usable) ==
    [made |-> TRUE, enabled |-> enabled, default |-> default, usable |-> usable,
     health |-> providers[p].health]

LEMMA SavedProvider ==
    ASSUME AiTypeOK, NEW p \in Providers, NEW enabled \in BOOLEAN,
           NEW default \in BOOLEAN, NEW usable \in BOOLEAN,
           SaveProvider(p, enabled, default, usable)
    PROVE  /\ providers' \in [Providers -> ProviderRow]
           /\ providers'[p].made /\ providers'[p].default = default
           /\ \A q \in Providers : q # p =>
                /\ providers'[q].made = providers[q].made
                /\ providers'[q].default = (providers[q].default /\ ~default)
<1> DEFINE row == SavedRowOf(p, enabled, default, usable)
<1>1. providers \in [Providers -> ProviderRow]
  BY AiTypes
<1>2. providers[p].health \in Health
  BY <1>1 DEF ProviderRow
<1>3. row \in ProviderRow /\ row.made /\ row.default = default
  BY <1>2 DEF SavedRowOf, ProviderRow
<1>4. providers' = WithDefault(p, row)
  BY DEF SaveProvider, SavedRowOf
<1> HIDE DEF row
<1>5. providers'[p] = row
  BY <1>4 DEF WithDefault
<1>6. ASSUME NEW q \in Providers, q # p
      PROVE  /\ providers'[q] \in ProviderRow
             /\ providers'[q].made = providers[q].made
             /\ providers'[q].default = (providers[q].default /\ ~default)
  <2>1. providers'[q] = [providers[q] EXCEPT !.default = @ /\ ~row.default]
    BY <1>4, <1>6 DEF WithDefault
  <2>2. providers[q] \in ProviderRow
    BY <1>1
  <2>3. QED
    BY <1>3, <2>1, <2>2 DEF ProviderRow
<1>7. providers' \in [Providers -> ProviderRow]
  BY <1>3, <1>4, <1>5, <1>6 DEF WithDefault
<1>8. QED
  BY <1>3, <1>5, <1>6, <1>7

LEMMA DeletedProvider ==
    ASSUME AiTypeOK, NEW p \in Providers, DeleteProvider(p)
    PROVE  /\ providers' \in [Providers -> ProviderRow]
           /\ ~providers'[p].made
           /\ \A q \in Providers : q # p => providers'[q].made = providers[q].made
           /\ \/ \A q \in Providers : q # p => providers'[q].default = providers[q].default
              \/ /\ p \in Made /\ providers[p].default
                 /\ \E o \in Made \ {p} :
                      \A q \in Providers : q # p =>
                         providers'[q].default = (q = o \/ providers[q].default)
<1> DEFINE others == {q \in Made \ {p} : providers[q].enabled}
           gone   == [providers EXCEPT ![p] = NoProvider]
<1>1. providers \in [Providers -> ProviderRow]
  BY AiTypes
<1>2. /\ gone \in [Providers -> ProviderRow] /\ gone[p] = NoProvider
      /\ \A q \in Providers : q # p => gone[q] = providers[q]
  BY <1>1, AiRows
<1>3. ~NoProvider.made
  BY DEF NoProvider
<1>4. CASE providers' = gone
  BY <1>2, <1>3, <1>4
<1>5. ASSUME NEW o \in others, providers' = [gone EXCEPT ![o].default = TRUE],
             providers[p].default
      PROVE  /\ providers' \in [Providers -> ProviderRow]
             /\ ~providers'[p].made
             /\ \A q \in Providers : q # p => providers'[q].made = providers[q].made
             /\ \A q \in Providers : q # p =>
                  providers'[q].default = (q = o \/ providers[q].default)
  <2>1. o \in Providers /\ o # p /\ gone[o] \in ProviderRow
    BY <1>2 DEF Made
  <2>2. providers'[o] = [gone[o] EXCEPT !.default = TRUE]
        /\ \A q \in Providers : q # o => providers'[q] = gone[q]
    BY <1>2, <1>5, <2>1
  <2> HIDE DEF gone, others
  <2>3. /\ providers'[o] \in ProviderRow /\ providers'[o].made = gone[o].made
        /\ providers'[o].default
    BY <2>1, <2>2 DEF ProviderRow
  <2>4. providers' \in [Providers -> ProviderRow]
    BY <1>2, <1>5, <2>2, <2>3
  <2>5. ASSUME NEW q \in Providers, q # p
        PROVE  /\ providers'[q].made = providers[q].made
               /\ providers'[q].default = (q = o \/ providers[q].default)
    <3>1. providers[q] \in ProviderRow
      BY <1>1
    <3>2. CASE q = o
      BY <1>2, <2>1, <2>3, <3>2
    <3>3. CASE q # o
      BY <1>2, <2>2, <2>5, <3>1, <3>3 DEF ProviderRow
    <3>4. QED
      BY <3>2, <3>3
  <2>6. QED
    BY <1>2, <1>3, <2>1, <2>2, <2>4, <2>5
<1>6. /\ p \in Made
      /\ \/ providers' = gone
         \/ /\ providers[p].default
            /\ \E o \in others : providers' = [gone EXCEPT ![o].default = TRUE]
  BY DEF DeleteProvider
<1>7. CASE \E o \in others : /\ providers' = [gone EXCEPT ![o].default = TRUE]
                             /\ providers[p].default
  <2>1. PICK o \in others : /\ providers' = [gone EXCEPT ![o].default = TRUE]
                            /\ providers[p].default
    BY <1>7
  <2>2. o \in Made \ {p}
    OBVIOUS
  <2> HIDE DEF gone, others
  <2>3. QED
    BY <1>5, <1>6, <2>1, <2>2
<1>8. QED
  BY <1>4, <1>6, <1>7

(* What a step does to the models of the providers.                        *)
LEMMA SavesTyped ==
    ASSUME AiTypeOK, NEW p \in Providers, NEW payload \in Payloads,
           SavesModels(p, payload)
    PROVE  listed' \in Lists /\ offered' \in Lists /\ preferred' \in Lists
<1> DEFINE known == listed[p] \cup payload.models
           pref  == Ensured(known, payload.on, payload.preferred)
<1>1. listed \in Lists /\ offered \in Lists /\ preferred \in Lists
  BY AiTypes
<1>2. /\ payload.models \in SUBSET Models /\ payload.on \in SUBSET payload.models
      /\ payload.preferred \in SUBSET payload.models
      /\ Cardinality(payload.preferred) <= 1
  BY AiAssumption DEF ModelsSent
<1>3. known \in SUBSET Models
  BY <1>1, <1>2 DEF Lists
<1>4. /\ payload.on \in SUBSET known /\ payload.preferred \in SUBSET known
  BY <1>2
<1>5. /\ listed' = [listed EXCEPT ![p] = known]
      /\ offered' = [offered EXCEPT ![p] = payload.on]
      /\ preferred' = [preferred EXCEPT ![p] = pref]
  BY DEF SavesModels
<1> HIDE DEF known
<1>6. pref \in SUBSET Models
  BY <1>2, <1>3, <1>4, EnsuredIsOne
<1> HIDE DEF pref
<1>7. payload.on \in SUBSET Models
  BY <1>2
<1>8. QED
  BY <1>1, <1>3, <1>5, <1>6, <1>7, ListsTyped

(* The first model flagged is flagged alone.                               *)
FoundPreferred(p, found) ==
    LET first == IF preferred[p] # {} THEN First(preferred[p]) ELSE First(found) IN
    (preferred[p] \ found) \cup ({first} \cap found)

LEMMA FoundIsOne ==
    ASSUME AiTypeOK, NEW p \in Providers, NEW found \in SUBSET Models, found # {},
           preferred[p] \subseteq listed[p], Cardinality(preferred[p]) <= 1
    PROVE  /\ FoundPreferred(p, found) \in SUBSET (listed[p] \cup found)
           /\ Cardinality(FoundPreferred(p, found)) <= 1
<1>1. preferred[p] \in SUBSET Models
  BY AiTypes DEF Lists
<1>2. IsFiniteSet(preferred[p])
  BY <1>1, AiAssumption, FS_Subset
<1>3. CASE preferred[p] = {}
  <2>1. First(found) \in found
    BY FirstIsOne
  <2>2. FoundPreferred(p, found) = {First(found)}
    BY <1>3, <2>1 DEF FoundPreferred
  <2>3. Cardinality({First(found)}) = 1
    BY FS_Singleton
  <2>4. QED
    BY <2>1, <2>2, <2>3
<1>4. CASE preferred[p] # {}
  <2>1. Cardinality(preferred[p]) = 1
    <3>1. Cardinality(preferred[p]) \in Nat /\ Cardinality(preferred[p]) # 0
      BY <1>2, <1>4, FS_EmptySet, FS_CardinalityType
    <3>2. QED
      BY <3>1
  <2>2. PICK m : preferred[p] = {m}
    BY <1>2, <2>1, FS_Singleton
  <2>3. First(preferred[p]) = m
    BY <2>2, FirstIsOne
  <2>4. FoundPreferred(p, found) = {m}
    BY <1>4, <2>2, <2>3 DEF FoundPreferred
  <2>5. QED
    BY <2>1, <2>2, <2>4
<1>5. QED
  BY <1>3, <1>4

LEMMA RefreshesModels ==
    ASSUME AiTypeOK, NEW p \in Providers, NEW found, RefreshModels(p, found)
    PROVE  LET known == listed[p] \cup found
               on    == offered[p] \cup (found \ listed[p]) IN
           /\ AiOp /\ p \in Made /\ found # {}
           /\ listed' = [listed EXCEPT ![p] = known]
           /\ offered' = [offered EXCEPT ![p] = on]
           /\ preferred' = [preferred EXCEPT ![p] =
                               Ensured(known, on, FoundPreferred(p, found))]
           /\ providers' = [providers EXCEPT ![p].health = Healthy]
           /\ UNCHANGED <<route, steps, stepIds, executions, legacy, aiTick>>
BY Zenon DEF RefreshModels, FoundPreferred

(* The lists of models agree with one another.                             *)
ListsAgree ==
    \A p \in Providers :
        /\ offered[p] \subseteq listed[p] /\ preferred[p] \subseteq listed[p]
        /\ Cardinality(preferred[p]) <= 1
        /\ p \notin Made => listed[p] = {}

LEMMA ExecutionStep ==
    ASSUME AiTypeOK, NEW e \in Executors, Executes(e)
    PROVE  /\ executions' \in [Executors -> Execution]
           /\ \A d \in Executors :
                executions'[d].pc = "calling" => executions'[d].attempts > 0
           /\ providers' \in [Providers -> ProviderRow]
           /\ \A p \in Providers : /\ providers'[p].made = providers[p].made
                                   /\ providers'[p].default = providers[p].default
           /\ KeepsModels /\ UNCHANGED <<route, steps, stepIds, legacy, aiTick, aiOps>>
<1>t. /\ executions \in [Executors -> Execution]
      /\ \A d \in Executors : executions[d].pc = "calling" => executions[d].attempts > 0
      /\ providers \in [Providers -> ProviderRow] /\ route \in ProfileRow
  BY AiTypes
<1>row. ASSUME NEW ex \in Execution, executions' = [executions EXCEPT ![e] = ex],
               ex.pc = "calling" => ex.attempts > 0
        PROVE  /\ executions' \in [Executors -> Execution]
               /\ \A d \in Executors :
                    executions'[d].pc = "calling" => executions'[d].attempts > 0
  BY <1>t, <1>row
<1>idle. Idle \in Execution /\ Idle.pc = "idle"
  BY AiRows
<1>1. CASE Begin(e)
  <2> DEFINE ex == [Idle EXCEPT !.pc = "calling", !.left = RouteCandidates,
                                !.attempts = route.attempts,
                                !.inTurn = route.manual \/ ~route.crossProvider,
                                !.loaded = [p \in Providers |-> providers[p].health]]
  <2>1. /\ executions' = [executions EXCEPT ![e] = ex] /\ KeepsModels
        /\ UNCHANGED <<providers, route, steps, stepIds, legacy, aiTick, aiOps>>
    BY <1>1 DEF Begin
  <2>2. route.attempts \in 1..MaxAttempts
        /\ (route.manual \/ ~route.crossProvider) \in BOOLEAN
    BY <1>t DEF ProfileRow
  <2>3. route.attempts \in 0..MaxAttempts /\ route.attempts > 0
    BY <2>2, AiAssumption
  <2>4. [p \in Providers |-> providers[p].health] \in [Providers -> Health]
    BY <1>t DEF ProviderRow
  <2>5. RouteCandidates \in SUBSET Candidate
    BY CandidatesTyped
  <2>6. ex \in Execution /\ ex.attempts = route.attempts
    BY <1>idle, <2>2, <2>3, <2>4, <2>5 DEF Execution
  <2> HIDE DEF ex
  <2>7. QED
    BY <1>t, <1>row, <2>1, <2>3, <2>6
<1>2. ASSUME NEW c \in executions[e].left, Answers(e, c)
      PROVE  /\ executions' = [executions EXCEPT ![e] = Idle]
             /\ providers' \in [Providers -> ProviderRow]
             /\ \A p \in Providers : /\ providers'[p].made = providers[p].made
                                     /\ providers'[p].default = providers[p].default
             /\ KeepsModels /\ UNCHANGED <<route, steps, stepIds, legacy, aiTick, aiOps>>
  BY <1>2, <1>t, MarkedTyped DEF Answers
<1>3. ASSUME NEW c \in executions[e].left, Fails(e, c)
      PROVE  /\ \/ executions' = [executions EXCEPT ![e] = Idle]
                \/ \E ex \in Execution :
                     executions' = [executions EXCEPT ![e] = ex] /\ ex.attempts > 0
             /\ providers' \in [Providers -> ProviderRow]
             /\ \A p \in Providers : /\ providers'[p].made = providers[p].made
                                     /\ providers'[p].default = providers[p].default
             /\ KeepsModels /\ UNCHANGED <<route, steps, stepIds, legacy, aiTick, aiOps>>
  <2> DEFINE ex == executions[e]
             failed == ex.failed \cup {c.provider}
             next == [ex EXCEPT !.left = @ \ {c}, !.attempts = @ - 1, !.failed = failed,
                                !.called = @ \cup {c}]
  <2>1. ex \in Execution /\ c \in ex.left
    BY <1>t
  <2>2. ex.left \in SUBSET Candidate /\ ex.attempts \in 0..MaxAttempts
        /\ ex.failed \in SUBSET Providers /\ ex.called \in SUBSET Candidate
    BY <2>1 DEF Execution
  <2>3. c \in Candidate /\ c.provider \in Providers
    BY <2>1, <2>2 DEF Candidate
  <2>4. KeepsModels /\ UNCHANGED <<route, steps, stepIds, legacy, aiTick, aiOps>>
    BY <1>3 DEF Fails
  <2>5. CASE ex.attempts > 1 /\ ex.left # {c}
    <3>1. executions' = [executions EXCEPT ![e] = next] /\ providers' = providers
      BY <1>3, <2>5 DEF Fails
    <3>2. ex.attempts - 1 \in 0..MaxAttempts /\ ex.attempts - 1 > 0
      BY <2>2, <2>5, AiAssumption
    <3>3. next \in Execution /\ next.attempts > 0
      BY <2>1, <2>2, <2>3, <3>2 DEF Execution
    <3> HIDE DEF next
    <3>4. QED
      BY <1>t, <2>4, <3>1, <3>3
  <2>6. CASE ~(ex.attempts > 1 /\ ex.left # {c})
    <3>1. /\ executions' = [executions EXCEPT ![e] = Idle]
          /\ providers' = providers \/ MarksTried(ex, failed, {})
      BY <1>3, <2>6 DEF Fails
    <3>2. QED
      BY <1>t, <2>1, <2>4, <3>1, MarkedTyped
  <2>7. QED
    BY <2>5, <2>6
<1>4. ASSUME NEW c \in executions[e].left, BreaksOff(e, c)
      PROVE  /\ executions' = [executions EXCEPT ![e] = Idle] /\ providers' = providers
             /\ KeepsModels /\ UNCHANGED <<route, steps, stepIds, legacy, aiTick, aiOps>>
  BY <1>4 DEF BreaksOff
<1>5. ASSUME NEW c \in executions[e].left, Answers(e, c) \/ BreaksOff(e, c)
      PROVE  executions' \in [Executors -> Execution]
             /\ \A d \in Executors :
                  executions'[d].pc = "calling" => executions'[d].attempts > 0
  BY <1>2, <1>4, <1>5, <1>row, <1>idle
<1>6. ASSUME NEW c \in executions[e].left, Fails(e, c)
      PROVE  executions' \in [Executors -> Execution]
             /\ \A d \in Executors :
                  executions'[d].pc = "calling" => executions'[d].attempts > 0
  BY <1>3, <1>6, <1>row, <1>idle
<1>7. QED
  BY <1>1, <1>2, <1>3, <1>4, <1>5, <1>6, <1>t DEF Executes

(* The rows a migration of the old settings writes.                        *)
MigratedProvider ==
    [made |-> TRUE, enabled |-> TRUE, default |-> TRUE, usable |-> TRUE,
     health |-> Unknown]
MigratedStep(p, m) ==
    [made |-> TRUE, index |-> 1, provider |-> p, model |-> m, enabled |-> TRUE]

LEMMA Migrates ==
    ASSUME AiTypeOK, NEW p \in Providers, NEW m \in Models \cup {AnyModel},
           MigrateLegacy(p, m)
    PROVE  /\ Made = {} /\ stepIds + 1 \in StepIds /\ stepIds' = stepIds + 1
           /\ stepIds' \in 0..MaxSteps
           /\ providers' = [providers EXCEPT ![p] = MigratedProvider]
           /\ MigratedProvider \in ProviderRow
           /\ ({m} \ {AnyModel}) \in SUBSET Models
           /\ listed' = [listed EXCEPT ![p] = {m} \ {AnyModel}]
           /\ offered' = [offered EXCEPT ![p] = {m} \ {AnyModel}]
           /\ preferred' = [preferred EXCEPT ![p] = {m} \ {AnyModel}]
           /\ steps' = [steps EXCEPT ![stepIds + 1] = MigratedStep(p, m)]
           /\ MigratedStep(p, m) \in StepRow
           /\ UNCHANGED <<route, executions, legacy, aiTick, aiOps>>
<1>1. stepIds \in 0..MaxSteps /\ stepIds < MaxSteps
  BY AiTypes DEF MigrateLegacy
<1>2. stepIds + 1 \in StepIds /\ stepIds + 1 \in 0..MaxSteps
  BY <1>1, AiAssumption DEF StepIds
<1>3. MigratedProvider \in ProviderRow
  BY AiRows DEF MigratedProvider, ProviderRow
<1>4. MigratedStep(p, m) \in StepRow
  BY DEF MigratedStep, StepRow
<1>5. Made = {}
  BY DEF MigrateLegacy, Seeded
<1>6. QED
  BY <1>2, <1>3, <1>4, <1>5 DEF MigrateLegacy, MigratedProvider, MigratedStep

LEMMA SavesRoute ==
    ASSUME AiTypeOK, NEW asked \in Requests, NEW profile \in Profiles,
           SaveRoute(profile, asked)
    PROVE  stepIds' \in 0..MaxSteps /\ steps' \in [StepIds -> StepRow]
<1>1. /\ stepIds' = stepIds + Cardinality(NewOnes(asked)) /\ stepIds' <= MaxSteps
      /\ steps' = [s \in StepIds |-> SavedStep(asked, s)]
  BY SavesSteps
<1>2. Cardinality(NewOnes(asked)) \in Nat
  <2>1. asked \in Seq(StepAsked)
    BY AiAssumption
  <2>2. Len(asked) \in Nat
    BY <2>1
  <2>3. IsFiniteSet(1..Len(asked))
    BY <2>2, FS_Interval
  <2>4. NewOnes(asked) \in SUBSET (1..Len(asked))
    BY DEF NewOnes
  <2>5. QED
    BY <2>3, <2>4, FS_Subset, FS_CardinalityType
<1>3. stepIds \in 0..MaxSteps
  BY AiTypes
<1>4. stepIds' \in 0..MaxSteps
  BY <1>1, <1>2, <1>3, AiAssumption
<1>5. QED
  BY <1>1, <1>4, SavedRow

LEMMA AiTypeStep == AiTypeOK /\ ListsAgree /\ [AiNext]_aiVars => AiTypeOK'
<1> SUFFICES ASSUME AiTypeOK, ListsAgree, [AiNext]_aiVars PROVE AiTypeOK'
  OBVIOUS
<1>t. /\ providers \in [Providers -> ProviderRow]
      /\ listed \in Lists /\ offered \in Lists /\ preferred \in Lists
      /\ route \in ProfileRow /\ steps \in [StepIds -> StepRow]
      /\ stepIds \in 0..MaxSteps
      /\ executions \in [Executors -> Execution]
      /\ \A e \in Executors : executions[e].pc = "calling" => executions[e].attempts > 0
      /\ legacy \in BOOLEAN /\ aiTick \in 0..MaxAiTicks /\ aiOps \in 0..MaxAiOps
  BY AiTypes
<1>all. ASSUME /\ providers' \in [Providers -> ProviderRow]
               /\ listed' \in Lists /\ offered' \in Lists /\ preferred' \in Lists
               /\ route' \in ProfileRow /\ steps' \in [StepIds -> StepRow]
               /\ stepIds' \in 0..MaxSteps
               /\ executions' \in [Executors -> Execution]
               /\ \A e \in Executors :
                    executions'[e].pc = "calling" => executions'[e].attempts > 0
               /\ legacy' \in BOOLEAN /\ aiTick' \in 0..MaxAiTicks
               /\ aiOps' \in 0..MaxAiOps
        PROVE  AiTypeOK'
  BY <1>all DEF AiTypeOK, Lists
<1>1. ASSUME NEW p \in Providers, NEW enabled \in BOOLEAN, NEW default \in BOOLEAN,
             NEW usable \in BOOLEAN, SaveProvider(p, enabled, default, usable),
             KeepsModels \/ \E payload \in Payloads : SavesModels(p, payload)
      PROVE  AiTypeOK'
  <2>1. providers' \in [Providers -> ProviderRow]
    BY <1>1, SavedProvider
  <2>2. listed' \in Lists /\ offered' \in Lists /\ preferred' \in Lists
    BY <1>1, <1>t, SavesTyped DEF KeepsModels
  <2>3. /\ AiOp /\ UNCHANGED <<route, steps, stepIds, executions, legacy, aiTick>>
    BY <1>1 DEF SaveProvider
  <2>4. QED
    BY <1>all, <1>t, <2>1, <2>2, <2>3, OpTyped
<1>2. ASSUME NEW p \in Providers, DeleteProvider(p) PROVE AiTypeOK'
  <2>1. providers' \in [Providers -> ProviderRow]
    BY <1>2, DeletedProvider
  <2>2. listed' \in Lists /\ offered' \in Lists /\ preferred' \in Lists
    BY <1>2, <1>t, ListsTyped DEF DeleteProvider
  <2>3. steps' \in [StepIds -> StepRow]
    BY <1>2, <1>t, AiRows DEF DeleteProvider
  <2>4. /\ AiOp /\ UNCHANGED <<route, stepIds, executions, legacy, aiTick>>
    BY <1>2 DEF DeleteProvider
  <2>5. QED
    BY <1>all, <1>t, <2>1, <2>2, <2>3, <2>4, OpTyped
<1>3. ASSUME NEW p \in Providers, TestProvider(p) PROVE AiTypeOK'
  <2>1. providers' \in [Providers -> ProviderRow]
    BY <1>3, HealthyRow DEF TestProvider
  <2>2. /\ AiOp /\ KeepsModels
        /\ UNCHANGED <<route, steps, stepIds, executions, legacy, aiTick>>
    BY <1>3 DEF TestProvider
  <2>3. QED
    BY <1>all, <1>t, <2>1, <2>2, OpTyped DEF KeepsModels
<1>4. ASSUME NEW p \in Providers, NEW found \in SUBSET Models, RefreshModels(p, found)
      PROVE  AiTypeOK'
  <2> DEFINE known == listed[p] \cup found
             on    == offered[p] \cup (found \ listed[p])
             pref  == Ensured(known, on, FoundPreferred(p, found))
  <2>1. /\ AiOp /\ found # {} /\ listed' = [listed EXCEPT ![p] = known]
        /\ offered' = [offered EXCEPT ![p] = on]
        /\ preferred' = [preferred EXCEPT ![p] = pref]
        /\ providers' = [providers EXCEPT ![p].health = Healthy]
        /\ UNCHANGED <<route, steps, stepIds, executions, legacy, aiTick>>
    BY <1>4, RefreshesModels
  <2>2. /\ known \in SUBSET Models /\ on \in SUBSET known
        /\ FoundPreferred(p, found) \in SUBSET known
        /\ Cardinality(FoundPreferred(p, found)) <= 1
    BY <1>t, <2>1, FoundIsOne DEF Lists, ListsAgree
  <2> HIDE DEF known, on
  <2>3. pref \in SUBSET Models
    BY <2>2, EnsuredIsOne
  <2> HIDE DEF pref
  <2>4. listed' \in Lists /\ offered' \in Lists /\ preferred' \in Lists
    BY <1>t, <2>1, <2>2, <2>3, ListsTyped
  <2>5. providers' \in [Providers -> ProviderRow]
    BY <2>1, HealthyRow
  <2>6. QED
    BY <1>all, <1>t, <2>1, <2>4, <2>5, OpTyped
<1>5. ASSUME NEW p \in Providers, NEW m \in Models \cup {AnyModel}, MigrateLegacy(p, m)
      PROVE  AiTypeOK'
  <2> DEFINE ms == {m} \ {AnyModel}
  <2>1. /\ stepIds + 1 \in StepIds /\ stepIds' \in 0..MaxSteps
        /\ providers' = [providers EXCEPT ![p] = MigratedProvider]
        /\ MigratedProvider \in ProviderRow /\ ms \in SUBSET Models
        /\ listed' = [listed EXCEPT ![p] = ms] /\ offered' = [offered EXCEPT ![p] = ms]
        /\ preferred' = [preferred EXCEPT ![p] = ms]
        /\ steps' = [steps EXCEPT ![stepIds + 1] = MigratedStep(p, m)]
        /\ MigratedStep(p, m) \in StepRow
        /\ UNCHANGED <<route, executions, legacy, aiTick, aiOps>>
    BY <1>5, Migrates
  <2> HIDE DEF ms
  <2>2. listed' \in Lists /\ offered' \in Lists /\ preferred' \in Lists
    BY <1>t, <2>1, ListsTyped
  <2>3. providers' \in [Providers -> ProviderRow] /\ steps' \in [StepIds -> StepRow]
    BY <1>t, <2>1
  <2>4. QED
    BY <1>all, <1>t, <2>1, <2>2, <2>3
<1>6. ASSUME NEW profile \in Profiles, NEW asked \in Requests, SaveRoute(profile, asked)
      PROVE  AiTypeOK'
  <2>1. stepIds' \in 0..MaxSteps /\ steps' \in [StepIds -> StepRow]
    BY <1>6, SavesRoute
  <2>2. /\ AiOp /\ route' = profile /\ KeepsModels
        /\ UNCHANGED <<providers, executions, legacy, aiTick>>
    BY <1>6, SavesSteps
  <2>3. QED
    BY <1>all, <1>t, <2>1, <2>2, OpTyped, AiAssumption DEF KeepsModels
<1>7. ASSUME NEW e \in Executors, Executes(e) PROVE AiTypeOK'
  BY <1>7, <1>all, <1>t, ExecutionStep DEF KeepsModels
<1>8. CASE AiTickPasses
  <2>1. aiTick' \in 0..MaxAiTicks
    BY <1>8, <1>t, AiAssumption DEF AiTickPasses
  <2>2. QED
    BY <1>8, <1>all, <1>t, <2>1 DEF AiTickPasses, KeepsModels
<1>9. CASE UNCHANGED aiVars
  BY <1>9, <1>all, <1>t DEF aiVars
<1>10. QED
  BY <1>1, <1>2, <1>3, <1>4, <1>5, <1>6, <1>7, <1>8, <1>9 DEF AiNext, Administers

(***************************************************************************)
(* The AI centre: models, default and steps                                *)
(***************************************************************************)
ModelsAgree == ListsAgree /\ PreferredIsOne

(* One provider's lists change, to lists that agree.                       *)
ListsOf(p, known, on, pref) ==
    /\ listed' = [listed EXCEPT ![p] = known] /\ offered' = [offered EXCEPT ![p] = on]
    /\ preferred' = [preferred EXCEPT ![p] = pref]

LEMMA OneListChanges ==
    ASSUME AiTypeOK, ModelsAgree, NEW p \in Providers, NEW known, NEW on, NEW pref,
           ListsOf(p, known, on, pref),
           on \subseteq known, pref \subseteq known, Cardinality(pref) <= 1,
           p \notin Made' => known = {},
           known # {} => Cardinality(pref) = 1, on # {} => pref \subseteq on,
           \A q \in Providers : q # p => (q \in Made' <=> q \in Made)
    PROVE  ModelsAgree'
<1>1. listed \in Lists /\ offered \in Lists /\ preferred \in Lists
  BY AiTypes
<1>2. listed'[p] = known /\ offered'[p] = on /\ preferred'[p] = pref
  BY <1>1 DEF ListsOf, Lists
<1>3. \A q \in Providers : q # p =>
         /\ listed'[q] = listed[q] /\ offered'[q] = offered[q]
         /\ preferred'[q] = preferred[q]
  BY <1>1 DEF ListsOf, Lists
<1>4. ListsAgree'
  BY <1>2, <1>3 DEF ListsAgree, ModelsAgree
<1>5. PreferredIsOne'
  <2>1. \A q \in Made' : q \in Providers
    BY DEF Made
  <2>2. QED
    BY <1>2, <1>3, <2>1 DEF PreferredIsOne, ModelsAgree
<1>6. QED
  BY <1>4, <1>5 DEF ModelsAgree

(* No list changes, and a provider that comes to be has none.              *)
LEMMA NoListChanges ==
    ASSUME ModelsAgree, KeepsModels, Made \subseteq Made'
    PROVE  ModelsAgree'
<1>1. ListsAgree'
  BY DEF ModelsAgree, ListsAgree, KeepsModels
<1>2. ASSUME NEW p \in Made'
      PROVE  /\ listed[p] # {} => Cardinality(preferred[p]) = 1
             /\ offered[p] # {} => preferred[p] \subseteq offered[p]
  <2>1. p \in Providers
    BY DEF Made
  <2>2. CASE p \in Made
    BY <2>2 DEF ModelsAgree, PreferredIsOne
  <2>3. CASE p \notin Made
    BY <2>1, <2>3 DEF ModelsAgree, ListsAgree
  <2>4. QED
    BY <2>2, <2>3
<1>3. QED
  BY <1>1, <1>2 DEF ModelsAgree, PreferredIsOne, KeepsModels

LEMMA ModelsStep ==
    AiTypeOK /\ ModelsAgree /\ [AiNext]_aiVars => ModelsAgree'
<1> SUFFICES ASSUME AiTypeOK, ModelsAgree, [AiNext]_aiVars PROVE ModelsAgree'
  OBVIOUS
<1>t. /\ providers \in [Providers -> ProviderRow]
      /\ listed \in Lists /\ offered \in Lists /\ preferred \in Lists
  BY AiTypes
<1>same. ASSUME KeepsModels, \A q \in Providers : providers'[q].made = providers[q].made
         PROVE  ModelsAgree'
  BY <1>same, NoListChanges DEF Made
<1>1. ASSUME NEW p \in Providers, NEW enabled \in BOOLEAN, NEW default \in BOOLEAN,
             NEW usable \in BOOLEAN, SaveProvider(p, enabled, default, usable),
             KeepsModels
      PROVE  ModelsAgree'
  <2>1. Made \subseteq Made'
    BY <1>1, SavedProvider DEF Made
  <2>2. QED
    BY <1>1, <2>1, NoListChanges
<1>2. ASSUME NEW p \in Providers, NEW enabled \in BOOLEAN, NEW default \in BOOLEAN,
             NEW usable \in BOOLEAN, SaveProvider(p, enabled, default, usable),
             NEW payload \in Payloads, SavesModels(p, payload)
      PROVE  ModelsAgree'
  <2> DEFINE known == listed[p] \cup payload.models
             pref  == Ensured(known, payload.on, payload.preferred)
  <2>1. p \in Made' /\ \A q \in Providers : q # p => (q \in Made' <=> q \in Made)
    BY <1>2, SavedProvider DEF Made
  <2>2. /\ payload.models \in SUBSET Models /\ payload.on \in SUBSET payload.models
        /\ payload.preferred \in SUBSET payload.models
        /\ Cardinality(payload.preferred) <= 1
    BY AiAssumption DEF ModelsSent
  <2>3. /\ known \in SUBSET Models /\ payload.on \in SUBSET known
        /\ payload.preferred \in SUBSET known
    BY <1>t, <2>2 DEF Lists
  <2>4. ListsOf(p, known, payload.on, pref)
    BY <1>2 DEF SavesModels, ListsOf
  <2> HIDE DEF known
  <2>5. /\ pref \in SUBSET known /\ Cardinality(pref) <= 1
        /\ known # {} => Cardinality(pref) = 1
        /\ payload.on # {} => pref \subseteq payload.on
    BY <2>2, <2>3, EnsuredIsOne
  <2> HIDE DEF pref
  <2>6. QED
    BY <2>1, <2>3, <2>4, <2>5, OneListChanges
<1>3. ASSUME NEW p \in Providers, DeleteProvider(p) PROVE ModelsAgree'
  <2>1. \A q \in Providers : q # p => (q \in Made' <=> q \in Made)
    BY <1>3, DeletedProvider DEF Made
  <2>2. ListsOf(p, {}, {}, {}) /\ Cardinality({}) = 0
    BY <1>3, FS_EmptySet DEF DeleteProvider, ListsOf
  <2>3. QED
    BY <2>1, <2>2, OneListChanges
<1>4. ASSUME NEW p \in Providers, TestProvider(p) PROVE ModelsAgree'
  BY <1>4, <1>same, HealthyRow DEF TestProvider
<1>5. ASSUME NEW p \in Providers, NEW found \in SUBSET Models, RefreshModels(p, found)
      PROVE  ModelsAgree'
  <2> DEFINE known == listed[p] \cup found
             on    == offered[p] \cup (found \ listed[p])
             pref  == Ensured(known, on, FoundPreferred(p, found))
  <2>1. /\ p \in Made /\ found # {} /\ ListsOf(p, known, on, pref)
        /\ providers' = [providers EXCEPT ![p].health = Healthy]
    BY <1>5, RefreshesModels DEF ListsOf
  <2>2. /\ known \in SUBSET Models /\ on \in SUBSET known
        /\ FoundPreferred(p, found) \in SUBSET known
        /\ Cardinality(FoundPreferred(p, found)) <= 1
    BY <1>t, <2>1, FoundIsOne DEF Lists, ModelsAgree, ListsAgree
  <2> HIDE DEF known, on
  <2>3. pref \in SUBSET known /\ Cardinality(pref) <= 1
    BY <2>2, EnsuredIsOne
  <2>4. /\ known # {} => Cardinality(pref) = 1
        /\ on # {} => pref \subseteq on
    BY <2>2, EnsuredIsOne
  <2> HIDE DEF pref
  <2>5. p \in Made' /\ \A q \in Providers : q # p => (q \in Made' <=> q \in Made)
    BY <2>1, HealthyRow DEF Made
  <2>6. QED
    BY <2>1, <2>2, <2>3, <2>4, <2>5, OneListChanges
<1>6. ASSUME NEW p \in Providers, NEW m \in Models \cup {AnyModel}, MigrateLegacy(p, m)
      PROVE  ModelsAgree'
  <2> DEFINE ms == {m} \ {AnyModel}
  <2>1. /\ providers' = [providers EXCEPT ![p] = MigratedProvider]
        /\ ListsOf(p, ms, ms, ms)
    BY <1>6, Migrates DEF ListsOf
  <2>2. p \in Made' /\ \A q \in Providers : q # p => (q \in Made' <=> q \in Made)
    BY <1>t, <2>1 DEF Made, MigratedProvider
  <2>3. Cardinality({}) = 0 /\ Cardinality({m}) = 1
    BY FS_EmptySet, FS_Singleton
  <2>4. ms = {} \/ ms = {m}
    OBVIOUS
  <2> HIDE DEF ms
  <2>5. Cardinality(ms) <= 1 /\ (ms # {} => Cardinality(ms) = 1)
    BY <2>3, <2>4
  <2>6. QED
    BY <2>1, <2>2, <2>5, OneListChanges
<1>7. ASSUME NEW profile \in Profiles, NEW asked \in Requests, SaveRoute(profile, asked)
      PROVE  ModelsAgree'
  BY <1>7, <1>same, SavesSteps
<1>8. ASSUME NEW e \in Executors, Executes(e) PROVE ModelsAgree'
  BY <1>8, <1>same, ExecutionStep
<1>9. CASE AiTickPasses \/ UNCHANGED aiVars
  BY <1>9, <1>same DEF AiTickPasses, aiVars, KeepsModels
<1>10. QED
  BY <1>1, <1>2, <1>3, <1>4, <1>5, <1>6, <1>7, <1>8, <1>9 DEF AiNext, Administers

LEMMA DefaultStep == AiTypeOK /\ OneDefault /\ [AiNext]_aiVars => OneDefault'
<1> SUFFICES ASSUME AiTypeOK, OneDefault, [AiNext]_aiVars PROVE OneDefault'
  OBVIOUS
<1>t. providers \in [Providers -> ProviderRow]
  BY AiTypes
<1>m. Made \subseteq Providers /\ Made' \subseteq Providers
  BY DEF Made
<1>same. ASSUME \A q \in Providers : /\ providers'[q].made = providers[q].made
                                     /\ providers'[q].default = providers[q].default
         PROVE  OneDefault'
  BY <1>same DEF OneDefault, Made
<1>1. ASSUME NEW p \in Providers, NEW enabled \in BOOLEAN, NEW default \in BOOLEAN,
             NEW usable \in BOOLEAN, SaveProvider(p, enabled, default, usable)
      PROVE  OneDefault'
  <2>1. /\ providers'[p].default = default
        /\ \A q \in Providers : q # p =>
             /\ providers'[q].made = providers[q].made
             /\ providers'[q].default = (providers[q].default /\ ~default)
    BY <1>1, SavedProvider
  <2>2. ASSUME NEW q \in Made', NEW r \in Made', providers'[q].default,
               providers'[r].default
        PROVE  q = r
    <3>1. CASE default
      BY <1>m, <2>1, <2>2, <3>1
    <3>2. CASE ~default
      <4>1. q # p /\ r # p
        BY <2>1, <2>2, <3>2
      <4>2. q \in Made /\ r \in Made /\ providers[q].default /\ providers[r].default
        BY <1>m, <2>1, <2>2, <4>1 DEF Made
      <4>3. QED
        BY <4>2 DEF OneDefault
    <3>3. QED
      BY <3>1, <3>2
  <2>3. QED
    BY <2>2 DEF OneDefault
<1>2. ASSUME NEW p \in Providers, DeleteProvider(p) PROVE OneDefault'
  <2>1. /\ ~providers'[p].made
        /\ \A q \in Providers : q # p => providers'[q].made = providers[q].made
    BY <1>2, DeletedProvider
  <2>2. \A q \in Made' : q \in Made /\ q # p /\ q \in Providers
    BY <2>1 DEF Made
  <2>3. CASE \A q \in Providers : q # p => providers'[q].default = providers[q].default
    BY <2>2, <2>3 DEF OneDefault
  <2>4. ASSUME p \in Made, providers[p].default, NEW o \in Made \ {p},
               \A q \in Providers : q # p =>
                  providers'[q].default = (q = o \/ providers[q].default)
        PROVE  OneDefault'
    <3>1. \A q \in Made : providers[q].default => q = p
      BY <2>4 DEF OneDefault
    <3>2. \A q \in Made' : providers'[q].default => q = o
      BY <2>2, <2>4, <3>1
    <3>3. QED
      BY <3>2 DEF OneDefault
  <2>5. QED
    BY <1>2, <2>3, <2>4, DeletedProvider
<1>3. ASSUME NEW p \in Providers,
             TestProvider(p) \/ \E found \in SUBSET Models : RefreshModels(p, found)
      PROVE  OneDefault'
  <2>1. providers' = [providers EXCEPT ![p].health = Healthy]
    BY <1>3 DEF TestProvider, RefreshModels
  <2>2. QED
    BY <1>same, <2>1, HealthyRow
<1>4. ASSUME NEW p \in Providers, NEW m \in Models \cup {AnyModel}, MigrateLegacy(p, m)
      PROVE  OneDefault'
  <2>1. Made = {} /\ providers' = [providers EXCEPT ![p] = MigratedProvider]
    BY <1>4, Migrates
  <2>2. \A q \in Made' : q = p
    BY <1>t, <2>1 DEF Made
  <2>3. QED
    BY <2>2 DEF OneDefault
<1>5. ASSUME NEW profile \in Profiles, NEW asked \in Requests, SaveRoute(profile, asked)
      PROVE  OneDefault'
  BY <1>5, <1>same, SavesSteps
<1>6. ASSUME NEW e \in Executors, Executes(e) PROVE OneDefault'
  BY <1>6, <1>same, ExecutionStep
<1>7. CASE AiTickPasses \/ UNCHANGED aiVars
  BY <1>7, <1>same DEF AiTickPasses, aiVars
<1>8. QED
  BY <1>1, <1>2, <1>3, <1>4, <1>5, <1>6, <1>7 DEF AiNext, Administers

(* A request names at most as many steps as the places that save_ai_route  *)
(* leaves free in front of those it sets aside.                            *)
RequestsFit == \A asked \in Requests : Len(asked) <= 100

(* Two steps that are set aside keep their order.                          *)
LEMMA AsideApart ==
    ASSUME AiTypeOK, NEW s \in StepIds, NEW t \in StepIds, steps[s].made,
           steps[s].index < steps[t].index
    PROVE  Cardinality(Before(s)) # Cardinality(Before(t))
<1>1. \A u \in StepIds : steps[u].index \in Nat
  BY AiTypes DEF StepRow
<1>2. Before(s) \in SUBSET Before(t)
  BY <1>1 DEF Before
<1>3. s \in Before(t) /\ s \notin Before(s)
  BY <1>1 DEF Before
<1>4. IsFiniteSet(Before(t))
  BY PlacesHaveMax
<1>5. QED
  BY <1>2, <1>3, <1>4, FS_Subset

(* The steps of the route count from 1.                                    *)
StepsCount == \A s \in StepIds : steps[s].made => steps[s].index >= 1

(* The steps a save leaves have places of their own.                       *)
LEMMA SavedApart ==
    ASSUME AiTypeOK, StepsAreOrdered, StepsCount, RequestsFit, NEW asked \in Requests,
           NEW s \in StepIds, NEW t \in StepIds,
           SavedStep(asked, s).made, SavedStep(asked, t).made,
           SavedStep(asked, s).index = SavedStep(asked, t).index
    PROVE  s = t
<1>1. Len(asked) \in Nat /\ Len(asked) <= 100
  <2>1. asked \in Seq(StepAsked)
    BY AiAssumption
  <2>2. QED
    BY <2>1 DEF RequestsFit
<1>2. ASSUME NEW u \in StepIds, At(asked, u) # {}
      PROVE  /\ SavedStep(asked, u).index \in 1..Len(asked)
             /\ IdOf(asked, SavedStep(asked, u).index) = u
  BY <1>2, LargestAt DEF SavedStep
<1>3. ASSUME NEW u \in StepIds, At(asked, u) = {}, SavedStep(asked, u).made
      PROVE  /\ steps[u].made
             /\ SavedStep(asked, u).index
                   = Max(Places) + 100 + Cardinality(Before(u))
  <2>1. steps[u].made
    BY <1>3 DEF SavedStep, NoStep
  <2>2. SavedStep(asked, u) = SetAside(u)
    BY <1>3, <2>1 DEF SavedStep
  <2>3. QED
    BY <2>1, <2>2, SetAsideRow
<1>4. /\ Max(Places) \in Nat /\ Cardinality(Before(s)) \in Nat
      /\ Cardinality(Before(t)) \in Nat
      /\ steps[s].index <= Max(Places) /\ steps[t].index <= Max(Places)
  BY PlacesHaveMax
<1>5. \A u \in StepIds : steps[u].made => steps[u].index \in Nat
  BY AiTypes DEF StepRow
<1>6. CASE At(asked, s) # {} /\ At(asked, t) # {}
  BY <1>2, <1>6
<1>7. CASE At(asked, s) = {} /\ At(asked, t) = {}
  <2>1. /\ steps[s].made /\ steps[t].made
        /\ Cardinality(Before(s)) = Cardinality(Before(t))
    BY <1>3, <1>4, <1>7
  <2>2. steps[s].index = steps[t].index
    <3>1. steps[s].index \in Nat /\ steps[t].index \in Nat
      BY <1>5, <2>1
    <3>2. ~(steps[s].index < steps[t].index) /\ ~(steps[t].index < steps[s].index)
      BY <2>1, AsideApart
    <3>3. QED
      BY <3>1, <3>2
  <2>3. QED
    BY <2>1, <2>2 DEF StepsAreOrdered
(* What is set aside is beyond what is asked for.                          *)
<1>8. ASSUME NEW u \in StepIds, NEW v \in StepIds, At(asked, u) # {}, At(asked, v) = {},
             SavedStep(asked, u).made, SavedStep(asked, v).made
      PROVE  SavedStep(asked, u).index < SavedStep(asked, v).index
  <2>1. SavedStep(asked, u).index \in 1..Len(asked)
    BY <1>2, <1>8
  <2>2. /\ SavedStep(asked, v).index = Max(Places) + 100 + Cardinality(Before(v))
        /\ steps[v].made
    BY <1>3, <1>8
  <2>3. /\ Max(Places) \in Nat /\ Cardinality(Before(v)) \in Nat
        /\ steps[v].index <= Max(Places) /\ steps[v].index >= 1 /\ steps[v].index \in Nat
    BY <1>5, <2>2, PlacesHaveMax DEF StepsCount
  <2>4. QED
    BY <1>1, <2>1, <2>2, <2>3
<1>9. CASE \/ At(asked, s) # {} /\ At(asked, t) = {}
           \/ At(asked, s) = {} /\ At(asked, t) # {}
  <2>1. SavedStep(asked, s).index \in Int /\ SavedStep(asked, t).index \in Int
    BY SavedRow DEF StepRow
  <2>2. QED
    BY <1>8, <1>9, <2>1
<1>10. QED
  BY <1>6, <1>7, <1>9

RouteOrdered == StepsAreOrdered /\ StepsCount

LEMMA StepsStep ==
    AiTypeOK /\ RequestsFit /\ RouteOrdered /\ [AiNext]_aiVars => RouteOrdered'
<1> SUFFICES ASSUME AiTypeOK, RequestsFit, RouteOrdered, [AiNext]_aiVars
             PROVE  RouteOrdered'
  OBVIOUS
<1>t. providers \in [Providers -> ProviderRow] /\ steps \in [StepIds -> StepRow]
  BY AiTypes
<1>p. \A s \in StepIds : steps[s].provider \in Providers
  BY <1>t DEF StepRow
<1>same. ASSUME steps' = steps,
                \A q \in Providers : providers[q].made => providers'[q].made
         PROVE  RouteOrdered'
  <2>1. StepsCount'
    BY <1>same DEF StepsCount, RouteOrdered
  <2>2. StepsAreOrdered'
    BY <1>same, <1>p DEF StepsAreOrdered, RouteOrdered
  <2>3. QED
    BY <2>1, <2>2 DEF RouteOrdered
<1>1. ASSUME NEW p \in Providers, NEW enabled \in BOOLEAN, NEW default \in BOOLEAN,
             NEW usable \in BOOLEAN, SaveProvider(p, enabled, default, usable)
      PROVE  RouteOrdered'
  <2>1. steps' = steps
    BY <1>1 DEF SaveProvider
  <2>2. QED
    BY <1>1, <1>same, <2>1, SavedProvider
<1>2. ASSUME NEW p \in Providers, DeleteProvider(p) PROVE RouteOrdered'
  <2>1. \A s \in StepIds : steps'[s] = IF steps[s].provider = p THEN NoStep ELSE steps[s]
    BY <1>2 DEF DeleteProvider
  <2>2. \A q \in Providers : q # p => providers'[q].made = providers[q].made
    BY <1>2, DeletedProvider
  <2>3. \A s \in StepIds : steps'[s].made => steps'[s] = steps[s] /\ steps[s].provider # p
    <3>1. ~NoStep.made
      BY DEF NoStep
    <3>2. QED
      BY <2>1, <3>1
  <2>4. StepsCount'
    BY <2>3 DEF StepsCount, RouteOrdered
  <2>5. StepsAreOrdered'
    BY <1>p, <2>2, <2>3 DEF StepsAreOrdered, RouteOrdered
  <2>6. QED
    BY <2>4, <2>5 DEF RouteOrdered
<1>3. ASSUME NEW p \in Providers,
             TestProvider(p) \/ \E found \in SUBSET Models : RefreshModels(p, found)
      PROVE  RouteOrdered'
  <2>1. steps' = steps /\ providers' = [providers EXCEPT ![p].health = Healthy]
    BY <1>3 DEF TestProvider, RefreshModels
  <2>2. QED
    BY <1>same, <2>1, HealthyRow
(* No provider, no step: the one that the migration makes is the only one. *)
<1>4. ASSUME NEW p \in Providers, NEW m \in Models \cup {AnyModel}, MigrateLegacy(p, m)
      PROVE  RouteOrdered'
  <2>1. /\ Made = {} /\ stepIds + 1 \in StepIds
        /\ steps' = [steps EXCEPT ![stepIds + 1] = MigratedStep(p, m)]
        /\ providers' = [providers EXCEPT ![p] = MigratedProvider]
    BY <1>4, Migrates
  <2>2. \A s \in StepIds : ~steps[s].made
    BY <1>p, <2>1 DEF RouteOrdered, StepsAreOrdered, Made
  <2>3. \A s \in StepIds : steps'[s].made =>
           s = stepIds + 1 /\ steps'[s].index = 1 /\ steps'[s].provider = p
    BY <1>t, <2>1, <2>2 DEF MigratedStep
  <2>4. providers'[p].made
    BY <1>t, <2>1 DEF MigratedProvider
  <2>5. QED
    BY <2>3, <2>4 DEF RouteOrdered, StepsAreOrdered, StepsCount
<1>5. ASSUME NEW profile \in Profiles, NEW asked \in Requests, SaveRoute(profile, asked)
      PROVE  RouteOrdered'
  <2>1. /\ \A i \in 1..Len(asked) : asked[i].provider \in Made
        /\ steps' = [s \in StepIds |-> SavedStep(asked, s)] /\ providers' = providers
    BY <1>5, SavesSteps
  <2>2. \A s \in StepIds : steps'[s] = SavedStep(asked, s)
    BY <2>1
  <2>3. \A s, t \in StepIds :
           steps'[s].made /\ steps'[t].made /\ steps'[s].index = steps'[t].index => s = t
    BY <2>2, SavedApart DEF RouteOrdered
  <2>4. ASSUME NEW s \in StepIds, steps'[s].made
        PROVE  providers'[steps'[s].provider].made /\ steps'[s].index >= 1
    <3>1. CASE At(asked, s) # {}
      <4> DEFINE i == Max(At(asked, s))
      <4>1. i \in 1..Len(asked)
        BY <3>1, LargestAt
      <4>2. steps'[s].index = i /\ steps'[s].provider = asked[i].provider
        <5>1. SavedStep(asked, s) =
                 [made |-> TRUE, index |-> i, provider |-> asked[i].provider,
                  model |-> asked[i].model, enabled |-> asked[i].enabled]
          BY <3>1 DEF SavedStep
        <5> HIDE DEF i
        <5>2. QED
          BY <2>2, <5>1
      <4> HIDE DEF i
      <4>3. asked[i].provider \in Made
        BY <2>1, <4>1
      <4>4. QED
        BY <2>1, <4>1, <4>2, <4>3 DEF Made
    <3>2. CASE At(asked, s) = {}
      <4>1. steps[s].made /\ steps'[s] = SetAside(s)
        <5>1. ~NoStep.made
          BY DEF NoStep
        <5>2. SavedStep(asked, s) = IF steps[s].made THEN SetAside(s) ELSE NoStep
          BY <3>2 DEF SavedStep
        <5>3. SavedStep(asked, s).made
          BY <2>2, <2>4
        <5>4. QED
          BY <2>2, <5>1, <5>2, <5>3
      <4>2. /\ steps'[s].provider = steps[s].provider
            /\ steps'[s].index = Max(Places) + 100 + Cardinality(Before(s))
        BY <4>1, SetAsideRow
      <4>3. Max(Places) \in Nat /\ Cardinality(Before(s)) \in Nat
        BY PlacesHaveMax
      <4>4. QED
        BY <2>1, <4>1, <4>2, <4>3 DEF RouteOrdered, StepsAreOrdered
    <3>3. QED
      BY <3>1, <3>2
  <2>5. QED
    BY <2>3, <2>4 DEF RouteOrdered, StepsAreOrdered, StepsCount
<1>6. ASSUME NEW e \in Executors, Executes(e) PROVE RouteOrdered'
  BY <1>6, <1>same, ExecutionStep
<1>7. CASE AiTickPasses \/ UNCHANGED aiVars
  BY <1>7, <1>same DEF AiTickPasses, aiVars
<1>8. QED
  BY <1>1, <1>2, <1>3, <1>4, <1>5, <1>6, <1>7 DEF AiNext, Administers

(***************************************************************************)
(* The AI centre: theorems                                                 *)
(***************************************************************************)
AiModelsInv == AiTypeOK /\ ModelsAgree /\ OneDefault

LEMMA AiModelsInit == AiInit => AiModelsInv /\ RouteOrdered
<1> SUFFICES ASSUME AiInit PROVE AiModelsInv /\ RouteOrdered
  OBVIOUS
<1>1. Made = {}
  BY DEF AiInit, Made, NoProvider
<1>2. Cardinality({}) = 0
  BY FS_EmptySet
<1>3. ListsAgree
  BY <1>2 DEF AiInit, ListsAgree
<1>4. PreferredIsOne /\ OneDefault
  BY <1>1 DEF PreferredIsOne, OneDefault
<1>5. RouteOrdered
  BY DEF AiInit, NoStep, RouteOrdered, StepsAreOrdered, StepsCount
<1>6. QED
  BY <1>3, <1>4, <1>5, AiTypeInit DEF AiModelsInv, ModelsAgree

LEMMA AiModelsStep == AiModelsInv /\ [AiNext]_aiVars => AiModelsInv'
BY AiTypeStep, ModelsStep, DefaultStep DEF AiModelsInv, ModelsAgree

(* Type correctness of the AI centre: an execution that calls has attempts *)
(* left, and what it has loaded and called are rows.                       *)
THEOREM AiTypeCorrect == AiSpec => []AiTypeOK
<1>1. AiModelsInv => AiTypeOK
  BY DEF AiModelsInv
<1>2. QED
  BY <1>1, AiModelsInit, AiModelsStep, PTL DEF AiSpec

(* One provider is the default, each prefers one of its models and an      *)
(* enabled one, and the steps of the route have places of their own and    *)
(* providers that exist (save_ai_route), for requests of up to the hundred *)
(* steps by which it moves aside those it finds.                           *)
THEOREM RoutesAlwaysWhole == RequestsFit => (AiSpec => []RoutesAreWhole)
<1> SUFFICES ASSUME RequestsFit PROVE AiSpec => []RoutesAreWhole
  OBVIOUS
<1> DEFINE Inv == AiModelsInv /\ RouteOrdered
<1>1. AiInit => Inv
  BY AiModelsInit
<1>2. Inv /\ [AiNext]_aiVars => Inv'
  BY AiModelsStep, StepsStep DEF AiModelsInv
<1>3. Inv => RoutesAreWhole
  BY DEF AiModelsInv, ModelsAgree, RouteOrdered, RoutesAreWhole
<1> HIDE DEF Inv
<1>4. QED
  BY <1>1, <1>2, <1>3, PTL DEF AiSpec

(***************************************************************************)
(* Both beside each other                                                  *)
(***************************************************************************)
(* Type correctness of the composition: accounts and the AI centre leave   *)
(* each other's variables alone.                                           *)
THEOREM AdminTypeCorrect == Spec => []AdminTypeOK
<1> DEFINE Inv == AccountInv /\ AiModelsInv
<1>1. Init => Inv
  BY AccountInvInit, AiModelsInit DEF Init
<1>2. Inv /\ [Next]_vars => Inv'
  <2> SUFFICES ASSUME Inv, [Next]_vars PROVE Inv'
    OBVIOUS
  <2>1. [AccountNext]_accountVars
    BY DEF Next, vars, SessionsPart, SeatsPart, ProvidersPart, RoutesPart, AccountPart,
       AiPart, AccountNext
  <2>2. [AiNext]_aiVars
    BY DEF Next, vars, SessionsPart, SeatsPart, ProvidersPart, RoutesPart, AccountPart,
       AiPart, AiNext
  <2>3. QED
    BY <2>1, <2>2, AccountInvStep, AiModelsStep
<1>3. Inv => AdminTypeOK
  BY DEF AccountInv, AiModelsInv, AdminTypeOK
<1> HIDE DEF Inv
<1>4. QED
  BY <1>1, <1>2, <1>3, PTL DEF Spec
================================================================================
