---------------------------- MODULE AccountSessions ----------------------------
(***************************************************************************)
(* Accounts, their sessions and the batches that admit new accounts.       *)
(*                                                                         *)
(* The handlers that sign in and those of the administrator are coroutines *)
(* that do not await, so they are steps.  What answers "who is this" for   *)
(* every other request (get_current_user) is a plain function and runs in  *)
(* a thread: it overlaps with the handlers, between its two reads and      *)
(* before what it writes.                                                  *)
(***************************************************************************)
EXTENDS Integers, FiniteSets, FiniteSetsExt

CONSTANTS
    Accounts,       \* rows of user_accounts that are ever made
    FirstAdmin,     \* the one bootstrap_account_storage makes
    Clients,        \* browsers, by their client_instance_id
    NoClient,       \* one that sends none
    MaxBatches,     \* bound: rows of account_batches for LinuxDo
    Threads,        \* threads that answer get_current_user
    MaxSessions,    \* bound: rows of auth_sessions
    Windows,        \* bound: values of session_online_window_minutes, in ticks
    Ttls,           \* bound: values of session_absolute_ttl_days, in ticks
    Endings,        \* bound: times at which a validity may be made to end
    LimitChoices,   \* bound: limits of sessions that are chosen, 0 for none
    MaxTicks,       \* bound: ticks of the clock, of 45 seconds or more
    MaxAccountOps   \* bound: requests of the administrator

ASSUME AccountAssumption ==
    /\ FirstAdmin \in Accounts /\ IsFiniteSet(Accounts) /\ NoClient \in Clients
    /\ MaxBatches \in Nat
    /\ MaxSessions \in Nat /\ Windows \subseteq Nat /\ Ttls \subseteq Nat \ {0}
    /\ Endings \subseteq Nat /\ LimitChoices \subseteq Nat
    /\ MaxTicks \in Nat /\ MaxAccountOps \in Nat

VARIABLES
    accounts,   \* user_accounts, with their one row of auth_identities
    sessions,   \* auth_sessions by id
    signedIn,   \* ids of sessions given out
    policy,     \* the runtime settings that matter here
    batches,    \* the LinuxDo batches, by id
    asking,     \* what each thread has read
    tick,       \* the clock
    accountOps, \* history: requests of the administrator
    epoch,      \* history: how often the sessions of an account were ended
    granted,    \* history: the limit at the last login; 0 for none
    revived,    \* history: sessions that came online again after that
    lapsed,     \* history: the validity of an administrator has ended
    lowered     \* history: batches given fewer seats than they have accounts

accountVars == <<accounts, sessions, signedIn, policy, batches, asking, tick,
                 accountOps, epoch, granted, revived, lapsed, lowered>>

SessionIds == 1..MaxSessions
Never      == 0                 \* no expires_at
Roles      == {"admin", "user"}

AccountRow == [exists: BOOLEAN, role: Roles,
               status: {"active", "disabled"}, ends: Nat, override: Nat,
               source: 0..MaxBatches]   \* 0: it signs in with a password
NoAccount  == [exists |-> FALSE, role |-> "user", status |-> "active",
               ends |-> Never, override |-> 0, source |-> 0]
SessionRow == [state: {"none", "open", "revoked"}, owner: Accounts,
               client: Clients, seen: 0..MaxTicks, until: Nat, epoch: Nat]
NoSession  == [state |-> "none", owner |-> FirstAdmin,
               client |-> NoClient, seen |-> 0, until |-> 0,
               epoch |-> 0]
BatchRow   == [made: BOOLEAN, seats: Nat, role: Roles, enabled: BOOLEAN]
NoBatch    == [made |-> FALSE, seats |-> 0, role |-> "user", enabled |-> FALSE]
Policies   == [limit: LimitChoices, exempt: BOOLEAN, admits: BOOLEAN,
               window: Windows, ttl: Ttls]
Asks       == [pc: {"idle", "read", "restricted", "touch"}, session: 0..MaxSessions,
               now: 0..MaxTicks, seen: 0..MaxTicks]
NotAsking  == [pc |-> "idle", session |-> 0, now |-> 0, seen |-> 0]

AccountTypeOK ==
    /\ accounts \in [Accounts -> AccountRow]
    /\ sessions \in [SessionIds -> SessionRow] /\ signedIn \in 0..MaxSessions
    /\ policy \in Policies
    /\ batches \in [1..MaxBatches -> BatchRow]
    /\ asking \in [Threads -> Asks]
    /\ tick \in 0..MaxTicks /\ accountOps \in 0..MaxAccountOps
    /\ epoch \in [Accounts -> Nat] /\ granted \in [Accounts -> Nat]
    /\ revived \subseteq SessionIds
    /\ lapsed \in BOOLEAN /\ lowered \subseteq 1..MaxBatches

AccountInit ==
    /\ accounts = [a \in Accounts |-> IF a = FirstAdmin
                     THEN [NoAccount EXCEPT !.exists = TRUE, !.role = "admin"]
                     ELSE NoAccount]
    /\ sessions = [s \in SessionIds |-> NoSession] /\ signedIn = 0
    /\ policy \in {chosen \in Policies : ~chosen.exempt /\ chosen.admits}
    /\ batches = [b \in 1..MaxBatches |-> NoBatch]
    /\ asking = [h \in Threads |-> NotAsking]
    /\ tick = 0 /\ accountOps = 0
    /\ epoch = [a \in Accounts |-> 0] /\ granted = [a \in Accounts |-> 0]
    /\ revived = {} /\ lapsed = FALSE /\ lowered = {}

(***************************************************************************)
(* Validity, limits and what revokes                                       *)
(***************************************************************************)
ValidAt(ends, now) == ends = Never \/ ends > now
ActiveAt(row, now) == row.exists /\ row.status = "active" /\ ValidAt(row.ends, now)
IsActive(row)    == ActiveAt(row, tick)
IsAdmin(row)     == row.role = "admin" /\ IsActive(row)
IsLocalAdmin(row) == IsAdmin(row) /\ row.source = 0
SessionsOf(a)    == {s \in SessionIds : sessions[s].state # "none" /\ sessions[s].owner = a}
OpenOf(a)        == {s \in SessionsOf(a) : sessions[s].state = "open"}
SeenWithin(s, window) ==
    sessions[s].until > tick /\ tick - sessions[s].seen <= window
IsOnline(s)      == SeenWithin(s, policy.window)
OnlineOf(a)      == {s \in OpenOf(a) : IsOnline(s)}

(* resolve_account_session_limit                                           *)
LimitOf(row) ==
    IF row.override # 0 THEN row.override
    ELSE IF row.role = "admin" /\ policy.exempt THEN 0
    ELSE policy.limit

Revoked(ids) == [s \in SessionIds |-> IF s \in ids THEN [sessions[s] EXCEPT !.state = "revoked"]
                                      ELSE sessions[s]]

EarlierSeen(s, t) == \/ sessions[s].seen < sessions[t].seen
                     \/ sessions[s].seen = sessions[t].seen /\ s < t

(* Sensitivity: the comparison with the limit is off by one.               *)
OverLimitByOne(a, ids) ==
    LET limit == LimitOf(accounts[a]) IN
    IF limit = 0 THEN {}
    ELSE {s \in ids : Cardinality({t \in ids : EarlierSeen(s, t)}) > limit}

(* Of the sessions that are online, those seen least lately make room for  *)
(* one more.                                                               *)
OverLimit(a, ids) ==
    LET limit == LimitOf(accounts[a]) IN
    IF limit = 0 THEN {}
    ELSE {s \in ids : Cardinality({t \in ids : EarlierSeen(s, t)}) >= limit - 1}

(***************************************************************************)
(* Signing in and out                                                      *)
(***************************************************************************)
(* A session of the account, in place of those of the same browser.        *)
OpensSession(a, c) ==
    LET same == {s \in OpenOf(a) : c # NoClient /\ sessions[s].client = c}
        over == OverLimit(a, OnlineOf(a) \ same) IN
    /\ signedIn < MaxSessions /\ signedIn' = signedIn + 1
    /\ sessions' = [Revoked(same \cup over) EXCEPT ![signedIn + 1] =
            [state |-> "open", owner |-> a, client |-> c, seen |-> tick,
             until |-> tick + policy.ttl, epoch |-> epoch[a]]]
    /\ granted' = [granted EXCEPT ![a] = LimitOf(accounts[a])]
    /\ revived' = revived \ SessionsOf(a)

SignIn(a, c) ==
    /\ IsActive(accounts[a]) /\ OpensSession(a, c)
    /\ UNCHANGED <<accounts, policy, batches, asking, tick, accountOps, epoch,
                   lapsed, lowered>>

SignOut(s) ==
    /\ sessions[s].state = "open" /\ sessions' = Revoked({s})
    /\ UNCHANGED <<accounts, signedIn, policy, batches, asking, tick, accountOps,
                   epoch, granted, revived, lapsed, lowered>>

(***************************************************************************)
(* get_current_user, in a thread                                           *)
(***************************************************************************)
Untouched == UNCHANGED <<accounts, signedIn, policy, batches, tick, accountOps,
                         epoch, granted, lapsed, lowered>>

ReadsSession(h, s) ==
    /\ asking[h].pc = "idle" /\ sessions[s].state = "open" /\ sessions[s].until > tick
    /\ asking' = [asking EXCEPT ![h] =
            [pc |-> "read", session |-> s, now |-> tick, seen |-> sessions[s].seen]]
    /\ UNCHANGED <<sessions, revived>> /\ Untouched

(* The account is that of the token; with it gone, so is the session.      *)
ReadsAccount(h) ==
    LET ask == asking[h]
        s   == sessions[ask.session] IN
    /\ ask.pc = "read"
    /\ asking' = [asking EXCEPT ![h] =
            IF s.state = "none" \/ ~ActiveAt(accounts[s.owner], ask.now)
            THEN [@ EXCEPT !.pc = "restricted"]
            ELSE IF ask.seen < ask.now THEN [@ EXCEPT !.pc = "touch"] ELSE NotAsking]
    /\ UNCHANGED <<sessions, revived>> /\ Untouched

(* A session that was deleted meanwhile is not there to be updated.        *)
RevokesRestricted(h) ==
    LET s == asking[h].session IN
    /\ asking[h].pc = "restricted" /\ asking' = [asking EXCEPT ![h] = NotAsking]
    /\ sessions' = IF sessions[s].state = "none" THEN sessions ELSE Revoked({s})
    /\ UNCHANGED revived /\ Untouched

(* Sensitivity: the row is written back as it was read, not only its time. *)
TouchesWhole(h) ==
    LET s == asking[h].session IN
    /\ asking[h].pc = "touch" /\ asking' = [asking EXCEPT ![h] = NotAsking]
    /\ sessions' = IF sessions[s].state = "none" THEN sessions
                   ELSE [sessions EXCEPT ![s].seen = asking[h].now, ![s].state = "open"]
    /\ revived' = IF IsOnline(s) THEN revived ELSE revived \cup {s}
    /\ Untouched

(* last_seen_at alone is written.                                          *)
Touches(h) ==
    LET s == asking[h].session IN
    /\ asking[h].pc = "touch" /\ asking' = [asking EXCEPT ![h] = NotAsking]
    /\ sessions' = IF sessions[s].state = "none" THEN sessions
                   ELSE [sessions EXCEPT ![s].seen = asking[h].now]
    /\ revived' = IF IsOnline(s) THEN revived ELSE revived \cup {s}
    /\ Untouched

(***************************************************************************)
(* The administrator                                                       *)
(***************************************************************************)
AccountOp == accountOps < MaxAccountOps /\ accountOps' = accountOps + 1

(* Sensitivity: any other administrator will do.                           *)
MayBecomeAny(a, row) ==
    \/ ~IsAdmin(accounts[a]) \/ IsAdmin(row)
    \/ \E b \in Accounts \ {a} : accounts[b].exists /\ accounts[b].role = "admin"

(* _ensure_admin_not_removed: an administrator who can sign in may be      *)
(* taken away if another one is left who can do so with a password.        *)
MayBecome(a, row) ==
    \/ ~IsAdmin(accounts[a]) \/ IsAdmin(row)
    \/ \E b \in Accounts \ {a} : IsLocalAdmin(accounts[b])

CreateAccount(a, role, ends) ==
    /\ AccountOp /\ ~accounts[a].exists
    /\ accounts' = [accounts EXCEPT ![a] =
            [NoAccount EXCEPT !.exists = TRUE, !.role = role, !.ends = ends]]
    /\ UNCHANGED <<sessions, signedIn, policy, batches, asking, tick, epoch, granted,
                   revived, lapsed, lowered>>

UpdateAccount(a, role, status, ends, override) ==
    LET row == [accounts[a] EXCEPT !.role = role, !.status = status, !.ends = ends,
                                   !.override = override] IN
    /\ AccountOp /\ accounts[a].exists /\ MayBecome(a, row)
    /\ accounts' = [accounts EXCEPT ![a] = row]
    /\ IF IsActive(row) THEN UNCHANGED <<sessions, epoch>>
       ELSE sessions' = Revoked(OpenOf(a)) /\ epoch' = [epoch EXCEPT ![a] = @ + 1]
    /\ UNCHANGED <<signedIn, policy, batches, asking, tick, granted, revived, lapsed,
                   lowered>>

ChangePassword(a) ==
    /\ AccountOp /\ accounts[a].exists /\ accounts[a].source = 0
    /\ sessions' = Revoked(OpenOf(a)) /\ epoch' = [epoch EXCEPT ![a] = @ + 1]
    /\ UNCHANGED <<accounts, signedIn, policy, batches, asking, tick, granted, revived,
                   lapsed, lowered>>

DeleteAccount(a) ==
    /\ AccountOp /\ accounts[a].exists /\ MayBecome(a, NoAccount)
    /\ accounts' = [accounts EXCEPT ![a] = NoAccount]
    /\ sessions' = [s \in SessionIds |-> IF s \in SessionsOf(a) THEN NoSession
                                         ELSE sessions[s]]
    /\ epoch' = [epoch EXCEPT ![a] = @ + 1] /\ revived' = revived \ SessionsOf(a)
    /\ UNCHANGED <<signedIn, policy, batches, asking, tick, granted, lapsed, lowered>>

(* A longer window brings sessions online again that were not; the end of  *)
(* a session stays as it was when it was opened.                           *)
SavePolicy(chosen) ==
    /\ AccountOp /\ policy' = chosen
    /\ revived' = revived \cup {s \in SessionIds : SeenWithin(s, chosen.window) /\ ~IsOnline(s)}
    /\ UNCHANGED <<accounts, sessions, signedIn, batches, asking, tick, epoch, granted,
                   lapsed, lowered>>

(* Every helper calls bootstrap_account_storage: no account is left.       *)
Bootstrap ==
    /\ \A a \in Accounts : ~accounts[a].exists
    /\ accounts' = [accounts EXCEPT ![FirstAdmin] =
            [NoAccount EXCEPT !.exists = TRUE, !.role = "admin"]]
    /\ UNCHANGED <<sessions, signedIn, policy, batches, asking, tick, accountOps, epoch,
                   granted, revived, lapsed, lowered>>

(***************************************************************************)
(* LinuxDo                                                                 *)
(***************************************************************************)
AdmittedBy(b) == {a \in Accounts : accounts[a].exists /\ accounts[a].source = b}

(* create_linuxdo_batch and update_linuxdo_batch: enabling a batch         *)
(* disables the others (_disable_other_batches).                           *)
SaveBatch(b, seats, role, enabled) ==
    /\ AccountOp /\ (batches[b].made \/ \A c \in 1..b - 1 : batches[c].made)
    /\ batches' = [c \in 1..MaxBatches |->
            IF c = b THEN [made |-> TRUE, seats |-> seats, role |-> role, enabled |-> enabled]
            ELSE [batches[c] EXCEPT !.enabled = @ /\ ~enabled]]
    /\ lowered' = IF Cardinality(AdmittedBy(b)) > seats THEN lowered \cup {b} ELSE lowered
    /\ UNCHANGED <<accounts, sessions, signedIn, policy, asking, tick, epoch, granted,
                   revived, lapsed>>

(* _resolve_admission_batch_for_update, but for the window of the batch.   *)
HasSeat(b) == batches[b].enabled /\ Cardinality(AdmittedBy(b)) < batches[b].seats

(* exchange_linuxdo_code_for_login of somebody new: the account is         *)
(* committed, and create_provider_login_session may refuse it.             *)
Admit(a, b, c, ends) ==
    /\ policy.admits /\ HasSeat(b) /\ ~accounts[a].exists
    /\ accounts' = [accounts EXCEPT ![a] =
            [NoAccount EXCEPT !.exists = TRUE, !.role = batches[b].role, !.ends = ends,
                              !.source = b]]
    /\ IF ValidAt(ends, tick)
       THEN /\ signedIn < MaxSessions /\ signedIn' = signedIn + 1
            /\ sessions' = [sessions EXCEPT ![signedIn + 1] =
                 [state |-> "open", owner |-> a, client |-> c, seen |-> tick,
                  until |-> tick + policy.ttl, epoch |-> epoch[a]]]
            /\ granted' = [granted EXCEPT ![a] = LimitOf(accounts'[a])]
       ELSE UNCHANGED <<signedIn, sessions, granted>>
    /\ UNCHANGED <<policy, batches, asking, tick, accountOps, epoch, revived, lapsed,
                   lowered>>

(***************************************************************************)
(* Time                                                                    *)
(***************************************************************************)
TickPasses ==
    /\ tick < MaxTicks /\ tick' = tick + 1
    /\ lapsed' = (\/ lapsed
                  \/ \E a \in Accounts : IsLocalAdmin(accounts[a]) /\ accounts[a].ends = tick + 1)
    /\ UNCHANGED <<accounts, sessions, signedIn, policy, batches, asking, accountOps,
                   epoch, granted, revived, lowered>>

ThreadStep(h) == ReadsAccount(h) \/ RevokesRestricted(h) \/ Touches(h)

Signing ==
    \/ \E a \in Accounts, c \in Clients : SignIn(a, c)
    \/ \E s \in SessionIds : SignOut(s)

Answering ==
    \E h \in Threads : ThreadStep(h) \/ \E s \in SessionIds : ReadsSession(h, s)

Administering ==
    \E a \in Accounts :
        \/ \E role \in Roles, ends \in Endings :
             \/ CreateAccount(a, role, ends)
             \/ \E status \in {"active", "disabled"}, override \in LimitChoices :
                  UpdateAccount(a, role, status, ends, override)
        \/ ChangePassword(a) \/ DeleteAccount(a)

SavingPolicy ==
    \E chosen \in Policies : SavePolicy(chosen)

Admitting ==
    \E b \in 1..MaxBatches :
        \/ \E seats \in 1..2, role \in Roles, enabled \in BOOLEAN :
             SaveBatch(b, seats, role, enabled)
        \/ \E a \in Accounts, c \in Clients, ends \in Endings : Admit(a, b, c, ends)

AccountNext ==
    \/ Signing \/ Answering \/ Administering \/ SavingPolicy \/ Admitting
    \/ Bootstrap \/ TickPasses

AccountSpec == AccountInit /\ [][AccountNext]_accountVars

(***************************************************************************)
(* Properties                                                              *)
(***************************************************************************)
(* What ends the sessions of an account (a new password, a restriction, a  *)
(* deletion) ends all of them for good: no thread that had read one before *)
(* brings it back (_resolve_current_user_from_token).                      *)
OpenIsCurrent ==
    \A s \in SessionIds : sessions[s].state = "open" =>
        sessions[s].epoch = epoch[sessions[s].owner]

(* An account has no more sessions online than the limit allowed when it   *)
(* signed in last (create_login_session), but for those that were offline  *)
(* then, did not count, and have come online again: one is used again, or  *)
(* a longer window of online sessions is chosen.                           *)
LimitIsKept ==
    \A a \in Accounts :
        granted[a] # 0 => Cardinality(OnlineOf(a) \ revived) <= granted[a]

(* An administrator is left who can sign in with a password, unless the    *)
(* validity of one has ended, which no request prevents                    *)
(* (_ensure_admin_not_removed).                                            *)
AdminRemains == lapsed \/ \E a \in Accounts : IsLocalAdmin(accounts[a])

(* A batch admits as many accounts as it has seats, whatever is deleted    *)
(* and admitted again, and one at most admits                              *)
(* (_resolve_admission_batch_for_update, _disable_other_batches).          *)
SeatsAreKept ==
    /\ \A b \in (1..MaxBatches) \ lowered : Cardinality(AdmittedBy(b)) <= batches[b].seats
    /\ \A b, c \in 1..MaxBatches : batches[b].enabled /\ batches[c].enabled => b = c

AccountsAreKept == AdminRemains /\ SeatsAreKept
=============================================================================
