----------------------------- MODULE LinkCheckPlan -----------------------------
(***************************************************************************)
(* A link check plan walks over the messages in batches: backfill from the *)
(* oldest, frontier from the newest down to what was completed before.     *)
(* The plan row keeps the window and the cursor, so that the next run, a   *)
(* day later, goes on where the last one stopped.                          *)
(*                                                                         *)
(* A plan thread of the worker and requests of the API read the row, and   *)
(* write the columns that differ from what they read when they commit.     *)
(* The task that checks a batch is LinkCheckTask; here it has an outcome.  *)
(***************************************************************************)
EXTENDS Integers, FiniteSets

CONSTANTS
    MaxMessage,     \* bound: message ids
    MaxLinks,       \* bound: links of a message
    BatchTarget,    \* batch_link_target
    LinkLimit,      \* link_check_max_allowed_links
    WindowOverlap,        \* overlap_message_count
    MaxBatches,     \* max_batches_per_run
    MaxPlanEdits,   \* bound: requests
    MaxPlanFaults   \* bound: tasks that do not complete, crashes

ASSUME LinkCheckPlanAssumption ==
    /\ {MaxMessage, WindowOverlap, MaxPlanEdits, MaxPlanFaults} \subseteq Nat
    /\ {MaxLinks, BatchTarget, LinkLimit, MaxBatches} \subseteq Nat \ {0}

VARIABLES
    chat,       \* links of each message; None for no message, or links NULL
    arrived,    \* the last message id
    plan,       \* the row of link_check_plans
    due,        \* next_run_at has passed
    exec,       \* the plan thread
    edit,       \* the request that changes the plan
    checked,    \* history: messages in the batches that were completed
    mixed,      \* history: a mode change overlapped with the opening of a window
    oversized,  \* history: a batch had more links than the limit
    planEdits, planFaults   \* history: requests, and faults

planVars == <<chat, arrived, plan, due, exec, edit, checked, mixed, oversized,
              planEdits, planFaults>>

MessageIds == 1..MaxMessage
None == -1
Id0  == 0..MaxMessage           \* 0 is NULL
Modes == {"backfill", "frontier"}

PlanRow == [mode: Modes, enabled: BOOLEAN, cursor: Id0, lower: Id0,
            upper: Id0, through: Id0, cycle: BOOLEAN]
Preview == [ids: SUBSET MessageIds, last: Id0, more: BOOLEAN]
NoPreview == [ids |-> {}, last |-> 0, more |-> FALSE]

LinkCheckPlanTypeOK ==
    /\ chat \in [MessageIds -> None..MaxLinks]
    /\ arrived \in Id0
    /\ plan \in PlanRow /\ due \in BOOLEAN
    /\ exec \in [pc: {"idle", "read", "commit", "run", "after"},
                 seen: PlanRow, want: PlanRow, preview: Preview,
                 left: 0..MaxBatches]
    /\ edit \in [pc: {"idle", "commit"}, seen: PlanRow, mode: Modes,
                 enabled: BOOLEAN]
    /\ checked \subseteq MessageIds /\ mixed \in BOOLEAN /\ oversized \in BOOLEAN
    /\ planEdits \in Nat /\ planFaults \in Nat

NewPlan(mode) == [mode |-> mode, enabled |-> TRUE, cursor |-> 0, lower |-> 0,
                  upper |-> 0, through |-> 0, cycle |-> FALSE]
NoExec == [pc |-> "idle", seen |-> NewPlan("backfill"),
           want |-> NewPlan("backfill"), preview |-> NoPreview, left |-> 0]
NoEdit == [pc |-> "idle", seen |-> NewPlan("backfill"), mode |-> "backfill",
           enabled |-> TRUE]

LinkCheckPlanInit ==
    /\ chat = [i \in MessageIds |-> None] /\ arrived = 0
    /\ \E mode \in Modes : plan = NewPlan(mode)
    /\ due = FALSE
    /\ exec = NoExec /\ edit = NoEdit
    /\ checked = {} /\ mixed = FALSE /\ oversized = FALSE
    /\ planEdits = 0 /\ planFaults = 0

(***************************************************************************)
(* The selection of a batch                                                *)
(***************************************************************************)
(* _message_query *)
Candidates(mode, cursor, lower, upper) ==
    {i \in MessageIds :
        /\ chat[i] # None /\ i > lower
        /\ upper # 0 => i <= upper
        /\ cursor # 0 => IF mode = "frontier" THEN i < cursor ELSE i > cursor}

Ahead(mode, i, j) == IF mode = "frontier" THEN i > j ELSE i < j
LinksOf(S) == Cardinality({l \in S \X (1..MaxLinks) : l[2] <= chat[l[1]]})

(* Sensitivity: the message that reaches the target is left out, yet the   *)
(* cursor passes it.                                                       *)
SelectionShort(mode, cursor, lower, upper) ==
    LET C == Candidates(mode, cursor, lower, upper)
        taken == {i \in C : chat[i] > 0 /\
                     LinksOf({j \in C : Ahead(mode, j, i)}) < BatchTarget} IN
    IF taken = {} THEN NoPreview
    ELSE LET last == CHOOSE i \in taken : \A j \in taken : ~Ahead(mode, i, j) IN
         [ids |-> IF Cardinality(taken) > 1 THEN taken \ {last} ELSE taken,
          last |-> last, more |-> \E j \in C : Ahead(mode, last, j)]

(* preview_smart_count_selection: messages in order until the target is    *)
(* reached; there is more when a message follows the last one taken.       *)
Selection(mode, cursor, lower, upper) ==
    LET C == Candidates(mode, cursor, lower, upper)
        taken == {i \in C : chat[i] > 0 /\
                     LinksOf({j \in C : Ahead(mode, j, i)}) < BatchTarget} IN
    IF taken = {} THEN NoPreview
    ELSE LET last == CHOOSE i \in taken : \A j \in taken : ~Ahead(mode, i, j) IN
         [ids |-> taken, last |-> last,
          more |-> \E j \in C : Ahead(mode, last, j)]

LatestMessage ==
    LET known == {i \in MessageIds : chat[i] # None} IN
    IF known = {} THEN 0 ELSE CHOOSE i \in known : \A j \in known : j <= i

(* _prepare_backfill_preview, _prepare_frontier_preview: a new window goes *)
(* up to the latest message; a frontier window begins a little before what *)
(* was completed.                                                          *)
Opened(p) ==
    IF p.cycle /\ p.upper # 0 THEN p
    ELSE [p EXCEPT !.cycle = TRUE, !.cursor = 0, !.upper = LatestMessage,
                   !.lower = IF p.mode = "frontier" /\ LatestMessage # 0
                                /\ p.through > WindowOverlap
                             THEN p.through - WindowOverlap ELSE 0]

Closed(p) == [p EXCEPT !.cycle = FALSE, !.cursor = 0, !.lower = 0, !.upper = 0]

(* What is written: the columns of want that differ from seen.             *)
Written(seen, want) ==
    [c \in DOMAIN plan |-> IF want[c] = seen[c] THEN plan[c] ELSE want[c]]

(***************************************************************************)
(* The plan thread                                                         *)
(***************************************************************************)
(* claim_due_link_check_plan_runs, dispatch_link_check_plan *)
ClaimPlan ==
    /\ exec.pc = "idle" /\ due /\ plan.enabled
    /\ due' = FALSE
    /\ exec' = [NoExec EXCEPT !.pc = "read", !.left = MaxBatches]
    /\ UNCHANGED <<chat, arrived, plan, edit, checked, mixed, oversized,
                   planEdits, planFaults>>

(* The row and the messages are read; another task may be running.  When   *)
(* nothing is left to check the window is completed.                       *)
ReadPlan ==
    LET want == Opened(plan)
        preview == Selection(want.mode, want.cursor,
                             IF want.mode = "frontier" THEN want.lower ELSE 0,
                             want.upper) IN
    /\ exec.pc = "read"
    /\ exec' = IF ~plan.enabled THEN NoExec
               ELSE [exec EXCEPT
                       !.pc = "commit", !.seen = plan, !.preview = preview,
                       !.want = IF preview.ids # {} THEN want
                                ELSE Closed([want EXCEPT !.through =
                                       IF want.upper = 0 THEN @ ELSE want.upper])]
    /\ UNCHANGED <<chat, arrived, plan, due, edit, checked, mixed, oversized,
                   planEdits, planFaults>>

(* start_or_reuse_task and the commit; the plan waits for another day when *)
(* another task has the worker, before or after the window was prepared.   *)
CommitPlan ==
    /\ exec.pc = "commit"
    /\ \/ /\ plan' = Written(exec.seen, exec.want)
          /\ mixed' = (mixed \/ plan.mode # exec.seen.mode)
          /\ exec' = IF exec.preview.ids = {} THEN NoExec
                     ELSE [NoExec EXCEPT !.pc = "run", !.left = exec.left,
                                         !.seen = NewPlan(exec.seen.mode),
                                         !.preview = exec.preview]
          /\ UNCHANGED planFaults
       \/ /\ planFaults < MaxPlanFaults /\ planFaults' = planFaults + 1
          /\ plan' = Written(exec.seen, exec.want) \/ plan' = plan
          /\ mixed' = (mixed \/ plan.mode # exec.seen.mode)
          /\ exec' = NoExec
    /\ UNCHANGED <<chat, arrived, due, edit, checked, oversized, planEdits>>

(* The task completes, or it fails, is stopped or outlives the wait.  A    *)
(* batch over the limit fails (get_safety_limit_error).                    *)
TaskCompletes ==
    /\ exec.pc = "run"
    /\ LinksOf(exec.preview.ids) <= LinkLimit
    /\ checked' = checked \cup exec.preview.ids
    /\ exec' = [exec EXCEPT !.pc = "after"]
    /\ UNCHANGED <<chat, arrived, plan, due, edit, mixed, oversized, planEdits,
                   planFaults>>

TaskFails ==
    /\ exec.pc = "run"
    /\ oversized' = (oversized \/ LinksOf(exec.preview.ids) > LinkLimit)
    /\ \/ LinksOf(exec.preview.ids) > LinkLimit /\ UNCHANGED planFaults
       \/ planFaults < MaxPlanFaults /\ planFaults' = planFaults + 1
    /\ exec' = NoExec
    /\ UNCHANGED <<chat, arrived, plan, due, edit, checked, mixed, planEdits>>

(* Sensitivity: the cursor is not moved.                                   *)
AdvancedNot(p) ==
    IF exec.preview.more THEN p
    ELSE Closed([p EXCEPT !.through = IF p.upper = 0 THEN @ ELSE p.upper])

(* _update_plan_after_completed_batch, in a transaction of its own, with   *)
(* the preview and the mode from before the batch.                         *)
Advanced(p) ==
    IF exec.preview.more
    THEN [p EXCEPT !.cursor = exec.preview.last,
                   !.through = IF exec.seen.mode = "backfill"
                               THEN exec.preview.last ELSE @]
    ELSE Closed([p EXCEPT !.through = IF p.upper = 0 THEN @ ELSE p.upper])

AdvancePlan ==
    /\ exec.pc = "after"
    /\ plan' = Advanced(plan)
    /\ exec' = IF exec.preview.more /\ exec.left > 1
               THEN [NoExec EXCEPT !.pc = "read", !.left = exec.left - 1]
               ELSE NoExec
    /\ UNCHANGED <<chat, arrived, due, edit, checked, mixed, oversized,
                   planEdits, planFaults>>

(* The worker dies; the row stays, and the plan is due again tomorrow.     *)
CrashPlan ==
    /\ exec.pc # "idle"
    /\ planFaults < MaxPlanFaults /\ planFaults' = planFaults + 1
    /\ exec' = NoExec
    /\ UNCHANGED <<chat, arrived, plan, due, edit, checked, mixed, oversized,
                   planEdits>>

(***************************************************************************)
(* Requests, messages, time                                                *)
(***************************************************************************)
(* update_link_check_plan_by_id: read, then _apply_plan_values and commit. *)
EditReads(mode, enabled) ==
    /\ edit.pc = "idle"
    /\ planEdits < MaxPlanEdits /\ planEdits' = planEdits + 1
    /\ edit' = [pc |-> "commit", seen |-> plan, mode |-> mode,
                enabled |-> enabled]
    /\ UNCHANGED <<chat, arrived, plan, due, exec, checked, mixed, oversized,
                   planFaults>>

EditCommits ==
    LET moded == [edit.seen EXCEPT !.mode = edit.mode, !.enabled = edit.enabled] IN
    /\ edit.pc = "commit"
    /\ plan' = Written(edit.seen,
                       IF edit.mode = edit.seen.mode THEN moded
                       ELSE Closed([moded EXCEPT !.through = 0]))
    /\ due' = FALSE
    /\ mixed' = (mixed \/ (edit.mode # edit.seen.mode
                            /\ (plan # edit.seen \/ exec.pc = "commit")))
    /\ edit' = NoEdit
    /\ UNCHANGED <<chat, arrived, exec, checked, oversized, planEdits, planFaults>>

Arrive(n) ==
    /\ arrived < MaxMessage
    /\ arrived' = arrived + 1
    /\ chat' = [chat EXCEPT ![arrived + 1] = n]
    /\ UNCHANGED <<plan, due, exec, edit, checked, mixed, oversized, planEdits,
                   planFaults>>

(* Cleanup after a batch, retention or a request empties or deletes one.   *)
LoseMessage(i) ==
    /\ chat[i] > 0
    /\ planEdits < MaxPlanEdits /\ planEdits' = planEdits + 1
    /\ \E n \in {None, 0} : chat' = [chat EXCEPT ![i] = n]
    /\ UNCHANGED <<arrived, plan, due, exec, edit, checked, mixed, oversized,
                   planFaults>>

PlanComesDue ==
    /\ plan.enabled /\ ~due
    /\ due' = TRUE
    /\ UNCHANGED <<chat, arrived, plan, exec, edit, checked, mixed, oversized,
                   planEdits, planFaults>>

PlanSteps ==
    \/ ClaimPlan \/ ReadPlan \/ CommitPlan \/ TaskCompletes \/ TaskFails
    \/ AdvancePlan

LinkCheckPlanNext ==
    \/ PlanSteps \/ CrashPlan \/ EditCommits \/ PlanComesDue
    \/ \E mode \in Modes, enabled \in BOOLEAN : EditReads(mode, enabled)
    \/ \E n \in 0..MaxLinks : Arrive(n)
    \/ \E i \in MessageIds : LoseMessage(i)

LinkCheckPlanSpec == LinkCheckPlanInit /\ [][LinkCheckPlanNext]_planVars

(* The scheduler ticks, threads and requests go on, and tomorrow comes.    *)
LinkCheckPlanFairness ==
    WF_planVars(PlanSteps) /\ WF_planVars(EditCommits) /\ WF_planVars(PlanComesDue)

(***************************************************************************)
(* Properties                                                              *)
(***************************************************************************)
(* Every message up to completed_through_message_id that has links was in  *)
(* a batch that was completed, across windows, runs, crashes and changes   *)
(* of mode; unless a change of mode overlapped with the opening of a       *)
(* window, which leaves the window or the cursor of the other mode.        *)
CoveredIsChecked ==
    \A i \in MessageIds :
        i <= plan.through /\ chat[i] > 0 => i \in checked \/ mixed

(* A window that was opened is completed (or cleared by a change of mode)  *)
(* while the plan is enabled, unless a batch exceeded the limit: such a    *)
(* batch is chosen again every day.                                        *)
WindowCompletes ==
    plan.cycle ~> (~plan.cycle \/ ~plan.enabled \/ oversized)
=============================================================================
