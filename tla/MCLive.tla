------------------------------- MODULE MCLive -------------------------------
(* Liveness of the queues, the plan and the monitor, which share nothing:  *)
(* one of them moves in a behaviour, and its fairness is assumed.          *)
EXTENDS TransferQueue, BackupQueue, RecognitionQueue, LinkCheckPlan, MonitorIngest, TLC

CONSTANTS b1, i1, i2

OneBatch == (i1 :> b1) @@ (i2 :> b1)

VARIABLE part

liveVars == <<part, backupVars, recVars, planVars, ingestVars, vars>>

LiveInit ==
    /\ part \in {"backup", "recognition", "plan", "ingest", "transfer"}
    /\ BackupInit /\ RecognitionInit /\ LinkCheckPlanInit /\ IngestInit
    /\ StartsEmpty /\ raced = Batches   \* a history that liveness has no use for
    /\ part # "recognition" => cleanup = "done"
    /\ part # "plan" => plan.mode = "backfill"

OnlyBackup ==
    part = "backup" /\ UNCHANGED <<part, recVars, planVars, ingestVars, vars>>
OnlyRecognition ==
    part = "recognition" /\ UNCHANGED <<part, backupVars, planVars, ingestVars, vars>>
OnlyPlan ==
    part = "plan" /\ UNCHANGED <<part, backupVars, recVars, ingestVars, vars>>
OnlyIngest ==
    part = "ingest" /\ UNCHANGED <<part, backupVars, recVars, planVars, vars>>
OnlyTransfer ==
    part = "transfer" /\ UNCHANGED <<part, backupVars, recVars, planVars, ingestVars>>

BackupPart == OnlyBackup /\ BackupNext
RecognitionPart == OnlyRecognition /\ RecognitionNext
PlanPart == OnlyPlan /\ LinkCheckPlanNext
IngestPart == OnlyIngest /\ IngestNext
TransferPart == OnlyTransfer /\ Next

LiveNext == BackupPart \/ RecognitionPart \/ PlanPart \/ IngestPart \/ TransferPart

(* The fairness of each module, while its part moves.                      *)
BackupDispatches == part = "backup" /\ DispatchSteps
BackupRuns(w)    == part = "backup" /\ ThreadSteps(w)
Recognizes(w)    == part = "recognition" /\ ResolverSteps(w)
AskEnds(c)       == part = "recognition" /\ AskCommits(c)
RetryIsDue(l)    == part = "recognition" /\ RetryTimePasses(l)
PlanRuns         == part = "plan" /\ PlanSteps
EditEnds         == part = "plan" /\ EditCommits
PlanIsDue        == part = "plan" /\ PlanComesDue
RefreshRuns(w)   == part = "ingest" /\ RefreshSteps(w)
QueueWorks(w)    == part = "transfer" /\ WorkerStep(w)
AttemptIsDue(i)  == part = "transfer" /\ RetryFallsDue(i)
LockIsOld(i)     == part = "transfer" /\ LockAges(i)
RequestEnds      == part = "transfer" /\ (ApiCommit \/ ApiRollback)

LiveFairness ==
    /\ WF_backupVars(BackupDispatches)
    /\ \A w \in BackupWorkers : WF_backupVars(BackupRuns(w))
    /\ \A w \in Resolvers : WF_recVars(Recognizes(w))
    /\ \A c \in Askers : WF_recVars(AskEnds(c))
    /\ \A l \in Links : WF_recVars(RetryIsDue(l))
    /\ WF_planVars(PlanRuns) /\ WF_planVars(EditEnds) /\ WF_planVars(PlanIsDue)
    /\ \A w \in Waiting : WF_ingestVars(RefreshRuns(w))
    /\ \A w \in Workers : WF_vars(QueueWorks(w))
    /\ \A i \in Items : WF_vars(AttemptIsDue(i)) /\ WF_vars(LockIsOld(i))
    /\ WF_vars(RequestEnds)

LiveSpec == LiveInit /\ [][LiveNext]_liveVars /\ LiveFairness

=============================================================================
