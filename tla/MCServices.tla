----------------------------- MODULE MCServices -----------------------------
(* Link checks, plans, publishing, the catalogue and the monitor: they     *)
(* share nothing that they change here, and one moves in a behaviour.      *)
EXTENDS LinkCheckTask, LinkCheckPlan, PublishRecords, LinkCatalog, MonitorIngest, TLC

CONSTANTS c1, c2, q1, q2

VARIABLE part

Symmetric == Permutations({c1, c2}) \cup Permutations({q1, q2})

vars == <<part, checkVars, planVars, publishVars, catalogVars, ingestVars>>

Init ==
    /\ part \in {"check", "plan", "publish", "catalog", "ingest"}
    /\ LinkCheckInit /\ LinkCheckPlanInit /\ PublishInit /\ CatalogInit /\ IngestInit
    /\ part # "plan" => plan.mode = "backfill"

CheckPart ==
    /\ part = "check" /\ LinkCheckNext
    /\ UNCHANGED <<part, planVars, publishVars, catalogVars, ingestVars>>
PlanPart ==
    /\ part = "plan" /\ LinkCheckPlanNext
    /\ UNCHANGED <<part, checkVars, publishVars, catalogVars, ingestVars>>
PublishPart ==
    /\ part = "publish" /\ PublishNext
    /\ UNCHANGED <<part, checkVars, planVars, catalogVars, ingestVars>>
CatalogPart ==
    /\ part = "catalog" /\ CatalogNext
    /\ UNCHANGED <<part, checkVars, planVars, publishVars, ingestVars>>
IngestPart ==
    /\ part = "ingest" /\ IngestNext
    /\ UNCHANGED <<part, checkVars, planVars, publishVars, catalogVars>>

Next == CheckPart \/ PlanPart \/ PublishPart \/ CatalogPart \/ IngestPart
Spec == Init /\ [][Next]_vars

(* The variables of the part that moves have their types.                  *)
ServicesTypeOK ==
    /\ part = "check"   => LinkCheckTypeOK
    /\ part = "plan"    => LinkCheckPlanTypeOK
    /\ part = "publish" => PublishTypeOK
    /\ part = "catalog" => CatalogTypeOK
    /\ part = "ingest"  => IngestTypeOK
=============================================================================
