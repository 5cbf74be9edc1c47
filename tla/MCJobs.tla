------------------------------- MODULE MCJobs -------------------------------
(* The queues and schedules of the API and the worker that share nothing:  *)
(* one of them moves in a behaviour.                                       *)
EXTENDS BackupQueue, RecognitionQueue, DedupPass, DedupSchedule, DriveFolder,
        TLC

CONSTANTS w1, w2, l1, l2, r1, r2

VARIABLE part

MCTimes == 0..2
MCInside == "a" :> "d" @@ "b" :> "root"
Symmetric == Permutations({w1, w2}) \cup Permutations({l1, l2})
             \cup Permutations({r1, r2})

vars == <<part, backupVars, recVars, passVars, schedVars, driveVars>>

(* A pass moves over any messages, which the other parts need not choose.  *)
Init ==
    /\ part \in {"backup", "recognition", "pass", "schedule", "drive"}
    /\ BackupInit /\ RecognitionInit /\ PassInit /\ ScheduleInit /\ DriveInit
    /\ part # "recognition" => cleanup = "done"
    /\ part # "pass" => urls = [m \in Ids |-> Urls] /\ time = [m \in Ids |-> 0]
    /\ part # "drive" =>
          platform = "quark" /\ ~exists /\ bin = {}

BackupPart ==
    part = "backup" /\ BackupNext /\ UNCHANGED <<part, recVars, passVars, schedVars, driveVars>>
RecognitionPart ==
    /\ part = "recognition" /\ RecognitionNext
    /\ UNCHANGED <<part, backupVars, passVars, schedVars, driveVars>>
PassPart ==
    /\ part = "pass" /\ PassNext
    /\ UNCHANGED <<part, backupVars, recVars, schedVars, driveVars>>
SchedulePart ==
    /\ part = "schedule" /\ ScheduleNext
    /\ UNCHANGED <<part, backupVars, recVars, passVars, driveVars>>
DrivePart ==
    /\ part = "drive" /\ DriveNext
    /\ UNCHANGED <<part, backupVars, recVars, passVars, schedVars>>

Next == BackupPart \/ RecognitionPart \/ PassPart \/ SchedulePart \/ DrivePart
Spec == Init /\ [][Next]_vars

(* The variables of the part that moves have their types.                  *)
JobsTypeOK ==
    /\ part = "backup"      => BackupTypeOK
    /\ part = "recognition" => RecognitionTypeOK
    /\ part = "pass"        => PassTypeOK
    /\ part = "schedule"    => ScheduleTypeOK
    /\ part = "drive"       => DriveTypeOK
=============================================================================
