---------------------------- MODULE MCAutomation ----------------------------
(* The instance that TLC checks of what drives browsers by itself.  The    *)
(* three modules share no state in the model, so that a behaviour          *)
(* exercises one of them: `part` is chosen at the start.                   *)
EXTENDS BrowserTasks, Rotation, Scheduler

VARIABLE part
allVars == <<tasksVars, rotationVars, schedulerVars, part>>

Init ==
    /\ TasksInit /\ RotationInit /\ SchedulerInit
    /\ part \in {"tasks", "rotation", "scheduler"}

Next ==
    /\ UNCHANGED part
    /\ \/ part = "tasks" /\ TasksNext /\ UNCHANGED <<rotationVars, schedulerVars>>
       \/ part = "rotation" /\ RotationNext /\ UNCHANGED <<tasksVars, schedulerVars>>
       \/ part = "scheduler" /\ SchedulerNext /\ UNCHANGED <<tasksVars, rotationVars>>

Spec ==
    /\ Init /\ [][Next]_allVars
    /\ TasksFairness /\ RotationFairness

TypeOK == TasksTypeOK /\ RotationTypeOK /\ SchedulerTypeOK
=============================================================================
