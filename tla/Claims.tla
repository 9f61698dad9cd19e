------------------------------- MODULE Claims -------------------------------
(***************************************************************************)
(* The pipeline with a history variable: the tasks that were claimed when  *)
(* plan wrote the outstanding changeset, which are the in_progress rows of *)
(* the task-state artifact plan was given (scripts/export-br.sh).  Nothing *)
(* else in the system remembers them, and no action depends on them.       *)
(***************************************************************************)
EXTENDS Guarantees

VARIABLE held

claimVars == <<vars, held>>

ClaimInit == Init /\ held = {}

ClaimNext ==
    \/ /\ Planning
       /\ held' = {t \in DOMAIN tracker : tracker[t].status = "in_progress"}
    \/ /\ EditSpec \/ Work \/ Registering \/ Applying \/ Ingesting \/ Refreshing
       /\ held' = IF cs' = None THEN {} ELSE held

ClaimSpec == ClaimInit /\ [][ClaimNext]_claimVars

(***************************************************************************)
(* A task that was claimed when the changeset was planned is changed by    *)
(* nobody but the implementer who holds it, as long as the changeset is    *)
(* outstanding: whatever others claim, finish or commit in the meantime,   *)
(* and however often the adapter fails, dies and is run again, no close,   *)
(* no retarget and no half of one reaches it (plan/action_classifier.go    *)
(* ClassifyActions refuses the run, plan/builder.go names no other task).  *)
(***************************************************************************)
HeldTasksUntouched ==
    [][\A t \in held : tracker'[t] = tracker[t] \/ Finish(t)]_claimVars
=============================================================================
