------------------------------- MODULE RunPlan -------------------------------
(***************************************************************************)
(* What a workflow run promises its user: its scripts follow the order of  *)
(* the plan and its verdict is the one they earned.  The sandbox, its pod, *)
(* the requests that are lost, delayed or sent again, the attempts of a    *)
(* step and the index of the runs are left out (app/src/api/workflows.rs,  *)
(* app/src/workflow/steps/shell.rs and the engine that replays the steps). *)
(*                                                                         *)
(* A step is active from its dispatch to its verdict.  Its script starts   *)
(* and ends in the sandbox, which may still happen after the step was      *)
(* abandoned, and more than once when the sandbox lost it.                 *)
(***************************************************************************)
EXTENDS Naturals

CONSTANTS Runs, Steps, RunOf, Needs, AllowFailure

VARIABLES run,       \* the invocation of a run
          place,     \* where the plan stands at a step
          scripts,   \* scripts started for a step
          ended      \* the outcomes of these scripts

planVars == <<run, place, scripts, ended>>

(* What a step owes those that need it: a script that succeeded, or one     *)
(* that ended in any way when the step allows failure.                      *)
Done(j) == IF j \in AllowFailure THEN ended[j] # {} ELSE "succeeded" \in ended[j]
StepsOf(r) == {j \in Steps : RunOf[j] = r}

PlanInit ==
    /\ run = [r \in Runs |-> "unknown"]
    /\ place = [j \in Steps |-> "pending"]
    /\ scripts = [j \in Steps |-> 0]
    /\ ended = [j \in Steps |-> {}]

(* A run is launched once, and cancelled while it runs. *)
Launched(r) ==
    /\ run[r] = "unknown"
    /\ run' = [run EXCEPT ![r] = "running"]
    /\ UNCHANGED <<place, scripts, ended>>

CancelAsked(r) ==
    /\ run[r] = "running"
    /\ run' = [run EXCEPT ![r] = "cancelling"]
    /\ UNCHANGED <<place, scripts, ended>>

Moves(j, where) ==
    /\ place' = [place EXCEPT ![j] = where]
    /\ UNCHANGED <<run, scripts, ended>>

Dispatched(j) ==
    /\ run[RunOf[j]] = "running"
    /\ place[j] = "pending"
    /\ \A k \in Needs[j] : place[k] = "succeeded"
    /\ Moves(j, "active")

(* The verdict of a step: success has to be earned. *)
Succeeded(j) ==
    /\ place[j] = "active"
    /\ Done(j)
    /\ Moves(j, "succeeded")

GivenUp(j) ==
    /\ place[j] = "active"
    /\ Moves(j, "failed") \/ Moves(j, "paused")

(* A script starts only for a step that was dispatched and whose needs are  *)
(* met; the step may have been abandoned since.                             *)
ScriptStarts(j) ==
    /\ place[j] # "pending"
    /\ \A k \in Needs[j] : Done(k)
    /\ scripts' = [scripts EXCEPT ![j] = @ + 1]
    /\ UNCHANGED <<run, place, ended>>

(* Only a script that started ends. *)
ScriptEnds(j) ==
    /\ scripts[j] > 0
    /\ \E o \in {"succeeded", "otherwise"} : ended' = [ended EXCEPT ![j] = @ \cup {o}]
    /\ UNCHANGED <<run, place, scripts>>

RunSucceeds(r) ==
    /\ run[r] \in {"running", "cancelling"}
    /\ \A j \in StepsOf(r) : place[j] = "succeeded"
    /\ run' = [run EXCEPT ![r] = "succeeded"]
    /\ UNCHANGED <<place, scripts, ended>>

RunFails(r) ==
    /\ run[r] \in {"running", "cancelling"}
    /\ \E j \in StepsOf(r) : place[j] = "failed"
    /\ \A j \in StepsOf(r) : place[j] # "active"
    /\ run' = [run EXCEPT ![r] = "failed"]
    /\ UNCHANGED <<place, scripts, ended>>

Cancelled(r) ==
    /\ run[r] = "cancelling"
    /\ run' = [run EXCEPT ![r] = "cancelled"]
    /\ place' = [j \in Steps |-> IF j \in StepsOf(r) /\ place[j] \notin {"succeeded", "failed"}
                                    THEN "cancelled" ELSE place[j]]
    /\ UNCHANGED <<scripts, ended>>

PlanNext ==
    \/ \E r \in Runs : \/ Launched(r) \/ CancelAsked(r)
                       \/ RunSucceeds(r) \/ RunFails(r) \/ Cancelled(r)
    \/ \E j \in Steps : \/ Dispatched(j) \/ Succeeded(j) \/ GivenUp(j)
                        \/ ScriptStarts(j) \/ ScriptEnds(j)

PlanSpec == PlanInit /\ [][PlanNext]_planVars
=============================================================================
