---------------------------- MODULE WorkflowRuns ----------------------------
(***************************************************************************)
(* Workflow runs made of shell steps: the launch and the cancellation of a *)
(* run (app/src/api/workflows.rs), the shell step that starts its job in   *)
(* the sandbox and polls it (app/src/workflow/steps/shell.rs, mod.rs), the *)
(* Restate engine that replays a step after a transport failure, and the   *)
(* pod, of which a step knows only the promise JobContract.                *)
(*                                                                         *)
(* A step is named by its job id, {run_id}:{step_id}.  The engine is code  *)
(* outside this repository: a run starts the steps whose dependencies      *)
(* succeeded, a retryable error is retried a bounded number of times and   *)
(* then pauses the step, any other fails it, and a cancellation is         *)
(* delivered at some later moment.                                         *)
(***************************************************************************)
EXTENDS JobContract

CONSTANTS Runs,           \* run ids, each launched once
          Steps,          \* the job ids of their steps; the others belong to other runs
          RunOf,          \* the run of a step
          Needs,          \* the steps a step depends on
          AllowFailure,   \* steps with allow_failure
          MaxAttempts,    \* attempts before the engine pauses a step (5)
          MaxResets       \* bound on restarts and stops of the sandbox

ASSUME WorkflowAssumption ==
    /\ Steps \subseteq JobIds
    /\ RunOf \in [Steps -> Runs]
    /\ Needs \in [Steps -> SUBSET Steps]
    /\ AllowFailure \subseteq Steps
    /\ MaxAttempts \in Nat \ {0}
    /\ MaxResets \in Nat

VARIABLES running,   \* the phase of the Sandbox CR is Running: a pod that just came
                     \* up answers before the phase says so
          api,       \* where the launch of a run stands
          cancel,    \* where its cancellation stands
          run,       \* the invocation, as Restate has it
          step,      \* the steps: position and attempts
          net,       \* net[j]: the POST /jobs of a step on their way, one per attempt at most
          started,   \* history: scripts started for a step, over all restarts
          ended,     \* history: the outcomes of these scripts
          resets

workflowVars == <<running, api, cancel, run, step, net, started, ended, resets>>
allVars == <<contractVars, workflowVars>>

Live == {"opening", "posting", "polling", "backoff"}
Over == {"succeeded", "failed", "paused", "cancelled"}

WorkflowTypeOK ==
    /\ ContractTypeOK
    /\ running \in BOOLEAN
    /\ api \in [Runs -> {"none", "checked", "triggered", "indexed", "refused", "unindexed"}]
    /\ cancel \in [Runs -> {"none", "invoked", "answered"}]
    /\ run \in [Runs -> {"unknown", "running", "cancelling", "cancelled", "succeeded", "failed"}]
    /\ step \in [Steps -> [pc : {"pending"} \cup Live \cup Over, attempts : 0..MaxAttempts]]
    /\ net \in [Steps -> Nat]
    /\ started \in [Steps -> Nat]
    /\ ended \in [Steps -> SUBSET {"succeeded", "otherwise"}]
    /\ resets \in 0..MaxResets

WorkflowInit ==
    /\ ContractInit
    /\ running = TRUE
    /\ api = [r \in Runs |-> "none"]
    /\ cancel = [r \in Runs |-> "none"]
    /\ run = [r \in Runs |-> "unknown"]
    /\ step = [j \in Steps |-> [pc |-> "pending", attempts |-> 0]]
    /\ net = [j \in Steps |-> 0]
    /\ started = [j \in Steps |-> 0]
    /\ ended = [j \in Steps |-> {}]
    /\ resets = 0

Go(j, where) == step' = [step EXCEPT ![j].pc = where]
JobsOf(r) == {j \in Steps : RunOf[j] = r}

-----------------------------------------------------------------------------
(* launch_inner *)

(* Every refusal comes before the trigger; the sandbox must be Running. *)
CheckLaunch(r) ==
    /\ api[r] = "none"
    /\ api' = [api EXCEPT ![r] = IF running THEN "checked" ELSE "refused"]
    /\ UNCHANGED <<contractVars, running, cancel, run, step, net, started, ended, resets>>

(* The trigger reaches Restate, whose answer may be lost: then 503. *)
Trigger(r) ==
    /\ api[r] = "checked"
    /\ \/ /\ run' = [run EXCEPT ![r] = "running"]
          /\ api' \in {[api EXCEPT ![r] = "triggered"], [api EXCEPT ![r] = "refused"]}
       \/ /\ api' = [api EXCEPT ![r] = "refused"]
          /\ UNCHANGED run
    /\ UNCHANGED <<contractVars, running, cancel, step, net, started, ended, resets>>

RestateCancel(r) == run' = [run EXCEPT ![r] = IF @ = "running" THEN "cancelling" ELSE @]

(* The index row; without it the invocation is cancelled, best effort. *)
Index(r) ==
    /\ api[r] = "triggered"
    /\ \/ api' = [api EXCEPT ![r] = "indexed"] /\ UNCHANGED run
       \/ /\ api' = [api EXCEPT ![r] = "unindexed"]
          /\ RestateCancel(r) \/ UNCHANGED run
    /\ UNCHANGED <<contractVars, running, cancel, step, net, started, ended, resets>>

-----------------------------------------------------------------------------
(* cancel_run_inner: the invocation first (a failure is a 503 and changes   *)
(* nothing), then the jobs of the run, best effort.                         *)

CancelRun(r) ==
    /\ api[r] = "indexed" /\ cancel[r] # "invoked"
    /\ cancel' = [cancel EXCEPT ![r] = "invoked"]
    /\ RestateCancel(r)
    /\ UNCHANGED <<contractVars, running, api, step, net, started, ended, resets>>

(* DELETE /jobs?prefix={run_id}:, or its failure, logged. *)
CancelJobs(r) ==
    /\ cancel[r] = "invoked"
    /\ cancel' = [cancel EXCEPT ![r] = "answered"]
    /\ \/ running /\ Cancel(RunningJobs \cap JobsOf(r))
       \/ UNCHANGED contractVars
    /\ UNCHANGED <<running, api, run, step, net, started, ended, resets>>

-----------------------------------------------------------------------------
(* The engine (external). *)

StartStepUnordered(j) ==  \* mutant: the dependencies are ignored
    /\ run[RunOf[j]] = "running"
    /\ step[j].pc = "pending"
    /\ step' = [step EXCEPT ![j] = [pc |-> "opening", attempts |-> 1]]
    /\ UNCHANGED <<contractVars, running, api, cancel, run, net, started, ended, resets>>

StartStep(j) ==
    /\ run[RunOf[j]] = "running"
    /\ step[j].pc = "pending"
    /\ \A k \in Needs[j] : step[k].pc = "succeeded"
    /\ step' = [step EXCEPT ![j] = [pc |-> "opening", attempts |-> 1]]
    /\ UNCHANGED <<contractVars, running, api, cancel, run, net, started, ended, resets>>

RetryForEver(j) ==  \* mutant: the attempts are not bounded
    /\ step[j].pc = "backoff"
    /\ step' = [step EXCEPT ![j] = [pc |-> "opening", attempts |-> @.attempts + 1]]
    /\ UNCHANGED <<contractVars, running, api, cancel, run, net, started, ended, resets>>

(* The whole step is run again, from `open'. *)
Retry(j) ==
    /\ step[j].pc = "backoff"
    /\ step' = [step EXCEPT ![j] = IF step[j].attempts < MaxAttempts
                                     THEN [pc |-> "opening", attempts |-> @.attempts + 1]
                                     ELSE [@ EXCEPT !.pc = "paused"]]
    /\ UNCHANGED <<contractVars, running, api, cancel, run, net, started, ended, resets>>

RunEnds(r) ==
    /\ run[r] \in {"running", "cancelling"}
    /\ \/ /\ \A j \in JobsOf(r) : step[j].pc = "succeeded"
          /\ run' = [run EXCEPT ![r] = "succeeded"]
       \/ /\ \E j \in JobsOf(r) : step[j].pc = "failed"
          /\ \A j \in JobsOf(r) : step[j].pc \notin Live
          /\ run' = [run EXCEPT ![r] = "failed"]
    /\ UNCHANGED <<contractVars, running, api, cancel, step, net, started, ended, resets>>

(* The cancellation reaches the invocation: its steps are abandoned where   *)
(* they stand, their requests are not called back.                          *)
DeliverCancel(r) ==
    /\ run[r] = "cancelling"
    /\ run' = [run EXCEPT ![r] = "cancelled"]
    /\ step' = [j \in Steps |-> IF RunOf[j] = r /\ step[j].pc \notin {"succeeded", "failed"}
                                   THEN [step[j] EXCEPT !.pc = "cancelled"] ELSE step[j]]
    /\ UNCHANGED <<contractVars, running, api, cancel, net, started, ended, resets>>

-----------------------------------------------------------------------------
(* The shell step: SandboxAccess::open, POST /jobs, GET /jobs/{job_id}. *)

(* A sandbox that is not Running fails the step; else the POST is sent. *)
Open(j) ==
    /\ step[j].pc = "opening"
    /\ IF running THEN Go(j, "posting") /\ net' = [net EXCEPT ![j] = @ + 1]
                  ELSE Go(j, "failed") /\ UNCHANGED net
    /\ UNCHANGED <<contractVars, running, api, cancel, run, started, ended, resets>>

(* One POST of the step leaves the network. *)
Arrives(j) == net[j] > 0 /\ net' = [net EXCEPT ![j] = @ - 1]

(* The lookup of the sandbox or of the token, a request or its answer fails *)
(* or times out: retryable.  What was sent may be lost, or still arrive,    *)
(* even after the POST of a later attempt.                                  *)
TransportFails(j) ==
    /\ step[j].pc \in {"opening", "posting", "polling"}
    /\ Go(j, "backoff")
    /\ UNCHANGED net \/ Arrives(j)
    /\ UNCHANGED <<contractVars, running, api, cancel, run, started, ended, resets>>

Verdict(j, state) == IF state = "succeeded" \/ j \in AllowFailure THEN "succeeded" ELSE "failed"

(* What the caller makes of an answer, if it still waits for that one. *)
Answered(j, where) == UNCHANGED step \/ (step[j].pc = "posting" /\ Go(j, where))

PostRelaunches(j) ==  \* mutant: the POST is not idempotent on a finished job
    /\ Arrives(j)
    /\ job[j] \in Outcomes
    /\ job' = [job EXCEPT ![j] = "running"]
    /\ starting' = starting \cup {j}
    /\ UNCHANGED <<cancelling, launched, step, running, api, cancel, run, started, ended, resets>>

(* 200: the job is known, by a first attempt. *)
PostKnown(j) ==
    /\ Arrives(j)
    /\ job[j] # "absent"
    /\ Answered(j, IF job[j] = "running" THEN "polling" ELSE Verdict(j, job[j]))
    /\ UNCHANGED <<contractVars, running, api, cancel, run, started, ended, resets>>

(* The job is inserted; the answer comes when its process has started. *)
PostAccepted(j) ==
    /\ Arrives(j)
    /\ Accept(j)
    /\ UNCHANGED <<step, running, api, cancel, run, started, ended, resets>>

(* 429: a refusal, not retryable. *)
PostOverCap(j) ==
    /\ Arrives(j)
    /\ job[j] = "absent" /\ Cardinality(RunningJobs) >= MaxRunning
    /\ Answered(j, "failed")
    /\ UNCHANGED <<contractVars, running, api, cancel, run, started, ended, resets>>

(* 201 *)
PodLaunches(j) ==
    /\ Launch(j)
    /\ started' = [started EXCEPT ![j] = @ + 1]
    /\ Answered(j, "polling")
    /\ UNCHANGED <<running, api, cancel, run, net, ended, resets>>

(* 500: the process could not be started, not retryable. *)
PodRefuses(j) ==
    /\ Refuse(j)
    /\ Answered(j, "failed")
    /\ UNCHANGED <<running, api, cancel, run, net, started, ended, resets>>

PollTrusting(j) ==  \* mutant: a lost job goes through the verdict like an ended one
    /\ step[j].pc = "polling"
    /\ job[j] # "running"
    /\ Go(j, Verdict(j, job[j]))
    /\ UNCHANGED <<contractVars, running, api, cancel, run, net, started, ended, resets>>

PollIgnoringLoss(j) ==  \* mutant: a 404 is polled again
    /\ step[j].pc = "polling"
    /\ job[j] \notin {"running", "absent"}
    /\ Go(j, Verdict(j, job[j]))
    /\ UNCHANGED <<contractVars, running, api, cancel, run, net, started, ended, resets>>

(* A GET answers: a job that was lost fails the step. *)
Poll(j) ==
    /\ step[j].pc = "polling"
    /\ job[j] # "running"
    /\ Go(j, IF job[j] = "absent" THEN "failed" ELSE Verdict(j, job[j]))
    /\ UNCHANGED <<contractVars, running, api, cancel, run, net, started, ended, resets>>

-----------------------------------------------------------------------------
(* The pod (JobContract). *)

PodFinishes(j) ==
    /\ \E o \in Outcomes, evicted \in SUBSET JobIds :
          /\ Finish(j, o, evicted)
          /\ ended' = [ended EXCEPT ![j] = @ \cup {IF o = "succeeded" THEN o ELSE "otherwise"}]
    /\ UNCHANGED <<running, api, cancel, run, step, net, started, resets>>

(* A job of another run, in the same sandbox. *)
OtherJob(j) ==
    /\ \/ Accept(j) \/ Launch(j) \/ Refuse(j)
       \/ \E o \in Outcomes, evicted \in SUBSET JobIds : Finish(j, o, evicted)
    /\ UNCHANGED workflowVars

(* The pod restarts in place, or the sandbox is stopped and started again.  *)
PodResets ==
    /\ resets < MaxResets
    /\ resets' = resets + 1
    /\ Reset
    /\ running' \in BOOLEAN
    /\ net' \in {n \in [Steps -> 0..MaxAttempts] : \A j \in Steps : n[j] <= net[j]}
    /\ UNCHANGED <<api, cancel, run, step, started, ended>>

SandboxStarts ==
    /\ ~running
    /\ running' = TRUE
    /\ UNCHANGED <<contractVars, api, cancel, run, step, net, started, ended, resets>>

-----------------------------------------------------------------------------
StepMoves(j) == StartStep(j) \/ Retry(j) \/ Open(j) \/ TransportFails(j) \/ Poll(j)
PostArrives(j) == PostKnown(j) \/ PostAccepted(j) \/ PostOverCap(j)
PodMoves(j) == PodLaunches(j) \/ PodRefuses(j) \/ PodFinishes(j)

WorkflowNext ==
    \/ \E r \in Runs : \/ CheckLaunch(r) \/ Trigger(r) \/ Index(r)
                       \/ CancelRun(r) \/ CancelJobs(r)
                       \/ RunEnds(r) \/ DeliverCancel(r)
    \/ \E j \in Steps : StepMoves(j) \/ PostArrives(j) \/ PodMoves(j)
    \/ \E j \in JobIds \ Steps : OtherJob(j)
    \/ PodResets \/ SandboxStarts

WorkflowSpec == WorkflowInit /\ [][WorkflowNext]_allVars

(* The engine goes on with the steps and delivers cancellations; a POST is  *)
(* answered or its sender times out (10 s); a job ends, at the latest at    *)
(* its timeout (SandboxJobs!DoomedJobEnds).                                 *)
WorkflowFairness ==
    /\ \A j \in Steps : /\ WF_allVars(StartStep(j) \/ Retry(j) \/ Open(j) \/ Poll(j))
                         /\ WF_allVars(step[j].pc = "posting" /\ TransportFails(j))
                         /\ WF_allVars(PodLaunches(j) \/ PodRefuses(j))
                         /\ WF_allVars(PodFinishes(j))
    /\ \A r \in Runs : WF_allVars(RunEnds(r)) /\ WF_allVars(DeliverCancel(r))

FairWorkflowSpec == WorkflowSpec /\ WorkflowFairness

-----------------------------------------------------------------------------
(* Properties. *)

(* A script starts only after a script of every step it depends on ended in *)
(* success (or in any way, when that step allows failure), whatever was     *)
(* lost, replayed, cancelled or restarted in between.                       *)
StartedAfterNeeds ==
    \A j \in Steps : started[j] > 0 =>
        \A k \in Needs[j] : IF k \in AllowFailure THEN ended[k] # {} ELSE "succeeded" \in ended[k]

(* A run ends: a lost answer, a lost job or a refusal leaves no step        *)
(* waiting for ever, except those the engine pauses after its attempts.     *)
RunSettles ==
    \A r \in Runs : run[r] = "running" ~>
        run[r] # "running" \/ \E j \in JobsOf(r) : step[j].pc = "paused"

(* While the pod lives and keeps its finished jobs, a replayed step never   *)
(* starts its script again: the deterministic job id makes POST idempotent. *)
ScriptOnceWhileKnown ==
    resets = 0 => \A j \in Steps : started[j] <= 1

(* The run behind the sandbox, its lost requests, replays and restarts is   *)
(* the plan its user drew: a step is active from its dispatch to its        *)
(* verdict, whatever its attempts do meanwhile.                             *)
Plan == INSTANCE RunPlan
        WITH place <- [j \in Steps |-> IF step[j].pc \in Live THEN "active" ELSE step[j].pc],
             scripts <- started
ImplementsPlan == Plan!PlanSpec
=============================================================================
