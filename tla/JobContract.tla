---------------------------- MODULE JobContract ----------------------------
(***************************************************************************)
(* What a sandbox pod promises to the callers of its job API, without the  *)
(* processes, the supervisors and the locks that realise it                *)
(* (sandbox/src/jobs.rs, JobState, JobStatus and the five routes).         *)
(*                                                                         *)
(* A job is known by its id from the POST that inserted it until the       *)
(* registry loses it: eviction of a finished job, a spawn that failed, or  *)
(* a restart of the pod.  `launched' counts the processes ever started     *)
(* under an id, which no caller sees and every caller cares about.         *)
(***************************************************************************)
EXTENDS Naturals, FiniteSets

CONSTANTS JobIds,       \* the ids callers use
          MaxRunning,   \* MAX_RUNNING_JOBS
          MaxKept       \* MAX_FINISHED_KEPT

ASSUME ContractAssumption ==
    /\ IsFiniteSet(JobIds)
    /\ MaxRunning \in Nat \ {0}
    /\ MaxKept \in Nat

VARIABLES job,          \* job[j]: the state a GET would answer, "absent" for a 404
          starting,     \* ids accepted whose process is not started yet
          cancelling,   \* ids with a cancellation accepted and not yet published
          launched      \* processes started under an id since the pod came up

contractVars == <<job, starting, cancelling, launched>>

Outcomes == {"succeeded", "failed", "timed_out", "cancelled"}
JobStates == {"running"} \cup Outcomes

RunningJobs == {j \in JobIds : job[j] = "running"}
FinishedJobs == {j \in JobIds : job[j] \in Outcomes}

ContractTypeOK ==
    /\ job \in [JobIds -> JobStates \cup {"absent"}]
    /\ starting \subseteq JobIds
    /\ cancelling \subseteq JobIds
    /\ launched \in [JobIds -> Nat]

ContractInit ==
    /\ job = [j \in JobIds |-> "absent"]
    /\ starting = {}
    /\ cancelling = {}
    /\ launched = [j \in JobIds |-> 0]

(* POST on an unknown id, under the cap: the job is running at once. *)
Accept(j) ==
    /\ job[j] = "absent"
    /\ Cardinality(RunningJobs) < MaxRunning
    /\ job' = [job EXCEPT ![j] = "running"]
    /\ starting' = starting \cup {j}
    /\ UNCHANGED <<cancelling, launched>>

(* The process of an accepted job starts, once; nothing else starts one. *)
Launch(j) ==
    /\ j \in starting
    /\ starting' = starting \ {j}
    /\ launched' = [launched EXCEPT ![j] = @ + 1]
    /\ UNCHANGED <<job, cancelling>>

(* The process could not be started: the id is free again. *)
Refuse(j) ==
    /\ j \in starting
    /\ starting' = starting \ {j}
    /\ job' = [job EXCEPT ![j] = "absent"]
    /\ cancelling' = cancelling \ {j}
    /\ UNCHANGED launched

(* DELETE, of one id or of every running id under a prefix. *)
Cancel(J) ==
    /\ J # {}
    /\ J \subseteq RunningJobs
    /\ cancelling' = cancelling \cup J
    /\ UNCHANGED <<job, starting, launched>>

(* The job ends.  "cancelled" is only ever the answer to a DELETE.  The    *)
(* registry then keeps at most MaxKept finished jobs, dropping no more.    *)
Finish(j, outcome, evicted) ==
    /\ job[j] = "running"
    /\ j \notin starting
    /\ outcome \in Outcomes
    /\ outcome = "cancelled" => j \in cancelling
    /\ evicted \subseteq FinishedJobs \cup {j}
    /\ LET kept == Cardinality((FinishedJobs \cup {j}) \ evicted)
       IN kept <= MaxKept /\ (evicted # {} => kept = MaxKept)
    /\ job' = [k \in JobIds |-> IF k \in evicted THEN "absent"
                                ELSE IF k = j THEN outcome ELSE job[k]]
    /\ cancelling' = cancelling \ {j}
    /\ UNCHANGED <<starting, launched>>

(* The pod restarts: the registry is lost with the processes. *)
Reset ==
    /\ job' = [j \in JobIds |-> "absent"]
    /\ starting' = {}
    /\ cancelling' = {}
    /\ launched' = [j \in JobIds |-> 0]

ContractNext ==
    \/ \E j \in JobIds : Accept(j) \/ Launch(j) \/ Refuse(j)
    \/ \E J \in SUBSET JobIds : Cancel(J)
    \/ \E j \in JobIds, o \in Outcomes, ev \in SUBSET JobIds : Finish(j, o, ev)
    \/ Reset

ContractSpec == ContractInit /\ [][ContractNext]_contractVars
=============================================================================
