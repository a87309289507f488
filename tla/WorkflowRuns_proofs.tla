------------------------- MODULE WorkflowRuns_proofs -------------------------
(***************************************************************************)
(* Safety of workflow runs, for any runs, steps and dependencies, any caps *)
(* of the pod and any number of attempts and restarts: the order and the   *)
(* single start of the scripts, that a run implements RunPlan, and that a  *)
(* verdict is earned and final.                                            *)
(***************************************************************************)
EXTENDS WorkflowRuns, FiniteSetTheorems, TLAPS

StepType == [pc : {"pending"} \cup Live \cup Over, attempts : 0..MaxAttempts]

(* A step that moves to another place keeps its type, and the others theirs. *)
LEMMA GoTyped ==
    ASSUME step \in [Steps -> StepType], NEW j \in Steps,
           NEW where \in Live \cup Over, Go(j, where)
    PROVE  /\ step' \in [Steps -> StepType]
           /\ step'[j].pc = where
           /\ \A k \in Steps \ {j} : step'[k] = step[k]
<1>1. step[j] \in StepType
    OBVIOUS
<1>2. [step[j] EXCEPT !.pc = where] \in StepType
    BY <1>1 DEF StepType
<1> QED BY <1>1, <1>2 DEF Go, StepType

LEMMA AnsweredTyped ==
    ASSUME step \in [Steps -> StepType], NEW j \in Steps,
           NEW where \in Live \cup Over, Answered(j, where)
    PROVE  /\ step' \in [Steps -> StepType]
           /\ step'[j] = step[j] \/ (step[j].pc = "posting" /\ step'[j].pc = where)
           /\ \A k \in Steps \ {j} : step'[k] = step[k]
BY GoTyped DEF Answered

(* A POST that arrives or is lost leaves the others of the network alone. *)
LEMMA ArrivesTyped ==
    ASSUME net \in [Steps -> Nat], NEW j \in Steps, Arrives(j)
    PROVE  /\ net' \in [Steps -> Nat]
           /\ net[j] > 0
           /\ \A k \in Steps : net'[k] > 0 => net[k] > 0
BY DEF Arrives

(* So does a restart of the pod, which loses some of them. *)
LEMMA ResetNet ==
    ASSUME net \in [Steps -> Nat], PodResets
    PROVE  /\ net' \in [Steps -> Nat]
           /\ \A k \in Steps : net'[k] > 0 => net[k] > 0
<1>1. PICK n \in [Steps -> 0..MaxAttempts] : net' = n /\ \A k \in Steps : n[k] <= net[k]
    BY DEF PodResets
<1>2. \A k \in Steps : n[k] \in Nat /\ net[k] \in Nat /\ n[k] <= net[k]
    BY <1>1
<1>3. n \in [Steps -> Nat]
    BY <1>2
<1> QED BY <1>1, <1>2, <1>3

(* The pod keeps its types, whoever calls it. *)
LEMMA PodTyped ==
    ASSUME ContractTypeOK, NEW j \in JobIds,
           \/ Accept(j) \/ Launch(j) \/ Refuse(j) \/ Reset
           \/ \E J \in SUBSET JobIds : Cancel(J)
           \/ \E o \in Outcomes, evicted \in SUBSET JobIds : Finish(j, o, evicted)
    PROVE  ContractTypeOK'
<1> USE DEF ContractTypeOK, JobStates
<1>1. CASE Accept(j)
    BY <1>1 DEF Accept
<1>2. CASE Launch(j)
    BY <1>2 DEF Launch
<1>3. CASE Refuse(j)
    BY <1>3 DEF Refuse
<1>4. CASE Reset
    BY <1>4 DEF Reset
<1>5. ASSUME NEW J \in SUBSET JobIds, Cancel(J) PROVE ContractTypeOK'
    BY <1>5 DEF Cancel
<1>6. ASSUME NEW o \in Outcomes, NEW evicted \in SUBSET JobIds, Finish(j, o, evicted)
      PROVE ContractTypeOK'
    BY <1>6 DEF Finish
<1> QED BY <1>1, <1>2, <1>3, <1>4, <1>5, <1>6

LEMMA ResetTyped == ASSUME Reset PROVE ContractTypeOK'
BY DEF Reset, ContractTypeOK

LEMMA VerdictOver == ASSUME NEW j, NEW state PROVE Verdict(j, state) \in Over
BY DEF Verdict, Over

LEMMA InitTyped == WorkflowInit => WorkflowTypeOK
BY WorkflowAssumption
   DEF WorkflowInit, ContractInit, WorkflowTypeOK, ContractTypeOK, JobStates, Live, Over

LEMMA NextTyped == WorkflowTypeOK /\ [WorkflowNext]_allVars => WorkflowTypeOK'
<1> SUFFICES ASSUME WorkflowTypeOK, [WorkflowNext]_allVars PROVE WorkflowTypeOK'
    OBVIOUS
<1>s. step \in [Steps -> StepType] /\ net \in [Steps -> Nat]
    BY DEF WorkflowTypeOK, StepType
<1>w. \A j \in Steps : j \in JobIds
    BY WorkflowAssumption
<1>q. ASSUME ContractTypeOK', step' \in [Steps -> StepType], net' \in [Steps -> Nat],
             UNCHANGED <<running, api, cancel, run, started, ended, resets>>
      PROVE  WorkflowTypeOK'
    BY <1>q DEF WorkflowTypeOK, StepType
<1>c. UNCHANGED contractVars => ContractTypeOK'
    BY DEF WorkflowTypeOK, ContractTypeOK, contractVars
<1>1. ASSUME NEW r \in Runs,
             CheckLaunch(r) \/ Trigger(r) \/ Index(r) \/ CancelRun(r) \/ RunEnds(r)
      PROVE WorkflowTypeOK'
    <2>1. ContractTypeOK'
        BY <1>1, <1>c DEF CheckLaunch, Trigger, Index, CancelRun, RunEnds
    <2>2. CASE CheckLaunch(r)
        BY <2>1, <2>2 DEF CheckLaunch, WorkflowTypeOK
    <2>3. CASE Trigger(r)
        BY <2>1, <2>3 DEF Trigger, WorkflowTypeOK
    <2>4. CASE Index(r)
        BY <2>1, <2>4 DEF Index, RestateCancel, WorkflowTypeOK
    <2>5. CASE CancelRun(r)
        BY <2>1, <2>5 DEF CancelRun, RestateCancel, WorkflowTypeOK
    <2>6. CASE RunEnds(r)
        BY <2>1, <2>6 DEF RunEnds, WorkflowTypeOK
    <2> QED BY <1>1, <2>2, <2>3, <2>4, <2>5, <2>6
<1>2. ASSUME NEW r \in Runs, CancelJobs(r) PROVE WorkflowTypeOK'
    <2>1. Cancel(RunningJobs \cap JobsOf(r)) => ContractTypeOK'
        BY DEF WorkflowTypeOK, ContractTypeOK, Cancel, RunningJobs
    <2> QED BY <1>2, <1>c, <2>1 DEF CancelJobs, WorkflowTypeOK
<1>3. ASSUME NEW r \in Runs, DeliverCancel(r) PROVE WorkflowTypeOK'
    <2>1. step' \in [Steps -> StepType]
        <3>1. \A j \in Steps : step[j] \in StepType /\ [step[j] EXCEPT !.pc = "cancelled"] \in StepType
            BY <1>s DEF StepType, Over
        <3> QED BY <1>3, <3>1 DEF DeliverCancel
    <2> QED BY <1>3, <1>c, <2>1 DEF DeliverCancel, WorkflowTypeOK, StepType
<1>4. ASSUME NEW j \in Steps, StartStep(j) PROVE WorkflowTypeOK'
    <2>1. [pc |-> "opening", attempts |-> 1] \in StepType
        BY WorkflowAssumption DEF StepType, Live
    <2>2. step' \in [Steps -> StepType]
        BY <1>4, <1>s, <2>1 DEF StartStep
    <2> QED BY <1>4, <1>c, <1>s, <1>q, <2>2 DEF StartStep
<1>5. ASSUME NEW j \in Steps, Retry(j) PROVE WorkflowTypeOK'
    <2>1. step[j] \in StepType
        BY <1>s
    <2>2. step[j].attempts < MaxAttempts =>
             [pc |-> "opening", attempts |-> step[j].attempts + 1] \in StepType
        BY <2>1, WorkflowAssumption DEF StepType, Live
    <2>3. [step[j] EXCEPT !.pc = "paused"] \in StepType
        BY <2>1 DEF StepType, Over
    <2>4. step' \in [Steps -> StepType]
        BY <1>5, <1>s, <2>2, <2>3 DEF Retry
    <2> QED BY <1>5, <1>c, <1>s, <1>q, <2>4 DEF Retry
<1>6. ASSUME NEW j \in Steps, Open(j) PROVE WorkflowTypeOK'
    <2>1. step' \in [Steps -> StepType]
        BY <1>6, <1>s, GoTyped DEF Open, Live, Over
    <2> QED BY <1>6, <1>c, <1>s, <1>q, <2>1 DEF Open
<1>7. ASSUME NEW j \in Steps, TransportFails(j) PROVE WorkflowTypeOK'
    <2>1. step' \in [Steps -> StepType]
        BY <1>7, <1>s, GoTyped DEF TransportFails, Live
    <2>2. net' \in [Steps -> Nat]
        BY <1>7, <1>s, ArrivesTyped DEF TransportFails
    <2> QED BY <1>7, <1>c, <1>q, <2>1, <2>2 DEF TransportFails
<1>8. ASSUME NEW j \in Steps, Poll(j) PROVE WorkflowTypeOK'
    <2>1. PICK where \in Over : Go(j, where)
        BY <1>8, VerdictOver DEF Poll, Over
    <2>2. step' \in [Steps -> StepType]
        BY <1>s, <2>1, GoTyped
    <2> QED BY <1>8, <1>c, <1>s, <1>q, <2>2 DEF Poll
<1>9. ASSUME NEW j \in Steps, PostKnown(j) \/ PostOverCap(j) PROVE WorkflowTypeOK'
    <2>1. PICK where \in Live \cup Over : Answered(j, where)
        BY <1>9, VerdictOver DEF PostKnown, PostOverCap, Live, Over
    <2>2. step' \in [Steps -> StepType] /\ net' \in [Steps -> Nat]
        BY <1>9, <1>s, <2>1, AnsweredTyped, ArrivesTyped DEF PostKnown, PostOverCap
    <2> QED BY <1>9, <1>c, <1>q, <2>2 DEF PostKnown, PostOverCap
<1>10. ASSUME NEW j \in Steps, PostAccepted(j) PROVE WorkflowTypeOK'
    <2>1. ContractTypeOK'
        BY <1>10, <1>w, PodTyped DEF PostAccepted, WorkflowTypeOK
    <2> QED BY <1>10, <1>s, <1>q, <2>1, ArrivesTyped DEF PostAccepted
<1>11. ASSUME NEW j \in Steps, PodLaunches(j) \/ PodRefuses(j) PROVE WorkflowTypeOK'
    <2>1. ContractTypeOK'
        BY <1>11, <1>w, PodTyped DEF PodLaunches, PodRefuses, WorkflowTypeOK
    <2>2. PICK where \in Live \cup Over : Answered(j, where)
        BY <1>11 DEF PodLaunches, PodRefuses, Live, Over
    <2>3. step' \in [Steps -> StepType] /\ net' \in [Steps -> Nat]
        BY <1>11, <1>s, <2>2, AnsweredTyped DEF PodLaunches, PodRefuses
    <2>4. started' \in [Steps -> Nat]
        BY <1>11 DEF PodLaunches, PodRefuses, WorkflowTypeOK
    <2> QED BY <1>11, <2>1, <2>3, <2>4 DEF PodLaunches, PodRefuses, WorkflowTypeOK, StepType
<1>12. ASSUME NEW j \in Steps, PodFinishes(j) PROVE WorkflowTypeOK'
    <2>1. ContractTypeOK'
        BY <1>12, <1>w, PodTyped DEF PodFinishes, WorkflowTypeOK
    <2>2. ended' \in [Steps -> SUBSET {"succeeded", "otherwise"}]
        BY <1>12 DEF PodFinishes, WorkflowTypeOK
    <2> QED BY <1>12, <2>1, <2>2 DEF PodFinishes, WorkflowTypeOK
<1>13. ASSUME NEW j \in JobIds \ Steps, OtherJob(j) PROVE WorkflowTypeOK'
    <2>1. ContractTypeOK'
        BY <1>13, PodTyped DEF OtherJob, WorkflowTypeOK
    <2> QED BY <1>13, <1>s, <1>q, <2>1 DEF OtherJob, workflowVars
<1>14. CASE PodResets
    <2>1. ContractTypeOK'
        BY <1>14, ResetTyped DEF PodResets
    <2>2. resets' \in 0..MaxResets
        BY <1>14, WorkflowAssumption DEF PodResets, WorkflowTypeOK
    <2> QED BY <1>14, <2>1, <2>2 DEF PodResets, WorkflowTypeOK
<1>15. CASE SandboxStarts
    BY <1>15, <1>c DEF SandboxStarts, WorkflowTypeOK
<1>16. CASE UNCHANGED allVars
    BY <1>16, <1>c, <1>s, <1>q DEF allVars, workflowVars
<1> QED
    BY <1>1, <1>2, <1>3, <1>4, <1>5, <1>6, <1>7, <1>8, <1>9, <1>10, <1>11, <1>12, <1>13,
       <1>14, <1>15, <1>16 DEF WorkflowNext, StepMoves, PostArrives, PodMoves

(* Every variable of the launch, of the steps and of the pod keeps its type; *)
(* in particular no step is attempted more often than the engine allows.    *)
THEOREM WorkflowTypeCorrect == WorkflowSpec => []WorkflowTypeOK
BY InitTyped, NextTyped, PTL DEF WorkflowSpec
-----------------------------------------------------------------------------
(* The order of the scripts.  A step that is attempted, has a POST on its   *)
(* way or a process to come had its needs met, by scripts that ended; and   *)
(* what the pod remembers of an ended job is what happened.                 *)

Fulfilled(k) == IF k \in AllowFailure THEN ended[k] # {} ELSE "succeeded" \in ended[k]
NeedsMet(j) == \A k \in Needs[j] : Fulfilled(k)
Begun(j) == step[j].pc \in Live \/ net[j] > 0 \/ j \in starting \/ started[j] > 0

Ordered ==
    \A j \in Steps : /\ Begun(j) => NeedsMet(j)
                     /\ step[j].pc = "succeeded" => Fulfilled(j)
                     /\ job[j] \in Outcomes => ended[j] # {}
                     /\ job[j] = "succeeded" => "succeeded" \in ended[j]

(* What a step has to show to keep the order. *)
LEMMA OrderKept ==
    ASSUME WorkflowTypeOK, Ordered,
           \A j \in Steps : /\ ended[j] \subseteq ended'[j]
                            /\ Begun(j)' => Begun(j) \/ NeedsMet(j)
                            /\ step'[j].pc = "succeeded" => step[j].pc = "succeeded" \/ Fulfilled(j)
                            /\ job'[j] = job[j] \/ job'[j] \notin Outcomes
    PROVE  Ordered'
<1>1. \A k \in Steps : Fulfilled(k) => Fulfilled(k)'
    BY DEF Fulfilled
<1>2. \A j \in Steps : NeedsMet(j) => NeedsMet(j)'
    BY <1>1, WorkflowAssumption DEF NeedsMet
<1>3. "succeeded" \in Outcomes
    BY DEF Outcomes
<1> QED BY <1>1, <1>2, <1>3 DEF Ordered

(* An answer of the pod about an ended job fulfils the step in the verdict  *)
(* "succeeded", that of a job that allows failure included.                 *)
LEMMA VerdictFulfils ==
    ASSUME WorkflowTypeOK, Ordered, NEW j \in Steps,
           job[j] \in Outcomes, Verdict(j, job[j]) = "succeeded"
    PROVE  Fulfilled(j)
BY DEF Ordered, Fulfilled, Verdict

LEMMA NextOrdered == WorkflowTypeOK /\ Ordered /\ [WorkflowNext]_allVars => Ordered'
<1> SUFFICES ASSUME WorkflowTypeOK, Ordered, [WorkflowNext]_allVars PROVE Ordered'
    OBVIOUS
<1>s. /\ step \in [Steps -> StepType] /\ net \in [Steps -> Nat]
      /\ job \in [JobIds -> JobStates \cup {"absent"}]
      /\ started \in [Steps -> Nat]
      /\ ended \in [Steps -> SUBSET {"succeeded", "otherwise"}]
    BY DEF WorkflowTypeOK, ContractTypeOK, StepType
<1>w. /\ Steps \subseteq JobIds
      /\ \A j \in Steps : Needs[j] \subseteq Steps
    BY WorkflowAssumption
<1>l. "succeeded" \notin Live /\ "absent" \notin Outcomes /\ "running" \notin Outcomes
    BY DEF Live, Outcomes
<1>1. ASSUME NEW r \in Runs,
             CheckLaunch(r) \/ Trigger(r) \/ Index(r) \/ CancelRun(r) \/ RunEnds(r)
      PROVE Ordered'
    <2>1. UNCHANGED <<contractVars, step, net, started, ended>>
        BY <1>1 DEF CheckLaunch, Trigger, Index, CancelRun, RunEnds
    <2> QED BY <2>1, OrderKept DEF Begun, contractVars
<1>2. ASSUME NEW r \in Runs, CancelJobs(r) PROVE Ordered'
    <2>1. UNCHANGED <<job, starting, step, net, started, ended>>
        BY <1>2 DEF CancelJobs, Cancel, contractVars
    <2> QED BY <2>1, OrderKept DEF Begun
<1>3. ASSUME NEW r \in Runs, DeliverCancel(r) PROVE Ordered'
    <2>1. UNCHANGED <<contractVars, net, started, ended>>
        BY <1>3 DEF DeliverCancel
    <2>2. \A j \in Steps : step'[j] = step[j] \/ step'[j].pc = "cancelled"
        BY <1>3, <1>s DEF DeliverCancel, StepType
    <2> QED BY <2>1, <2>2, OrderKept DEF Begun, contractVars, Live
<1>4. ASSUME NEW j \in Steps, StartStep(j) PROVE Ordered'
    <2>1. UNCHANGED <<contractVars, net, started, ended>>
        BY <1>4 DEF StartStep
    <2>2. /\ step'[j].pc = "opening"
          /\ \A k \in Steps \ {j} : step'[k] = step[k]
        BY <1>4, <1>s DEF StartStep
    <2>3. NeedsMet(j)
        BY <1>4, <1>w DEF StartStep, Ordered, NeedsMet
    <2> QED BY <2>1, <2>2, <2>3, OrderKept DEF Begun, contractVars
<1>5. ASSUME NEW j \in Steps, Retry(j) PROVE Ordered'
    <2>1. UNCHANGED <<contractVars, net, started, ended>>
        BY <1>5 DEF Retry
    <2>2. /\ step[j].pc \in Live /\ step'[j].pc \in {"opening", "paused"}
          /\ \A k \in Steps \ {j} : step'[k] = step[k]
        BY <1>5, <1>s DEF Retry, Live, StepType
    <2> QED BY <2>1, <2>2, OrderKept DEF Begun, contractVars
<1>6. ASSUME NEW j \in Steps, Open(j) PROVE Ordered'
    <2>1. UNCHANGED <<contractVars, started, ended>>
        BY <1>6 DEF Open
    <2>2. step'[j].pc \in {"posting", "failed"} /\ \A k \in Steps \ {j} : step'[k] = step[k]
        BY <1>6, <1>s, GoTyped DEF Open, Live, Over
    <2>3. step[j].pc \in Live /\ \A k \in Steps \ {j} : net'[k] = net[k]
        BY <1>6, <1>s DEF Open, Live
    <2> QED BY <2>1, <2>2, <2>3, OrderKept DEF Begun, contractVars
<1>7. ASSUME NEW j \in Steps, TransportFails(j) PROVE Ordered'
    <2>1. UNCHANGED <<contractVars, started, ended>>
        BY <1>7 DEF TransportFails
    <2>2. step'[j].pc = "backoff" /\ \A k \in Steps \ {j} : step'[k] = step[k]
        BY <1>7, <1>s, GoTyped DEF TransportFails, Live
    <2>3. step[j].pc \in Live /\ \A k \in Steps : net'[k] > 0 => net[k] > 0
        BY <1>7, <1>s, ArrivesTyped DEF TransportFails, Live
    <2> QED BY <2>1, <2>2, <2>3, OrderKept DEF Begun, contractVars
<1>8. ASSUME NEW j \in Steps, Poll(j) PROVE Ordered'
    <2>1. UNCHANGED <<contractVars, net, started, ended>>
        BY <1>8 DEF Poll
    <2>2. PICK where \in Over : /\ Go(j, where)
                                /\ where = "succeeded" => Fulfilled(j)
        <3>1. job[j] = "absent" \/ job[j] \in Outcomes
            BY <1>8, <1>s, <1>w DEF Poll, JobStates
        <3>2. CASE job[j] = "absent"
            BY <1>8, <3>2 DEF Poll, Over
        <3>3. CASE job[j] \in Outcomes
            BY <1>8, <1>l, <3>3, VerdictFulfils, VerdictOver DEF Poll
        <3> QED BY <3>1, <3>2, <3>3
    <2>3. /\ step'[j].pc = where
          /\ \A k \in Steps \ {j} : step'[k] = step[k]
        BY <1>s, <2>2, GoTyped
    <2>4. where \notin Live
        BY DEF Over, Live
    <2> QED BY <2>1, <2>2, <2>3, <2>4, OrderKept DEF Begun, contractVars
<1>9. ASSUME NEW j \in Steps, PostKnown(j) PROVE Ordered'
    <2>1. UNCHANGED <<contractVars, started, ended>>
        BY <1>9 DEF PostKnown
    <2>2. PICK where \in Live \cup Over : /\ Answered(j, where)
                                          /\ where = "succeeded" => Fulfilled(j)
        <3>1. job[j] = "running" \/ job[j] \in Outcomes
            BY <1>9, <1>s, <1>w DEF PostKnown, JobStates
        <3>2. CASE job[j] = "running"
            BY <1>9, <3>2 DEF PostKnown, Live
        <3>3. CASE job[j] \in Outcomes
            BY <1>9, <1>l, <3>3, VerdictFulfils, VerdictOver DEF PostKnown
        <3> QED BY <3>1, <3>2, <3>3
    <2>3. /\ step'[j] = step[j] \/ (step[j].pc = "posting" /\ step'[j].pc = where)
          /\ \A k \in Steps \ {j} : step'[k] = step[k]
        BY <1>s, <2>2, AnsweredTyped
    <2>4. \A k \in Steps : net'[k] > 0 => net[k] > 0
        BY <1>9, <1>s, ArrivesTyped DEF PostKnown
    <2> QED BY <2>1, <2>2, <2>3, <2>4, OrderKept DEF Begun, contractVars, Live
<1>10. ASSUME NEW j \in Steps, PostAccepted(j) PROVE Ordered'
    <2>1. /\ UNCHANGED <<step, started, ended>> /\ net[j] > 0
          /\ \A k \in Steps : net'[k] > 0 => net[k] > 0
        BY <1>10, <1>s, ArrivesTyped DEF PostAccepted
    <2>2. /\ starting' = starting \cup {j}
          /\ \A k \in Steps : job'[k] = job[k] \/ job'[k] = "running"
        BY <1>10, <1>s, <1>w DEF PostAccepted, Accept
    <2> QED BY <1>l, <2>1, <2>2, OrderKept DEF Begun
<1>11. ASSUME NEW j \in Steps, PostOverCap(j) \/ PodRefuses(j) \/ PodLaunches(j) PROVE Ordered'
    <2>1. /\ UNCHANGED ended
          /\ starting' \subseteq starting
          /\ \A k \in Steps : job'[k] = job[k] \/ job'[k] = "absent"
        BY <1>11, <1>s, <1>w DEF PostOverCap, PodRefuses, PodLaunches, Refuse, Launch, contractVars
    <2>2. PICK where \in {"failed", "polling"} : Answered(j, where)
        BY <1>11 DEF PostOverCap, PodRefuses, PodLaunches
    <2>3. /\ step'[j] = step[j] \/ (step[j].pc = "posting" /\ step'[j].pc = where)
          /\ \A k \in Steps \ {j} : step'[k] = step[k]
        BY <1>s, <2>2, AnsweredTyped DEF Live, Over
    <2>4. \A k \in Steps : started'[k] = started[k] \/ (k = j /\ j \in starting)
        BY <1>11, <1>s DEF PostOverCap, PodRefuses, PodLaunches, Launch
    <2>5. \A k \in Steps : net'[k] > 0 => net[k] > 0
        BY <1>11, <1>s, ArrivesTyped DEF PostOverCap, PodRefuses, PodLaunches
    <2> QED BY <1>l, <2>1, <2>2, <2>3, <2>4, <2>5, OrderKept DEF Begun, Live
<1>12. ASSUME NEW j \in Steps, PodFinishes(j) PROVE Ordered'
    <2>1. PICK o \in Outcomes, evicted \in SUBSET JobIds :
              /\ Finish(j, o, evicted)
              /\ ended' = [ended EXCEPT ![j] = @ \cup {IF o = "succeeded" THEN o ELSE "otherwise"}]
        BY <1>12 DEF PodFinishes
    <2>2. UNCHANGED <<starting, step, net, started>>
        BY <1>12, <2>1 DEF PodFinishes, Finish
    <2>3. /\ \A k \in Steps \ {j} : /\ ended'[k] = ended[k]
                                    /\ job'[k] = job[k] \/ job'[k] = "absent"
          /\ job'[j] = o \/ job'[j] = "absent"
          /\ ended'[j] = ended[j] \cup {IF o = "succeeded" THEN o ELSE "otherwise"}
        BY <1>s, <1>w, <2>1 DEF Finish
    <2>4. \A k \in Steps : Fulfilled(k) => Fulfilled(k)'
        BY <2>3 DEF Fulfilled
    <2>5. \A k \in Steps : NeedsMet(k) => NeedsMet(k)'
        BY <1>w, <2>4 DEF NeedsMet
    <2>6. \A k \in Steps : Begun(k)' => Begun(k)
        BY <2>2 DEF Begun
    <2> QED BY <1>l, <2>2, <2>3, <2>4, <2>5, <2>6 DEF Ordered, Outcomes
<1>13. ASSUME NEW j \in JobIds \ Steps, OtherJob(j) PROVE Ordered'
    <2>1. UNCHANGED <<step, net, started, ended>>
        BY <1>13 DEF OtherJob, workflowVars
    <2>2. \A k \in Steps : /\ job'[k] = job[k] \/ job'[k] = "absent"
                           /\ k \in starting' => k \in starting
        <3>1. CASE Accept(j) \/ Launch(j) \/ Refuse(j)
            BY <1>s, <1>w, <3>1 DEF Accept, Launch, Refuse
        <3>2. ASSUME NEW o \in Outcomes, NEW evicted \in SUBSET JobIds, Finish(j, o, evicted)
              PROVE \A k \in Steps : /\ job'[k] = job[k] \/ job'[k] = "absent"
                                     /\ k \in starting' => k \in starting
            BY <1>w, <3>2 DEF Finish
        <3> QED BY <1>13, <3>1, <3>2 DEF OtherJob
    <2> QED BY <1>l, <2>1, <2>2, OrderKept DEF Begun
<1>14. CASE PodResets
    <2>1. /\ UNCHANGED <<step, started, ended>>
          /\ \A k \in Steps : net'[k] > 0 => net[k] > 0
          /\ starting' = {}
          /\ \A k \in Steps : job'[k] = "absent"
        BY <1>14, <1>s, <1>w, ResetNet DEF PodResets, Reset
    <2> QED BY <1>l, <2>1, OrderKept DEF Begun
<1>15. CASE SandboxStarts
    BY <1>15, OrderKept DEF SandboxStarts, Begun, contractVars
<1>16. CASE UNCHANGED allVars
    BY <1>16, OrderKept DEF allVars, workflowVars, contractVars, Begun
<1> QED
    BY <1>1, <1>2, <1>3, <1>4, <1>5, <1>6, <1>7, <1>8, <1>9, <1>10, <1>11, <1>12, <1>13,
       <1>14, <1>15, <1>16 DEF WorkflowNext, StepMoves, PostArrives, PodMoves

(* No loss, replay, cancellation or restart lets a script start before one  *)
(* of each step it depends on has ended as it must.                         *)
THEOREM ScriptsInOrder == WorkflowSpec => []StartedAfterNeeds
<1>1. WorkflowInit => Ordered
    <2> SUFFICES ASSUME WorkflowInit, NEW j \in Steps
                 PROVE  ~Begun(j) /\ step[j].pc = "pending" /\ job[j] = "absent"
        BY DEF Ordered, Outcomes
    <2> QED
        BY WorkflowAssumption DEF WorkflowInit, ContractInit, Begun, Live
<1>2. Ordered => StartedAfterNeeds
    BY DEF Ordered, Begun, NeedsMet, Fulfilled, StartedAfterNeeds
<1> QED
    BY <1>1, <1>2, InitTyped, NextTyped, NextOrdered, PTL DEF WorkflowSpec
-----------------------------------------------------------------------------
(* One start.  As long as the pod has not restarted, and when it keeps as   *)
(* many finished jobs as there are ids, it knows every job it ever started: *)
(* a POST that is repeated finds it.                                        *)

Remembered ==
    /\ starting \subseteq RunningJobs
    /\ resets = 0 => \A j \in Steps :
          /\ started[j] <= 1
          /\ started[j] > 0 => job[j] # "absent" /\ j \notin starting

LEMMA NextRemembered ==
    ASSUME Cardinality(JobIds) <= MaxKept
    PROVE  WorkflowTypeOK /\ Remembered /\ [WorkflowNext]_allVars => Remembered'
<1> SUFFICES ASSUME WorkflowTypeOK, Remembered, [WorkflowNext]_allVars PROVE Remembered'
    OBVIOUS
<1>s. /\ job \in [JobIds -> JobStates \cup {"absent"}]
      /\ starting \subseteq JobIds
      /\ started \in [Steps -> Nat]
      /\ resets \in Nat
    BY DEF WorkflowTypeOK, ContractTypeOK
<1>w. Steps \subseteq JobIds
    BY WorkflowAssumption
<1>q. ASSUME UNCHANGED <<job, starting, started, resets>> PROVE Remembered'
    BY <1>q DEF Remembered, RunningJobs
<1>1. ASSUME NEW j \in JobIds, Accept(j), UNCHANGED <<started, resets>> PROVE Remembered'
    BY <1>1, <1>s, <1>w DEF Accept, Remembered, RunningJobs
<1>2. ASSUME NEW j \in JobIds, Launch(j), UNCHANGED resets,
             started' = IF j \in Steps THEN [started EXCEPT ![j] = @ + 1] ELSE started
      PROVE  Remembered'
    <2>1. /\ j \in starting /\ job[j] = "running"
          /\ UNCHANGED job /\ starting' = starting \ {j}
        BY <1>2 DEF Launch, Remembered, RunningJobs
    <2>2. \A k \in Steps : started'[k] = IF k = j THEN started[k] + 1 ELSE started[k]
        BY <1>2, <1>s
    <2>3. resets = 0 /\ j \in Steps => started[j] = 0
        BY <2>1, <1>s DEF Remembered
    <2> QED BY <1>2, <1>s, <2>1, <2>2, <2>3 DEF Remembered, RunningJobs
<1>3. ASSUME NEW j \in JobIds, Refuse(j), UNCHANGED <<started, resets>> PROVE Remembered'
    BY <1>3, <1>s, <1>w DEF Refuse, Remembered, RunningJobs
<1>4. ASSUME NEW j \in JobIds, NEW o \in Outcomes, NEW evicted \in SUBSET JobIds,
             Finish(j, o, evicted), UNCHANGED <<started, resets>>
      PROVE  Remembered'
    <2>1. evicted = {}
        <3> SUFFICES ASSUME evicted # {} PROVE FALSE
            OBVIOUS
        <3> DEFINE kept == (FinishedJobs \cup {j}) \ evicted
        <3>1. Cardinality(kept) = MaxKept /\ evicted \subseteq FinishedJobs \cup {j}
            BY <1>4 DEF Finish
        <3>2. kept \subseteq JobIds /\ kept # JobIds
            BY <3>1 DEF FinishedJobs
        <3>3. IsFiniteSet(JobIds) /\ Cardinality(JobIds) \in Nat /\ MaxKept \in Nat
            BY ContractAssumption, FS_CardinalityType
        <3>4. Cardinality(kept) \in Nat /\ Cardinality(kept) < Cardinality(JobIds)
            <4> HIDE DEF kept
            <4> QED BY <3>2, <3>3, FS_Subset, FS_CardinalityType
        <3> QED BY <3>1, <3>3, <3>4
    <2>2. /\ starting' = starting /\ j \notin starting
          /\ \A k \in JobIds : job'[k] = IF k = j THEN o ELSE job[k]
        BY <1>4, <2>1 DEF Finish
    <2>3. o # "absent"
        BY DEF Outcomes
    <2> QED BY <1>4, <1>s, <1>w, <2>2, <2>3 DEF Remembered, RunningJobs
<1>5. CASE PodResets
    <2>1. resets' # 0 /\ starting' = {}
        BY <1>5, <1>s DEF PodResets, Reset
    <2> QED BY <2>1 DEF Remembered
<1>6. ASSUME NEW r \in Runs, CancelJobs(r) PROVE Remembered'
    BY <1>6, <1>q DEF CancelJobs, Cancel, contractVars
<1>7. ASSUME NEW r \in Runs,
             \/ CheckLaunch(r) \/ Trigger(r) \/ Index(r) \/ CancelRun(r)
             \/ RunEnds(r) \/ DeliverCancel(r)
      PROVE Remembered'
    BY <1>7, <1>q DEF CheckLaunch, Trigger, Index, CancelRun, RunEnds, DeliverCancel, contractVars
<1>8. ASSUME NEW j \in Steps, StepMoves(j) \/ PostKnown(j) \/ PostOverCap(j) PROVE Remembered'
    BY <1>8, <1>q DEF StepMoves, StartStep, Retry, Open, TransportFails, Poll, PostKnown,
       PostOverCap, contractVars
<1>9. ASSUME NEW j \in Steps,
             PostAccepted(j) \/ PodLaunches(j) \/ PodRefuses(j) \/ PodFinishes(j)
      PROVE Remembered'
    BY <1>1, <1>2, <1>3, <1>4, <1>9, <1>w DEF PostAccepted, PodLaunches, PodRefuses, PodFinishes
<1>10. ASSUME NEW j \in JobIds \ Steps, OtherJob(j) PROVE Remembered'
    BY <1>1, <1>2, <1>3, <1>4, <1>10 DEF OtherJob, workflowVars
<1>11. CASE SandboxStarts \/ UNCHANGED allVars
    BY <1>11, <1>q DEF SandboxStarts, allVars, workflowVars, contractVars
<1> QED
    BY <1>5, <1>6, <1>7, <1>8, <1>9, <1>10, <1>11
       DEF WorkflowNext, PostArrives, PodMoves

(* A step that is replayed, its POST delayed or sent twice, starts its      *)
(* script at most once, while the pod lives and loses none of its jobs to   *)
(* the eviction.                                                            *)
THEOREM ScriptStartsOnce ==
    ASSUME Cardinality(JobIds) <= MaxKept
    PROVE  WorkflowSpec => []ScriptOnceWhileKnown
<1>1. WorkflowInit => Remembered
    BY WorkflowAssumption DEF WorkflowInit, ContractInit, Remembered
<1>2. Remembered => ScriptOnceWhileKnown
    BY DEF Remembered, ScriptOnceWhileKnown
<1>3. WorkflowTypeOK /\ Remembered /\ [WorkflowNext]_allVars => Remembered'
    BY NextRemembered
<1> QED
    BY <1>1, <1>2, <1>3, InitTyped, NextTyped, PTL DEF WorkflowSpec
-----------------------------------------------------------------------------
(* What stands behind a step: an invocation only once its launch triggered  *)
(* it, a request or a process only once the step was dispatched, a job that *)
(* the pod knows and is not about to start only once its script did.        *)

Traced ==
    /\ \A r \in Runs : api[r] \in {"none", "checked"} => run[r] = "unknown"
    /\ \A j \in Steps :
          /\ net[j] > 0 \/ j \in starting \/ started[j] > 0 => step[j].pc # "pending"
          /\ job[j] # "absent" /\ j \notin starting => started[j] > 0

LEMMA NextTraced == WorkflowTypeOK /\ Traced /\ [WorkflowNext]_allVars => Traced'
<1> SUFFICES ASSUME WorkflowTypeOK, Traced, [WorkflowNext]_allVars PROVE Traced'
    OBVIOUS
<1>s. /\ step \in [Steps -> StepType] /\ net \in [Steps -> Nat]
      /\ job \in [JobIds -> JobStates \cup {"absent"}]
      /\ started \in [Steps -> Nat]
      /\ api \in [Runs -> {"none", "checked", "triggered", "indexed", "refused", "unindexed"}]
      /\ run \in [Runs -> {"unknown", "running", "cancelling", "cancelled", "succeeded", "failed"}]
    BY DEF WorkflowTypeOK, ContractTypeOK, StepType
<1>w. Steps \subseteq JobIds
    BY WorkflowAssumption
<1>l. "pending" \notin Live /\ "pending" \notin Over
    BY DEF Live, Over
<1>a. ASSUME UNCHANGED <<contractVars, step, net, started>>,
             \A r \in Runs : api'[r] \in {"none", "checked"} => run'[r] = "unknown"
      PROVE  Traced'
    BY <1>a DEF Traced, contractVars
<1>1. ASSUME NEW r \in Runs, CheckLaunch(r) \/ Trigger(r) \/ Index(r) PROVE Traced'
    <2>1. CASE CheckLaunch(r)
        BY <2>1, <1>a, <1>s DEF CheckLaunch, Traced
    <2>2. CASE Trigger(r)
        BY <2>2, <1>a, <1>s DEF Trigger, Traced
    <2>3. CASE Index(r)
        <3>1. UNCHANGED <<contractVars, step, net, started>>
            BY <2>3 DEF Index
        <3>2. /\ \A q \in Runs \ {r} : api'[q] = api[q] /\ run'[q] = run[q]
              /\ api'[r] \in {"indexed", "unindexed"}
            BY <2>3, <1>s DEF Index, RestateCancel
        <3> QED BY <3>1, <3>2, <1>a DEF Traced
    <2> QED BY <1>1, <2>1, <2>2, <2>3
<1>2. ASSUME NEW r \in Runs, CancelRun(r) \/ RunEnds(r) PROVE Traced'
    <2>1. UNCHANGED <<contractVars, step, net, started, api>>
        BY <1>2 DEF CancelRun, RunEnds
    <2>2. \A q \in Runs : run[q] = "unknown" => run'[q] = "unknown"
        BY <1>2, <1>s DEF CancelRun, RestateCancel, RunEnds
    <2> QED BY <2>1, <2>2, <1>a DEF Traced
<1>3. ASSUME NEW r \in Runs, CancelJobs(r) PROVE Traced'
    <2>1. UNCHANGED <<job, starting, step, net, started, api, run>>
        BY <1>3 DEF CancelJobs, Cancel, contractVars
    <2> QED BY <2>1 DEF Traced
<1>4. ASSUME NEW r \in Runs, DeliverCancel(r) PROVE Traced'
    <2>1. UNCHANGED <<contractVars, net, started, api>>
        BY <1>4 DEF DeliverCancel
    <2>2. \A j \in Steps : step'[j] = step[j] \/ step'[j].pc = "cancelled"
        BY <1>4, <1>s DEF DeliverCancel, StepType
    <2>3. \A q \in Runs : run[q] = "unknown" => run'[q] = "unknown"
        BY <1>4, <1>s DEF DeliverCancel
    <2> QED BY <2>1, <2>2, <2>3 DEF Traced, contractVars
<1>5. ASSUME NEW j \in Steps, StepMoves(j) PROVE Traced'
    <2>1. UNCHANGED <<contractVars, api, run, started>>
        BY <1>5 DEF StepMoves, StartStep, Retry, Open, TransportFails, Poll
    <2>2. \A k \in Steps \ {j} : net'[k] > 0 => net[k] > 0
        BY <1>5, <1>s, ArrivesTyped DEF StepMoves, StartStep, Retry, Open, TransportFails, Poll
    <2>3. step'[j].pc # "pending" /\ \A k \in Steps \ {j} : step'[k] = step[k]
        <3>1. CASE StartStep(j) \/ Retry(j)
            BY <3>1, <1>s DEF StartStep, Retry, StepType
        <3>2. CASE Open(j) \/ TransportFails(j)
            BY <3>2, <1>s, <1>l, GoTyped DEF Open, TransportFails, Live, Over
        <3>3. CASE Poll(j)
            <4>1. PICK where \in Over : Go(j, where)
                BY <3>3, VerdictOver DEF Poll, Over
            <4> QED BY <4>1, <1>s, <1>l, GoTyped
        <3> QED BY <1>5, <3>1, <3>2, <3>3 DEF StepMoves
    <2> QED BY <2>1, <2>2, <2>3 DEF Traced, contractVars
<1>6. ASSUME NEW j \in Steps, PostKnown(j) \/ PostOverCap(j) \/ PodLaunches(j) \/ PodRefuses(j)
      PROVE Traced'
    <2>1. PICK where \in Live \cup Over : Answered(j, where)
        BY <1>6, VerdictOver DEF PostKnown, PostOverCap, PodLaunches, PodRefuses, Live, Over
    <2>2. /\ step'[j] = step[j] \/ (step[j].pc = "posting" /\ step'[j].pc = where)
          /\ \A k \in Steps \ {j} : step'[k] = step[k]
        BY <1>s, <2>1, AnsweredTyped
    <2>3. UNCHANGED <<api, run>> /\ \A k \in Steps : net'[k] > 0 => net[k] > 0
        BY <1>6, <1>s, ArrivesTyped DEF PostKnown, PostOverCap, PodLaunches, PodRefuses
    <2>4. CASE PostKnown(j) \/ PostOverCap(j)
        BY <2>4, <2>2, <2>3, <1>l DEF PostKnown, PostOverCap, contractVars, Traced
    <2>5. CASE PodLaunches(j)
        <3>1. /\ UNCHANGED job /\ j \in starting /\ starting' = starting \ {j}
              /\ \A k \in Steps : started'[k] = IF k = j THEN started[k] + 1 ELSE started[k]
            BY <2>5, <1>s DEF PodLaunches, Launch
        <3> QED BY <3>1, <2>2, <2>3, <1>l, <1>s DEF Traced
    <2>6. CASE PodRefuses(j)
        <3>1. /\ UNCHANGED started /\ starting' = starting \ {j} /\ job'[j] = "absent"
              /\ \A k \in Steps \ {j} : job'[k] = job[k]
            BY <2>6, <1>s, <1>w DEF PodRefuses, Refuse
        <3> QED BY <3>1, <2>2, <2>3, <1>l DEF Traced
    <2> QED BY <1>6, <2>4, <2>5, <2>6
<1>7. ASSUME NEW j \in Steps, PostAccepted(j) PROVE Traced'
    <2>1. /\ net[j] > 0 /\ starting' = starting \cup {j}
          /\ \A k \in Steps : net'[k] > 0 => net[k] > 0
          /\ \A k \in Steps \ {j} : job'[k] = job[k]
          /\ UNCHANGED <<step, started, api, run>>
        BY <1>7, <1>s, <1>w, ArrivesTyped DEF PostAccepted, Accept
    <2> QED BY <2>1 DEF Traced
<1>8. ASSUME NEW j \in Steps, PodFinishes(j) PROVE Traced'
    <2>1. /\ UNCHANGED <<starting, net, step, started, api, run>>
          /\ job[j] = "running" /\ j \notin starting
          /\ \A k \in Steps \ {j} : job'[k] = job[k] \/ job'[k] = "absent"
        BY <1>8, <1>w DEF PodFinishes, Finish
    <2> QED BY <2>1 DEF Traced
<1>9. ASSUME NEW j \in JobIds \ Steps, OtherJob(j) PROVE Traced'
    <2>1. UNCHANGED <<step, net, started, api, run>>
        BY <1>9 DEF OtherJob, workflowVars
    <2>2. \A k \in Steps : /\ job'[k] = job[k] \/ job'[k] = "absent"
                           /\ k \in starting' <=> k \in starting
        <3>1. CASE Accept(j) \/ Launch(j) \/ Refuse(j)
            BY <1>s, <1>w, <3>1 DEF Accept, Launch, Refuse
        <3>2. ASSUME NEW o \in Outcomes, NEW evicted \in SUBSET JobIds, Finish(j, o, evicted)
              PROVE \A k \in Steps : /\ job'[k] = job[k] \/ job'[k] = "absent"
                                     /\ k \in starting' <=> k \in starting
            BY <1>w, <3>2 DEF Finish
        <3> QED BY <1>9, <3>1, <3>2 DEF OtherJob
    <2> QED BY <2>1, <2>2 DEF Traced
<1>10. CASE PodResets
    BY <1>10, <1>s, <1>w, ResetNet DEF PodResets, Reset, Traced
<1>11. CASE SandboxStarts \/ UNCHANGED allVars
    BY <1>11 DEF SandboxStarts, allVars, workflowVars, contractVars, Traced
<1> QED
    BY <1>1, <1>2, <1>3, <1>4, <1>5, <1>6, <1>7, <1>8, <1>9, <1>10, <1>11
       DEF WorkflowNext, PostArrives, PodMoves
-----------------------------------------------------------------------------
(* The plan.  A step of the run is the move of one place of the plan, the   *)
(* start or the end of a script, a move of the invocation, or nothing.      *)

PlaceOf(pc) == IF pc \in Live THEN "active" ELSE pc
Places == [j \in Steps |-> IF step[j].pc \in Live THEN "active" ELSE step[j].pc]

LEMMA PlacesKept ==
    ASSUME \A j \in Steps : PlaceOf(step'[j].pc) = PlaceOf(step[j].pc)
    PROVE  Places' = Places
BY DEF Places, PlaceOf

LEMMA PlaceMoved ==
    ASSUME NEW j \in Steps, \A k \in Steps \ {j} : step'[k] = step[k]
    PROVE  Places' = [Places EXCEPT ![j] = PlaceOf(step'[j].pc)]
BY DEF Places, PlaceOf

LEMMA DoneIsFulfilled == ASSUME NEW j \in Steps PROVE Plan!Done(j) <=> Fulfilled(j)
BY DEF Plan!Done, Fulfilled

LEMMA InitPlanned == WorkflowInit => Plan!PlanInit
BY DEF WorkflowInit, Plan!PlanInit, Live

(* A step that ends what it was doing moves its place in the plan: to       *)
(* "succeeded" only when its scripts earned it.                             *)
LEMMA StepPlanned ==
    ASSUME step \in [Steps -> StepType], NEW j \in Steps, NEW where,
           step[j].pc \in Live, Go(j, where), UNCHANGED <<run, started, ended>>,
           where \in Live \cup {"succeeded", "failed", "paused"},
           where = "succeeded" => Fulfilled(j)
    PROVE  [Plan!PlanNext]_Plan!planVars
<1>1. step'[j].pc = where /\ \A k \in Steps \ {j} : step'[k] = step[k]
    BY GoTyped DEF Over
<1>2. Places[j] = "active"
    BY DEF Places
<1>3. CASE where \in Live
    <2>1. Places' = Places
        BY <1>1, <1>3, PlacesKept DEF PlaceOf
    <2> QED BY <2>1 DEF Plan!planVars, Places
<1>4. CASE where \in {"succeeded", "failed", "paused"}
    <2>1. Places' = [Places EXCEPT ![j] = where]
        BY <1>1, <1>4, PlaceMoved DEF PlaceOf, Live
    <2>2. CASE where = "succeeded"
        <3>1. Plan!Succeeded(j)
            BY <1>2, <2>1, <2>2, DoneIsFulfilled DEF Plan!Succeeded, Plan!Moves, Places
        <3> QED BY <3>1 DEF Plan!PlanNext
    <2>3. CASE where \in {"failed", "paused"}
        <3>1. Plan!GivenUp(j)
            BY <1>2, <2>1, <2>3 DEF Plan!GivenUp, Plan!Moves, Places
        <3> QED BY <3>1 DEF Plan!PlanNext
    <2> QED BY <1>4, <2>2, <2>3
<1> QED BY <1>3, <1>4

(* The same for an answer to a POST, which a step may have stopped waiting for. *)
LEMMA AnswerPlanned ==
    ASSUME step \in [Steps -> StepType], NEW j \in Steps, NEW where,
           Answered(j, where), UNCHANGED <<run, started, ended>>,
           where \in {"polling", "succeeded", "failed"},
           where = "succeeded" => Fulfilled(j)
    PROVE  [Plan!PlanNext]_Plan!planVars
<1>1. CASE UNCHANGED step
    BY <1>1 DEF Plan!planVars
<1>2. CASE step[j].pc = "posting" /\ Go(j, where)
    <2>1. step[j].pc \in Live /\ where \in Live \cup {"succeeded", "failed", "paused"}
        BY <1>2 DEF Live
    <2> QED BY <1>2, <2>1, StepPlanned
<1> QED BY <1>1, <1>2 DEF Answered

LEMMA NextPlanned ==
    /\ WorkflowTypeOK /\ Ordered /\ Traced
    /\ [WorkflowNext]_allVars
    => [Plan!PlanNext]_Plan!planVars
<1> SUFFICES ASSUME WorkflowTypeOK, Ordered, Traced, [WorkflowNext]_allVars
             PROVE  [Plan!PlanNext]_Plan!planVars
    OBVIOUS
<1>s. /\ step \in [Steps -> StepType] /\ net \in [Steps -> Nat]
      /\ job \in [JobIds -> JobStates \cup {"absent"}]
      /\ started \in [Steps -> Nat]
      /\ run \in [Runs -> {"unknown", "running", "cancelling", "cancelled", "succeeded", "failed"}]
    BY DEF WorkflowTypeOK, ContractTypeOK, StepType
<1>w. /\ Steps \subseteq JobIds
      /\ \A j \in Steps : Needs[j] \subseteq Steps
    BY WorkflowAssumption
<1>a. ASSUME UNCHANGED <<step, run, started, ended>> PROVE [Plan!PlanNext]_Plan!planVars
    BY <1>a DEF Plan!planVars
<1>1. ASSUME NEW r \in Runs, CheckLaunch(r) \/ CancelJobs(r) PROVE [Plan!PlanNext]_Plan!planVars
    BY <1>1, <1>a DEF CheckLaunch, CancelJobs
<1>2. ASSUME NEW r \in Runs, Trigger(r) PROVE [Plan!PlanNext]_Plan!planVars
    <2>1. run[r] = "unknown" /\ UNCHANGED <<step, started, ended>>
        BY <1>2 DEF Trigger, Traced
    <2>2. CASE UNCHANGED run
        BY <2>1, <2>2, <1>a
    <2>3. CASE run' = [run EXCEPT ![r] = "running"]
        <3>1. Plan!Launched(r)
            BY <2>1, <2>3 DEF Plan!Launched
        <3> QED BY <3>1 DEF Plan!PlanNext
    <2> QED BY <1>2, <2>2, <2>3 DEF Trigger
<1>3. ASSUME NEW r \in Runs, Index(r) \/ CancelRun(r) PROVE [Plan!PlanNext]_Plan!planVars
    <2>1. UNCHANGED <<step, started, ended>>
        BY <1>3 DEF Index, CancelRun
    <2>2. UNCHANGED run \/ (run[r] = "running" /\ run' = [run EXCEPT ![r] = "cancelling"])
        BY <1>3, <1>s DEF Index, CancelRun, RestateCancel
    <2>3. CASE run[r] = "running" /\ run' = [run EXCEPT ![r] = "cancelling"]
        <3>1. Plan!CancelAsked(r)
            BY <2>1, <2>3 DEF Plan!CancelAsked
        <3> QED BY <3>1 DEF Plan!PlanNext
    <2> QED BY <2>1, <2>2, <2>3, <1>a
<1>4. ASSUME NEW r \in Runs, RunEnds(r) PROVE [Plan!PlanNext]_Plan!planVars
    <2>1. Plan!RunSucceeds(r) \/ Plan!RunFails(r)
        <3>1. \A j \in JobsOf(r) : /\ step[j].pc = "succeeded" => Places[j] = "succeeded"
                                   /\ step[j].pc = "failed" => Places[j] = "failed"
                                   /\ step[j].pc \notin Live => Places[j] # "active"
            BY <1>s DEF JobsOf, Places, StepType, Live, Over
        <3>2. Plan!StepsOf(r) = JobsOf(r)
            BY DEF Plan!StepsOf, JobsOf
        <3>3. UNCHANGED <<step, started, ended>>
            BY <1>4 DEF RunEnds
        <3> QED BY <1>4, <3>1, <3>2, <3>3 DEF RunEnds, Plan!RunSucceeds, Plan!RunFails, Places
    <2> QED BY <2>1 DEF Plan!PlanNext
<1>5. ASSUME NEW r \in Runs, DeliverCancel(r) PROVE [Plan!PlanNext]_Plan!planVars
    <2>1. \A j \in Steps :
             step'[j].pc = IF RunOf[j] = r /\ step[j].pc \notin {"succeeded", "failed"}
                             THEN "cancelled" ELSE step[j].pc
        BY <1>5, <1>s DEF DeliverCancel, StepType
    <2>2. \A j \in Steps : Places[j] \in {"succeeded", "failed"} <=> step[j].pc \in {"succeeded", "failed"}
        BY DEF Places, Live
    <2>3. Places' = [j \in Steps |->
                        IF j \in Plan!StepsOf(r) /\ Places[j] \notin {"succeeded", "failed"}
                           THEN "cancelled" ELSE Places[j]]
        <3>1. \A j \in Steps :
                 PlaceOf(step'[j].pc) = IF RunOf[j] = r /\ step[j].pc \notin {"succeeded", "failed"}
                                          THEN "cancelled" ELSE PlaceOf(step[j].pc)
            BY <2>1 DEF PlaceOf, Live
        <3> QED BY <2>2, <3>1 DEF Places, PlaceOf, Plan!StepsOf
    <2>4. Plan!Cancelled(r)
        BY <1>5, <2>3 DEF DeliverCancel, Plan!Cancelled, Places
    <2> QED BY <2>4 DEF Plan!PlanNext
<1>6. ASSUME NEW j \in Steps, StartStep(j) PROVE [Plan!PlanNext]_Plan!planVars
    <2>1. step'[j].pc = "opening" /\ \A k \in Steps \ {j} : step'[k] = step[k]
        BY <1>6, <1>s DEF StartStep
    <2>2. Places' = [Places EXCEPT ![j] = "active"]
        BY <2>1, PlaceMoved DEF PlaceOf, Live
    <2>3. Places[j] = "pending" /\ \A k \in Needs[j] : Places[k] = "succeeded"
        BY <1>6, <1>w DEF StartStep, Places, Live
    <2>4. Plan!Dispatched(j)
        BY <1>6, <2>2, <2>3 DEF StartStep, Plan!Dispatched, Plan!Moves, Places
    <2> QED BY <2>4 DEF Plan!PlanNext
<1>7. ASSUME NEW j \in Steps, Retry(j) PROVE [Plan!PlanNext]_Plan!planVars
    <2>1. /\ step[j].pc = "backoff" /\ step'[j].pc \in {"opening", "paused"}
          /\ \A k \in Steps \ {j} : step'[k] = step[k]
          /\ UNCHANGED <<run, started, ended>>
        BY <1>7, <1>s DEF Retry, StepType
    <2>2. CASE step'[j].pc = "opening"
        <3>1. Places' = Places
            BY <2>1, <2>2, PlacesKept DEF PlaceOf, Live
        <3> QED BY <2>1, <3>1 DEF Plan!planVars, Places
    <2>3. CASE step'[j].pc = "paused"
        <3>1. Places[j] = "active" /\ Places' = [Places EXCEPT ![j] = "paused"]
            BY <2>1, <2>3, PlaceMoved DEF PlaceOf, Places, Live
        <3>2. Plan!GivenUp(j)
            BY <2>1, <3>1 DEF Plan!GivenUp, Plan!Moves, Places
        <3> QED BY <3>2 DEF Plan!PlanNext
    <2> QED BY <2>1, <2>2, <2>3
<1>8. ASSUME NEW j \in Steps, Open(j) \/ TransportFails(j) PROVE [Plan!PlanNext]_Plan!planVars
    <2>1. PICK where \in {"posting", "failed", "backoff"} : Go(j, where)
        BY <1>8 DEF Open, TransportFails
    <2>2. /\ step[j].pc \in Live /\ where \in Live \cup {"succeeded", "failed", "paused"}
          /\ UNCHANGED <<run, started, ended>>
        BY <1>8, <2>1 DEF Open, TransportFails, Live
    <2> QED BY <1>s, <2>1, <2>2, StepPlanned
<1>9. ASSUME NEW j \in Steps, Poll(j) PROVE [Plan!PlanNext]_Plan!planVars
    <2>1. PICK where \in {"succeeded", "failed"} :
             /\ Go(j, where)
             /\ where = "succeeded" => Fulfilled(j)
        <3>1. CASE job[j] = "absent"
            BY <1>9, <3>1 DEF Poll
        <3>2. CASE job[j] # "absent"
            <4>1. job[j] \in Outcomes
                BY <1>9, <1>s, <1>w, <3>2 DEF Poll, JobStates
            <4>2. Verdict(j, job[j]) = "succeeded" => Fulfilled(j)
                BY <4>1, VerdictFulfils
            <4> QED BY <1>9, <3>2, <4>2 DEF Poll, Verdict
        <3> QED BY <3>1, <3>2
    <2>2. step[j].pc \in Live /\ UNCHANGED <<run, started, ended>>
        BY <1>9 DEF Poll, Live
    <2> QED BY <1>s, <2>1, <2>2, StepPlanned
<1>10. ASSUME NEW j \in Steps, PostKnown(j) PROVE [Plan!PlanNext]_Plan!planVars
    <2>1. PICK where \in {"polling", "succeeded", "failed"} :
             /\ Answered(j, where)
             /\ where = "succeeded" => Fulfilled(j)
        <3>1. CASE job[j] = "running"
            BY <1>10, <3>1 DEF PostKnown
        <3>2. CASE job[j] # "running"
            <4>1. job[j] \in Outcomes
                BY <1>10, <1>s, <1>w, <3>2 DEF PostKnown, JobStates
            <4>2. Verdict(j, job[j]) = "succeeded" => Fulfilled(j)
                BY <4>1, VerdictFulfils
            <4> QED BY <1>10, <3>2, <4>2 DEF PostKnown, Verdict
        <3> QED BY <3>1, <3>2
    <2>2. UNCHANGED <<run, started, ended>>
        BY <1>10 DEF PostKnown
    <2> QED BY <1>s, <2>1, <2>2, AnswerPlanned
<1>11. ASSUME NEW j \in Steps, PostOverCap(j) \/ PodRefuses(j) PROVE [Plan!PlanNext]_Plan!planVars
    <2>1. Answered(j, "failed") /\ UNCHANGED <<run, started, ended>>
        BY <1>11 DEF PostOverCap, PodRefuses
    <2> QED BY <1>s, <2>1, AnswerPlanned
<1>12. ASSUME NEW j \in Steps, PodLaunches(j) PROVE [Plan!PlanNext]_Plan!planVars
    <2>1. /\ Answered(j, "polling") /\ j \in starting
          /\ started' = [started EXCEPT ![j] = @ + 1]
          /\ UNCHANGED <<run, ended>>
        BY <1>12 DEF PodLaunches, Launch
    <2>2. Places' = Places
        <3>1. /\ step'[j] = step[j] \/ (step[j].pc = "posting" /\ step'[j].pc = "polling")
              /\ \A k \in Steps \ {j} : step'[k] = step[k]
            BY <1>s, <2>1, AnsweredTyped DEF Live
        <3> QED BY <3>1, PlacesKept DEF PlaceOf, Live
    <2>3. Places[j] # "pending"
        BY <2>1 DEF Traced, Places
    <2>4. \A k \in Needs[j] : Plan!Done(k)
        BY <2>1, <1>w, DoneIsFulfilled DEF Ordered, Begun, NeedsMet
    <2>5. Plan!ScriptStarts(j)
        BY <2>1, <2>2, <2>3, <2>4 DEF Plan!ScriptStarts, Places
    <2> QED BY <2>5 DEF Plan!PlanNext
<1>13. ASSUME NEW j \in Steps, PostAccepted(j) PROVE [Plan!PlanNext]_Plan!planVars
    BY <1>13, <1>a DEF PostAccepted
<1>14. ASSUME NEW j \in Steps, PodFinishes(j) PROVE [Plan!PlanNext]_Plan!planVars
    <2>1. PICK o \in Outcomes, evicted \in SUBSET JobIds :
              /\ Finish(j, o, evicted)
              /\ ended' = [ended EXCEPT ![j] = @ \cup {IF o = "succeeded" THEN o ELSE "otherwise"}]
        BY <1>14 DEF PodFinishes
    <2>2. started[j] > 0
        BY <2>1 DEF Finish, Traced
    <2>3. UNCHANGED <<step, run, started>>
        BY <1>14 DEF PodFinishes
    <2>4. \E p \in {"succeeded", "otherwise"} : ended' = [ended EXCEPT ![j] = @ \cup {p}]
        BY <2>1
    <2>5. Plan!ScriptEnds(j)
        BY <2>2, <2>3, <2>4 DEF Plan!ScriptEnds
    <2> QED BY <2>5 DEF Plan!PlanNext
<1>15. ASSUME NEW j \in JobIds \ Steps, OtherJob(j) PROVE [Plan!PlanNext]_Plan!planVars
    BY <1>15, <1>a DEF OtherJob, workflowVars
<1>16. CASE PodResets \/ SandboxStarts \/ UNCHANGED allVars
    BY <1>16, <1>a DEF PodResets, SandboxStarts, allVars, workflowVars
<1> QED
    BY <1>1, <1>2, <1>3, <1>4, <1>5, <1>6, <1>7, <1>8, <1>9, <1>10, <1>11, <1>12, <1>13,
       <1>14, <1>15, <1>16 DEF WorkflowNext, StepMoves, PostArrives, PodMoves

(* At every moment the order of the scripts holds and what stands behind    *)
(* each step is known.                                                      *)
LEMMA RunInvariants == WorkflowSpec => [](WorkflowTypeOK /\ Ordered /\ Traced)
<1>1. WorkflowInit => Ordered /\ Traced
    <2> SUFFICES ASSUME WorkflowInit PROVE Ordered /\ Traced
        OBVIOUS
    <2>1. \A r \in Runs : run[r] = "unknown"
        BY DEF WorkflowInit
    <2>2. \A j \in Steps : ~Begun(j) /\ step[j].pc = "pending" /\ job[j] = "absent"
        BY WorkflowAssumption DEF WorkflowInit, ContractInit, Begun, Live
    <2> QED BY <2>1, <2>2 DEF Ordered, Traced, Begun, Outcomes
<1> QED
    BY <1>1, InitTyped, NextTyped, NextOrdered, NextTraced, PTL DEF WorkflowSpec

(* Behind lost and repeated requests, replays, cancellations and restarts   *)
(* of the sandbox, every behaviour of the runs is one of the plan.          *)
THEOREM RunsFollowThePlan == WorkflowSpec => ImplementsPlan
<1>1. WorkflowSpec => []([Plan!PlanNext]_Plan!planVars)
    BY RunInvariants, NextPlanned, PTL DEF WorkflowSpec
<1> QED BY <1>1, InitPlanned, PTL DEF ImplementsPlan, Plan!PlanSpec, WorkflowSpec
-----------------------------------------------------------------------------
(* The verdict of a run. *)

(* A run that is reported succeeded has all its steps in success, each      *)
(* earned by a script that ended as the step wants it: no lost job, replay  *)
(* or refusal passes for a success on the way.                              *)
VerdictEarned ==
    \A r \in Runs : run[r] = "succeeded" =>
        \A j \in JobsOf(r) : step[j].pc = "succeeded" /\ Fulfilled(j)

(* A verdict is never taken back: a late answer, a replay, a restart of the *)
(* sandbox or a cancellation finds the step and the run as they were left.  *)
(* A paused step is only ever cancelled.                                    *)
VerdictStands ==
    /\ \A j \in Steps :
          /\ step[j].pc \in {"succeeded", "failed", "cancelled"} => step'[j].pc = step[j].pc
          /\ step[j].pc = "paused" => step'[j].pc \in {"paused", "cancelled"}
          /\ ended[j] \subseteq ended'[j]
    /\ \A r \in Runs : run[r] \in {"succeeded", "failed", "cancelled"} => run'[r] = run[r]

(* The moves of a step, whatever the action. *)
LEMMA NextStands == WorkflowTypeOK /\ Traced /\ [WorkflowNext]_allVars => VerdictStands
<1> SUFFICES ASSUME WorkflowTypeOK, Traced, [WorkflowNext]_allVars PROVE VerdictStands
    OBVIOUS
<1>s. /\ step \in [Steps -> StepType] /\ net \in [Steps -> Nat]
      /\ ended \in [Steps -> SUBSET {"succeeded", "otherwise"}]
      /\ run \in [Runs -> {"unknown", "running", "cancelling", "cancelled", "succeeded", "failed"}]
    BY DEF WorkflowTypeOK, StepType
<1>a. ASSUME UNCHANGED <<step, run, ended>> PROVE VerdictStands
    BY <1>a DEF VerdictStands
<1>b. ASSUME NEW j \in Steps, UNCHANGED <<run, ended>>,
             \A k \in Steps \ {j} : step'[k] = step[k],
             \/ step'[j] = step[j] \/ step[j].pc \in Live \cup {"pending"}
      PROVE  VerdictStands
    BY <1>b DEF VerdictStands, Live
<1>1. ASSUME NEW r \in Runs, CheckLaunch(r) \/ CancelJobs(r) PROVE VerdictStands
    BY <1>1, <1>a DEF CheckLaunch, CancelJobs
<1>2. ASSUME NEW r \in Runs, Trigger(r) PROVE VerdictStands
    BY <1>2, <1>s DEF Trigger, Traced, VerdictStands
<1>3. ASSUME NEW r \in Runs, Index(r) \/ CancelRun(r) \/ RunEnds(r) PROVE VerdictStands
    <2>1. UNCHANGED <<step, ended>>
        BY <1>3 DEF Index, CancelRun, RunEnds
    <2>2. \A q \in Runs : run[q] \in {"succeeded", "failed", "cancelled"} => run'[q] = run[q]
        BY <1>3, <1>s DEF Index, CancelRun, RunEnds, RestateCancel
    <2> QED BY <2>1, <2>2 DEF VerdictStands
<1>4. ASSUME NEW r \in Runs, DeliverCancel(r) PROVE VerdictStands
    <2>1. \A j \in Steps :
             step'[j].pc = IF RunOf[j] = r /\ step[j].pc \notin {"succeeded", "failed"}
                             THEN "cancelled" ELSE step[j].pc
        BY <1>4, <1>s DEF DeliverCancel, StepType
    <2>2. \A q \in Runs : run[q] \in {"succeeded", "failed", "cancelled"} => run'[q] = run[q]
        BY <1>4, <1>s DEF DeliverCancel
    <2>3. UNCHANGED ended
        BY <1>4 DEF DeliverCancel
    <2> QED BY <2>1, <2>2, <2>3 DEF VerdictStands
<1>5. ASSUME NEW j \in Steps, StepMoves(j) PROVE VerdictStands
    <2>1. UNCHANGED <<run, ended>> /\ step[j].pc \in Live \cup {"pending"}
        BY <1>5 DEF StepMoves, StartStep, Retry, Open, TransportFails, Poll, Live
    <2>2. \A k \in Steps \ {j} : step'[k] = step[k]
        BY <1>5, <1>s DEF StepMoves, StartStep, Retry, Open, TransportFails, Poll, Go
    <2> QED BY <2>1, <2>2, <1>b
<1>6. ASSUME NEW j \in Steps, PostKnown(j) \/ PostOverCap(j) \/ PodLaunches(j) \/ PodRefuses(j)
      PROVE VerdictStands
    <2>1. PICK where \in Live \cup Over : Answered(j, where)
        BY <1>6, VerdictOver DEF PostKnown, PostOverCap, PodLaunches, PodRefuses, Live, Over
    <2>2. /\ step'[j] = step[j] \/ step[j].pc \in Live
          /\ \A k \in Steps \ {j} : step'[k] = step[k]
        BY <1>s, <2>1, AnsweredTyped DEF Live
    <2>3. UNCHANGED <<run, ended>>
        BY <1>6 DEF PostKnown, PostOverCap, PodLaunches, PodRefuses
    <2> QED BY <2>2, <2>3, <1>b
<1>7. ASSUME NEW j \in Steps, PodFinishes(j) PROVE VerdictStands
    <2>1. UNCHANGED <<step, run>>
        BY <1>7 DEF PodFinishes
    <2>2. \A k \in Steps : ended[k] \subseteq ended'[k]
        BY <1>7, <1>s DEF PodFinishes
    <2> QED BY <2>1, <2>2 DEF VerdictStands
<1>8. CASE \/ \E j \in Steps : PostAccepted(j)
           \/ \E j \in JobIds \ Steps : OtherJob(j)
           \/ PodResets \/ SandboxStarts \/ UNCHANGED allVars
    BY <1>8, <1>a DEF PostAccepted, OtherJob, workflowVars, PodResets, SandboxStarts, allVars
<1> QED
    BY <1>1, <1>2, <1>3, <1>4, <1>5, <1>6, <1>7, <1>8
       DEF WorkflowNext, PostArrives, PodMoves

(* The launch of a run answers "succeeded" for nothing less than its plan,  *)
(* whatever the sandbox lost and the engine replayed.                       *)
THEOREM RunVerdictEarned == WorkflowSpec => []VerdictEarned
<1>1. WorkflowInit => VerdictEarned
    BY DEF WorkflowInit, VerdictEarned
<1>2. /\ WorkflowTypeOK /\ Ordered /\ Traced /\ VerdictEarned
      /\ [WorkflowNext]_allVars
      => VerdictEarned'
    <2> SUFFICES ASSUME WorkflowTypeOK, Ordered, Traced, VerdictEarned,
                        [WorkflowNext]_allVars,
                        NEW r \in Runs, run'[r] = "succeeded", NEW j \in JobsOf(r)
                 PROVE  step'[j].pc = "succeeded" /\ Fulfilled(j)'
        BY DEF VerdictEarned, JobsOf
    <2>1. VerdictStands /\ j \in Steps
        BY NextStands DEF JobsOf
    <2>2. step[j].pc = "succeeded"
        <3>1. CASE run[r] = "succeeded"
            BY <3>1 DEF VerdictEarned
        <3>2. CASE run[r] # "succeeded"
            <4>1. RunEnds(r)
                <5>s. run \in [Runs -> {"unknown", "running", "cancelling", "cancelled",
                                        "succeeded", "failed"}]
                    BY DEF WorkflowTypeOK
                <5>1. ~UNCHANGED run
                    BY <3>2
                <5>2. PICK q \in Runs : \/ Trigger(q) \/ Index(q) \/ CancelRun(q)
                                        \/ RunEnds(q) \/ DeliverCancel(q)
                    BY <5>1
                       DEF WorkflowNext, CheckLaunch, CancelJobs, StepMoves, PostArrives, PodMoves,
                           StartStep, Retry, Open, TransportFails, Poll, PostKnown, PostAccepted,
                           PostOverCap, PodLaunches, PodRefuses, PodFinishes, OtherJob,
                           PodResets, SandboxStarts, allVars, workflowVars
                <5>3. ~(Trigger(q) \/ Index(q) \/ CancelRun(q) \/ DeliverCancel(q))
                    BY <3>2, <5>s DEF Trigger, Index, CancelRun, DeliverCancel, RestateCancel
                <5>4. q = r
                    BY <3>2, <5>2, <5>3, <5>s DEF RunEnds
                <5> QED BY <5>2, <5>3, <5>4
            <4>2. run' # [run EXCEPT ![r] = "failed"]
                BY <3>2 DEF WorkflowTypeOK
            <4> QED BY <4>1, <4>2 DEF RunEnds
        <3> QED BY <3>1, <3>2
    <2>3. step'[j].pc = "succeeded" /\ ended[j] \subseteq ended'[j]
        BY <2>1, <2>2 DEF VerdictStands
    <2>4. Fulfilled(j)
        BY <2>1, <2>2 DEF Ordered
    <2> QED BY <2>3, <2>4 DEF Fulfilled
<1> QED BY <1>1, <1>2, RunInvariants, PTL DEF WorkflowSpec

(* What was reported of a run or of a step is what is reported ever after. *)
THEOREM VerdictsAreFinal == WorkflowSpec => [][VerdictStands]_allVars
BY RunInvariants, NextStands, PTL DEF WorkflowSpec
-----------------------------------------------------------------------------
(* The pod sees nothing but what its job API promises to answer: what is    *)
(* proved of the pod against JobContract (JobsImplementContract) is what    *)
(* the runs rely on here, no more.                                          *)
THEOREM RunsKeepTheContract == WorkflowSpec => ContractSpec
<1>1. WorkflowInit => ContractInit
    BY DEF WorkflowInit
<1>2. [WorkflowNext]_allVars => [ContractNext]_contractVars
    <2> SUFFICES ASSUME [WorkflowNext]_allVars, ~UNCHANGED contractVars PROVE ContractNext
        OBVIOUS
    <2>w. Steps \subseteq JobIds
        BY WorkflowAssumption
    <2>1. ASSUME NEW r \in Runs, CancelJobs(r) PROVE ContractNext
        <3>1. Cancel(RunningJobs \cap JobsOf(r))
            BY <2>1 DEF CancelJobs
        <3>2. RunningJobs \cap JobsOf(r) \in SUBSET JobIds
            BY DEF RunningJobs
        <3> QED BY <3>1, <3>2 DEF ContractNext
    <2>2. ASSUME NEW j \in Steps, PostAccepted(j) \/ PodLaunches(j) \/ PodRefuses(j)
          PROVE  ContractNext
        BY <2>2, <2>w DEF PostAccepted, PodLaunches, PodRefuses, ContractNext
    <2>3. ASSUME NEW j \in Steps, PodFinishes(j) PROVE ContractNext
        BY <2>3, <2>w DEF PodFinishes, ContractNext
    <2>4. ASSUME NEW j \in JobIds \ Steps, OtherJob(j) PROVE ContractNext
        BY <2>4 DEF OtherJob, ContractNext
    <2>5. CASE PodResets
        BY <2>5 DEF PodResets, ContractNext
    <2>6. \/ \E r \in Runs : CancelJobs(r)
          \/ \E j \in Steps : \/ PostAccepted(j) \/ PodLaunches(j) \/ PodRefuses(j)
                              \/ PodFinishes(j)
          \/ \E j \in JobIds \ Steps : OtherJob(j)
          \/ PodResets
        BY DEF WorkflowNext, CheckLaunch, Trigger, Index, CancelRun, RunEnds, DeliverCancel,
           StepMoves, PostArrives, PodMoves, StartStep, Retry, Open, TransportFails, Poll,
           PostKnown, PostOverCap, SandboxStarts, allVars
    <2> QED BY <2>1, <2>2, <2>3, <2>4, <2>5, <2>6
<1> QED BY <1>1, <1>2, PTL DEF WorkflowSpec, ContractSpec
=============================================================================
