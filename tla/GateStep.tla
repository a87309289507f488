------------------------------ MODULE GateStep ------------------------------
(***************************************************************************)
(* Gate steps of workflow runs (app/src/workflow/steps/gate.rs, execute)   *)
(* against the code-health state of their sandbox: each asks for a         *)
(* refresh, polls until the state is fresh with a computed_at later than   *)
(* its request, and evaluates that report.                                 *)
(*                                                                         *)
(* t0 and computed_at are unix times; a gate keeps in `later' whether the  *)
(* report in place was published after its t0 (one clock is assumed, and a *)
(* publication in the same millisecond as t0 counts as later).             *)
(***************************************************************************)
EXTENDS CodeHealth

CONSTANTS Gates,      \* gate steps
          GateBases   \* the bases their configuration may give: {} or {base}

ASSUME GateAssumption == GateBases \subseteq Option(Bases)

VARIABLE gate

gateVars == <<vars, gate>>

GateTypeOK ==
    gate \in [Gates -> [pc : {"ready", "asking", "polling", "evaluated", "failed"},
                        base : Option(Bases), later : BOOLEAN,
                        asked : Contents,           \* history: the content of the
                        quiet : BOOLEAN,            \* tracked files at t0, all notified?
                        report : Option(Reports)]]

GateInit ==
    /\ Init
    /\ gate = [g \in Gates |-> [pc |-> "ready", base |-> None, later |-> FALSE,
                                asked |-> 0, quiet |-> FALSE, report |-> None]]

-----------------------------------------------------------------------------
(* t0 is read; the sandbox is up, or the step fails before. *)
GateBegin(g) ==
    /\ gate[g].pc = "ready"
    /\ mounted
    /\ \E base \in GateBases :
          gate' = [gate EXCEPT ![g] = [@ EXCEPT !.pc = "asking", !.base = base,
                     !.asked = tree.work, !.quiet = pending = 0 /\ ~silent]]
    /\ UNCHANGED vars

GateAsksNothing(g) ==  \* mutant: the recomputation is never asked for
    /\ gate[g].pc = "asking"
    /\ gate' = [gate EXCEPT ![g].pc = "polling"]
    /\ UNCHANGED vars

(* POST /code-health/refresh; without a base the sticky one stays. *)
GateAsks(g) ==
    /\ gate[g].pc = "asking"
    /\ gate' = [gate EXCEPT ![g].pc = "polling"]
    /\ Refresh(IF gate[g].base = None THEN f.base ELSE gate[g].base)

GateFailsInPlace(g) ==  \* mutant: the step has no verdict and no state
    /\ gate[g].pc \in {"asking", "polling"}
    /\ gate' = [gate EXCEPT ![g].pc = "expired"]
    /\ UNCHANGED vars

(* The POST is refused (invalid base) or the transport fails; or 900 s of   *)
(* polling found nothing.                                                   *)
GateFails(g) ==
    /\ gate[g].pc \in {"asking", "polling"}
    /\ gate' = [gate EXCEPT ![g].pc = "failed"]
    /\ UNCHANGED vars

GateTakesAnyFresh(g) ==  \* mutant: computed_at is not compared with t0
    /\ gate[g].pc = "polling"
    /\ f.phase = "fresh" /\ f.report # None
    /\ gate' = [gate EXCEPT ![g].pc = "evaluated", ![g].report = f.report]
    /\ UNCHANGED vars

(* GET /code-health: fresh, with a report later than t0. *)
GateEvaluates(g) ==
    /\ gate[g].pc = "polling"
    /\ f.phase = "fresh" /\ f.report # None
    /\ gate[g].later
    /\ gate' = [gate EXCEPT ![g].pc = "evaluated", ![g].report = f.report]
    /\ UNCHANGED vars

(* A publication is later than the t0 of the gates that took theirs. *)
GatePublish ==
    /\ Publish
    /\ gate' = [g \in Gates |-> [gate[g] EXCEPT !.later = gate[g].pc # "ready"]]

HealthSteps ==
    /\ \/ Callers
       \/ Start \/ CalmOver \/ CalmBroken \/ Wake \/ PollTick
       \/ ReadHead \/ ReadDiff \/ ReadFails
       \/ ComparePolled \/ CompareUnchanged \/ MarkFresh
       \/ Compute \/ ChecksFail
    /\ UNCHANGED gate

GateNext ==
    \/ HealthSteps
    \/ GatePublish
    \/ \E g \in Gates : GateBegin(g) \/ GateAsks(g) \/ GateFails(g) \/ GateEvaluates(g)

GateSpec == GateInit /\ [][GateNext]_gateVars

(* The fairness of the sandbox, and a step that goes on polling.  Nothing   *)
(* obliges a gate to give up.                                               *)
GateFairness ==
    /\ WF_gateVars(Background /\ HealthSteps)
    /\ WF_gateVars(GatePublish)
    /\ SF_gateVars(Wake /\ UNCHANGED gate)
    /\ WF_gateVars(PollTick /\ UNCHANGED gate)
    /\ WF_gateVars(NotifyModified /\ UNCHANGED gate)
    /\ WF_gateVars(Mount /\ UNCHANGED gate)
    /\ \A g \in Gates : WF_gateVars(GateAsks(g)) /\ WF_gateVars(GateEvaluates(g))

FairGateSpec == GateSpec /\ GateFairness

-----------------------------------------------------------------------------
(* Properties. *)

(* A gate asked over a worktree whose edits were all notified evaluates a   *)
(* report on tracked files no older than those it was asked about, though   *)
(* the report may come from a computation that was under way at t0.         *)
(* Not so with a commit (Commits) between the two commands of a             *)
(* fingerprint: the old head with the empty diff is what a stale report may *)
(* have stored, and the state is then marked fresh on it (health.rs:572).   *)
GateSeesNotifiedEdits ==
    \A g \in Gates : gate[g].pc = "evaluated" /\ gate[g].quiet =>
        \A r \in gate[g].report : r.work >= gate[g].asked

(* A gate gets its verdict: no interleaving of its refresh with the         *)
(* cooldown, the polling, other gates and a computation under way makes it  *)
(* wait until its 900 s.                                                    *)
GateAnswered ==
    \A g \in Gates : gate[g].pc = "polling" ~> gate[g].pc \in {"evaluated", "failed"}
=============================================================================
