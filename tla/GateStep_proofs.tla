--------------------------- MODULE GateStep_proofs ---------------------------
(***************************************************************************)
(* Proofs about GateStep, for any number of gates, over the truth of the   *)
(* health state: types, what a verdict is on, that gates leave the health  *)
(* state what it is, and that the refresh of a gate is not lost.           *)
(***************************************************************************)
EXTENDS GateStep, CodeHealth_proofs

GatePcs == {"ready", "asking", "polling", "evaluated", "failed"}
GateType == [pc : GatePcs, base : Option(Bases), later : BOOLEAN, asked : Contents,
             quiet : BOOLEAN, report : Option(Reports)]

LEMMA GateTyping == GateTypeOK <=> gate \in [Gates -> GateType]
BY DEF GateTypeOK, GateType, GatePcs

(* The steps of gates are those of the health state, or stutter. *)
LEMMA GatesStepHealth ==
    ASSUME GateTypeOK, [GateNext]_gateVars
    PROVE  [Next]_vars
<1>1. CASE HealthSteps
    BY <1>1 DEF HealthSteps, Next, Background
<1>2. CASE GatePublish
    BY <1>2 DEF GatePublish, Next, Background
<1>3. ASSUME NEW g \in Gates, GateAsks(g) PROVE [Next]_vars
    <2>1. gate[g].base \in Option(Bases)
        BY GateTyping DEF GateType
    <2>2. \E base \in BaseChoices : Refresh(base)
        BY <1>3, <2>1 DEF GateAsks, BaseChoices
    <2> QED BY <2>2 DEF Next, Callers
<1>4. ASSUME NEW g \in Gates, GateBegin(g) \/ GateFails(g) \/ GateEvaluates(g)
      PROVE  UNCHANGED vars
    BY <1>4 DEF GateBegin, GateFails, GateEvaluates
<1> QED
    BY <1>1, <1>2, <1>3, <1>4 DEF GateNext, gateVars

-----------------------------------------------------------------------------
(* Type correctness. *)

GateTyped == Typed /\ GateTypeOK

LEMMA InitGateTyped == GateInit => GateTyped
<1> SUFFICES ASSUME GateInit PROVE GateTyped
    OBVIOUS
<1>1. 0 \in Contents /\ None \in Option(Bases) /\ None \in Option(Reports)
    BY HealthAssumption DEF Contents, Option
<1> QED
    BY <1>1, InitTyped, GateTyping DEF GateInit, GateTyped, GateType, GatePcs

LEMMA NextGateTyped == GateTyped /\ [GateNext]_gateVars => GateTyped'
<1> SUFFICES ASSUME GateTyped, [GateNext]_gateVars PROVE GateTyped'
    OBVIOUS
<1>1. Typed'
    BY GatesStepHealth, NextTyped DEF GateTyped
<1>2. gate \in [Gates -> GateType] /\ f \in FieldsType /\ tree \in Tree
    BY GateTyping, Typing DEF GateTyped, Typed
<1>3. ASSUME HealthSteps \/ UNCHANGED gateVars PROVE gate' \in [Gates -> GateType]
    BY <1>2, <1>3 DEF HealthSteps, gateVars
<1>4. ASSUME GatePublish PROVE gate' \in [Gates -> GateType]
    BY <1>2, <1>4 DEF GatePublish, GateType
<1>5. ASSUME NEW g \in Gates, GateBegin(g) PROVE gate' \in [Gates -> GateType]
    <2>1. PICK base \in GateBases :
              gate' = [gate EXCEPT ![g] = [@ EXCEPT !.pc = "asking", !.base = base,
                         !.asked = tree.work, !.quiet = pending = 0 /\ ~silent]]
        BY <1>5 DEF GateBegin
    <2>2. base \in Option(Bases) /\ tree.work \in Contents
        BY <1>2, GateAssumption DEF Tree
    <2> QED BY <1>2, <2>1, <2>2 DEF GateType, GatePcs
<1>6. ASSUME NEW g \in Gates, GateAsks(g) \/ GateFails(g) \/ GateEvaluates(g)
      PROVE  gate' \in [Gates -> GateType]
    BY <1>2, <1>6 DEF GateAsks, GateFails, GateEvaluates, GateType, GatePcs, FieldsType
<1>7. gate' \in [Gates -> GateType]
    BY <1>2, <1>3, <1>4, <1>5, <1>6 DEF GateNext
<1> QED
    BY <1>1, <1>7, GateTyping DEF GateTyped, GateTypeOK, GateType, GatePcs

(* Every gate keeps its type, with the health state it polls. *)
THEOREM GateTypeCorrect == GateSpec => []GateTypeOK
<1>1. GateTyped => GateTypeOK
    BY DEF GateTyped
<1> QED
    BY <1>1, InitGateTyped, NextGateTyped, PTL DEF GateSpec

-----------------------------------------------------------------------------
(* What a verdict is on, as long as contents do not come back and nobody    *)
(* commits.                                                                 *)

(* A gate that asked and waits over edits that were all notified. *)
Asking(g) == gate[g].pc \in {"asking", "polling"} /\ gate[g].quiet

(* Without commits a fingerprint is the content it was read from.           *)
AtRoot == tree.head = 0

(* What a fingerprint has seen, its report has seen too. *)
Covered ==
    /\ \A p \in f.lastFingerprint, r \in f.report : \A d \in p.diff : d <= r.work
    /\ task.pc = "checks" => \A p \in task.fingerprint : \A d \in p.diff : d <= task.tree.work

Enough(g) == \A r \in f.report : r.work >= gate[g].asked

(* A computation under way has the contents of t0 or comes out stale; after *)
(* a publication, what is read is not older than t0.                        *)
Waits(g) ==
    /\ gate[g].asked <= tree.work
    /\ task.pc = "checks" => task.tree.work >= gate[g].asked \/ f.dirty
    /\ gate[g].later =>
         /\ f.phase = "fresh" => Enough(g)
         /\ task.pc = "freshen" => Enough(g)
         /\ task.pc \in {"compare", "checks"} /\ gate[g].asked > 0 =>
              \A p \in task.fingerprint : \E d \in p.diff : d >= gate[g].asked

Served ==
    \A g \in Gates :
      /\ gate[g].pc = "ready" => ~gate[g].later
      /\ Asking(g) => Waits(g)

GateSound == GateTypeOK /\ Truthful /\ AtRoot /\ Covered /\ Served /\ GateSeesNotifiedEdits

LEMMA InitGateSound == GateInit => GateSound
<1> SUFFICES ASSUME GateInit PROVE GateSound
    OBVIOUS
<1>1. GateTypeOK /\ Truthful
    BY InitGateTyped, InitTruthful DEF GateTyped, GateInit
<1>2. task.pc = "start" /\ f.report = None /\ f.lastFingerprint = None
    BY DEF GateInit, Init, AtRest
<1>3. \A g \in Gates : gate[g].pc = "ready" /\ ~gate[g].later
    BY DEF GateInit
<1>4. AtRoot
    BY DEF GateInit, Init, CleanTree, AtRoot
<1> QED
    BY <1>1, <1>2, <1>3, <1>4
       DEF GateSound, Covered, Served, Asking, GateSeesNotifiedEdits, None

(* The worktree only goes forward, and its commit not at all. *)
LEMMA Forward ==
    ASSUME ~Reverts, ~Commits, Truthful, AtRoot, [Next]_vars
    PROVE  tree'.head = 0 /\ tree.work <= tree'.work /\ tree.work \in Nat /\ tree'.work \in Nat
<1>1. Typed /\ Numbered
    BY DEF Truthful, Honest
<1>2. Typed'
    BY <1>1, NextTyped
<1>3. CASE Edit
    <2>1. \/ tree' = [tree EXCEPT !.work = spent.edits + 1]
          \/ \E c \in NewContents(tree.extra) : tree' = [tree EXCEPT !.extra = c]
        BY <1>3 DEF Edit, Edited, NewContents
    <2> QED BY <1>1, <2>1, Values DEF Tree, AtRoot, Numbered
<1>4. CASE UNCHANGED tree
    BY <1>1, <1>4, Values DEF AtRoot
<1>5. Edit \/ UNCHANGED tree
    BY DEF Next, Callers, Background, Mount, NotifyModified, Refresh, Start, CalmOver,
           CalmBroken, Wake, PollTick, ReadHead, ReadDiff, ReadFails, ComparePolled,
           CompareUnchanged, MarkFresh, Compute, ChecksFail, Publish, vars
<1> QED
    BY <1>3, <1>4, <1>5

(* The steps of the health state that publish nothing, and what a gate can  *)
(* tell of them.                                                            *)
OtherStep ==
    \/ Callers \/ Reading \/ ReadFails \/ ComparePolled \/ MarkFresh \/ Compute \/ ChecksFail
    \/ UNCHANGED vars

Bystander == UNCHANGED task /\ f'.phase \in {f.phase, "stale"} /\ (f.dirty => f'.dirty)
CycleEnds ==
    /\ task'.pc \notin {"compare", "checks", "freshen"}
    /\ f'.phase = "fresh" => \/ f.phase = "fresh"
                             \/ task.pc = "freshen"
                             \/ task.pc = "checks" /\ Unchanged
Fingerprinted ==
    /\ UNCHANGED <<tree, f>>
    /\ task'.pc = "compare"
    /\ \A p \in task'.fingerprint : p.diff = {tree.work} \ {tree.head}
FoundUnchanged == UNCHANGED f /\ task.pc = "compare" /\ task'.pc = "freshen" /\ Unchanged
Computes ==
    /\ UNCHANGED tree
    /\ task.pc = "compare" /\ task'.pc = "checks"
    /\ task'.fingerprint = task.fingerprint /\ task'.tree = tree
    /\ f'.phase # "fresh"

LEMMA NoPublication ==
    ASSUME Typed, OtherStep
    PROVE  /\ f'.report = f.report /\ f'.lastFingerprint = f.lastFingerprint
           /\ (Bystander \/ CycleEnds \/ Fingerprinted \/ FoundUnchanged \/ Computes)
<1>t. f \in FieldsType /\ task \in TaskType
    BY Values
<1>a. AtRest.pc = "idle"
    BY DEF AtRest
<1>r. AtRest \in TaskType
    BY Resting
<1> DEFINE Goal == /\ f'.report = f.report /\ f'.lastFingerprint = f.lastFingerprint
                   /\ (Bystander \/ CycleEnds \/ Fingerprinted \/ FoundUnchanged \/ Computes)
<1>1. ASSUME Callers \/ UNCHANGED vars PROVE Goal
    BY <1>t, <1>1, Staleness
       DEF Callers, Mount, Edit, NotifyModified, Refresh, FieldsType, vars, Bystander
<1>2. ASSUME Start \/ Wake \/ PollTick \/ CalmOver \/ CalmBroken \/ ReadHead PROVE Goal
    <2>1. UNCHANGED f /\ task'.pc \in {"head", "idle", "calm", "diff"}
        BY <1>t, <1>a, <1>r, <1>2
           DEF Start, Wake, PollTick, CalmOver, CalmBroken, ReadHead, TaskType
    <2> QED BY <2>1 DEF CycleEnds
<1>3. ASSUME ReadDiff \/ ReadFails PROVE Goal
    <2>1. ASSUME ReadDiff PROVE Fingerprinted /\ UNCHANGED f
        BY <1>t, <2>1 DEF ReadDiff, Fingerprinted, TaskType
    <2>2. ASSUME ReadFails PROVE Fingerprinted /\ UNCHANGED f
        BY <1>t, <2>2 DEF ReadFails, Fingerprinted, TaskType, None
    <2> QED BY <1>3, <2>1, <2>2
<1>4. ASSUME ComparePolled PROVE Goal
    <2>1. task'.pc \in {"idle", "calm"} /\ (f' = f \/ f' = Stale(f))
        BY <1>t, <1>a, <1>r, <1>4 DEF ComparePolled, TaskType
    <2> QED BY <1>t, <2>1, Staleness DEF CycleEnds
<1>5. ASSUME CompareUnchanged PROVE Goal
    BY <1>r, <1>5 DEF CompareUnchanged, FoundUnchanged, TaskType
<1>6. ASSUME MarkFresh PROVE Goal
    BY <1>t, <1>a, <1>6 DEF MarkFresh, CycleEnds, FieldsType
<1>7. ASSUME Compute PROVE Goal
    <2>1. Computes
        BY <1>t, <1>7 DEF Compute, Computes, TaskType, FieldsType
    <2> QED BY <1>t, <1>7, <2>1 DEF Compute, FieldsType
<1>8. ASSUME ChecksFail PROVE Goal
    <2>1. task.pc = "checks" /\ task'.pc = "idle"
        BY <1>a, <1>8 DEF ChecksFail
    <2>2. /\ f'.report = f.report /\ f'.lastFingerprint = f.lastFingerprint
          /\ f'.phase = "fresh" => Unchanged
        BY <1>t, <1>8, Staleness DEF ChecksFail, FieldsType
    <2> QED BY <2>1, <2>2 DEF CycleEnds
<1> HIDE DEF Goal
<1>9. Goal
    BY <1>1, <1>2, <1>3, <1>4, <1>5, <1>6, <1>7, <1>8 DEF OtherStep, Reading
<1> QED
    BY <1>9 DEF Goal

(* A publication, with the report of the checks. *)
LEMMA Publication ==
    ASSUME Typed, Publish
    PROVE  /\ task.pc = "checks" /\ task'.pc = "idle" /\ UNCHANGED tree
           /\ f'.lastFingerprint = task.fingerprint
           /\ f'.phase = IF f.dirty THEN "stale" ELSE "fresh"
           /\ \A r \in f'.report : r.work \in {task.tree.work, tree.work}
<1>1. PICK report \in Measured :
          f' = [f EXCEPT !.report = {report}, !.lastFingerprint = task.fingerprint,
                         !.computing = FALSE,
                         !.phase = IF f.dirty THEN "stale" ELSE "fresh",
                         !.staleSince = @ /\ f.dirty]
    BY DEF Publish
<1>2. f \in FieldsType
    BY Values
<1>3. /\ f'.phase = IF f.dirty THEN "stale" ELSE "fresh"
      /\ f'.report = {report} /\ f'.lastFingerprint = task.fingerprint
    BY <1>1, <1>2 DEF FieldsType
<1>4. report.work \in {task.tree.work, tree.work}
    BY DEF Measured
<1> QED
    BY <1>3, <1>4 DEF Publish, AtRest

(* The contents of a report are numbers. *)
LEMMA ReportValues ==
    ASSUME Typed
    PROVE  \A r \in f.report : r.work \in Nat
<1>1. f.report \subseteq Reports
    BY Values DEF FieldsType, Option, None
<1>2. Contents \subseteq Nat
    BY HealthAssumption DEF Contents
<1> QED
    BY <1>1, <1>2 DEF Reports

LEMMA NextCovered ==
    ASSUME Truthful, Covered, OtherStep \/ Publish
    PROVE  Covered'
<1>1. Typed /\ Numbered
    BY DEF Truthful, Honest
<1>2. CASE Publish
    <2>1. \A p \in task.fingerprint : \A d \in p.diff :
              d \in Nat /\ d <= tree.work /\ d <= task.tree.work
        BY <1>1, <1>2, Publication, Values DEF Numbered, Past, Covered
    <2> QED BY <1>1, <1>2, <2>1, Publication, Values DEF Covered
<1>3. CASE UNCHANGED task /\ f'.report = f.report /\ f'.lastFingerprint = f.lastFingerprint
    BY <1>3 DEF Covered
<1>4. CASE /\ task'.pc # "checks"
           /\ f'.report = f.report /\ f'.lastFingerprint = f.lastFingerprint
    BY <1>4 DEF Covered
<1>5. CASE Computes /\ f'.report = f.report /\ f'.lastFingerprint = f.lastFingerprint
    BY <1>1, <1>5 DEF Computes, Covered, Numbered, Past
<1> QED
    BY <1>1, <1>2, <1>3, <1>4, <1>5, NoPublication
       DEF Bystander, CycleEnds, Fingerprinted, FoundUnchanged

(* What a gate waits for is not lost in a step that is no publication... *)
LEMMA StillWaits ==
    ASSUME ~Reverts, ~Commits, Truthful, AtRoot, Covered, GateTypeOK,
           NEW g \in Gates, Waits(g), OtherStep,
           gate'[g].asked = gate[g].asked, gate'[g].later = gate[g].later
    PROVE  Waits(g)'
<1>1. Typed /\ Honest /\ Numbered
    BY DEF Truthful, Honest
<1>2. gate[g].asked \in Nat
    BY GateTyping, HealthAssumption DEF GateType, Contents
<1>3. tree.head = 0 /\ tree.work <= tree'.work /\ tree.work \in Nat /\ tree'.work \in Nat
    BY Forward DEF AtRoot, OtherStep, Reading, Next, Background
<1>4. gate'[g].asked <= tree'.work
    BY <1>2, <1>3 DEF Waits
<1>5. /\ f'.report = f.report /\ f'.lastFingerprint = f.lastFingerprint
      /\ (Bystander \/ CycleEnds \/ Fingerprinted \/ FoundUnchanged \/ Computes)
    BY <1>1, NoPublication
<1>6. Enough(g)' <=> Enough(g)
    BY <1>5 DEF Enough
(* An unchanged fingerprint that has the contents of t0 speaks for the      *)
(* report.                                                                  *)
<1>7. ASSUME gate[g].later, task.pc \in {"compare", "checks"}, Unchanged PROVE Enough(g)
    <2>1. CASE gate[g].asked = 0
        BY <1>1, <2>1, ReportValues DEF Enough
    <2>2. CASE gate[g].asked > 0
        <3>1. PICK p \in task.fingerprint : TRUE
            BY <1>7 DEF Unchanged, None
        <3>2. PICK d \in p.diff : d >= gate[g].asked
            BY <1>7, <2>2, <3>1 DEF Waits
        <3>3. p \in f.lastFingerprint /\ d \in Nat
            BY <1>1, <1>7, <3>1, Values DEF Unchanged
        <3> QED BY <1>1, <1>2, <3>2, <3>3, ReportValues DEF Covered, Enough
    <2> QED BY <1>2, <2>1, <2>2
<1>8. CASE Bystander
    BY <1>4, <1>6, <1>8 DEF Bystander, Waits
<1>9. CASE CycleEnds
    BY <1>4, <1>6, <1>7, <1>9 DEF CycleEnds, Waits
<1>10. CASE Fingerprinted
    <2>1. ASSUME gate[g].asked > 0, NEW p \in task'.fingerprint
          PROVE  \E d \in p.diff : d >= gate[g].asked
        BY <1>2, <1>3, <1>10, <2>1 DEF Fingerprinted, Waits
    <2> QED BY <1>4, <1>6, <1>10, <2>1 DEF Fingerprinted, Waits
<1>11. CASE FoundUnchanged
    BY <1>4, <1>6, <1>7, <1>11 DEF FoundUnchanged, Waits
<1>12. CASE Computes
    <2>1. task'.tree.work >= gate[g].asked
        BY <1>2, <1>3, <1>12 DEF Computes, Waits
    <2> QED BY <1>4, <1>12, <2>1 DEF Computes, Waits
<1> QED
    BY <1>5, <1>8, <1>9, <1>10, <1>11, <1>12

(* ... and a publication brings it, or comes out stale. *)
LEMMA PublicationServes ==
    ASSUME Truthful, GateTypeOK, NEW g \in Gates, Waits(g), Publish,
           gate'[g].asked = gate[g].asked
    PROVE  Waits(g)'
<1>1. Typed
    BY DEF Truthful, Honest
<1>2. gate[g].asked \in Nat
    BY GateTyping, HealthAssumption DEF GateType, Contents
<1>3. /\ task.pc = "checks" /\ task'.pc = "idle" /\ UNCHANGED tree
      /\ f'.phase = IF f.dirty THEN "stale" ELSE "fresh"
      /\ \A r \in f'.report : r.work \in {task.tree.work, tree.work}
    BY <1>1, Publication
<1>4. f'.phase = "fresh" => Enough(g)'
    BY <1>1, <1>2, <1>3, Values DEF Waits, Enough
<1> QED
    BY <1>3, <1>4 DEF Waits


LEMMA NextGateSound == ~Reverts /\ ~Commits /\ GateSound /\ [GateNext]_gateVars => GateSound'
<1> SUFFICES ASSUME ~Reverts, ~Commits, GateSound, [GateNext]_gateVars PROVE GateSound'
    OBVIOUS
<1>1. /\ GateTypeOK /\ Truthful /\ AtRoot /\ Covered /\ Served /\ GateSeesNotifiedEdits
      /\ Typed /\ Honest /\ Current
    BY DEF GateSound, Truthful, Honest
<1>2. [Next]_vars /\ (OtherStep \/ Publish)
    BY <1>1, GatesStepHealth DEF Next, Background, OtherStep, Reading
<1>3. GateTypeOK' /\ Typed'
    BY <1>1, NextGateTyped DEF GateTyped
<1>4. Truthful' /\ AtRoot' /\ Covered'
    BY <1>1, <1>2, NextTruthful, Forward, NextCovered DEF AtRoot
<1>t. gate \in [Gates -> GateType] /\ f \in FieldsType
    BY <1>1, GateTyping, Values
<1>g. ASSUME Served', GateSeesNotifiedEdits' PROVE GateSound'
    BY <1>3, <1>4, <1>g DEF GateSound
(* A gate that a step of the health state leaves alone. *)
<1>5. ASSUME NEW g \in Gates, gate'[g] = gate[g], OtherStep
      PROVE  /\ gate'[g].pc = "ready" => ~gate'[g].later
             /\ Asking(g)' => Waits(g)'
    <2>1. Asking(g)' => Asking(g)
        BY <1>5 DEF Asking
    <2> QED BY <1>1, <1>5, <2>1, StillWaits DEF Served
<1>6. CASE HealthSteps \/ UNCHANGED gateVars
    <2>1. UNCHANGED gate
        BY <1>6 DEF HealthSteps, gateVars
    <2>2. OtherStep
        BY <1>6 DEF HealthSteps, gateVars, OtherStep, Reading
    <2>3. GateSeesNotifiedEdits'
        BY <1>1, <2>1 DEF GateSeesNotifiedEdits
    <2>4. Served'
        BY <1>5, <2>1, <2>2 DEF Served
    <2> QED BY <2>3, <2>4, <1>g
<1>7. CASE GatePublish
    <2>1. Publish /\ gate' = [g \in Gates |-> [gate[g] EXCEPT !.later = gate[g].pc # "ready"]]
        BY <1>7 DEF GatePublish
    <2>2. ASSUME NEW g \in Gates
          PROVE  /\ gate'[g].pc = gate[g].pc /\ gate'[g].quiet = gate[g].quiet
                 /\ gate'[g].asked = gate[g].asked /\ gate'[g].report = gate[g].report
                 /\ gate'[g].later = (gate[g].pc # "ready")
        BY <1>t, <2>1 DEF GateType
    <2>3. GateSeesNotifiedEdits'
        BY <1>1, <2>2 DEF GateSeesNotifiedEdits
    <2>4. ASSUME NEW g \in Gates, Asking(g)' PROVE Waits(g)'
        <3>1. Asking(g)
            BY <2>2, <2>4 DEF Asking
        <3>2. Waits(g)
            BY <1>1, <3>1 DEF Served
        <3>3. gate'[g].asked = gate[g].asked
            BY <2>2
        <3> QED BY <1>1, <2>1, <3>2, <3>3, PublicationServes
    <2>5. Served'
        BY <2>2, <2>4 DEF Served
    <2> QED BY <2>3, <2>5, <1>g
<1>8. ASSUME NEW g \in Gates, GateBegin(g) PROVE GateSound'
    <2>1. PICK base \in GateBases :
              gate' = [gate EXCEPT ![g] = [@ EXCEPT !.pc = "asking", !.base = base,
                         !.asked = tree.work, !.quiet = pending = 0 /\ ~silent]]
        BY <1>8 DEF GateBegin
    <2>2. /\ gate[g].pc = "ready" /\ UNCHANGED vars
          /\ gate'[g].pc = "asking" /\ gate'[g].asked = tree.work
          /\ gate'[g].quiet = (pending = 0 /\ ~silent)
          /\ gate'[g].later = gate[g].later
          /\ \A h \in Gates \ {g} : gate'[h] = gate[h]
        BY <1>t, <1>8, <2>1 DEF GateBegin, GateType
    <2>3. GateSeesNotifiedEdits'
        BY <1>1, <2>2 DEF GateSeesNotifiedEdits
    <2>4. ~gate'[g].later
        BY <1>1, <2>2 DEF Served
    <2>5. ASSUME gate'[g].quiet PROVE Waits(g)'
        <3>1. pending = 0 /\ ~silent
            BY <2>2, <2>5
        <3>2. task.pc = "checks" => task.tree.work = tree.work \/ f.dirty
            BY <1>1, <3>1 DEF Current
        <3>3. tree.work \in Nat
            BY <1>1, Values
        <3> QED BY <2>2, <2>4, <3>2, <3>3 DEF Waits, vars
    <2>6. OtherStep
        BY <2>2 DEF OtherStep
    <2>7. Served'
        BY <1>5, <2>2, <2>5, <2>6 DEF Served, Asking
    <2> QED BY <2>3, <2>7, <1>g
<1>9. ASSUME NEW g \in Gates, GateAsks(g) PROVE GateSound'
    <2>1. /\ gate[g].pc = "asking" /\ gate'[g] = [gate[g] EXCEPT !.pc = "polling"]
          /\ \A h \in Gates \ {g} : gate'[h] = gate[h]
        BY <1>t, <1>9 DEF GateAsks
    <2>2. OtherStep
        <3>1. gate[g].base \in Option(Bases)
            BY <1>t DEF GateType
        <3>2. \E base \in BaseChoices : Refresh(base)
            BY <1>9, <3>1 DEF GateAsks, BaseChoices
        <3> QED BY <3>2 DEF OtherStep, Callers
    <2>3. /\ gate'[g].pc = "polling" /\ gate'[g].quiet = gate[g].quiet
          /\ gate'[g].asked = gate[g].asked /\ gate'[g].later = gate[g].later
        BY <1>t, <2>1 DEF GateType
    <2>4. GateSeesNotifiedEdits'
        BY <1>1, <2>1, <2>3 DEF GateSeesNotifiedEdits
    <2>5. ASSUME gate'[g].quiet PROVE Waits(g)'
        <3>1. Waits(g)
            BY <1>1, <2>1, <2>3, <2>5 DEF Served, Asking
        <3> QED BY <1>1, <2>2, <2>3, <3>1, StillWaits
    <2>6. Served'
        BY <1>5, <2>1, <2>2, <2>3, <2>5 DEF Served, Asking
    <2> QED BY <2>4, <2>6, <1>g
<1>10. ASSUME NEW g \in Gates, GateFails(g) \/ GateEvaluates(g) PROVE GateSound'
    <2>1. /\ UNCHANGED vars /\ gate'[g].pc \in {"evaluated", "failed"}
          /\ gate'[g].quiet = gate[g].quiet /\ gate'[g].asked = gate[g].asked
          /\ \A h \in Gates \ {g} : gate'[h] = gate[h]
        BY <1>t, <1>10 DEF GateFails, GateEvaluates, GateType
    <2>2. ASSUME gate'[g].pc = "evaluated", gate'[g].quiet
          PROVE  \A r \in gate'[g].report : r.work >= gate'[g].asked
        <3>1. GateEvaluates(g)
            <4>1. ~GateFails(g)
                BY <1>t, <2>2 DEF GateFails, GateType
            <4> QED BY <1>10, <4>1
        <3>2. /\ gate[g].pc = "polling" /\ f.phase = "fresh" /\ gate[g].later
              /\ gate'[g].report = f.report
            BY <1>t, <3>1 DEF GateEvaluates, GateType
        <3>3. Enough(g)
            BY <1>1, <2>1, <2>2, <3>2 DEF Served, Asking, Waits
        <3> QED BY <2>1, <3>2, <3>3 DEF Enough
    <2>3. GateSeesNotifiedEdits'
        BY <1>1, <2>1, <2>2 DEF GateSeesNotifiedEdits
    <2>4. OtherStep
        BY <2>1 DEF OtherStep
    <2>5. Served'
        BY <1>5, <2>1, <2>4 DEF Served, Asking
    <2> QED BY <2>3, <2>5, <1>g
<1> QED
    BY <1>6, <1>7, <1>8, <1>9, <1>10 DEF GateNext

(* A gate asked over a worktree whose edits were all notified evaluates a   *)
(* report on files no older than those of its request, for any number of    *)
(* gates, edits, refreshes and failures: when contents do not come back,    *)
(* and with no commit to fall between the two commands of a fingerprint.    *)
THEOREM GatesSeeEdits ==
    ASSUME ~Reverts, ~Commits
    PROVE  GateSpec => []GateSeesNotifiedEdits
<1>1. GateSound /\ [GateNext]_gateVars => GateSound'
    BY NextGateSound
<1>2. GateSound => GateSeesNotifiedEdits
    BY DEF GateSound
<1> QED
    BY <1>1, <1>2, InitGateSound, PTL DEF GateSpec
-----------------------------------------------------------------------------
(* The gates are nothing to the sandbox but callers that ask for refreshes: *)
(* whatever is proved of CodeHealth alone holds with them.                  *)
THEOREM GatesKeepHealth == GateSpec => Spec
<1>1. GateInit => Init
    BY DEF GateInit
<1>2. GateTyped /\ [GateNext]_gateVars => [Next]_vars
    BY GatesStepHealth DEF GateTyped
<1> QED
    BY <1>1, <1>2, InitGateTyped, NextGateTyped, PTL DEF GateSpec, Spec
-----------------------------------------------------------------------------
(* The request of a gate is not lost.  A gate that polls and has not had    *)
(* its publication has a refresh in the channel, a cycle that a refresh     *)
(* forced, or a computation under way, which will be later than its t0.     *)

Forced == task.pc \in {"head", "diff", "compare"} /\ task.why = "refresh"
RefreshQueued == \E i \in DOMAIN queue : queue[i] = "Refresh"
Refreshing == RefreshQueued \/ Forced \/ task.pc = "checks"

RequestStands ==
    spent.failures = 0 =>
        \A g \in Gates : gate[g].pc = "polling" /\ ~gate[g].later => Refreshing

LEMMA RefreshStaysQueued ==
    ASSUME queue \in Seq(Events), NEW e \in Events, queue' = Append(queue, e)
    PROVE  /\ RefreshQueued => RefreshQueued'
           /\ e = "Refresh" => RefreshQueued'
<1>1. /\ Len(queue') = Len(queue) + 1
      /\ queue'[Len(queue) + 1] = e
      /\ \A i \in DOMAIN queue : i \in DOMAIN queue' /\ queue'[i] = queue[i]
      /\ Len(queue) + 1 \in DOMAIN queue'
    OBVIOUS
<1> QED BY <1>1 DEF RefreshQueued

LEMMA RefreshTakenOrQueued ==
    ASSUME queue \in Seq(Events), queue # <<>>, queue' = Tail(queue), RefreshQueued
    PROVE  Head(queue) = "Refresh" \/ RefreshQueued'
<1>1. PICK i \in 1..Len(queue) : queue[i] = "Refresh"
    BY DEF RefreshQueued
<1>2. CASE i = 1
    BY <1>1, <1>2
<1>3. CASE i # 1
    <2>1. i - 1 \in DOMAIN queue' /\ queue'[i - 1] = queue[i]
        BY <1>1, <1>3
    <2> QED BY <1>1, <2>1 DEF RefreshQueued
<1> QED BY <1>2, <1>3

(* Only a publication or a failure ends it. *)
LEMMA RefreshGoesOn ==
    ASSUME Typed, OtherStep, Refreshing, spent'.failures = 0
    PROVE  Refreshing'
<1>t. task \in TaskType /\ queue \in Seq(Events) /\ spent \in SpentType
    BY Values, Typing DEF Typed
<1>1. CASE Callers
    <2>1. CASE Mount \/ Edit
        BY <2>1 DEF Mount, Edit, Refreshing, RefreshQueued, Forced
    <2>2. CASE NotifyModified \/ \E base \in BaseChoices : Refresh(base)
        <3>1. UNCHANGED task /\ \E e \in Events : queue' = Append(queue, e)
            BY <2>2 DEF NotifyModified, Refresh, Events
        <3> QED BY <1>t, <3>1, RefreshStaysQueued DEF Refreshing, Forced
    <2> QED BY <1>1, <2>1, <2>2 DEF Callers
<1>2. CASE Wake \/ CalmBroken
    <2>1. /\ task.pc \in {"idle", "calm"}
          /\ queue # <<>> /\ queue' = Tail(queue)
          /\ Head(queue) = "Refresh" => task'.pc = "head" /\ task'.why = "refresh"
        BY <1>2, <1>t DEF Wake, CalmBroken, TaskType
    <2>2. RefreshQueued
        BY <2>1 DEF Refreshing, Forced
    <2> QED BY <1>t, <2>1, <2>2, RefreshTakenOrQueued DEF Refreshing, Forced
<1>3. CASE Start \/ PollTick \/ CalmOver \/ CompareUnchanged \/ ComparePolled \/ MarkFresh
    <2>1. UNCHANGED queue /\ ~Forced /\ task.pc # "checks"
        BY <1>3 DEF Start, PollTick, CalmOver, CompareUnchanged, ComparePolled, MarkFresh, Forced
    <2> QED BY <2>1 DEF Refreshing, RefreshQueued
<1>4. CASE ReadHead \/ ReadDiff \/ ReadFails
    <2>1. /\ UNCHANGED queue /\ task'.why = task.why
          /\ task.pc \in {"head", "diff"} /\ task'.pc \in {"diff", "compare"}
        BY <1>4, <1>t DEF ReadHead, ReadDiff, ReadFails, TaskType
    <2> QED BY <2>1 DEF Refreshing, RefreshQueued, Forced
<1>5. CASE Compute
    <2>1. task'.pc = "checks"
        BY <1>5, <1>t DEF Compute, TaskType
    <2> QED BY <2>1 DEF Refreshing
<1>6. CASE ChecksFail
    <2>1. spent'.failures # 0
        BY <1>6, <1>t DEF ChecksFail, SpentType
    <2> QED BY <2>1
<1>7. CASE UNCHANGED vars
    BY <1>7 DEF vars, Refreshing, RefreshQueued, Forced
<1> QED BY <1>1, <1>2, <1>3, <1>4, <1>5, <1>6, <1>7 DEF OtherStep, Reading

LEMMA NextStanding == GateTyped /\ RequestStands /\ [GateNext]_gateVars => RequestStands'
<1> SUFFICES ASSUME GateTyped, RequestStands, [GateNext]_gateVars, spent'.failures = 0,
                    NEW g \in Gates, gate'[g].pc = "polling", ~gate'[g].later
             PROVE  Refreshing'
    BY DEF RequestStands
<1>t. /\ gate \in [Gates -> GateType] /\ Typed /\ queue \in Seq(Events)
      /\ spent \in SpentType
    BY GateTyping, Typing DEF GateTyped, Typed
<1>1. spent.failures = 0
    <2>1. spent'.failures = spent.failures \/ spent'.failures = spent.failures + 1
        BY <1>t DEF GateNext, gateVars, vars, HealthSteps, GatePublish, GateBegin, GateAsks,
           GateFails, GateEvaluates, Callers, Mount, Edit, NotifyModified, Refresh, Start,
           CalmOver, CalmBroken, Wake, PollTick, ReadHead, ReadDiff, ReadFails, ComparePolled,
           CompareUnchanged, MarkFresh, Compute, ChecksFail, Publish, SpentType
    <2> QED BY <2>1, <1>t DEF SpentType
<1>2. ASSUME gate[g].pc = "polling" /\ ~gate[g].later, OtherStep PROVE Refreshing'
    BY <1>1, <1>2, <1>t, RefreshGoesOn DEF RequestStands
<1>3. CASE HealthSteps \/ UNCHANGED gateVars
    <2>1. UNCHANGED gate /\ OtherStep
        BY <1>3 DEF HealthSteps, gateVars, OtherStep, Reading
    <2> QED BY <1>2, <2>1
<1>4. CASE GatePublish
    BY <1>4, <1>t DEF GatePublish, GateType
<1>5. ASSUME NEW h \in Gates, GateBegin(h) \/ GateFails(h) \/ GateEvaluates(h)
      PROVE  Refreshing'
    <2>1. h # g => gate'[g] = gate[g]
        BY <1>5, <1>t DEF GateBegin, GateFails, GateEvaluates
    <2>2. gate'[h].pc # "polling"
        BY <1>5, <1>t DEF GateBegin, GateFails, GateEvaluates, GateType
    <2>3. OtherStep
        BY <1>5 DEF GateBegin, GateFails, GateEvaluates, OtherStep
    <2> QED BY <1>2, <2>1, <2>2, <2>3
<1>6. ASSUME NEW h \in Gates, GateAsks(h) PROVE Refreshing'
    <2>1. queue' = Append(queue, "Refresh")
        BY <1>6 DEF GateAsks, Refresh
    <2> QED BY <1>t, <2>1, RefreshStaysQueued DEF Refreshing, Events
<1> QED BY <1>3, <1>4, <1>5, <1>6 DEF GateNext

(* Until something fails a gate that polls is owed a publication, however   *)
(* its refresh meets the cooldown, the polling, the other gates and a       *)
(* computation under way: what is left of GateAnswered is that the task     *)
(* goes on.                                                                 *)
THEOREM GateRequestsStand == GateSpec => []RequestStands
<1>1. GateInit => RequestStands
    BY DEF GateInit, RequestStands
<1> QED
    BY <1>1, InitGateTyped, NextGateTyped, NextStanding, PTL DEF GateSpec
=============================================================================
