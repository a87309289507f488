------------------------- MODULE CodeHealth_proofs -------------------------
(***************************************************************************)
(* Proofs about CodeHealth, for every bound and every set of bases: type   *)
(* correctness, the honesty of the phase, the truth of a fresh report and, *)
(* as long as nothing failed, that a stale state is on its way out.        *)
(***************************************************************************)
EXTENDS CodeHealth, TLAPS

-----------------------------------------------------------------------------
(* Type correctness. *)

FieldsType == [phase : {"computing", "fresh", "stale"}, report : Option(Reports),
               staleSince : BOOLEAN, base : Option(Bases),
               lastFingerprint : Option(Fingerprints), computing : BOOLEAN, dirty : BOOLEAN]
TaskType == [pc : {"start", "idle", "head", "diff", "compare", "freshen", "calm", "checks"},
             why : {"poll", "modified", "refresh"}, head : Contents,
             fingerprint : Option(Fingerprints), tree : Tree, base : Option(Bases)]
SpentType == [edits : 0..MaxEdits, refreshes : 0..MaxRefreshes, failures : 0..MaxFailures]

LEMMA Typing ==
    TypeOK <=> /\ mounted \in BOOLEAN /\ silent \in BOOLEAN
               /\ tree \in Tree
               /\ pending \in 0..MaxEdits
               /\ f \in FieldsType
               /\ queue \in Seq(Events)
               /\ task \in TaskType
               /\ spent \in SpentType
BY DEF TypeOK, FieldsType, TaskType, SpentType

LEMMA Resting == AtRest \in TaskType /\ CleanTree \in Tree
BY HealthAssumption DEF AtRest, CleanTree, TaskType, Tree, Contents, Option, None

LEMMA Staleness ==
    ASSUME f \in FieldsType
    PROVE  /\ Stale(f) \in FieldsType
           /\ Stale(f).phase = "stale" /\ Stale(f).staleSince
           /\ Stale(f).report = f.report /\ Stale(f).lastFingerprint = f.lastFingerprint
           /\ Stale(f).computing = f.computing /\ Stale(f).dirty = f.dirty
BY DEF Stale, FieldsType

(* What is inductive: the types, with no more notifications owed than edits *)
(* made.                                                                    *)
Typed == TypeOK /\ pending <= spent.edits

LEMMA InitTyped == Init => Typed
<1> SUFFICES ASSUME Init PROVE Typed
    OBVIOUS
<1>1. f \in FieldsType
    BY HealthAssumption DEF Init, FieldsType, Option, None
<1>2. task \in TaskType /\ tree \in Tree
    BY Resting DEF Init, TaskType
<1>3. /\ pending \in 0..MaxEdits /\ pending <= spent.edits
      /\ spent \in SpentType
      /\ queue \in Seq(Events)
    BY HealthAssumption DEF Init, SpentType
<1> QED
    BY <1>1, <1>2, <1>3, Typing DEF Init, Typed

LEMMA EditTyped == Typed /\ Edit => Typed'
<1> SUFFICES ASSUME Typed, Edit PROVE Typed'
    OBVIOUS
<1>t. /\ tree \in Tree /\ spent \in SpentType /\ pending \in Nat /\ pending <= spent.edits
    BY Typing DEF Typed
<1>1. /\ spent' = [spent EXCEPT !.edits = spent.edits + 1]
      /\ spent.edits \in Nat /\ spent.edits + 1 <= MaxEdits
      /\ spent' \in SpentType /\ spent'.edits = spent.edits + 1
    BY <1>t, HealthAssumption DEF Edit, SpentType
<1>2. ASSUME NEW c \in Contents PROVE NewContents(c) \subseteq Contents
    BY <1>1, HealthAssumption DEF NewContents, Contents
<1>3. tree' \in Tree
    <2>1. tree.head \in Contents /\ tree.work \in Contents /\ tree.extra \in Contents
        BY <1>t DEF Tree
    <2>2. NewContents(tree.work) \subseteq Contents /\ NewContents(tree.extra) \subseteq Contents
        BY <2>1, <1>2
    <2> QED BY <1>t, <2>1, <2>2 DEF Edit, Edited, Tree
<1>4. pending' \in 0..MaxEdits /\ pending' <= spent'.edits
    <2>1. MaxEdits \in Nat /\ (pending' = pending \/ pending' = pending + 1)
        BY HealthAssumption DEF Edit
    <2> QED BY <1>t, <1>1, <2>1
<1>5. silent' \in BOOLEAN
    BY DEF Edit, Typed, TypeOK
<1> QED
    BY <1>1, <1>3, <1>4, <1>5, Typing DEF Edit, Typed, TypeOK, FieldsType, TaskType, SpentType

LEMMA CallersTyped == Typed /\ Callers => Typed'
<1> SUFFICES ASSUME Typed, Callers PROVE Typed'
    OBVIOUS
<1>t. f \in FieldsType /\ queue \in Seq(Events) /\ spent \in SpentType
      /\ pending \in Nat /\ pending <= spent.edits
      /\ spent.edits \in Nat /\ spent.edits <= MaxEdits /\ MaxEdits \in Nat
    BY HealthAssumption, Typing DEF Typed, SpentType
<1>1. CASE Mount
    BY <1>1 DEF Mount, Typed, TypeOK
<1>2. CASE NotifyModified
    <2>1. f' \in FieldsType
        BY <1>t, <1>2, Staleness DEF NotifyModified, FieldsType
    <2>2. queue' \in Seq(Events)
        BY <1>t, <1>2 DEF NotifyModified, Events
    <2>3. pending' \in 0..MaxEdits /\ pending' <= spent'.edits
        BY <1>t, <1>2 DEF NotifyModified
    <2> QED BY <1>2, <2>1, <2>2, <2>3, Typing DEF NotifyModified, Typed, TypeOK, FieldsType
<1>3. ASSUME NEW base \in BaseChoices, Refresh(base) PROVE Typed'
    <2>1. base \in Option(Bases)
        BY <1>t DEF BaseChoices, FieldsType
    <2>2. f' \in FieldsType
        BY <1>t, <1>3, <2>1 DEF Refresh, FieldsType
    <2>3. queue' \in Seq(Events)
        BY <1>t, <1>3 DEF Refresh, Events
    <2>4. spent' \in SpentType /\ spent'.edits = spent.edits
        BY <1>t, <1>3, HealthAssumption DEF Refresh, SpentType
    <2> QED
        BY <1>3, <2>2, <2>3, <2>4, Typing
           DEF Refresh, Typed, TypeOK, FieldsType, SpentType
<1> QED
    BY <1>1, <1>2, <1>3, EditTyped DEF Callers

(* The steps of the task that read the worktree and compare. *)
Reading ==
    \/ Start \/ Wake \/ PollTick \/ CalmOver \/ CalmBroken
    \/ ReadHead \/ ReadDiff \/ CompareUnchanged

LEMMA ReadingTyped == Typed /\ Reading => Typed'
<1> SUFFICES ASSUME Typed, Reading PROVE Typed'
    OBVIOUS
<1>t. task \in TaskType /\ tree \in Tree /\ queue \in Seq(Events)
    BY Typing DEF Typed
<1>1. task' \in TaskType
    <2>1. CASE Start \/ Wake \/ PollTick
        BY <1>t, <2>1, Resting DEF Start, Wake, PollTick, TaskType
    <2>2. CASE CalmOver \/ CalmBroken \/ CompareUnchanged
        BY <1>t, <2>2, Resting DEF CalmOver, CalmBroken, CompareUnchanged, TaskType
    <2>3. CASE ReadHead
        BY <1>t, <2>3 DEF ReadHead, TaskType, Tree
    <2>4. CASE ReadDiff
        <3>1. [head |-> task.head, diff |-> {tree.work} \ {tree.head}] \in Fingerprints
            BY <1>t DEF Fingerprints, Option, None, TaskType, Tree
        <3>2. 0 \in Contents
            BY HealthAssumption DEF Contents
        <3> QED BY <1>t, <2>4, <3>1, <3>2 DEF ReadDiff, TaskType, Option
    <2> QED BY <2>1, <2>2, <2>3, <2>4 DEF Reading
<1>2. queue' \in Seq(Events)
    BY <1>t DEF Reading, Start, Wake, PollTick, CalmOver, CalmBroken, ReadHead, ReadDiff,
                CompareUnchanged
<1>3. UNCHANGED <<mounted, tree, pending, silent, f, spent>>
    BY DEF Reading, Start, Wake, PollTick, CalmOver, CalmBroken, ReadHead, ReadDiff,
           CompareUnchanged
<1> QED
    BY <1>1, <1>2, <1>3 DEF Typed, TypeOK, TaskType

(* The steps of the task that write the fields or fail. *)
Writing == ReadFails \/ ComparePolled \/ MarkFresh \/ Compute \/ Publish \/ ChecksFail

LEMMA WritingTyped == Typed /\ Writing => Typed'
<1> SUFFICES ASSUME Typed, Writing PROVE Typed'
    OBVIOUS
<1>t. task \in TaskType /\ tree \in Tree /\ f \in FieldsType /\ spent \in SpentType
    BY Typing DEF Typed
<1>1. CASE ReadFails
    <2>1. task' \in TaskType
        <3>1. 0 \in Contents /\ None \in Option(Fingerprints)
            BY HealthAssumption DEF Contents, Option
        <3> QED BY <1>t, <1>1, <3>1 DEF ReadFails, TaskType
    <2>2. spent' \in SpentType /\ spent'.edits = spent.edits
        BY <1>t, <1>1, HealthAssumption, Typing DEF ReadFails, SpentType, Typed
    <2> QED BY <1>1, <2>1, <2>2 DEF ReadFails, Typed, TypeOK, TaskType, SpentType
<1>2. CASE ComparePolled
    <2>1. task' \in TaskType /\ f' \in FieldsType
        BY <1>t, <1>2, Resting, Staleness DEF ComparePolled, TaskType
    <2> QED BY <1>2, <2>1 DEF ComparePolled, Typed, TypeOK, TaskType, FieldsType
<1>3. CASE MarkFresh
    <2>1. task' \in TaskType /\ f' \in FieldsType
        BY <1>t, <1>3, Resting DEF MarkFresh, FieldsType
    <2> QED BY <1>3, <2>1 DEF MarkFresh, Typed, TypeOK, TaskType, FieldsType
<1>4. CASE Compute
    <2>1. task' \in TaskType /\ f' \in FieldsType
        BY <1>t, <1>4 DEF Compute, FieldsType, TaskType
    <2> QED BY <1>4, <2>1 DEF Compute, Typed, TypeOK, TaskType, FieldsType
<1>5. CASE Publish
    <2>1. Measured \subseteq Reports
        BY <1>t DEF Measured, Reports, TaskType, Tree
    <2>2. PICK report \in Measured :
              f' = [f EXCEPT !.report = {report}, !.lastFingerprint = task.fingerprint,
                             !.computing = FALSE,
                             !.phase = IF f.dirty THEN "stale" ELSE "fresh",
                             !.staleSince = @ /\ f.dirty]
        BY <1>5 DEF Publish
    <2>3. {report} \in Option(Reports) /\ task.fingerprint \in Option(Fingerprints)
        BY <1>t, <2>1 DEF Option, TaskType
    <2>4. task' \in TaskType /\ f' \in FieldsType
        BY <1>t, <1>5, <2>2, <2>3, Resting DEF Publish, FieldsType
    <2> QED BY <1>5, <2>4 DEF Publish, Typed, TypeOK, TaskType, FieldsType
<1>6. CASE ChecksFail
    <2>1. f' \in FieldsType
        BY <1>t, <1>6, Staleness DEF ChecksFail, FieldsType
    <2>2. spent' \in SpentType /\ spent'.edits = spent.edits
        BY <1>t, <1>6, HealthAssumption, Typing DEF ChecksFail, SpentType, Typed
    <2>3. task' \in TaskType
        BY <1>6, Resting DEF ChecksFail
    <2> QED BY <1>6, <2>1, <2>2, <2>3 DEF ChecksFail, Typed, TypeOK, TaskType, FieldsType, SpentType
<1> QED
    BY <1>1, <1>2, <1>3, <1>4, <1>5, <1>6 DEF Writing

LEMMA NextTyped == Typed /\ [Next]_vars => Typed'
<1> SUFFICES ASSUME Typed, [Next]_vars PROVE Typed'
    OBVIOUS
<1>1. CASE UNCHANGED vars
    BY <1>1 DEF vars, Typed, TypeOK
<1> QED
    BY <1>1, CallersTyped, ReadingTyped, WritingTyped DEF Next, Background, Reading, Writing

(* Every variable of the health state keeps its type. *)
THEOREM HealthTypeCorrect == Spec => []TypeOK
<1>1. Typed => TypeOK
    BY DEF Typed
<1> QED
    BY <1>1, InitTyped, NextTyped, PTL DEF Spec
-----------------------------------------------------------------------------
(* The honesty of the phase.  By itself PhaseHonest is not inductive:       *)
(* MarkFresh declares fresh whatever report is in place, and there is one   *)
(* because a fingerprint was stored with it.                                *)

Honest ==
    /\ Typed
    /\ PhaseHonest
    /\ f.lastFingerprint # None => f.report # None
    /\ task.pc = "freshen" => f.report # None

LEMMA InitHonest == Init => Honest
<1> SUFFICES ASSUME Init PROVE Honest
    OBVIOUS
<1>1. Typed
    BY InitTyped
<1>2. task.pc = "start"
    BY DEF Init, AtRest
<1> QED
    BY <1>1, <1>2 DEF Init, Honest, PhaseHonest

LEMMA CallersHonest == Honest /\ Callers => Honest'
<1> SUFFICES ASSUME Honest, Callers PROVE Honest'
    OBVIOUS
<1>t. Typed' /\ f \in FieldsType
    BY CallersTyped, Typing DEF Honest, Typed
<1>1. CASE Mount \/ Edit
    BY <1>1, <1>t DEF Mount, Edit, Honest, PhaseHonest
<1>2. CASE NotifyModified
    <2>1. /\ f'.phase = "stale" /\ f'.staleSince
          /\ f'.report = f.report /\ f'.lastFingerprint = f.lastFingerprint
          /\ f'.computing = f.computing
        BY <1>2, <1>t, Staleness DEF NotifyModified, FieldsType
    <2> QED BY <1>2, <1>t, <2>1 DEF NotifyModified, Honest, PhaseHonest
<1>3. ASSUME NEW base \in BaseChoices, Refresh(base) PROVE Honest'
    <2>1. /\ f'.phase = f.phase /\ f'.staleSince = f.staleSince
          /\ f'.report = f.report /\ f'.lastFingerprint = f.lastFingerprint
          /\ f'.computing = f.computing /\ f'.dirty = f.dirty
        BY <1>3, <1>t DEF Refresh, FieldsType
    <2> QED BY <1>3, <1>t, <2>1 DEF Refresh, Honest, PhaseHonest
<1> QED
    BY <1>1, <1>2, <1>3 DEF Callers

LEMMA ReadingHonest == Honest /\ Reading => Honest'
<1> SUFFICES ASSUME Honest, Reading PROVE Honest'
    OBVIOUS
<1>t. Typed' /\ task \in TaskType
    BY ReadingTyped, Typing DEF Honest, Typed
<1>a. AtRest.pc = "idle" /\ AtRest \in TaskType
    BY Resting DEF AtRest
<1>1. /\ task.pc # "checks"
      /\ task'.pc \in {"head", "idle", "calm", "diff", "compare"} \/ CompareUnchanged
    <2>1. CASE Start \/ PollTick \/ CalmOver
        BY <1>t, <1>a, <2>1 DEF Start, PollTick, CalmOver, TaskType
    <2>2. CASE Wake \/ CalmBroken
        BY <1>t, <1>a, <2>2 DEF Wake, CalmBroken, TaskType
    <2>3. CASE ReadHead \/ ReadDiff
        BY <1>t, <2>3 DEF ReadHead, ReadDiff, TaskType
    <2>4. CASE CompareUnchanged
        BY <2>4 DEF CompareUnchanged
    <2> QED BY <2>1, <2>2, <2>3, <2>4 DEF Reading
<1>2. /\ task'.pc # "checks"
      /\ task'.pc = "freshen" => f.report # None
    <2>1. CASE CompareUnchanged
        <3>1. task'.pc = "freshen"
            BY <1>a, <2>1 DEF CompareUnchanged, TaskType
        <3>2. f.report # None
            BY <2>1 DEF CompareUnchanged, Unchanged, Honest
        <3> QED BY <3>1, <3>2
    <2> QED BY <1>1, <2>1
<1>3. UNCHANGED f
    BY DEF Reading, Start, Wake, PollTick, CalmOver, CalmBroken, ReadHead, ReadDiff,
           CompareUnchanged
<1> QED
    BY <1>t, <1>1, <1>2, <1>3 DEF Honest, PhaseHonest

LEMMA WritingHonest == Honest /\ Writing => Honest'
<1> SUFFICES ASSUME Honest, Writing PROVE Honest'
    OBVIOUS
<1>t. Typed' /\ task \in TaskType /\ f \in FieldsType
    BY WritingTyped, Typing DEF Honest, Typed
<1>a. AtRest.pc = "idle"
    BY DEF AtRest
<1>1. CASE ReadFails
    <2>1. task.pc # "checks" /\ task'.pc = "compare" /\ UNCHANGED f
        BY <1>1, <1>t DEF ReadFails, TaskType
    <2> QED BY <1>t, <2>1 DEF Honest, PhaseHonest
<1>2. CASE ComparePolled
    <2>1. task.pc = "compare" /\ task'.pc \in {"idle", "calm"} /\ (f' = f \/ f' = Stale(f))
        BY <1>2, <1>t, Resting DEF ComparePolled, AtRest
    <2> QED BY <1>t, <2>1, Staleness DEF Honest, PhaseHonest
<1>3. CASE MarkFresh
    <2>1. task.pc = "freshen" /\ task'.pc = "idle" /\ ~ f.computing /\ f.report # None
        BY <1>3, <1>a DEF MarkFresh, Honest, PhaseHonest
    <2>2. /\ f'.phase = "fresh" /\ ~ f'.staleSince
          /\ f'.report = f.report /\ f'.lastFingerprint = f.lastFingerprint
          /\ f'.computing = f.computing
        BY <1>3, <1>t, <2>1 DEF MarkFresh, FieldsType
    <2> QED BY <1>t, <2>1, <2>2 DEF Honest, PhaseHonest
<1>4. CASE Compute
    <2>1. task.pc = "compare" /\ task'.pc = "checks"
        BY <1>4, <1>t DEF Compute, TaskType
    <2>2. /\ f'.phase = IF f.phase = "stale" THEN "stale" ELSE "computing"
          /\ f'.staleSince = f.staleSince
          /\ f'.report = f.report /\ f'.lastFingerprint = f.lastFingerprint
          /\ f'.computing /\ ~ f'.dirty
        BY <1>4, <1>t DEF Compute, FieldsType
    <2> QED BY <1>t, <2>1, <2>2 DEF Honest, PhaseHonest
<1>5. CASE Publish
    <2>1. task.pc = "checks" /\ task'.pc = "idle"
        BY <1>5, <1>a DEF Publish
    <2>2. PICK report \in Measured :
              f' = [f EXCEPT !.report = {report}, !.lastFingerprint = task.fingerprint,
                             !.computing = FALSE,
                             !.phase = IF f.dirty THEN "stale" ELSE "fresh",
                             !.staleSince = @ /\ f.dirty]
        BY <1>5 DEF Publish
    <2>3. /\ f'.phase = IF f.dirty THEN "stale" ELSE "fresh"
          /\ f'.staleSince = (f.staleSince /\ f.dirty)
          /\ f'.report = {report}
          /\ f'.computing = FALSE
        BY <1>t, <2>2 DEF FieldsType
    <2>4. f.dirty => f.staleSince
        BY <2>1 DEF Honest, PhaseHonest
    <2>5. {report} # None
        BY DEF None
    <2> QED BY <1>t, <2>1, <2>3, <2>4, <2>5 DEF Honest, PhaseHonest
<1>6. CASE ChecksFail
    <2>1. task.pc = "checks" /\ task'.pc = "idle"
        BY <1>6, <1>a DEF ChecksFail
    <2>2. CASE Unchanged /\ f.report # None /\ ~ f.dirty
        <3>1. /\ f'.phase = "fresh" /\ ~ f'.staleSince /\ ~ f'.computing
              /\ f'.report = f.report
            BY <1>6, <1>t, <2>2 DEF ChecksFail, FieldsType
        <3> QED BY <1>t, <2>1, <2>2, <3>1 DEF Honest, PhaseHonest
    <2>3. CASE ~ (Unchanged /\ f.report # None /\ ~ f.dirty)
        <3>1. /\ f'.phase = "stale" /\ f'.staleSince /\ ~ f'.computing
              /\ f'.report = f.report /\ f'.lastFingerprint = f.lastFingerprint
            BY <1>6, <1>t, <2>3, Staleness DEF ChecksFail, FieldsType
        <3> QED BY <1>t, <2>1, <3>1 DEF Honest, PhaseHonest
    <2> QED BY <2>2, <2>3
<1> QED
    BY <1>1, <1>2, <1>3, <1>4, <1>5, <1>6 DEF Writing

LEMMA NextHonest == Honest /\ [Next]_vars => Honest'
<1> SUFFICES ASSUME Honest, [Next]_vars PROVE Honest'
    OBVIOUS
<1>1. CASE UNCHANGED vars
    BY <1>1 DEF vars, Honest, PhaseHonest, Typed, TypeOK
<1> QED
    BY <1>1, CallersHonest, ReadingHonest, WritingHonest
       DEF Next, Background, Reading, Writing

(* The phase never lies about its flags: stamped exactly while stale, stale *)
(* after an edit during a computation, fresh only over a report and with no *)
(* computation under way.                                                   *)
THEOREM PhaseStaysHonest == Spec => []PhaseHonest
<1>1. Honest => PhaseHonest
    BY DEF Honest
<1> QED
    BY <1>1, InitHonest, NextHonest, PTL DEF Spec
-----------------------------------------------------------------------------
(* A stale state is on its way out.  As long as nothing failed, something   *)
(* that ends in a computation or in a comparison of fingerprints is queued  *)
(* or under way; the modification that made a computation dirty is queued   *)
(* behind it.                                                               *)

ComputationPlanned ==
    \/ queue # <<>>
    \/ task.pc \in {"calm", "freshen", "checks"}
    \/ task.pc \in {"head", "diff", "compare"} /\ task.why # "poll"

StaleIsPlanned == spent.failures = 0 /\ f.phase = "stale" => ComputationPlanned

Planned ==
    /\ f.computing /\ f.dirty => queue # <<>>
    /\ StaleIsPlanned

LEMMA Queued ==
    ASSUME queue \in Seq(Events), NEW e \in Events, queue' = Append(queue, e)
    PROVE  queue' # <<>>
OBVIOUS

LEMMA CallersPlanned == Honest /\ Planned /\ Callers => Planned'
<1> SUFFICES ASSUME Honest, Planned, Callers PROVE Planned'
    OBVIOUS
<1>t. f \in FieldsType /\ queue \in Seq(Events) /\ spent \in SpentType
    BY Typing DEF Honest, Typed
<1>1. CASE Mount \/ Edit
    <2>1. UNCHANGED <<f, queue, task>> /\ spent'.failures = spent.failures
        BY <1>1, <1>t DEF Mount, Edit, SpentType
    <2> QED BY <2>1 DEF Planned, StaleIsPlanned, ComputationPlanned
<1>2. CASE NotifyModified \/ \E base \in BaseChoices : Refresh(base)
    <2>1. queue' # <<>>
        BY <1>2, <1>t, Queued DEF NotifyModified, Refresh, Events
    <2> QED BY <2>1 DEF Planned, StaleIsPlanned, ComputationPlanned
<1> QED BY <1>1, <1>2 DEF Callers

LEMMA ReadingPlanned == Honest /\ Planned /\ Reading => Planned'
<1> SUFFICES ASSUME Honest, Planned, Reading PROVE Planned'
    OBVIOUS
<1>t. task \in TaskType /\ f \in FieldsType
    BY Typing DEF Honest, Typed
<1>a. AtRest \in TaskType
    BY Resting
<1>1. UNCHANGED <<f, spent>> /\ ~f.computing
    BY DEF Reading, Start, Wake, PollTick, CalmOver, CalmBroken, ReadHead, ReadDiff,
           CompareUnchanged, Honest, PhaseHonest
<1>2. ComputationPlanned => ComputationPlanned'
    <2>1. CASE Start \/ PollTick
        <3>1. /\ UNCHANGED queue /\ task.pc \in {"start", "idle"}
            BY <2>1 DEF Start, PollTick
        <3> QED BY <3>1 DEF ComputationPlanned
    <2>2. CASE Wake \/ CalmBroken \/ CalmOver
        <3>1. task'.pc = "calm" \/ (task'.pc = "head" /\ task'.why # "poll")
            BY <1>t, <1>a, <2>2 DEF Wake, CalmBroken, CalmOver, TaskType
        <3> QED BY <3>1 DEF ComputationPlanned
    <2>3. CASE ReadHead \/ ReadDiff
        <3>1. /\ UNCHANGED queue /\ task'.why = task.why
              /\ task.pc \in {"head", "diff"} /\ task'.pc \in {"diff", "compare"}
            BY <1>t, <2>3 DEF ReadHead, ReadDiff, TaskType
        <3> QED BY <3>1 DEF ComputationPlanned
    <2>4. CASE CompareUnchanged
        <3>1. task'.pc = "freshen"
            BY <1>a, <2>4 DEF CompareUnchanged, TaskType
        <3> QED BY <3>1 DEF ComputationPlanned
    <2> QED BY <2>1, <2>2, <2>3, <2>4 DEF Reading
<1> QED BY <1>1, <1>2 DEF Planned, StaleIsPlanned

LEMMA WritingPlanned == Honest /\ Planned /\ Writing => Planned'
<1> SUFFICES ASSUME Honest, Planned, Writing PROVE Planned'
    OBVIOUS
<1>t. task \in TaskType /\ f \in FieldsType /\ spent \in SpentType /\ queue' = queue
    BY Typing DEF Honest, Typed, Writing, ReadFails, ComparePolled, MarkFresh, Compute,
       Publish, ChecksFail
<1>a. AtRest \in TaskType /\ AtRest.pc = "idle"
    BY Resting DEF AtRest
<1>1. CASE ReadFails
    <2>1. /\ task.pc \in {"head", "diff"} /\ task'.pc = "compare" /\ task'.why = task.why
          /\ UNCHANGED f
          /\ spent'.failures = 0 => spent.failures = 0
        BY <1>1, <1>t DEF ReadFails, TaskType, SpentType
    <2> QED BY <1>t, <2>1 DEF Planned, StaleIsPlanned, ComputationPlanned
<1>2. CASE ComparePolled
    <2>1. task.pc = "compare" /\ task.why = "poll" /\ ~f.computing /\ UNCHANGED spent
        BY <1>2 DEF ComparePolled, Honest, PhaseHonest
    <2>2. CASE UNCHANGED f
        BY <1>t, <2>1, <2>2 DEF Planned, StaleIsPlanned, ComputationPlanned
    <2>3. CASE f' = Stale(f) /\ task'.pc = "calm"
        <3>1. ~f'.computing
            BY <1>t, <2>1, <2>3, Staleness
        <3> QED BY <2>3, <3>1 DEF Planned, StaleIsPlanned, ComputationPlanned
    <2>4. UNCHANGED f \/ (f' = Stale(f) /\ task'.pc = "calm")
        BY <1>2, <1>a DEF ComparePolled, TaskType
    <2> QED BY <2>2, <2>3, <2>4
<1>3. CASE MarkFresh
    <2>1. f'.phase = "fresh" /\ ~f'.computing
        BY <1>3, <1>t DEF MarkFresh, FieldsType, Honest, PhaseHonest
    <2> QED BY <2>1 DEF Planned, StaleIsPlanned
<1>4. CASE Compute
    <2>1. task'.pc = "checks" /\ ~f'.dirty
        BY <1>4, <1>t DEF Compute, TaskType, FieldsType
    <2> QED BY <2>1 DEF Planned, StaleIsPlanned, ComputationPlanned
<1>5. CASE Publish
    <2>1. f.computing
        BY <1>5 DEF Publish, Honest, PhaseHonest
    <2>2. /\ f'.phase = IF f.dirty THEN "stale" ELSE "fresh"
          /\ f'.computing = FALSE
        BY <1>5, <1>t DEF Publish, FieldsType
    <2> QED BY <1>t, <2>1, <2>2 DEF Planned, StaleIsPlanned, ComputationPlanned
<1>6. CASE ChecksFail
    <2>1. spent'.failures # 0
        BY <1>6, <1>t DEF ChecksFail, SpentType
    <2>2. f'.computing = FALSE
        BY <1>6, <1>t, Staleness DEF ChecksFail, FieldsType
    <2> QED BY <2>1, <2>2 DEF Planned, StaleIsPlanned
<1> QED
    BY <1>1, <1>2, <1>3, <1>4, <1>5, <1>6 DEF Writing

LEMMA NextPlanned == Honest /\ Planned /\ [Next]_vars => Planned'
<1> SUFFICES ASSUME Honest, Planned, [Next]_vars PROVE Planned'
    OBVIOUS
<1>1. CASE UNCHANGED vars
    BY <1>1 DEF vars, Planned, StaleIsPlanned, ComputationPlanned
<1> QED
    BY <1>1, CallersPlanned, ReadingPlanned, WritingPlanned
       DEF Next, Background, Reading, Writing

(* Until something fails, `stale' means what health.sdd says of it, a new   *)
(* computation planned or under way: no race of a notification with the     *)
(* cooldown, the polling and a computation loses it.  After a failure only  *)
(* the polling is left, and an edit undone in silence leaves it nothing.    *)
THEOREM StaleIsOnItsWayOut == Spec => []StaleIsPlanned
<1>1. Init => Planned
    BY DEF Init, Planned, StaleIsPlanned
<1>2. Planned => StaleIsPlanned
    BY DEF Planned
<1> QED
    BY <1>1, <1>2, InitHonest, NextHonest, NextPlanned, PTL DEF Spec
-----------------------------------------------------------------------------
(* The truth of a fresh report, as long as contents do not come back.       *)
(* A fingerprint is stored with a report, and compared with a later one: it *)
(* speaks for the report because a new content is in no older fingerprint.  *)
(* What an edit makes wrong is owed a notification, then an event, then a   *)
(* cycle that starts after it.                                              *)

OnTruth == \A r \in f.report : r.work = tree.work

(* The fingerprint of the worktree, read at one go. *)
Fp == [head |-> tree.head, diff |-> {tree.work} \ {tree.head}]

(* No edit is waiting to be noticed. *)
Quiet == /\ pending = 0
         /\ ~silent
         /\ \A i \in DOMAIN queue : queue[i] # "Modified"

(* Contents are numbered as they come: what was read is not newer than what *)
(* is there.                                                                *)
Past(p) == p.head <= tree.head /\ \A d \in p.diff : d <= tree.work

Numbered ==
    /\ tree.head <= tree.work /\ tree.work <= spent.edits
    /\ task.pc = "diff" => task.head <= tree.head
    /\ \A p \in task.fingerprint : Past(p)
    /\ \A p \in f.lastFingerprint : Past(p)

(* What a fingerprint that is still that of the worktree says. *)
Speaks ==
    /\ Fp \in f.lastFingerprint => OnTruth
    /\ task.pc = "checks" /\ Fp \in task.fingerprint => task.tree.work = tree.work

(* The cycles that start on an event, up to their computation. *)
Correcting == \/ task.pc = "calm"
              \/ task.pc \in {"head", "diff", "compare"} /\ task.why # "poll"

(* What a cycle has read is what is there, or an edit is to be noticed. *)
Current ==
    /\ task.pc = "diff" /\ Quiet => task.head = tree.head
    /\ task.pc \in {"compare", "checks"} /\ Quiet => task.fingerprint \subseteq {Fp}
    /\ task.pc = "checks" /\ ~f.dirty /\ pending = 0 /\ ~silent => task.tree.work = tree.work
    /\ task.pc = "freshen" /\ Quiet => OnTruth
    /\ Quiet /\ f.phase = "fresh" /\ ~Correcting => OnTruth

Truthful == Honest /\ Numbered /\ Speaks /\ Current

LEMMA ToldTruth ==
    ASSUME Truthful
    PROVE  FreshIsTrue
<1> SUFFICES ASSUME Settled, f.phase = "fresh" PROVE OnTruth
    BY DEF FreshIsTrue, OnTruth
<1>1. Quiet /\ ~Correcting
    BY DEF Settled, Quiet, Correcting
<1> QED
    BY <1>1 DEF Truthful, Current

LEMMA InitTruthful == Init => Truthful
<1> SUFFICES ASSUME Init PROVE Truthful
    OBVIOUS
<1>1. Honest
    BY InitHonest
<1>2. task.pc = "start" /\ task.fingerprint = None
    BY DEF Init, AtRest
<1>3. Numbered
    BY <1>2 DEF Init, CleanTree, Numbered, None
<1>4. Speaks /\ Current
    BY <1>2 DEF Init, Speaks, Current, None
<1> QED
    BY <1>1, <1>3, <1>4 DEF Truthful

(* Facts of a truthful state with their types spread out. *)
LEMMA Values ==
    ASSUME Typed
    PROVE  /\ tree \in Tree /\ tree.head \in Nat /\ tree.work \in Nat /\ tree.extra \in Nat
           /\ spent \in SpentType /\ spent.edits \in Nat
           /\ f \in FieldsType /\ task \in TaskType
           /\ queue \in Seq(Events)
           /\ task.head \in Nat /\ task.tree.work \in Nat
           /\ \A p \in task.fingerprint \cup f.lastFingerprint :
                 p.head \in Nat /\ \A d \in p.diff : d \in Nat
<1>1. /\ tree \in Tree /\ f \in FieldsType /\ task \in TaskType
      /\ queue \in Seq(Events) /\ spent \in SpentType
    BY Typing DEF Typed
<1>2. Contents \subseteq Nat
    BY HealthAssumption DEF Contents
<1>3. ASSUME NEW p \in Fingerprints PROVE p.head \in Nat /\ \A d \in p.diff : d \in Nat
    BY <1>2 DEF Fingerprints, Option, None
<1>4. task.fingerprint \cup f.lastFingerprint \subseteq Fingerprints
    BY <1>1 DEF TaskType, FieldsType, Option, None
<1>5. task.head \in Nat /\ task.tree \in Tree
    BY <1>1, <1>2 DEF TaskType
<1>6. spent.edits \in Nat
    BY <1>1, HealthAssumption DEF SpentType
<1> QED
    BY <1>1, <1>2, <1>3, <1>4, <1>5, <1>6 DEF Tree

(* An edit is owed a notification, and makes the fingerprint a new one.     *)
LEMMA EditTruthful ==
    ASSUME ~Reverts, Truthful, Edit
    PROVE  Truthful'
<1>1. Typed /\ Honest /\ Numbered /\ Speaks /\ Current
    BY DEF Truthful, Honest
<1>2. Honest'
    BY <1>1, CallersHonest DEF Callers
<1>3. /\ UNCHANGED <<f, queue, task>>
      /\ spent'.edits = spent.edits + 1
    BY <1>1, Values DEF Edit, SpentType
<1>4. ~Quiet'
    <2>1. pending \in Nat /\ (pending' = pending + 1 \/ silent')
        BY <1>1, HealthAssumption DEF Edit, Typed, TypeOK
    <2> QED BY <2>1 DEF Quiet
<1>5. \/ /\ tree'.work = spent.edits + 1 /\ tree'.head = tree.head
      \/ /\ tree'.work = tree.work /\ tree'.head = tree.head
      \/ /\ tree.head # tree.work /\ tree'.head = tree.work /\ tree'.work = tree.work
    BY <1>1, Values DEF Edit, Edited, NewContents, Tree
<1>6. /\ tree'.work \in Nat /\ tree'.head \in Nat
      /\ tree.head <= tree'.head /\ tree.work <= tree'.work
      /\ tree'.head <= tree'.work /\ tree'.work <= spent'.edits
    BY <1>1, <1>3, <1>5, Values DEF Numbered
<1>7. Numbered'
    <2>1. ASSUME NEW p \in task.fingerprint \cup f.lastFingerprint PROVE Past(p)'
        <3>1. Past(p)
            BY <1>1 DEF Numbered
        <3>2. p.head \in Nat /\ \A d \in p.diff : d \in Nat
            BY <1>1, Values
        <3> QED BY <1>1, <1>6, <3>1, <3>2, Values DEF Past
    <2>2. task.pc = "diff" => task.head <= tree'.head
        BY <1>1, <1>6, Values DEF Numbered
    <2> QED BY <1>3, <1>6, <2>1, <2>2 DEF Numbered
<1>8. ASSUME NEW p \in task.fingerprint \cup f.lastFingerprint, p = Fp'
      PROVE  Fp = Fp' /\ tree'.work = tree.work
    <2>1. Past(p) /\ p.head \in Nat /\ \A d \in p.diff : d \in Nat
        BY <1>1, Values DEF Numbered
    <2>2. p.head = tree'.head /\ p.diff = {tree'.work} \ {tree'.head}
        BY <1>8 DEF Fp
    <2>3. CASE tree'.work = spent.edits + 1 /\ tree'.head = tree.head
        <3>1. tree'.work # tree'.head /\ ~(tree'.work <= tree.work)
            BY <1>1, <2>3, Values DEF Numbered
        <3>2. tree'.work \in p.diff
            BY <2>2, <3>1
        <3> QED BY <2>1, <3>1, <3>2 DEF Past
    <2>4. CASE tree'.work = tree.work /\ tree'.head = tree.head
        BY <2>4 DEF Fp
    <2>5. CASE tree.head # tree.work /\ tree'.head = tree.work /\ tree'.work = tree.work
        <3>1. ~(tree'.head <= tree.head)
            BY <1>1, <2>5, Values DEF Numbered
        <3> QED BY <2>1, <2>2, <3>1 DEF Past
    <2> QED BY <1>5, <2>3, <2>4, <2>5
<1>9. Speaks'
    <2>1. ASSUME Fp' \in f.lastFingerprint PROVE OnTruth'
        BY <1>1, <1>3, <1>8, <2>1 DEF Speaks, OnTruth
    <2>2. ASSUME task.pc = "checks", Fp' \in task.fingerprint PROVE task.tree.work = tree'.work
        BY <1>1, <1>8, <2>2 DEF Speaks
    <2> QED BY <1>3, <2>1, <2>2 DEF Speaks
<1>10. Current'
    <2>1. ~(pending' = 0 /\ ~silent')
        BY <1>1, HealthAssumption DEF Edit, Typed, TypeOK
    <2> QED BY <1>4, <2>1 DEF Current
<1> QED
    BY <1>2, <1>7, <1>9, <1>10 DEF Truthful

LEMMA CallersTruthful ==
    ASSUME ~Reverts, Truthful, Callers
    PROVE  Truthful'
<1>1. Typed /\ Honest /\ Numbered /\ Speaks /\ Current
    BY DEF Truthful, Honest
<1>2. Honest'
    BY <1>1, CallersHonest
<1>3. CASE Mount
    BY <1>1, <1>2, <1>3
       DEF Mount, Truthful, Numbered, Speaks, Current, Quiet, OnTruth, Fp, Past, Correcting
<1>4. CASE NotifyModified
    <2>1. /\ f'.phase = "stale" /\ f'.report = f.report
          /\ f'.lastFingerprint = f.lastFingerprint
          /\ f'.dirty = (f.dirty \/ f.computing)
        BY <1>1, <1>4, Values, Staleness DEF NotifyModified, FieldsType
    <2>2. ~Quiet'
        <3>1. Len(queue) + 1 \in DOMAIN queue' /\ queue'[Len(queue) + 1] = "Modified"
            BY <1>1, <1>4, Values DEF NotifyModified, Events
        <3> QED BY <3>1 DEF Quiet
    <2>3. UNCHANGED <<tree, task, spent, silent>>
        BY <1>4 DEF NotifyModified
    <2>4. task.pc = "checks" => f'.dirty
        BY <1>1, <2>1 DEF Honest, PhaseHonest
    <2>5. Numbered' /\ Speaks'
        BY <1>1, <2>1, <2>3 DEF Numbered, Past, Speaks, OnTruth, Fp
    <2>6. Current'
        BY <2>2, <2>3, <2>4 DEF Current
    <2> QED BY <1>2, <2>5, <2>6 DEF Truthful
<1>5. ASSUME NEW base \in BaseChoices, Refresh(base) PROVE Truthful'
    <2>1. /\ f'.phase = f.phase /\ f'.report = f.report
          /\ f'.lastFingerprint = f.lastFingerprint /\ f'.dirty = f.dirty
        BY <1>1, <1>5, Values DEF Refresh, FieldsType
    <2>2. UNCHANGED <<tree, task, pending, silent>> /\ spent'.edits = spent.edits
        BY <1>1, <1>5, Values DEF Refresh, SpentType
    <2>3. Quiet' => Quiet
        <3>1. \A i \in DOMAIN queue : i \in DOMAIN queue' /\ queue'[i] = queue[i]
            BY <1>1, <1>5, Values DEF Refresh, Events
        <3> QED BY <2>2, <3>1 DEF Quiet
    <2>4. Numbered' /\ Speaks'
        BY <1>1, <2>1, <2>2 DEF Numbered, Past, Speaks, OnTruth, Fp
    <2>5. Current'
        BY <1>1, <2>1, <2>2, <2>3 DEF Current, OnTruth, Fp, Correcting
    <2> QED BY <1>2, <2>4, <2>5 DEF Truthful
<1> QED
    BY <1>3, <1>4, <1>5, EditTruthful DEF Callers

LEMMA ReadingTruthful ==
    ASSUME Truthful, Reading
    PROVE  Truthful'
<1>1. Typed /\ Honest /\ Numbered /\ Speaks /\ Current
    BY DEF Truthful, Honest
<1>2. Honest'
    BY <1>1, ReadingHonest
<1>3. UNCHANGED <<mounted, tree, pending, silent, f, spent>>
    BY DEF Reading, Start, Wake, PollTick, CalmOver, CalmBroken, ReadHead, ReadDiff,
           CompareUnchanged
<1>a. AtRest.pc = "idle" /\ AtRest.fingerprint = None /\ AtRest \in TaskType
    BY Resting DEF AtRest
<1>t. task \in TaskType
    BY <1>1, Values
<1>4. CASE Start \/ PollTick
    <2>1. /\ task'.fingerprint = task.fingerprint \/ task'.fingerprint = None
          /\ \/ task'.pc = "idle"
             \/ task'.pc = "head"
          /\ ~Correcting /\ UNCHANGED queue
        BY <1>t, <1>a, <1>4 DEF Start, PollTick, TaskType, Correcting
    <2>2. Numbered' /\ Speaks'
        BY <1>1, <1>3, <2>1 DEF Numbered, Past, Speaks, OnTruth, Fp, None
    <2>3. Current'
        BY <1>1, <1>3, <2>1 DEF Current, OnTruth, Quiet
    <2> QED BY <1>2, <2>2, <2>3 DEF Truthful
<1>5. CASE Wake \/ CalmBroken \/ CalmOver
    <2>1. /\ task'.fingerprint = task.fingerprint \/ task'.fingerprint = None
          /\ \/ task'.pc = "calm"
             \/ task'.pc = "head" /\ task'.why # "poll"
        BY <1>t, <1>a, <1>5 DEF Wake, CalmBroken, CalmOver, TaskType
    <2>2. Numbered' /\ Speaks'
        BY <1>1, <1>3, <2>1 DEF Numbered, Past, Speaks, OnTruth, Fp, None
    <2>3. Current'
        BY <2>1 DEF Current, Correcting
    <2> QED BY <1>2, <2>2, <2>3 DEF Truthful
<1>6. CASE ReadHead
    <2>1. /\ task.pc = "head" /\ task'.pc = "diff" /\ task'.why = task.why
          /\ task'.head = tree.head /\ task'.fingerprint = task.fingerprint
          /\ UNCHANGED queue
        BY <1>t, <1>6 DEF ReadHead, TaskType
    <2>2. Numbered' /\ Speaks'
        BY <1>1, <1>3, <2>1, Values DEF Numbered, Past, Speaks, OnTruth, Fp
    <2>3. Current'
        BY <1>1, <1>3, <2>1 DEF Current, OnTruth, Quiet, Correcting
    <2> QED BY <1>2, <2>2, <2>3 DEF Truthful
<1>7. CASE ReadDiff
    <2> DEFINE p == [head |-> task.head, diff |-> {tree.work} \ {tree.head}]
    <2>1. /\ task.pc = "diff" /\ task'.pc = "compare" /\ task'.why = task.why
          /\ task'.fingerprint = {p}
          /\ UNCHANGED queue
        BY <1>t, <1>7 DEF ReadDiff, TaskType
    <2>2. Past(p)
        BY <1>1, <2>1, Values DEF Numbered, Past
    <2>3. Numbered' /\ Speaks'
        BY <1>1, <1>3, <2>1, <2>2 DEF Numbered, Past, Speaks, OnTruth, Fp
    <2>4. Quiet => p = Fp
        BY <1>1, <2>1 DEF Current, Fp
    <2>5. Current'
        BY <1>1, <1>3, <2>1, <2>4 DEF Current, OnTruth, Quiet, Correcting, Fp
    <2> QED BY <1>2, <2>3, <2>5 DEF Truthful
<1>8. CASE CompareUnchanged
    <2>1. /\ task.pc = "compare" /\ task.why = "modified"
          /\ task.fingerprint # None /\ task.fingerprint = f.lastFingerprint
          /\ task'.pc = "freshen" /\ task'.fingerprint = None /\ UNCHANGED queue
        BY <1>t, <1>a, <1>8 DEF CompareUnchanged, Unchanged, TaskType
    <2>2. Numbered' /\ Speaks'
        BY <1>1, <1>3, <2>1 DEF Numbered, Past, Speaks, OnTruth, Fp, None
    <2>3. Quiet => OnTruth
        <3>1. SUFFICES ASSUME Quiet PROVE OnTruth
            OBVIOUS
        <3>2. task.fingerprint \subseteq {Fp}
            BY <1>1, <2>1, <3>1 DEF Current
        <3>3. Fp \in f.lastFingerprint
            BY <2>1, <3>2 DEF None
        <3> QED BY <1>1, <3>3 DEF Speaks
    <2>4. Current'
        BY <1>1, <1>3, <2>1, <2>3 DEF Current, OnTruth, Quiet
    <2> QED BY <1>2, <2>2, <2>4 DEF Truthful
<1> QED
    BY <1>4, <1>5, <1>6, <1>7, <1>8 DEF Reading

LEMMA WritingTruthful ==
    ASSUME Truthful, Writing
    PROVE  Truthful'
<1>1. Typed /\ Honest /\ Numbered /\ Speaks /\ Current
    BY DEF Truthful, Honest
<1>2. Honest'
    BY <1>1, WritingHonest
<1>3. UNCHANGED <<mounted, tree, pending, silent, queue>>
    BY DEF Writing, ReadFails, ComparePolled, MarkFresh, Compute, Publish, ChecksFail
<1>a. AtRest.pc = "idle" /\ AtRest.fingerprint = None /\ AtRest \in TaskType
    BY Resting DEF AtRest
<1>t. task \in TaskType /\ f \in FieldsType /\ spent \in SpentType
    BY <1>1, Values
<1>4. spent'.edits = spent.edits
    BY <1>t DEF Writing, ReadFails, ComparePolled, MarkFresh, Compute, Publish, ChecksFail,
                SpentType
<1>5. CASE ReadFails
    <2>1. /\ task.pc \in {"head", "diff"} /\ task'.pc = "compare" /\ task'.why = task.why
          /\ task'.fingerprint = None /\ UNCHANGED f
        BY <1>t, <1>5 DEF ReadFails, TaskType
    <2>2. Numbered' /\ Speaks'
        BY <1>1, <1>3, <1>4, <2>1 DEF Numbered, Past, Speaks, OnTruth, Fp, None
    <2>3. Current'
        BY <1>1, <1>3, <2>1 DEF Current, OnTruth, Quiet, Correcting, None
    <2> QED BY <1>2, <2>2, <2>3 DEF Truthful
<1>6. CASE ComparePolled
    <2>1. /\ task.pc = "compare" /\ task.why = "poll"
          /\ task'.fingerprint = None
          /\ \/ task'.pc = "idle" /\ UNCHANGED f
             \/ task'.pc = "calm" /\ f' = Stale(f)
        BY <1>t, <1>a, <1>6 DEF ComparePolled, TaskType
    <2>2. f'.report = f.report /\ f'.lastFingerprint = f.lastFingerprint
        BY <1>t, <2>1, Staleness
    <2>3. Numbered' /\ Speaks'
        BY <1>1, <1>3, <1>4, <2>1, <2>2 DEF Numbered, Past, Speaks, OnTruth, Fp, None
    <2>4. Current'
        BY <1>1, <1>3, <2>1 DEF Current, OnTruth, Quiet, Correcting
    <2> QED BY <1>2, <2>3, <2>4 DEF Truthful
<1>7. CASE MarkFresh
    <2>1. task.pc = "freshen" /\ task'.pc = "idle" /\ task'.fingerprint = None
        BY <1>a, <1>7 DEF MarkFresh
    <2>2. f'.report = f.report /\ f'.lastFingerprint = f.lastFingerprint
        BY <1>t, <1>7 DEF MarkFresh, FieldsType
    <2>3. Numbered' /\ Speaks'
        BY <1>1, <1>3, <1>4, <2>1, <2>2 DEF Numbered, Past, Speaks, OnTruth, Fp, None
    <2>4. Current'
        BY <1>1, <1>3, <2>1, <2>2 DEF Current, OnTruth, Quiet
    <2> QED BY <1>2, <2>3, <2>4 DEF Truthful
<1>8. CASE Compute
    <2>1. /\ task.pc = "compare" /\ task'.pc = "checks" /\ task'.tree = tree
          /\ task'.fingerprint = task.fingerprint
        BY <1>t, <1>8 DEF Compute, TaskType
    <2>2. /\ f'.report = f.report /\ f'.lastFingerprint = f.lastFingerprint
          /\ f'.phase # "fresh"
        BY <1>t, <1>8 DEF Compute, FieldsType
    <2>3. Numbered' /\ Speaks'
        BY <1>1, <1>3, <1>4, <2>1, <2>2 DEF Numbered, Past, Speaks, OnTruth, Fp
    <2>4. Current'
        BY <1>1, <1>3, <2>1, <2>2 DEF Current, Quiet, Fp
    <2> QED BY <1>2, <2>3, <2>4 DEF Truthful
<1>9. CASE Publish
    <2>1. task.pc = "checks" /\ task'.pc = "idle" /\ task'.fingerprint = None
        BY <1>a, <1>9 DEF Publish
    <2>2. PICK report \in Measured :
              f' = [f EXCEPT !.report = {report}, !.lastFingerprint = task.fingerprint,
                             !.computing = FALSE,
                             !.phase = IF f.dirty THEN "stale" ELSE "fresh",
                             !.staleSince = @ /\ f.dirty]
        BY <1>9 DEF Publish
    <2>3. /\ f'.phase = IF f.dirty THEN "stale" ELSE "fresh"
          /\ f'.report = {report} /\ f'.lastFingerprint = task.fingerprint
        BY <1>t, <2>2 DEF FieldsType
    <2>4. report.work \in {task.tree.work, tree.work}
        BY <2>2 DEF Measured
    <2>5. Numbered'
        BY <1>1, <1>3, <1>4, <2>1, <2>3 DEF Numbered, Past, None
    <2>6. Speaks'
        <3>1. ASSUME Fp \in task.fingerprint PROVE report.work = tree.work
            BY <1>1, <2>1, <2>4, <3>1 DEF Speaks
        <3> QED BY <1>3, <2>1, <2>3, <3>1 DEF Speaks, OnTruth, Fp
    <2>7. Current'
        <3>1. ASSUME Quiet, ~f.dirty PROVE report.work = tree.work
            BY <1>1, <2>1, <2>4, <3>1 DEF Current, Quiet
        <3> QED BY <1>3, <2>1, <2>3, <3>1 DEF Current, OnTruth, Quiet
    <2> QED BY <1>2, <2>5, <2>6, <2>7 DEF Truthful
<1>10. CASE ChecksFail
    <2>1. task.pc = "checks" /\ task'.pc = "idle" /\ task'.fingerprint = None
        BY <1>a, <1>10 DEF ChecksFail
    <2>2. f'.report = f.report /\ f'.lastFingerprint = f.lastFingerprint
        BY <1>t, <1>10, Staleness DEF ChecksFail, FieldsType
    <2>3. Numbered' /\ Speaks'
        BY <1>1, <1>3, <1>4, <2>1, <2>2 DEF Numbered, Past, Speaks, OnTruth, Fp, None
    <2>4. ASSUME Quiet, f'.phase = "fresh" PROVE OnTruth
        <3>1. Unchanged
            BY <1>t, <1>10, <2>4, Staleness DEF ChecksFail, FieldsType
        <3>2. task.fingerprint \subseteq {Fp}
            BY <1>1, <2>1, <2>4 DEF Current
        <3>3. Fp \in f.lastFingerprint
            BY <3>1, <3>2 DEF Unchanged, None
        <3> QED BY <1>1, <3>3 DEF Speaks
    <2>5. Current'
        BY <1>3, <2>1, <2>2, <2>4 DEF Current, OnTruth, Quiet
    <2> QED BY <1>2, <2>3, <2>5 DEF Truthful
<1> QED
    BY <1>5, <1>6, <1>7, <1>8, <1>9, <1>10 DEF Writing

LEMMA NextTruthful == ~Reverts /\ Truthful /\ [Next]_vars => Truthful'
<1> SUFFICES ASSUME ~Reverts, Truthful, [Next]_vars PROVE Truthful'
    OBVIOUS
<1>1. CASE UNCHANGED vars
    <2>1. Honest'
        BY <1>1, NextHonest DEF Truthful, vars
    <2> QED
        BY <1>1, <2>1 DEF vars, Truthful, Numbered, Speaks, Current, Quiet, OnTruth, Fp, Past,
                          Correcting
<1> QED
    BY <1>1, CallersTruthful, ReadingTruthful, WritingTruthful
       DEF Next, Background, Reading, Writing

(* When contents do not come back, every edit was notified and the task has *)
(* nothing left to do, a fresh report is a report on the tracked files as   *)
(* they are, whatever was edited, committed, refreshed or failed before.    *)
THEOREM FreshReportIsTrue ==
    ASSUME ~Reverts
    PROVE  Spec => []FreshIsTrue
<1>1. Truthful /\ [Next]_vars => Truthful'
    BY NextTruthful
<1>2. Truthful => FreshIsTrue
    BY ToldTruth
<1> QED
    BY <1>1, <1>2, InitTruthful, PTL DEF Spec
=============================================================================
