----------------------- MODULE SandboxLifecycle_proofs -----------------------
(***************************************************************************)
(* Proofs about SandboxLifecycle, for any sandboxes and bounds: the types, *)
(* that a running sandbox has its worktree, that the worktree of a live    *)
(* sandbox is never deleted and that nothing is created for a sandbox that *)
(* is gone, though names are used again while Jobs and Pods are left.      *)
(***************************************************************************)
EXTENDS SandboxLifecycle, TLAPS

-----------------------------------------------------------------------------
(* Types *)

OwnerType == [state : {"new", "ready", "deleting", "gone"}, pvc : BOOLEAN]
ProjectType == [state : {"none", "live", "deleting", "gone"}, fin : BOOLEAN, cloned : BOOLEAN]
MaintType == [init : JobState, purge : JobState]
JobsType == [checkout : JobType, remove : JobType]
SandboxType == [state : {"absent", "live", "deleting"}, fin : BOOLEAN,
                suspended : BOOLEAN, phase : Phases, inc : 0..MaxInc]
PodType == [state : PodState, going : BOOLEAN, of : 0..MaxInc]
RecType == {Idle} \cup [at : {"pod"}, out : BOOLEAN, suspended : BOOLEAN]
                  \cup [at : {"status"}, phase : Phases]
Lapses == {"misread", "unawaited"}

Typed ==
    /\ owner \in OwnerType /\ ns \in {"absent", "active", "terminating"}
    /\ project \in ProjectType /\ repo \in BOOLEAN
    /\ worktree \in [Names -> 0..(MaxInc + 1)]
    /\ maint \in MaintType /\ job \in [Names -> JobsType]
    /\ sandbox \in [Names -> SandboxType]
    /\ pod \in [Names -> PodType]
    /\ rec \in [Names -> RecType] /\ lapse \in [Names -> SUBSET Lapses]
    /\ changes \in 0..MaxChanges /\ faults \in 0..MaxFaults

LEMMA Typing == LifecycleTypeOK <=> Typed
BY DEF LifecycleTypeOK, Typed, OwnerType, ProjectType, MaintType, JobsType, JobType, NoJob,
   NoJobs, SandboxType, PodType, RecType, Lapses

LEMMA InitTyped == Init => Typed
<1> SUFFICES ASSUME Init PROVE Typed
    OBVIOUS
<1>1. owner \in OwnerType /\ project \in ProjectType /\ maint \in MaintType
    BY DEF Init, OwnerType, ProjectType, MaintType, JobState, NoMaint
<1>2. /\ job \in [Names -> JobsType] /\ pod \in [Names -> PodType] /\ rec \in [Names -> RecType]
      /\ lapse \in [Names -> SUBSET Lapses]
    BY LifecycleAssumption DEF Init, JobsType, JobType, NoJob, NoJobs, JobState, PodType,
       PodState, NoPod, RecType
<1>3. sandbox \in [Names -> SandboxType] /\ worktree \in [Names -> 0..(MaxInc + 1)]
    BY LifecycleAssumption DEF Init, SandboxType, Phases, NoTree
<1>4. changes \in 0..MaxChanges /\ faults \in 0..MaxFaults
    BY LifecycleAssumption DEF Init
<1>5. ns \in {"absent", "active", "terminating"} /\ repo \in BOOLEAN
    BY DEF Init
<1> QED
    BY <1>1, <1>2, <1>3, <1>4, <1>5 DEF Typed

LEMMA NoneTyped == NoJob \in JobType /\ NoJobs \in JobsType /\ NoPod \in PodType
BY LifecycleAssumption DEF NoJob, NoJobs, NoPod, JobType, JobsType, JobState, PodType, PodState

\* A Job that is replaced, or moves.
LEMMA JobTyped ==
    ASSUME Typed, NEW n \in Names, NEW k \in {"checkout", "remove"}, NEW j \in JobType, NEW q \in JobState
    PROVE  /\ [job EXCEPT ![n][k] = j] \in [Names -> JobsType]
           /\ [job EXCEPT ![n][k].state = q] \in [Names -> JobsType]
<1>1. job \in [Names -> JobsType]
    BY DEF Typed
<1>2. job[n].checkout \in JobType /\ job[n].remove \in JobType
    BY <1>1 DEF JobsType
<1>3. [job[n].checkout EXCEPT !.state = q] \in JobType /\ [job[n].remove EXCEPT !.state = q] \in JobType
    BY <1>2 DEF JobType
<1>4. [job[n] EXCEPT ![k] = j] \in JobsType /\ [job[n] EXCEPT ![k].state = q] \in JobsType
    <2>1. CASE k = "checkout"
        BY <1>1, <1>2, <1>3, <2>1 DEF JobsType
    <2>2. CASE k = "remove"
        BY <1>1, <1>2, <1>3, <2>2 DEF JobsType
    <2> QED BY <2>1, <2>2
<1> QED BY <1>1, <1>4

LEMMA GoneTyped ==
    ASSUME Typed, ProjectGoes \/ DeletedProject
    PROVE  project' \in ProjectType
BY DEF ProjectGoes, DeletedProject, Typed, ProjectType

LEMMA TypeStep == Typed /\ [Next]_vars => Typed'
<1> SUFFICES ASSUME Typed, [Next]_vars PROVE Typed'
    OBVIOUS
<1> USE LifecycleAssumption DEF Typed
<1>1. CASE EnsureNamespace
    BY <1>1 DEF EnsureNamespace
<1>2. CASE OwnerReady
    BY <1>2 DEF OwnerReady, OwnerType
<1>3. CASE OwnerCleanup
    BY <1>3 DEF OwnerCleanup, OwnerType
<1>4. CASE DeleteOwner
    BY <1>4 DEF DeleteOwner, OwnerType, Change
<1>5. CASE ProjectFinalizer
    BY <1>5 DEF ProjectFinalizer, ProjectType
<1>6. CASE ProjectApply
    <2>1. maint' \in MaintType
        BY <1>6 DEF ProjectApply, MaintType, JobState
    <2>2. project' \in ProjectType
        <3>1. (maint.init = "succeeded") \in BOOLEAN
            OBVIOUS
        <3> QED BY <1>6, <3>1 DEF ProjectApply, ProjectType
    <2>3. faults' \in 0..MaxFaults
        BY <1>6 DEF ProjectApply, Fault
    <2> QED BY <1>6, <2>1, <2>2, <2>3 DEF ProjectApply
<1>7. CASE ProjectCleanup
    <2>1. CASE ProjectGoes /\ (Fault \/ UNCHANGED faults) /\ UNCHANGED maint
        BY <1>7, <2>1, GoneTyped DEF ProjectCleanup, Fault
    <2>2. CASE maint' = [maint EXCEPT !.purge = "active"] /\ UNCHANGED <<project, faults>>
        BY <1>7, <2>2 DEF ProjectCleanup, MaintType, JobState
    <2> QED BY <1>7, <2>1, <2>2 DEF ProjectCleanup
<1>8. CASE CreateProject
    BY <1>8 DEF CreateProject, ProjectType
<1>9. CASE DeleteProject
    BY <1>9, GoneTyped DEF DeleteProject, Change
<1>10. CASE InitRuns
    BY <1>10 DEF InitRuns, MaintType, JobState
<1>11. CASE PurgeRuns
    <2>1. maint' \in MaintType
        BY <1>11 DEF PurgeRuns, MaintType, JobState
    <2>2. worktree' \in [Names -> 0..(MaxInc + 1)]
        BY <1>11 DEF PurgeRuns, NoTree
    <2> QED BY <1>11, <2>1, <2>2 DEF PurgeRuns
<1>12. CASE JobFails
    <2>1. maint' \in MaintType /\ faults' \in 0..MaxFaults
        BY <1>12 DEF JobFails, Fault, MaintType, JobState
    <2>2. job' \in [Names -> JobsType]
        <3>1. ASSUME NEW n \in Names, NEW k \in {"checkout", "remove"}
              PROVE  [job EXCEPT ![n][k].state = "failed"] \in [Names -> JobsType]
            BY JobTyped, NoneTyped DEF JobState
        <3>2. CASE UNCHANGED job
            BY <3>2
        <3>3. ASSUME NEW n \in Names, NEW k \in {"checkout", "remove"}, job' = [job EXCEPT ![n][k].state = "failed"]
              PROVE  job' \in [Names -> JobsType]
            BY <3>1, <3>3
        <3> QED BY <1>12, <3>2, <3>3 DEF JobFails
    <2> QED BY <1>12, <2>1, <2>2 DEF JobFails
<1>13. CASE NamespaceDeletes
    <2>1. CASE DeletedProject /\ UNCHANGED <<maint, job, sandbox, pod>>
        BY <1>13, <2>1, GoneTyped DEF NamespaceDeletes
    <2>2. ASSUME NEW n \in Names, DeletedSandbox(n),
                 UNCHANGED <<project, maint, job, pod>>
          PROVE  Typed'
        BY <1>13, <2>2 DEF NamespaceDeletes, DeletedSandbox, SandboxType
    <2>3. ASSUME NEW n \in Names, pod' = [pod EXCEPT ![n] = NoPod],
                 job' = [job EXCEPT ![n] = NoJobs],
                 UNCHANGED <<project, maint, sandbox>>
          PROVE  Typed'
        BY <1>13, <2>3 DEF NamespaceDeletes, PodType, PodState, NoPod, JobsType, JobType,
           NoJob, NoJobs, JobState
    <2>4. CASE /\ maint' = NoMaint
               /\ UNCHANGED <<project, job, sandbox, pod>>
        BY <1>13, <2>4 DEF NamespaceDeletes, MaintType, JobState, NoMaint
    <2> QED BY <1>13, <2>1, <2>2, <2>3, <2>4 DEF NamespaceDeletes
<1>14. CASE NamespaceGoes
    BY <1>14 DEF NamespaceGoes
<1>15. ASSUME NEW n \in Names, SandboxFinalizer(n) PROVE Typed'
    BY <1>15 DEF SandboxFinalizer, SandboxType
<1>16. ASSUME NEW n \in Names, ApplyCheckout(n) PROVE Typed'
    <2>1. sandbox[n].inc \in 0..MaxInc /\ sandbox[n].suspended \in BOOLEAN
        BY DEF SandboxType
    <2>2. job' \in [Names -> JobsType]
        <3>1. [state |-> "active", of |-> sandbox[n].inc] \in JobType
            BY <2>1 DEF JobType, JobState
        <3>2. \/ job' = [job EXCEPT ![n].checkout = [state |-> "active", of |-> sandbox[n].inc]]
              \/ UNCHANGED job
              \/ job' = [job EXCEPT ![n].checkout.state = "noted"]
            BY <1>16 DEF ApplyCheckout
        <3>3. [job EXCEPT ![n].checkout.state = "noted"] \in [Names -> JobsType]
            BY JobTyped, NoneTyped DEF JobState
        <3>4. [job EXCEPT ![n].checkout = [state |-> "active", of |-> sandbox[n].inc]] \in [Names -> JobsType]
            BY <3>1, JobTyped DEF JobState
        <3> QED BY <3>2, <3>3, <3>4
    <2>3. rec' \in [Names -> RecType]
        <3>1. (job[n].checkout.state \in {"succeeded", "noted"}) \in BOOLEAN
            OBVIOUS
        <3> QED BY <1>16, <2>1, <3>1 DEF ApplyCheckout, RecType
    <2>4. lapse' \in [Names -> SUBSET Lapses]
        BY <1>16 DEF ApplyCheckout, Read, Lapses
    <2> QED BY <1>16, <2>2, <2>3, <2>4 DEF ApplyCheckout
<1>17. ASSUME NEW n \in Names, ApplyPod(n) PROVE Typed'
    <2>1. pod' \in [Names -> PodType]
        <3>1. (pod[n].state # "none") \in BOOLEAN
            OBVIOUS
        <3>2. CASE pod' = [pod EXCEPT ![n].going = pod[n].state # "none"]
            BY <3>1, <3>2 DEF PodType
        <3>3. CASE pod' = [pod EXCEPT ![n] = [state |-> "Pending", going |-> FALSE, of |-> sandbox[n].inc]]
            BY <3>3 DEF PodType, PodState, SandboxType
        <3> QED BY <1>17, <3>2, <3>3 DEF ApplyPod
    <2>2. pod[n].state # "none" => PhaseOfPod(pod[n]) \in Phases
        BY DEF PhaseOfPod, PodType, PodState, Phases
    <2>3. \E q \in Phases : rec' = [rec EXCEPT ![n] = [at |-> "status", phase |-> q]]
        BY <1>17, <2>2 DEF ApplyPod, Phases
    <2>4. rec' \in [Names -> RecType]
        BY <2>3 DEF RecType
    <2>5. lapse' \in [Names -> SUBSET Lapses]
        BY <1>17 DEF ApplyPod, Read, Lapses
    <2> QED BY <1>17, <2>1, <2>4, <2>5 DEF ApplyPod
<1>18. ASSUME NEW n \in Names, ApplyStatus(n) PROVE Typed'
    <2>1. rec[n].phase \in Phases
        BY <1>18 DEF ApplyStatus, Idle, RecType
    <2> QED BY <1>18, <2>1 DEF ApplyStatus, RecType, SandboxType
<1>19. ASSUME NEW n \in Names, ApplyFails(n) PROVE Typed'
    BY <1>19 DEF ApplyFails, Fault, RecType
<1>20. ASSUME NEW n \in Names, Cleanup(n) PROVE Typed'
    <2>1. job' \in [Names -> JobsType]
        <3>1. [state |-> "active", of |-> sandbox[n].inc] \in JobType
            BY DEF JobType, JobState, SandboxType
        <3>2. [job EXCEPT ![n].remove = [state |-> "active", of |-> sandbox[n].inc]] \in [Names -> JobsType]
            BY <3>1, JobTyped DEF JobState
        <3> QED BY <1>20, <3>2 DEF Cleanup, ReleasedUnread, StartRemoval
    <2>2. sandbox' \in [Names -> SandboxType]
        BY <1>20 DEF Cleanup, ReleasedUnread, Released, SandboxType
    <2>3. faults' \in 0..MaxFaults
        BY <1>20 DEF Cleanup, Fault
    <2>4. lapse' \in [Names -> SUBSET Lapses]
        BY <1>20 DEF Cleanup, ReleasedUnread, Lapses
    <2> QED BY <1>20, <2>1, <2>2, <2>3, <2>4 DEF Cleanup
<1>21. ASSUME NEW n \in Names, CreateSandbox(n) PROVE Typed'
    BY <1>21 DEF CreateSandbox, SandboxType, Phases
<1>22. ASSUME NEW n \in Names, DeleteSandbox(n) PROVE Typed'
    BY <1>22 DEF DeleteSandbox, DeletedSandbox, SandboxType, Change
<1>23. ASSUME NEW n \in Names, SetSuspended(n) PROVE Typed'
    <2>1. sandbox' \in [Names -> SandboxType]
        BY <1>23 DEF SetSuspended, SandboxType
    <2>2. changes' \in 0..MaxChanges
        BY <1>23 DEF SetSuspended, Change
    <2> QED BY <1>23, <2>1, <2>2 DEF SetSuspended
<1>24. ASSUME NEW n \in Names, CheckoutRuns(n) PROVE Typed'
    <2>1. job' \in [Names -> JobsType]
        <3>1. ASSUME NEW q \in JobState PROVE [job EXCEPT ![n].checkout.state = q] \in [Names -> JobsType]
            BY <3>1, JobTyped, NoneTyped
        <3> QED BY <1>24, <3>1 DEF CheckoutRuns, JobState
    <2>2. worktree' \in [Names -> 0..(MaxInc + 1)]
        <3>1. job[n].checkout.of \in 0..MaxInc
            BY DEF JobsType, JobType
        <3> QED BY <1>24, <3>1 DEF CheckoutRuns
    <2> QED BY <1>24, <2>1, <2>2 DEF CheckoutRuns
<1>25. ASSUME NEW n \in Names, RemoveRuns(n) PROVE Typed'
    BY <1>25 DEF RemoveRuns, JobsType, JobType, NoJob, NoJobs, JobState, NoTree
<1>26. ASSUME NEW n \in Names, PodStarts(n) PROVE Typed'
    BY <1>26 DEF PodStarts, PodType, PodState, Empty
<1>27. ASSUME NEW n \in Names, PodBreaks(n) PROVE Typed'
    <2>1. pod' \in [Names -> PodType]
        <3>1. CASE pod' = [pod EXCEPT ![n].state = "Failed"]
            BY <3>1 DEF PodType, PodState
        <3>2. CASE pod' = [pod EXCEPT ![n] = NoPod]
            BY <3>2 DEF PodType, PodState, NoPod
        <3> QED BY <1>27, <3>1, <3>2 DEF PodBreaks
    <2>2. faults' \in 0..MaxFaults
        BY <1>27 DEF PodBreaks, Fault
    <2> QED BY <1>27, <2>1, <2>2 DEF PodBreaks
<1>28. ASSUME NEW n \in Names, PodGoes(n) PROVE Typed'
    BY <1>28 DEF PodGoes, PodType, PodState, NoPod
<1>29. ASSUME NEW n \in Names, CollectSandbox(n) PROVE Typed'
    <2>1. [pod EXCEPT ![n] = NoPod] \in [Names -> PodType]
        BY NoneTyped
    <2>2. ASSUME NEW k \in {"checkout", "remove"} PROVE [job EXCEPT ![n][k] = NoJob] \in [Names -> JobsType]
        BY <2>2, JobTyped, NoneTyped DEF JobState
    <2> QED BY <1>29, <2>1, <2>2 DEF CollectSandbox
<1>30. ASSUME NEW j \in {"init", "purge"}, ProjectJobExpires(j) \/ CollectProject(j) PROVE Typed'
    BY <1>30 DEF ProjectJobExpires, CollectProject, MaintType, JobState
<1>31. ASSUME NEW n \in Names, NEW j \in {"checkout", "remove"}, SandboxJobExpires(n, j) PROVE Typed'
    BY <1>31 DEF SandboxJobExpires, JobsType, JobType, NoJob, NoJobs, JobState
<1>32. CASE UNCHANGED vars
    BY <1>32 DEF vars
<1> HIDE DEF Typed
<1> QED
    BY <1>1, <1>2, <1>3, <1>4, <1>5, <1>6, <1>7, <1>8, <1>9, <1>10, <1>11, <1>12, <1>13, <1>14,
       <1>15, <1>16, <1>17, <1>18, <1>19, <1>20, <1>21, <1>22, <1>23, <1>24, <1>25, <1>26,
       <1>27, <1>28, <1>29, <1>30, <1>31, <1>32 DEF Next, Reconcilers, Users, Cluster

-----------------------------------------------------------------------------
(* The inductive invariant *)

Live(n) == sandbox[n].state = "live"

\* Only a Project that is being deleted is purged, or one that was.
ProjectSound == maint.purge # "absent" => project.state \in {"deleting", "gone"}

\* A remove Job runs for a Sandbox that is being deleted, or because the finalizer of
\* one was lifted without it.
NoRemoval(n) ==
    sandbox[n].state # "deleting" /\ job[n].remove.state = "active" => "unawaited" \in lapse[n]

\* Only a Sandbox with its finalizer is being reconciled, and it is not gone; only the
\* finalizer holds one that is deleted.
Attended(n) ==
    /\ ~sandbox[n].fin => rec[n] = Idle
    /\ sandbox[n].state = "absent" => ~sandbox[n].fin
    /\ sandbox[n].state = "deleting" => sandbox[n].fin

\* There is no Sandbox before the Project.
Founded(n) == project.state = "none" => sandbox[n].state = "absent"

\* Nothing of a name before its first Sandbox, and nothing of Sandboxes to come.
Dated(n) ==
    /\ job[n].checkout # NoJob => job[n].checkout.of \in 1..sandbox[n].inc
    /\ pod[n] # NoPod => pod[n].of \in 1..sandbox[n].inc
    /\ sandbox[n].inc = 0 => sandbox[n].state = "absent" /\ worktree[n] = NoTree
    /\ job[n].checkout.state = "absent" => job[n].checkout = NoJob
    /\ pod[n].state = "none" => pod[n] = NoPod

\* What is decided once the checkout has succeeded: the Job of this Sandbox that says so,
\* its Pod, an apply that goes on to the Pod or has seen it run, and the phase.
BuiltOn(n) ==
    \/ job[n].checkout.state \in {"succeeded", "noted"} /\ job[n].checkout.of = sandbox[n].inc
    \/ pod[n].state # "none" /\ pod[n].of = sandbox[n].inc
    \/ rec[n].at = "pod" /\ rec[n].out
    \/ rec[n].at = "status" /\ rec[n].phase = "Running"
    \/ sandbox[n].phase = "Running"

Grounded(n) ==
    Live(n) /\ project.state = "live" /\ lapse[n] = {} /\ BuiltOn(n) => worktree[n] # NoTree

\* The directory of the first Sandbox of a name is its own checkout.
FirstOwnTree(n) ==
    Live(n) /\ project.state = "live" /\ lapse[n] = {} /\ sandbox[n].inc = 1
    => worktree[n] \in {NoTree, 1}

SandboxSound(n) ==
    NoRemoval(n) /\ Attended(n) /\ Founded(n) /\ Dated(n) /\ Grounded(n) /\ FirstOwnTree(n)

LifecycleInv == Typed /\ ProjectSound /\ \A n \in Names : SandboxSound(n)

LEMMA InitSound == Init => LifecycleInv
<1> SUFFICES ASSUME Init PROVE LifecycleInv
    OBVIOUS
<1>1. ProjectSound
    BY DEF Init, ProjectSound, NoMaint
<1>2. ASSUME NEW n \in Names PROVE SandboxSound(n)
    BY DEF Init, SandboxSound, NoRemoval, Attended, Founded, Dated, Grounded, FirstOwnTree,
           Live, BuiltOn, NoTree, NoPod, NoJob, NoJobs, Idle
<1> QED
    BY <1>1, <1>2, InitTyped DEF LifecycleInv

-----------------------------------------------------------------------------
(* What a step does to the names it is not about *)

SameFor(n) ==
    /\ worktree'[n] = worktree[n] /\ job'[n] = job[n] /\ sandbox'[n] = sandbox[n]
    /\ pod'[n] = pod[n] /\ rec'[n] = rec[n] /\ lapse'[n] = lapse[n]

OfSandbox(n) ==
    \/ SandboxFinalizer(n) \/ ApplyCheckout(n) \/ ApplyPod(n)
    \/ ApplyStatus(n) \/ ApplyFails(n) \/ Cleanup(n)
    \/ CreateSandbox(n) \/ DeleteSandbox(n) \/ SetSuspended(n)
    \/ CheckoutRuns(n) \/ RemoveRuns(n) \/ PodStarts(n) \/ PodBreaks(n) \/ PodGoes(n)
    \/ CollectSandbox(n)
    \/ \E k \in {"checkout", "remove"} : SandboxJobExpires(n, k)

LEMMA Others ==
    ASSUME Typed, NEW m \in Names, OfSandbox(m)
    PROVE  /\ UNCHANGED <<project, maint, repo>>
           /\ \A n \in Names \ {m} : SameFor(n)
<1> USE DEF Typed, SameFor
<1>1. CASE SandboxFinalizer(m)
    BY <1>1 DEF SandboxFinalizer
<1>2. CASE ApplyCheckout(m)
    BY <1>2 DEF ApplyCheckout, Read
<1>3. CASE ApplyPod(m)
    BY <1>3 DEF ApplyPod, Read
<1>4. CASE ApplyStatus(m)
    BY <1>4 DEF ApplyStatus
<1>5. CASE ApplyFails(m)
    BY <1>5 DEF ApplyFails
<1>6. CASE Cleanup(m)
    BY <1>6 DEF Cleanup, ReleasedUnread, StartRemoval, Released
<1>7. CASE CreateSandbox(m)
    BY <1>7 DEF CreateSandbox
<1>8. CASE DeleteSandbox(m)
    BY <1>8 DEF DeleteSandbox, DeletedSandbox
<1>9. CASE SetSuspended(m)
    BY <1>9 DEF SetSuspended
<1>10. CASE CheckoutRuns(m)
    BY <1>10 DEF CheckoutRuns
<1>11. CASE RemoveRuns(m)
    BY <1>11 DEF RemoveRuns
<1>12. CASE PodStarts(m)
    BY <1>12 DEF PodStarts
<1>13. CASE PodBreaks(m)
    BY <1>13 DEF PodBreaks
<1>14. CASE PodGoes(m)
    BY <1>14 DEF PodGoes
<1>15. CASE CollectSandbox(m)
    BY <1>15 DEF CollectSandbox
<1>16. ASSUME NEW k \in {"checkout", "remove"}, SandboxJobExpires(m, k)
      PROVE UNCHANGED <<project, maint, repo>> /\ \A n \in Names \ {m} : SameFor(n)
    BY <1>16 DEF SandboxJobExpires
<1> QED
    BY <1>1, <1>2, <1>3, <1>4, <1>5, <1>6, <1>7, <1>8, <1>9, <1>10, <1>11, <1>12, <1>13, <1>14,
       <1>15, <1>16 DEF OfSandbox

LEMMA SameSound ==
    ASSUME NEW n \in Names, SandboxSound(n), SameFor(n), UNCHANGED project
    PROVE  SandboxSound(n)'
BY DEF SameFor, SandboxSound, NoRemoval, Attended, Founded, Dated, Grounded, FirstOwnTree,
       Live, BuiltOn

-----------------------------------------------------------------------------
(* What a step does to the name it is about *)

LEMMA OwnStep ==
    ASSUME Typed, ProjectSound, NEW n \in Names, SandboxSound(n), OfSandbox(n)
    PROVE  SandboxSound(n)'
<1>t. /\ worktree \in [Names -> 0..(MaxInc + 1)] /\ job \in [Names -> JobsType]
      /\ sandbox \in [Names -> SandboxType] /\ pod \in [Names -> PodType]
      /\ rec \in [Names -> RecType] /\ project \in ProjectType
      /\ lapse \in [Names -> SUBSET Lapses]
    BY DEF Typed
<1> USE DEF SandboxSound, NoRemoval, Attended, Founded, Dated, Grounded, FirstOwnTree, Live, BuiltOn
<1>1. CASE SandboxFinalizer(n)
    BY <1>t, <1>1, LifecycleAssumption DEF SandboxFinalizer, SandboxType
<1>2. CASE ApplyCheckout(n)
    <2> DEFINE of == job[n].checkout.of
               read == job[n].checkout.state \in {"succeeded", "noted"}
    <2>1. /\ UNCHANGED <<project, worktree, sandbox, pod>> /\ Live(n) /\ sandbox[n].fin
          /\ rec'[n] = [at |-> "pod", suspended |-> sandbox[n].suspended, out |-> read]
        BY <1>t, <1>2 DEF ApplyCheckout
    <2>2. lapse'[n] = IF read /\ of # sandbox[n].inc THEN lapse[n] \cup {"misread"} ELSE lapse[n]
        <3>1. CASE job[n].checkout = NoJob /\ UNCHANGED lapse
            BY <3>1 DEF NoJob
        <3>2. CASE job[n].checkout.state \in {"active", "failed"} /\ UNCHANGED lapse
            BY <3>2
        <3>3. CASE read /\ Read(n, of)
            BY <1>t, <3>3 DEF Read
        <3> QED BY <1>2, <3>1, <3>2, <3>3 DEF ApplyCheckout
    <2>3. /\ job'[n].remove = job[n].remove
          /\ job'[n].checkout = IF job[n].checkout = NoJob THEN [state |-> "active", of |-> sandbox[n].inc]
                                ELSE IF read THEN [state |-> "noted", of |-> of] ELSE job[n].checkout
        BY <1>t, <1>2 DEF ApplyCheckout, JobsType, JobType, NoJob
    <2>4. sandbox[n].inc \in 1..MaxInc
        BY <1>t, <2>1 DEF SandboxType
    <2>5. NoRemoval(n)' /\ Attended(n)' /\ Founded(n)' /\ FirstOwnTree(n)'
        BY <2>1, <2>2, <2>3
    <2>6. Dated(n)'
        BY <1>t, <2>1, <2>3, <2>4 DEF NoJob
    <2>7. lapse'[n] = {} /\ BuiltOn(n)' => BuiltOn(n) /\ lapse[n] = {}
        <3>1. CASE read
            BY <2>1, <2>2, <2>3, <3>1 DEF NoJob
        <3>2. CASE ~read
            <4>1. ~rec'[n].out
                <5>1. read = FALSE
                    BY <3>2
                <5>2. rec'[n] = [at |-> "pod", suspended |-> sandbox[n].suspended, out |-> FALSE]
                    BY <2>1, <5>1, Zenon
                <5> QED BY <5>2
            <4>2. ~(job'[n].checkout.state \in {"succeeded", "noted"})
                BY <2>3, <3>2
            <4> HIDE DEF read
            <4> QED BY <2>1, <2>2, <3>2, <4>1, <4>2
        <3> QED BY <3>1, <3>2
    <2>8. Grounded(n)'
        BY <2>1, <2>7
    <2> QED BY <2>5, <2>6, <2>8
<1>3. CASE ApplyPod(n)
    <2>1. /\ UNCHANGED <<project, worktree, sandbox, job>>
          /\ rec[n].at = "pod" /\ rec[n] # Idle /\ rec'[n].at = "status"
        BY <1>t, <1>3 DEF ApplyPod, Idle
    <2>2. /\ "unawaited" \in lapse'[n] <=> "unawaited" \in lapse[n]
          /\ lapse'[n] = {} => lapse[n] = {}
        BY <1>t, <1>3 DEF ApplyPod, Read
    <2>3. sandbox[n].fin /\ sandbox[n].inc \in 1..MaxInc
        BY <1>t, <2>1 DEF SandboxType
    <2>4. \/ \E b \in BOOLEAN : /\ pod'[n] = [pod[n] EXCEPT !.going = b] /\ rec'[n].phase = "Suspended"
                                /\ pod[n].state = "none" => b = FALSE
          \/ pod'[n] = pod[n] /\ rec'[n].phase = "Provisioning"
          \/ pod'[n] = pod[n] /\ pod[n].state # "none" /\ rec[n].out
          \/ /\ pod'[n] = [state |-> "Pending", going |-> FALSE, of |-> sandbox[n].inc]
             /\ rec[n].out /\ rec'[n].phase = "Provisioning"
        <3>1. CASE /\ pod' = [pod EXCEPT ![n].going = pod[n].state # "none"]
                   /\ rec' = [rec EXCEPT ![n] = [at |-> "status", phase |-> "Suspended"]]
            <4>1. PICK b \in BOOLEAN : b = (pod[n].state # "none")
                OBVIOUS
            <4>2. pod' = [pod EXCEPT ![n].going = b]
                BY <3>1, <4>1, Zenon
            <4>3. pod[n].state = "none" => b = FALSE
                BY <4>1
            <4> QED BY <1>t, <3>1, <4>2, <4>3
        <3>2. CASE pod' = pod /\ rec' = [rec EXCEPT ![n] = [at |-> "status", phase |-> "Provisioning"]]
            BY <1>t, <3>2
        <3>3. CASE pod' = pod /\ pod[n].state # "none" /\ rec[n].out
            BY <3>3
        <3>4. CASE /\ pod' = [pod EXCEPT ![n] = [state |-> "Pending", going |-> FALSE, of |-> sandbox[n].inc]]
                   /\ rec' = [rec EXCEPT ![n] = [at |-> "status", phase |-> "Provisioning"]] /\ rec[n].out
            BY <1>t, <3>4
        <3> QED BY <1>3, <3>1, <3>2, <3>3, <3>4 DEF ApplyPod
    <2>5. NoRemoval(n)' /\ Attended(n)' /\ Founded(n)' /\ FirstOwnTree(n)'
        BY <2>1, <2>2, <2>3
    <2>6. Dated(n)'
        <3>1. pod[n] \in [state : PodState, going : BOOLEAN, of : 0..MaxInc]
            BY <1>t DEF PodType
        <3>2. ASSUME NEW b \in BOOLEAN, pod'[n] = [pod[n] EXCEPT !.going = b], pod[n].state = "none" => b = FALSE
              PROVE  Dated(n)'
            <4>1. pod'[n].state = pod[n].state /\ pod'[n].of = pod[n].of
                BY <3>1, <3>2
            <4>2. CASE pod[n].state = "none"
                <5>1. pod'[n] = [NoPod EXCEPT !.going = FALSE]
                    BY <3>2, <4>2, Zenon
                <5>2. pod'[n] = NoPod
                    BY <5>1 DEF NoPod
                <5> QED BY <2>1, <4>2, <5>2
            <4>3. CASE pod[n].state # "none"
                <5>1. pod[n] # NoPod
                    BY <4>3 DEF NoPod
                <5> QED BY <2>1, <4>1, <4>3, <5>1
            <4> QED BY <4>2, <4>3
        <3>3. CASE pod'[n] = pod[n]
            BY <2>1, <3>3
        <3>4. CASE pod'[n] = [state |-> "Pending", going |-> FALSE, of |-> sandbox[n].inc]
            BY <2>1, <2>3, <3>4
        <3> QED BY <2>4, <3>2, <3>3, <3>4
    <2>7. lapse'[n] = {} /\ BuiltOn(n)' => BuiltOn(n)
        BY <1>t, <2>1, <2>4 DEF PodType
    <2>8. Grounded(n)'
        BY <2>1, <2>2, <2>7
    <2> QED BY <2>5, <2>6, <2>8
<1>4. CASE ApplyStatus(n)
    BY <1>t, <1>4, LifecycleAssumption DEF ApplyStatus, SandboxType, RecType, Idle
<1>5. CASE ApplyFails(n)
    BY <1>t, <1>5, LifecycleAssumption DEF ApplyFails, Idle
<1>6. CASE Cleanup(n)
    BY <1>t, <1>6, LifecycleAssumption DEF Cleanup, ReleasedUnread, StartRemoval, Released,
       SandboxType, JobsType, JobType, NoJob, NoJobs
<1>7. CASE CreateSandbox(n)
    <2>1. /\ UNCHANGED <<project, worktree, job, pod, rec, lapse>> /\ project.state # "none"
          /\ sandbox[n].state = "absent" /\ rec[n] = Idle
        BY <1>7 DEF CreateSandbox, Reachable
    <2>2. sandbox'[n] = [state |-> "live", fin |-> FALSE, suspended |-> FALSE, phase |-> "none",
                         inc |-> sandbox[n].inc + 1] /\ sandbox[n].inc \in Nat
        BY <1>t, <1>7, LifecycleAssumption DEF CreateSandbox, SandboxType
    <2>3. NoRemoval(n)' /\ Attended(n)' /\ Founded(n)'
        BY <2>1, <2>2
    <2>4. Dated(n)'
        BY <2>1, <2>2
    <2>5. ~BuiltOn(n)'
        \* what is left belongs to an earlier Sandbox
        BY <1>t, <2>1, <2>2 DEF Idle, NoJob, NoPod
    <2>6. FirstOwnTree(n)'
        BY <2>1, <2>2
    <2> QED BY <2>3, <2>4, <2>5, <2>6
<1>8. CASE DeleteSandbox(n)
    BY <1>t, <1>8, LifecycleAssumption DEF DeleteSandbox, DeletedSandbox, SandboxType
<1>9. CASE SetSuspended(n)
    BY <1>t, <1>9, LifecycleAssumption DEF SetSuspended, SandboxType
<1>10. CASE CheckoutRuns(n)
    BY <1>t, <1>10, LifecycleAssumption DEF CheckoutRuns, JobsType, JobType, NoJob, NoJobs,
       SandboxType, NoTree, ProjectSound
<1>11. CASE RemoveRuns(n)
    BY <1>t, <1>11, LifecycleAssumption DEF RemoveRuns, JobsType, JobType, NoJob, NoJobs, NoTree
<1>12. CASE PodStarts(n)
    BY <1>t, <1>12, LifecycleAssumption DEF PodStarts, PodType, NoTree, NoPod, Empty
<1>13. CASE PodBreaks(n)
    <2>1. UNCHANGED <<project, worktree, job, sandbox, rec, lapse>> /\ pod[n] # NoPod
        BY <1>13 DEF PodBreaks, NoPod
    <2>2. pod'[n] = NoPod \/ pod'[n] = [pod[n] EXCEPT !.state = "Failed"]
        BY <1>t, <1>13 DEF PodBreaks
    <2>3. pod'[n] = NoPod \/ (pod'[n].of = pod[n].of /\ pod'[n].state = "Failed")
        <3>1. pod[n] \in [state : PodState, going : BOOLEAN, of : 0..MaxInc]
            BY <1>t DEF PodType
        <3> QED BY <2>2, <3>1
    <2>4. Dated(n)'
        BY <2>1, <2>3
    <2>5. BuiltOn(n)' => BuiltOn(n)
        BY <1>13, <2>1, <2>3 DEF PodBreaks, NoPod
    <2> QED BY <2>1, <2>4, <2>5
<1>14. CASE PodGoes(n)
    BY <1>t, <1>14, LifecycleAssumption DEF PodGoes, NoPod, PodType
<1>15. CASE CollectSandbox(n)
    <2>1. UNCHANGED <<project, worktree, sandbox, rec, lapse>>
        BY <1>15 DEF CollectSandbox
    <2>2. /\ pod'[n] = pod[n] \/ pod'[n] = NoPod
          /\ job'[n].checkout = job[n].checkout \/ job'[n].checkout = NoJob
          /\ job'[n].remove = job[n].remove \/ job'[n].remove = NoJob
        BY <1>t, <1>15 DEF CollectSandbox, JobsType
    <2>3. Dated(n)' /\ NoRemoval(n)'
        BY <2>1, <2>2 DEF NoJob, NoPod
    <2>4. BuiltOn(n)' => BuiltOn(n)
        BY <2>1, <2>2 DEF NoJob, NoPod
    <2> QED BY <2>1, <2>3, <2>4
<1>16. ASSUME NEW k \in {"checkout", "remove"}, SandboxJobExpires(n, k) PROVE SandboxSound(n)'
    BY <1>t, <1>16 DEF SandboxJobExpires, JobsType, JobType, NoJob, NoJobs
<1> QED
    BY <1>1, <1>2, <1>3, <1>4, <1>5, <1>6, <1>7, <1>8, <1>9, <1>10, <1>11, <1>12, <1>13, <1>14,
       <1>15, <1>16 DEF OfSandbox

-----------------------------------------------------------------------------
(* The steps of the Owner, the Project and the cluster *)

OfOwner == EnsureNamespace \/ OwnerReady \/ OwnerCleanup \/ DeleteOwner \/ NamespaceGoes

LEMMA OwnerStep ==
    ASSUME LifecycleInv, OfOwner
    PROVE  ProjectSound' /\ \A n \in Names : SandboxSound(n)'
<1>1. UNCHANGED <<project, repo, worktree, maint, job, sandbox, pod, rec, lapse>>
    BY DEF OfOwner, EnsureNamespace, OwnerReady, OwnerCleanup, DeleteOwner, NamespaceGoes
<1>2. ProjectSound'
    BY <1>1 DEF LifecycleInv, ProjectSound
<1>3. \A n \in Names : SameFor(n)
    BY <1>1 DEF SameFor
<1> QED
    BY <1>1, <1>2, <1>3, SameSound DEF LifecycleInv

\* While a Project is being deleted, or gone, only what a name never had matters.
LEMMA DoomedSound ==
    ASSUME NEW n \in Names, SandboxSound(n), project'.state \in {"deleting", "gone"},
           worktree'[n] \in {worktree[n], NoTree}, lapse'[n] = lapse[n],
           job'[n] = job[n], sandbox'[n] = sandbox[n], pod'[n] = pod[n], rec'[n] = rec[n]
    PROVE  SandboxSound(n)'
BY DEF SandboxSound, NoRemoval, Attended, Founded, Dated, Grounded, FirstOwnTree, Live

LEMMA DeletedProjectStep ==
    ASSUME LifecycleInv, ProjectGoes \/ DeletedProject,
           UNCHANGED <<worktree, maint, job, sandbox, pod, rec, lapse>>
    PROVE  ProjectSound' /\ \A n \in Names : SandboxSound(n)'
<1>1. project'.state \in {"deleting", "gone"}
    BY DEF LifecycleInv, Typed, ProjectGoes, DeletedProject, ProjectType
<1> QED
    BY <1>1, DoomedSound DEF LifecycleInv, ProjectSound

LEMMA ProjectStep ==
    ASSUME LifecycleInv,
           \/ ProjectFinalizer \/ ProjectApply \/ ProjectCleanup
           \/ CreateProject \/ DeleteProject
    PROVE  ProjectSound' /\ \A n \in Names : SandboxSound(n)'
<1>t. project \in ProjectType /\ maint \in MaintType
    BY DEF LifecycleInv, Typed
<1>1. CASE ProjectFinalizer
    <2>1. project' = [project EXCEPT !.fin = TRUE] /\ UNCHANGED <<maint, repo>>
        BY <1>1 DEF ProjectFinalizer
    <2>2. ProjectSound'
        BY <1>t, <2>1 DEF LifecycleInv, ProjectSound, ProjectType
    <2>3. ASSUME NEW n \in Names PROVE SandboxSound(n)'
        BY <1>t, <1>1, <2>1 DEF LifecycleInv, ProjectFinalizer, SandboxSound, NoRemoval, Attended,
            Founded, Dated, Grounded, FirstOwnTree, Live, BuiltOn, ProjectType
    <2> QED BY <2>2, <2>3
<1>2. CASE ProjectApply
    <2>1. /\ project.state = "live" /\ project.fin
          /\ project'.state = "live" /\ project'.fin /\ maint'.purge = maint.purge
        BY <1>t, <1>2 DEF ProjectApply, ProjectType, MaintType
    <2>2. ProjectSound'
        BY <2>1 DEF LifecycleInv, ProjectSound
    <2>3. ASSUME NEW n \in Names PROVE SandboxSound(n)'
        BY <1>2, <2>1 DEF LifecycleInv, ProjectApply, SandboxSound, NoRemoval, Attended,
            Founded, Dated, Grounded, FirstOwnTree, Live, BuiltOn
    <2> QED BY <2>2, <2>3
<1>3. CASE ProjectCleanup
    <2>1. CASE ProjectGoes /\ UNCHANGED maint
        BY <1>3, <2>1, DeletedProjectStep DEF ProjectCleanup
    <2>2. CASE maint' = [maint EXCEPT !.purge = "active"] /\ UNCHANGED project
        <3>1. project.state = "deleting" /\ project'.state = "deleting"
            BY <1>3, <2>2 DEF ProjectCleanup
        <3>2. ProjectSound'
            BY <3>1 DEF ProjectSound
        <3>3. \A n \in Names : SandboxSound(n)'
            BY <1>3, <2>2, <3>1, DoomedSound DEF ProjectCleanup, LifecycleInv
        <3> QED BY <3>2, <3>3
    <2> QED BY <1>3, <2>1, <2>2 DEF ProjectCleanup
<1>4. CASE CreateProject
    <2>1. /\ project.state = "none" /\ project'.state = "live" /\ project'.fin = project.fin
          /\ UNCHANGED <<maint, repo>>
        BY <1>t, <1>4 DEF CreateProject, ProjectType
    <2>2. ProjectSound'
        BY <2>1 DEF LifecycleInv, ProjectSound
    <2>3. ASSUME NEW n \in Names PROVE SandboxSound(n)'
        BY <1>4, <2>1 DEF LifecycleInv, CreateProject, SandboxSound, NoRemoval, Attended,
            Founded, Dated, Grounded, FirstOwnTree, Live
    <2> QED BY <2>2, <2>3
<1>5. CASE DeleteProject
    BY <1>5, DeletedProjectStep DEF DeleteProject
<1> QED
    BY <1>1, <1>2, <1>3, <1>4, <1>5

LEMMA ClusterStep ==
    ASSUME LifecycleInv,
           \/ InitRuns \/ PurgeRuns \/ JobFails \/ NamespaceDeletes
           \/ \E k \in {"init", "purge"} : ProjectJobExpires(k) \/ CollectProject(k)
    PROVE  ProjectSound' /\ \A n \in Names : SandboxSound(n)'
<1>t. /\ project \in ProjectType /\ maint \in MaintType /\ repo \in BOOLEAN
      /\ job \in [Names -> JobsType] /\ sandbox \in [Names -> SandboxType]
      /\ pod \in [Names -> PodType]
    BY DEF LifecycleInv, Typed
<1>1. CASE InitRuns
    <2>1. maint.init = "active" /\ maint'.purge = maint.purge /\ UNCHANGED project
        BY <1>t, <1>1 DEF InitRuns, MaintType
    <2>2. ProjectSound'
        BY <2>1 DEF LifecycleInv, ProjectSound
    <2>3. \A n \in Names : SameFor(n)
        BY <1>1 DEF InitRuns, SameFor
    <2> QED BY <2>1, <2>2, <2>3, SameSound DEF LifecycleInv
<1>2. CASE PurgeRuns
    <2>1. project.state \in {"deleting", "gone"} /\ UNCHANGED project
        BY <1>2 DEF PurgeRuns, LifecycleInv, ProjectSound
    <2>2. ProjectSound'
        BY <2>1 DEF ProjectSound
    <2>3. \A n \in Names : SandboxSound(n)'
        BY <1>2, <2>1, DoomedSound DEF PurgeRuns, LifecycleInv
    <2> QED BY <2>2, <2>3
<1>3. CASE JobFails
    <2>1. UNCHANGED <<project, repo, worktree, sandbox, pod, rec, lapse>>
        BY <1>3 DEF JobFails
    <2>2. CASE /\ \E k \in {"init", "purge"} :
                      maint[k] = "active" /\ maint' = [maint EXCEPT ![k] = "failed"]
               /\ UNCHANGED job
        <3>1. ProjectSound'
            BY <1>t, <2>1, <2>2 DEF LifecycleInv, ProjectSound, MaintType
        <3>2. \A n \in Names : SameFor(n)
            BY <2>1, <2>2 DEF SameFor
        <3> QED BY <2>1, <3>1, <3>2, SameSound DEF LifecycleInv
    <2>3. ASSUME NEW m \in Names, NEW k \in {"checkout", "remove"}, UNCHANGED maint,
                 job[m][k].state = "active", job' = [job EXCEPT ![m][k].state = "failed"]
          PROVE  ProjectSound' /\ \A n \in Names : SandboxSound(n)'
        <3>1. ProjectSound'
            BY <2>1, <2>3 DEF LifecycleInv, ProjectSound
        <3>2. ASSUME NEW n \in Names PROVE SandboxSound(n)'
            BY <1>t, <2>1, <2>3 DEF LifecycleInv, SandboxSound, NoRemoval, Attended, Founded,
                Dated, Grounded, FirstOwnTree, Live, BuiltOn, JobsType, JobType, NoJob, NoJobs
        <3> QED BY <3>1, <3>2
    <2> QED BY <1>3, <2>2, <2>3 DEF JobFails
<1>4. CASE NamespaceDeletes
    <2>0. UNCHANGED <<repo, worktree, rec, lapse>>
        BY <1>4 DEF NamespaceDeletes
    <2>1. CASE DeletedProject /\ UNCHANGED <<maint, job, sandbox, pod>>
        BY <2>0, <2>1, DeletedProjectStep
    <2>2. ASSUME NEW m \in Names, sandbox[m].state = "live", DeletedSandbox(m),
                 UNCHANGED <<project, maint, job, pod>>
          PROVE  ProjectSound' /\ \A n \in Names : SandboxSound(n)'
        <3>1. ProjectSound'
            BY <2>2 DEF LifecycleInv, ProjectSound
        <3>2. ASSUME NEW n \in Names PROVE SandboxSound(n)'
            BY <1>t, <2>0, <2>2 DEF LifecycleInv, SandboxSound, NoRemoval, Attended, Founded,
                Dated, Grounded, FirstOwnTree, Live, BuiltOn, DeletedSandbox, SandboxType
        <3> QED BY <3>1, <3>2
    <2>3. ASSUME NEW m \in Names, pod' = [pod EXCEPT ![m] = NoPod],
                 job' = [job EXCEPT ![m] = NoJobs],
                 UNCHANGED <<project, maint, sandbox>>
          PROVE  ProjectSound' /\ \A n \in Names : SandboxSound(n)'
        <3>1. ProjectSound'
            BY <2>3 DEF LifecycleInv, ProjectSound
        <3>2. ASSUME NEW n \in Names PROVE SandboxSound(n)'
            BY <1>t, <2>0, <2>3 DEF LifecycleInv, SandboxSound, NoRemoval, Attended, Founded,
                Dated, Grounded, FirstOwnTree, Live, BuiltOn, NoPod, JobsType, JobType, NoJob, NoJobs, PodType
        <3> QED BY <3>1, <3>2
    <2>4. CASE /\ maint' = NoMaint
               /\ UNCHANGED <<project, job, sandbox, pod>>
        <3>1. ProjectSound'
            BY <2>4 DEF LifecycleInv, ProjectSound, NoMaint
        <3>2. \A n \in Names : SameFor(n)
            BY <2>0, <2>4 DEF SameFor
        <3> QED BY <2>4, <3>1, <3>2, SameSound DEF LifecycleInv
    <2> QED BY <1>4, <2>1, <2>2, <2>3, <2>4 DEF NamespaceDeletes
<1>5. ASSUME NEW k \in {"init", "purge"}, ProjectJobExpires(k) \/ CollectProject(k)
      PROVE  ProjectSound' /\ \A n \in Names : SandboxSound(n)'
    <2>1. ProjectSound'
        BY <1>t, <1>5 DEF LifecycleInv, ProjectJobExpires, CollectProject, ProjectSound, MaintType
    <2>2. \A n \in Names : SameFor(n)
        BY <1>5 DEF ProjectJobExpires, CollectProject, SameFor
    <2> QED BY <1>5, <2>1, <2>2, SameSound DEF LifecycleInv, ProjectJobExpires, CollectProject
<1> QED
    BY <1>1, <1>2, <1>3, <1>4, <1>5

-----------------------------------------------------------------------------
(* The invariant, and what follows from it *)

LEMMA SandboxStep ==
    ASSUME LifecycleInv, NEW m \in Names, OfSandbox(m)
    PROVE  ProjectSound' /\ \A n \in Names : SandboxSound(n)'
<1>1. UNCHANGED <<project, maint, repo>> /\ \A n \in Names \ {m} : SameFor(n)
    BY Others DEF LifecycleInv
<1>2. ProjectSound'
    BY <1>1 DEF LifecycleInv, ProjectSound
<1>3. SandboxSound(m)'
    BY OwnStep DEF LifecycleInv
<1>4. \A n \in Names \ {m} : SandboxSound(n)'
    BY <1>1, SameSound DEF LifecycleInv
<1> QED
    BY <1>2, <1>3, <1>4

LEMMA Cases ==
    ASSUME Next
    PROVE  \/ OfOwner
           \/ ProjectFinalizer \/ ProjectApply \/ ProjectCleanup \/ CreateProject \/ DeleteProject
           \/ InitRuns \/ PurgeRuns \/ JobFails \/ NamespaceDeletes
           \/ \E k \in {"init", "purge"} : ProjectJobExpires(k) \/ CollectProject(k)
           \/ \E n \in Names : OfSandbox(n)
BY DEF Next, Reconcilers, Users, Cluster, OfOwner, OfSandbox

LEMMA SoundStep == LifecycleInv /\ [Next]_vars => LifecycleInv'
<1> SUFFICES ASSUME LifecycleInv, [Next]_vars PROVE LifecycleInv'
    OBVIOUS
<1>1. Typed'
    BY TypeStep DEF LifecycleInv
<1>2. CASE Next
    BY <1>1, <1>2, Cases, OwnerStep, ProjectStep, ClusterStep, SandboxStep DEF LifecycleInv
<1>3. CASE UNCHANGED vars
    <2>1. ProjectSound' /\ (\A n \in Names : SameFor(n)) /\ UNCHANGED project
        BY <1>3 DEF vars, LifecycleInv, ProjectSound, SameFor
    <2> QED BY <1>1, <2>1, SameSound DEF LifecycleInv
<1> QED
    BY <1>2, <1>3

\* The inductive invariant: what the objects of the cluster, the repository and what the
\* controllers hold between two calls say of each other (apply and cleanup of both).
THEOREM Sound == Spec => []LifecycleInv
BY InitSound, SoundStep, PTL DEF Spec

\* Every variable of the controllers and of the cluster keeps its type.
THEOREM LifecycleTypeCorrect == Spec => []LifecycleTypeOK
<1>1. LifecycleInv => LifecycleTypeOK
    BY Typing DEF LifecycleInv
<1> QED
    BY <1>1, Sound, PTL

\* A live Sandbox that says Running has its worktree (apply, run_checkout, run_remove).
THEOREM RunningHasWorktree == Spec => []RunningOnWorktree
<1>1. LifecycleInv => RunningOnWorktree
    BY DEF LifecycleInv, RunningOnWorktree, SandboxSound, Grounded, FirstOwnTree, BuiltOn, Live
<1> QED
    BY <1>1, Sound, PTL

-----------------------------------------------------------------------------
(* The worktree of a live Sandbox *)

Kept(n) ==
    worktree[n] \in 1..MaxInc /\ worktree'[n] # worktree[n]
    => \/ sandbox[n].state # "live" \/ project.state # "live"
       \/ "unawaited" \in lapse[n]

LEMMA KeptStep == LifecycleInv /\ [Next]_vars => \A n \in Names : Kept(n)
<1> SUFFICES ASSUME LifecycleInv, [Next]_vars PROVE \A n \in Names : Kept(n)
    OBVIOUS
<1>t. worktree \in [Names -> 0..(MaxInc + 1)]
    BY DEF LifecycleInv, Typed
<1>1. ASSUME UNCHANGED worktree PROVE \A n \in Names : Kept(n)
    BY <1>1 DEF Kept
<1>2. CASE OfOwner \/ UNCHANGED vars
    BY <1>1, <1>2 DEF OfOwner, EnsureNamespace, OwnerReady, OwnerCleanup, DeleteOwner,
                      NamespaceGoes, vars
<1>5. CASE ProjectFinalizer \/ ProjectApply \/ ProjectCleanup \/ CreateProject \/ DeleteProject
    BY <1>1, <1>5 DEF ProjectFinalizer, ProjectApply, ProjectCleanup, CreateProject, DeleteProject
<1>7. CASE \/ InitRuns \/ JobFails \/ NamespaceDeletes
           \/ \E k \in {"init", "purge"} : ProjectJobExpires(k) \/ CollectProject(k)
    BY <1>1, <1>7 DEF InitRuns, JobFails, NamespaceDeletes, ProjectJobExpires, CollectProject
<1>8. CASE PurgeRuns
    \* the purge Job of a Project that is being deleted
    BY <1>8 DEF PurgeRuns, Kept, LifecycleInv, ProjectSound
<1>9. ASSUME NEW m \in Names, OfSandbox(m) PROVE \A n \in Names : Kept(n)
    <2>1. \A n \in Names \ {m} : worktree'[n] = worktree[n]
        BY <1>9, Others DEF LifecycleInv, SameFor
    <2>2. Kept(m)
        <3>1. CASE RemoveRuns(m)
            \* a live Sandbox has no remove Job that runs, but one left running
            BY <3>1 DEF RemoveRuns, Kept, LifecycleInv, SandboxSound, NoRemoval, Live
        <3>2. CASE CheckoutRuns(m) \/ PodStarts(m)
            \* these put a directory where there is none
            BY <1>t, <3>2 DEF CheckoutRuns, PodStarts, Kept, NoTree
        <3>3. CASE UNCHANGED worktree
            BY <1>1, <3>3
        <3> QED
            BY <1>9, <3>1, <3>2, <3>3 DEF OfSandbox, SandboxFinalizer, ApplyCheckout, ApplyPod,
                ApplyStatus, ApplyFails, Cleanup, CreateSandbox, DeleteSandbox, SetSuspended,
                PodBreaks, PodGoes, CollectSandbox, SandboxJobExpires
    <2> QED BY <2>1, <2>2 DEF Kept
<1> QED
    BY <1>2, <1>5, <1>7, <1>8, <1>9, Cases

\* The worktree of a live Sandbox of a live Project is never deleted
\* (build_worktree_remove_job, run_purge).
THEOREM WorktreeStaysPut == Spec => WorktreeKept
<1>1. LifecycleInv /\ [Next]_vars
      => [\A n \in Names : worktree[n] \in 1..MaxInc /\ worktree'[n] # worktree[n]
            => \/ sandbox[n].state # "live" \/ project.state # "live"
               \/ "unawaited" \in lapse[n]]_vars
    BY KeptStep DEF Kept
<1> QED
    BY <1>1, Sound, PTL DEF Spec, WorktreeKept

-----------------------------------------------------------------------------
(* Nothing comes back *)

\* A Pod or a Job of a Sandbox is created only while its object is there, kept by its
\* finalizer, in a namespace that takes it, and belongs to that object.
Attached(n) ==
    /\ pod[n] = NoPod /\ pod'[n] # NoPod
       => sandbox[n].state # "absent" /\ sandbox[n].fin /\ ns = "active" /\ pod'[n].of = sandbox[n].inc
    /\ \A k \in {"checkout", "remove"} : job[n][k] = NoJob /\ job'[n][k] # NoJob
       => sandbox[n].state # "absent" /\ sandbox[n].fin /\ ns = "active" /\ job'[n][k].of = sandbox[n].inc

\* What the steps of a Sandbox whose object is gone can still do: end what runs.
LEMMA OwnAttached ==
    ASSUME LifecycleInv, NEW n \in Names, OfSandbox(n) PROVE Attached(n)
<1>t. /\ job \in [Names -> JobsType] /\ pod \in [Names -> PodType]
      /\ sandbox \in [Names -> SandboxType] /\ rec \in [Names -> RecType]
      /\ SandboxSound(n)
    BY DEF LifecycleInv, Typed
<1>1. ASSUME UNCHANGED <<job, pod>> PROVE Attached(n)
    BY <1>1 DEF Attached
<1>2. CASE SandboxFinalizer(n) \/ ApplyStatus(n) \/ ApplyFails(n) \/ CreateSandbox(n)
           \/ DeleteSandbox(n) \/ SetSuspended(n)
    BY <1>1, <1>2 DEF SandboxFinalizer, ApplyStatus, ApplyFails, CreateSandbox, DeleteSandbox,
                      SetSuspended
<1>3. CASE ApplyCheckout(n)
    <2>1. sandbox[n].state = "live" /\ sandbox[n].fin /\ UNCHANGED pod
        BY <1>3 DEF ApplyCheckout
    <2>2. job[n].checkout = NoJob => ns = "active" /\ job'[n].checkout.of = sandbox[n].inc
        BY <1>t, <1>3 DEF ApplyCheckout, JobsType, JobType, NoJob
    <2>3. job'[n].remove = job[n].remove
        BY <1>t, <1>3 DEF ApplyCheckout, JobsType
    <2> QED BY <2>1, <2>2, <2>3 DEF Attached
<1>4. CASE ApplyPod(n)
    <2>1. rec[n] # Idle /\ UNCHANGED job
        BY <1>4 DEF ApplyPod, Idle
    <2>2. sandbox[n].fin /\ sandbox[n].state # "absent"
        BY <1>t, <2>1 DEF SandboxSound, Attended
    <2>3. pod[n] = NoPod /\ pod'[n] # NoPod => ns = "active" /\ pod'[n].of = sandbox[n].inc
        <3>1. CASE pod' = [pod EXCEPT ![n].going = pod[n].state # "none"]
            <4>1. (pod[n].state # "none") \in BOOLEAN
                OBVIOUS
            <4>2. pod[n] = NoPod => (pod[n].state # "none") = FALSE
                BY DEF NoPod
            <4>3. pod[n] = NoPod => pod' = [pod EXCEPT ![n].going = FALSE]
                BY <3>1, <4>2, Zenon
            <4> QED BY <1>t, <4>3 DEF NoPod, PodType
        <3>2. CASE UNCHANGED pod
            BY <3>2
        <3>3. CASE /\ pod' = [pod EXCEPT ![n] = [state |-> "Pending", going |-> FALSE, of |-> sandbox[n].inc]]
                   /\ ns = "active"
            BY <1>t, <3>3
        <3> QED BY <1>4, <3>1, <3>2, <3>3 DEF ApplyPod
    <2> QED BY <2>1, <2>2, <2>3 DEF Attached
<1>5. CASE Cleanup(n)
    <2>1. sandbox[n].state = "deleting" /\ UNCHANGED pod
        BY <1>5 DEF Cleanup
    <2>2. \/ UNCHANGED job
          \/ ns = "active" /\ job' = [job EXCEPT ![n].remove = [state |-> "active", of |-> sandbox[n].inc]]
        BY <1>5 DEF Cleanup, ReleasedUnread, StartRemoval
    <2>3. sandbox[n].fin
        BY <1>t, <2>1 DEF SandboxSound, Attended
    <2> QED BY <1>t, <2>1, <2>2, <2>3 DEF Attached, JobsType
<1>6. CASE CheckoutRuns(n) \/ RemoveRuns(n) \/ CollectSandbox(n)
           \/ \E k \in {"checkout", "remove"} : SandboxJobExpires(n, k)
    \* a Job that is not there does not run
    BY <1>t, <1>6 DEF CheckoutRuns, RemoveRuns, CollectSandbox, SandboxJobExpires, Attached,
       JobsType, JobType, NoJob, NoJobs
<1>7. CASE PodStarts(n) \/ PodBreaks(n) \/ PodGoes(n)
    BY <1>t, <1>7 DEF PodStarts, PodBreaks, PodGoes, Attached, NoPod, PodType
<1> QED
    BY <1>2, <1>3, <1>4, <1>5, <1>6, <1>7 DEF OfSandbox

LEMMA AttachedStep == LifecycleInv /\ [Next]_vars => \A n \in Names : Attached(n)
<1> SUFFICES ASSUME LifecycleInv, [Next]_vars, NEW n \in Names PROVE Attached(n)
    OBVIOUS
<1>t. job \in [Names -> JobsType] /\ pod \in [Names -> PodType]
    BY DEF LifecycleInv, Typed
<1>1. ASSUME job'[n] = job[n], pod'[n] = pod[n] PROVE Attached(n)
    BY <1>1 DEF Attached
<1>2. CASE OfOwner \/ UNCHANGED vars
    BY <1>1, <1>2 DEF OfOwner, EnsureNamespace, OwnerReady, OwnerCleanup, DeleteOwner,
                      NamespaceGoes, vars
<1>3. CASE ProjectFinalizer \/ ProjectApply \/ ProjectCleanup \/ CreateProject \/ DeleteProject
    BY <1>1, <1>3 DEF ProjectFinalizer, ProjectApply, ProjectCleanup, CreateProject, DeleteProject
<1>4. CASE InitRuns \/ PurgeRuns \/ \E k \in {"init", "purge"} : ProjectJobExpires(k) \/ CollectProject(k)
    BY <1>1, <1>4 DEF InitRuns, PurgeRuns, ProjectJobExpires, CollectProject
<1>5. CASE JobFails
    <2>1. UNCHANGED pod
        BY <1>5 DEF JobFails
    <2>2. ASSUME NEW m \in Names, NEW k \in {"checkout", "remove"}, job[m][k].state = "active",
                 job' = [job EXCEPT ![m][k].state = "failed"]
          PROVE  Attached(n)
        <3>1. job[m][k] # NoJob
            BY <2>2 DEF NoJob
        <3>2. \A i \in {"checkout", "remove"} : job'[n][i] = job[n][i] \/ (n = m /\ i = k)
            BY <1>t, <2>2 DEF JobsType
        <3> QED BY <2>1, <3>1, <3>2 DEF Attached
    <2> QED BY <1>1, <1>5, <2>1, <2>2 DEF JobFails
<1>7. CASE NamespaceDeletes
    <2>1. ASSUME NEW m \in Names, pod' = [pod EXCEPT ![m] = NoPod],
                 job' = [job EXCEPT ![m] = NoJobs]
          PROVE  Attached(n)
        BY <1>t, <2>1 DEF Attached, JobsType, JobType, NoJob, NoJobs
    <2> QED BY <1>1, <1>7, <2>1 DEF NamespaceDeletes
<1>6. ASSUME NEW m \in Names, OfSandbox(m) PROVE Attached(n)
    BY <1>1, <1>6, OwnAttached, Others DEF LifecycleInv, SameFor
<1> QED
    BY <1>2, <1>3, <1>4, <1>5, <1>6, <1>7, Cases

\* No Pod and no Job is created for a Sandbox that is gone, by an apply or a cleanup that
\* was under way when it was deleted no more than by a later one, nor in a namespace
\* that terminates (apply and cleanup of sandbox.rs, the exclusive reconciles).
THEOREM NothingOrphaned == Spec => [][\A n \in Names : Attached(n)]_vars
<1>1. LifecycleInv /\ [Next]_vars => [\A n \in Names : Attached(n)]_vars
    BY AttachedStep
<1> QED
    BY <1>1, Sound, PTL DEF Spec
==============================================================================
