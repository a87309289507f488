-------------------------- MODULE SandboxLifecycle --------------------------
(***************************************************************************)
(* The Owner, Project and Sandbox reconcilers of the controller            *)
(* (controller/src/owner.rs, namespace.rs, project.rs, sandbox.rs), the    *)
(* maintenance jobs they start (sandbox/src/maint.rs) and what Kubernetes  *)
(* does of itself: the jobs run and expire, the pods start, fail and go,   *)
(* the dependents of a deleted object are collected, a namespace that      *)
(* terminates deletes its contents and refuses new ones.                   *)
(*                                                                         *)
(* Every reconcile ends in a requeue (300, 30, 15 or 10 s), so a reconcile *)
(* of a live object is always possible and the annotation that bumps a     *)
(* Sandbox adds nothing.  One that fails changes nothing but what its      *)
(* calls before the failure did; those that fail for a reason that lasts   *)
(* (a missing Project, a conflict, a namespace that terminates) change     *)
(* nothing at all and are no action here.  apply of a Sandbox is three     *)
(* steps, at its three groups of calls, since its Job and its Pod move     *)
(* while it runs; a controller never runs two reconciles of one object.    *)
(*                                                                         *)
(* Jobs and Pods are found by name and collected by owner reference: "of"  *)
(* is the incarnation of the Sandbox whose uid the reference holds.  A     *)
(* name may be used again while objects of its earlier Sandbox are there,  *)
(* and the controller takes those for its own.                             *)
(***************************************************************************)
EXTENDS Naturals

CONSTANTS Names,       \* names of sandboxes
          MaxInc,      \* bound on the times a name is created
          MaxChanges,  \* bound on the deletions and suspensions that are asked
          MaxFaults    \* bound on failed jobs and pods and on calls that fail

ASSUME LifecycleAssumption == MaxInc \in Nat /\ MaxChanges \in Nat /\ MaxFaults \in Nat

VARIABLES owner,     \* the Owner: where it stands, and whether status.pvcName is set
          ns,        \* the namespace of the Owner
          project,   \* the Project: where it stands, its finalizer, status.cloned
          repo,      \* repo.git is on the workspace volume
          worktree,  \* worktrees/<name>: the incarnation it was checked out for
          maint,     \* the Jobs init and purge of the Project
          job,       \* the Jobs checkout and remove of a sandbox
          sandbox,   \* the Sandbox objects
          pod,       \* the Pod of a sandbox
          rec,       \* the apply of a Sandbox in progress
          lapse,     \* history: what went wrong between the Sandboxes of one name
          changes, faults

vars == <<owner, ns, project, repo, worktree, maint, job, sandbox, pod, rec, lapse,
          changes, faults>>

JobState == {"absent", "active", "succeeded", "failed", "noted"}
PodState == {"none", "Pending", "Running", "Failed"}
Phases == {"none", "Provisioning", "Running", "Failed", "Suspended"}
NoTree == 0
Empty == MaxInc + 1    \* a directory the kubelet made for a subPath mount
Idle == [at |-> "idle"]
NoJob == [state |-> "absent", of |-> 0]
NoJobs == [checkout |-> NoJob, remove |-> NoJob]
NoPod == [state |-> "none", going |-> FALSE, of |-> 0]
NoMaint == [init |-> "absent", purge |-> "absent"]

JobType == [state : JobState, of : 0..MaxInc]

LifecycleTypeOK ==
    /\ owner \in [state : {"new", "ready", "deleting", "gone"}, pvc : BOOLEAN]
    /\ ns \in {"absent", "active", "terminating"}
    /\ project \in [state : {"none", "live", "deleting", "gone"}, fin : BOOLEAN, cloned : BOOLEAN]
    /\ repo \in BOOLEAN
    /\ worktree \in [Names -> 0..(MaxInc + 1)]
    /\ maint \in [init : JobState, purge : JobState]
    /\ job \in [Names -> [checkout : JobType, remove : JobType]]
    /\ sandbox \in [Names -> [state : {"absent", "live", "deleting"}, fin : BOOLEAN,
                              suspended : BOOLEAN, phase : Phases, inc : 0..MaxInc]]
    /\ pod \in [Names -> [state : PodState, going : BOOLEAN, of : 0..MaxInc]]
    /\ rec \in [Names -> {Idle} \cup [at : {"pod"}, out : BOOLEAN, suspended : BOOLEAN]
                                \cup [at : {"status"}, phase : Phases]]
    /\ lapse \in [Names -> SUBSET {"misread", "unawaited"}]
    /\ changes \in 0..MaxChanges
    /\ faults \in 0..MaxFaults

Init ==
    /\ owner = [state |-> "new", pvc |-> FALSE]
    /\ ns = "absent"
    /\ project = [state |-> "none", fin |-> FALSE, cloned |-> FALSE]
    /\ repo = FALSE
    /\ worktree = [n \in Names |-> NoTree]
    /\ maint = NoMaint
    /\ job = [n \in Names |-> NoJobs]
    /\ sandbox = [n \in Names |-> [state |-> "absent", fin |-> FALSE, suspended |-> FALSE,
                                   phase |-> "none", inc |-> 0]]
    /\ pod = [n \in Names |-> NoPod]
    /\ rec = [n \in Names |-> Idle]
    /\ lapse = [n \in Names |-> {}]
    /\ changes = 0
    /\ faults = 0

Fault == faults < MaxFaults /\ faults' = faults + 1
Change == changes < MaxChanges /\ changes' = changes + 1

-----------------------------------------------------------------------------
(* The reconciler of the Owner *)

\* A reconcile up to ensure_namespace; whatever follows may fail.
EnsureNamespace ==
    /\ owner.state = "new" /\ ns = "absent"
    /\ ns' = "active"
    /\ UNCHANGED <<owner, project, repo, worktree, maint, job, sandbox, pod, rec, changes, faults, lapse>>

\* A reconcile to its end: volume, service account, status.
OwnerReady ==
    /\ owner.state = "new" /\ ns = "active"
    /\ owner' = [state |-> "ready", pvc |-> TRUE]
    /\ UNCHANGED <<ns, project, repo, worktree, maint, job, sandbox, pod, rec, changes, faults, lapse>>

DeleteOwner ==
    /\ owner.state \in {"new", "ready"} /\ Change
    /\ owner' = [owner EXCEPT !.state = "deleting"]
    /\ UNCHANGED <<ns, project, repo, worktree, maint, job, sandbox, pod, rec, faults, lapse>>

\* reconcile of a deleted Owner: cleanup_namespace, then the finalizer once the
\* namespace is no more.
OwnerCleanup ==
    /\ owner.state = "deleting"
    /\ \/ /\ ns = "active"
          /\ ns' = "terminating"
          /\ UNCHANGED owner
       \/ /\ ns = "absent"
          /\ owner' = [owner EXCEPT !.state = "gone"]
          /\ UNCHANGED ns
    /\ UNCHANGED <<project, repo, worktree, maint, job, sandbox, pod, rec, changes, faults, lapse>>

\* fetch_owner, then status.pvcName.
OwnerUsable == owner.state # "gone" /\ owner.pvc

-----------------------------------------------------------------------------
(* The reconciler of the Project *)

CreateProject ==
    /\ project.state = "none" /\ ns = "active"
    /\ project' = [project EXCEPT !.state = "live"]
    /\ UNCHANGED <<owner, ns, repo, worktree, maint, job, sandbox, pod, rec, changes, faults, lapse>>

\* What the Project owned is collected later, and the volume keeps what a purge has
\* not removed.
ProjectGoes == project' = [project EXCEPT !.state = "gone", !.fin = FALSE]

DeletedProject ==
    IF project.fin THEN project' = [project EXCEPT !.state = "deleting"] ELSE ProjectGoes

DeleteProject ==
    /\ project.state = "live" /\ Change
    /\ DeletedProject
    /\ UNCHANGED <<owner, ns, repo, worktree, maint, job, sandbox, pod, rec, faults, lapse>>

ProjectFinalizer ==
    /\ project.state = "live" /\ ~project.fin
    /\ project' = [project EXCEPT !.fin = TRUE]
    /\ UNCHANGED <<owner, ns, repo, worktree, maint, job, sandbox, pod, rec, changes, faults, lapse>>

\* apply: the init Job is created when there is none, status.cloned says whether
\* the one there is has succeeded.
ProjectApply ==
    /\ project.state = "live" /\ project.fin /\ OwnerUsable /\ ns = "active"
    /\ maint' = [maint EXCEPT !.init = IF @ = "absent" THEN "active" ELSE @]
    /\ \/ project' = [project EXCEPT !.cloned = maint.init = "succeeded"] /\ UNCHANGED faults
       \/ Fault /\ UNCHANGED project
    /\ UNCHANGED <<owner, ns, repo, worktree, job, sandbox, pod, rec, changes, lapse>>

\* cleanup: the purge Job is created once and awaited; without an Owner, and when
\* reading it fails in any way, there is no purge at all.
ProjectCleanup ==
    /\ project.state = "deleting"
    /\ \/ /\ ~OwnerUsable \/ maint.purge = "succeeded"
          /\ ProjectGoes
          /\ UNCHANGED <<maint, faults>>
       \/ /\ Fault
          /\ ProjectGoes
          /\ UNCHANGED maint
       \/ /\ OwnerUsable /\ maint.purge = "absent" /\ ns = "active"
          /\ maint' = [maint EXCEPT !.purge = "active"]
          /\ UNCHANGED <<project, faults>>
    /\ UNCHANGED <<owner, ns, repo, worktree, job, sandbox, pod, rec, changes, lapse>>

-----------------------------------------------------------------------------
(* The reconciler of a Sandbox *)

\* The API reads the Project first, whatever is asked of one of its sandboxes.
Reachable == project.state \in {"live", "deleting"}

\* POST /api/sandboxes: a name is free as soon as its object is gone, whatever Jobs
\* and Pod of it are still there.
CreateSandbox(n) ==
    /\ Reachable
    /\ sandbox[n].state = "absent" /\ sandbox[n].inc < MaxInc /\ ns = "active"
    /\ sandbox' = [sandbox EXCEPT ![n] = [state |-> "live", fin |-> FALSE, suspended |-> FALSE,
                                          phase |-> "none", inc |-> @.inc + 1]]
    /\ UNCHANGED <<owner, ns, project, repo, worktree, maint, job, pod, rec, changes, faults, lapse>>

DeletedSandbox(n) ==
    sandbox' = [sandbox EXCEPT ![n].state = IF @ = "live" /\ ~sandbox[n].fin
                                            THEN "absent" ELSE "deleting"]

DeleteSandbox(n) ==
    /\ Reachable
    /\ sandbox[n].state = "live" /\ Change
    /\ DeletedSandbox(n)
    /\ UNCHANGED <<owner, ns, project, repo, worktree, maint, job, pod, rec, faults, lapse>>

\* POST /api/sandboxes/{name}/suspend, either way.
SetSuspended(n) ==
    /\ Reachable
    /\ sandbox[n].state = "live" /\ Change
    /\ sandbox' = [sandbox EXCEPT ![n].suspended = ~@]
    /\ UNCHANGED <<owner, ns, project, repo, worktree, maint, job, pod, rec, faults, lapse>>

SandboxFinalizer(n) ==
    /\ sandbox[n].state = "live" /\ ~sandbox[n].fin /\ rec[n] = Idle
    /\ sandbox' = [sandbox EXCEPT ![n].fin = TRUE]
    /\ UNCHANGED <<owner, ns, project, repo, worktree, maint, job, pod, rec, changes, faults, lapse>>

\* An object of an earlier Sandbox of the name was read as that of this one.
Read(n, of) ==
    lapse' = [lapse EXCEPT ![n] = IF of = sandbox[n].inc THEN @ ELSE @ \cup {"misread"}]

\* apply, first calls: the Project must be cloned and the Owner usable; the
\* checkout Job is created when there is none of that name.
ApplyCheckout(n) ==
    /\ sandbox[n].state = "live" /\ sandbox[n].fin /\ rec[n] = Idle
    /\ Reachable /\ project.cloned /\ OwnerUsable
    /\ \/ /\ job[n].checkout = NoJob /\ ns = "active"
          /\ job' = [job EXCEPT ![n].checkout = [state |-> "active", of |-> sandbox[n].inc]]
          /\ UNCHANGED lapse
       \/ /\ job[n].checkout.state \in {"active", "failed"}
          /\ UNCHANGED <<job, lapse>>
       \/ /\ job[n].checkout.state \in {"succeeded", "noted"}
          /\ job' = [job EXCEPT ![n].checkout.state = "noted"]
          /\ Read(n, job[n].checkout.of)
    /\ rec' = [rec EXCEPT ![n] = [at |-> "pod", suspended |-> sandbox[n].suspended,
                                  out |-> job[n].checkout.state \in {"succeeded", "noted"}]]
    /\ UNCHANGED <<owner, ns, project, repo, worktree, maint, sandbox, pod, changes, faults>>

PhaseOfPodRaw(p) == p.state  \* mutant: the phase of Kubernetes, as it is

PhaseOfPod(p) == IF p.state = "Pending" THEN "Provisioning" ELSE p.state

ApplyPodAtOnce(n) ==  \* mutant: the Pod is created without waiting for the checkout
    /\ rec[n].at = "pod"
    /\ \/ /\ rec[n].suspended
          /\ pod' = [pod EXCEPT ![n].going = pod[n].state # "none"]
          /\ UNCHANGED lapse
          /\ rec' = [rec EXCEPT ![n] = [at |-> "status", phase |-> "Suspended"]]
       \/ /\ ~rec[n].suspended /\ pod[n].state # "none"
          /\ rec' = [rec EXCEPT ![n] = [at |-> "status", phase |-> PhaseOfPod(pod[n])]]
          /\ Read(n, pod[n].of)
          /\ UNCHANGED pod
       \/ /\ ~rec[n].suspended /\ pod[n].state = "none" /\ ns = "active"
          /\ pod' = [pod EXCEPT ![n] = [state |-> "Pending", going |-> FALSE, of |-> sandbox[n].inc]]
          /\ UNCHANGED lapse
          /\ rec' = [rec EXCEPT ![n] = [at |-> "status", phase |-> "Provisioning"]]
    /\ UNCHANGED <<owner, ns, project, repo, worktree, maint, job, sandbox, changes, faults>>

\* apply, the Pod: deleted if suspended, awaited until the checkout is done, read,
\* or created.  A Pod that is terminating still has its phase.
ApplyPod(n) ==
    /\ rec[n].at = "pod"
    /\ \/ /\ rec[n].suspended
          /\ pod' = [pod EXCEPT ![n].going = pod[n].state # "none"]
          /\ UNCHANGED lapse
          /\ rec' = [rec EXCEPT ![n] = [at |-> "status", phase |-> "Suspended"]]
       \/ /\ ~rec[n].suspended /\ ~rec[n].out
          /\ rec' = [rec EXCEPT ![n] = [at |-> "status", phase |-> "Provisioning"]]
          /\ UNCHANGED <<pod, lapse>>
       \/ /\ ~rec[n].suspended /\ rec[n].out /\ pod[n].state # "none"
          /\ rec' = [rec EXCEPT ![n] = [at |-> "status", phase |-> PhaseOfPod(pod[n])]]
          /\ Read(n, pod[n].of)
          /\ UNCHANGED pod
       \/ /\ ~rec[n].suspended /\ rec[n].out /\ pod[n].state = "none" /\ ns = "active"
          /\ pod' = [pod EXCEPT ![n] = [state |-> "Pending", going |-> FALSE, of |-> sandbox[n].inc]]
          /\ UNCHANGED lapse
          /\ rec' = [rec EXCEPT ![n] = [at |-> "status", phase |-> "Provisioning"]]
    /\ UNCHANGED <<owner, ns, project, repo, worktree, maint, job, sandbox, changes, faults>>

\* apply, the end: service, network policies and ingress, then the status.
ApplyStatus(n) ==
    /\ rec[n].at = "status"
    /\ sandbox' = [sandbox EXCEPT ![n].phase = rec[n].phase]
    /\ rec' = [rec EXCEPT ![n] = Idle]
    /\ UNCHANGED <<owner, ns, project, repo, worktree, maint, job, pod, changes, faults, lapse>>

\* A call of apply fails, as creations do in a namespace that terminates: the rest
\* of apply is dropped.
ApplyFails(n) ==
    /\ rec[n] # Idle
    /\ rec' = [rec EXCEPT ![n] = Idle]
    /\ Fault \/ (ns # "active" /\ UNCHANGED faults)
    /\ UNCHANGED <<owner, ns, project, repo, worktree, maint, job, sandbox, pod, changes, lapse>>

\* The finalizer is lifted.
Released(n) == sandbox' = [sandbox EXCEPT ![n].state = "absent", ![n].fin = FALSE]

\* fetch_project and fetch_owner find what they look for.
Resolvable == Reachable /\ OwnerUsable

\* The remove Job of a Sandbox, and how a finalizer is lifted without it.
StartRemoval(n) ==
    /\ Resolvable /\ job[n].remove = NoJob /\ ns = "active"
    /\ job' = [job EXCEPT ![n].remove = [state |-> "active", of |-> sandbox[n].inc]]

ReleasedUnread(n) ==
    /\ Released(n)
    /\ lapse' = [lapse EXCEPT ![n] = IF job[n].remove.state = "active"
                                     THEN @ \cup {"unawaited"} ELSE @]
    /\ UNCHANGED job

CleanupAwaitingJob(n) ==  \* mutant: a Project that cannot be found is no reason to let go
    /\ sandbox[n].state = "deleting" /\ rec[n] = Idle
    /\ \/ job[n].remove.state = "succeeded" /\ Released(n) /\ UNCHANGED job
       \/ StartRemoval(n) /\ UNCHANGED sandbox
    /\ UNCHANGED <<owner, ns, project, repo, worktree, maint, pod, rec, changes, faults, lapse>>

CleanupUnawaited(n) ==  \* mutant: the finalizer is lifted once the Job is created
    /\ sandbox[n].state = "deleting" /\ rec[n] = Idle
    /\ \/ job[n].remove.state = "succeeded" /\ Released(n) /\ UNCHANGED <<job, lapse, faults>>
       \/ ~Resolvable /\ ReleasedUnread(n) /\ UNCHANGED faults
       \/ Fault /\ ReleasedUnread(n)
       \/ StartRemoval(n) /\ Released(n) /\ UNCHANGED <<faults, lapse>>
    /\ UNCHANGED <<owner, ns, project, repo, worktree, maint, pod, rec, changes>>

\* cleanup: without a Project or an Owner, and when reading one fails in any way,
\* the finalizer is lifted at once; with them, when the remove Job of that name has
\* succeeded.  A Job that exists is never replaced (its second creation is a conflict).
Cleanup(n) ==
    /\ sandbox[n].state = "deleting" /\ rec[n] = Idle
    /\ \/ job[n].remove.state = "succeeded" /\ Released(n) /\ UNCHANGED <<job, lapse, faults>>
       \/ ~Resolvable /\ ReleasedUnread(n) /\ UNCHANGED faults
       \/ Fault /\ ReleasedUnread(n)
       \/ StartRemoval(n) /\ UNCHANGED <<sandbox, faults, lapse>>
    /\ UNCHANGED <<owner, ns, project, repo, worktree, maint, pod, rec, changes>>

-----------------------------------------------------------------------------
(* The maintenance jobs *)

\* vanyline-maint init, twice harmless.
InitRuns ==
    /\ maint.init = "active"
    /\ maint' = [maint EXCEPT !.init = "succeeded"]
    /\ repo' = TRUE
    /\ UNCHANGED <<owner, ns, project, worktree, job, sandbox, pod, rec, changes, faults, lapse>>

\* vanyline-maint purge.
PurgeRuns ==
    /\ maint.purge = "active"
    /\ maint' = [maint EXCEPT !.purge = "succeeded"]
    /\ repo' = FALSE
    /\ worktree' = [n \in Names |-> NoTree]
    /\ UNCHANGED <<owner, ns, project, job, sandbox, pod, rec, changes, faults, lapse>>

\* vanyline-maint checkout: nothing to do where there is a directory, whatever is
\* in it; nothing possible without the clone.
CheckoutRuns(n) ==
    /\ job[n].checkout.state = "active"
    /\ \/ /\ worktree[n] # NoTree
          /\ job' = [job EXCEPT ![n].checkout.state = "succeeded"]
          /\ UNCHANGED worktree
       \/ /\ worktree[n] = NoTree /\ repo
          /\ job' = [job EXCEPT ![n].checkout.state = "succeeded"]
          /\ worktree' = [worktree EXCEPT ![n] = job[n].checkout.of]
       \/ /\ worktree[n] = NoTree /\ ~repo
          /\ job' = [job EXCEPT ![n].checkout.state = "failed"]
          /\ UNCHANGED worktree
    /\ UNCHANGED <<owner, ns, project, repo, maint, sandbox, pod, rec, changes, faults, lapse>>

\* vanyline-maint remove: the directory goes in any case, the prune needs the clone.
RemoveRuns(n) ==
    /\ job[n].remove.state = "active"
    /\ worktree' = [worktree EXCEPT ![n] = NoTree]
    /\ job' = [job EXCEPT ![n].remove.state = IF repo THEN "succeeded" ELSE "failed"]
    /\ UNCHANGED <<owner, ns, project, repo, maint, sandbox, pod, rec, changes, faults, lapse>>

\* backoffLimit is reached (a remote that does not answer, no room on the volume).
JobFails ==
    /\ Fault
    /\ \/ /\ \E k \in {"init", "purge"} :
              maint[k] = "active" /\ maint' = [maint EXCEPT ![k] = "failed"]
          /\ UNCHANGED job
       \/ /\ \E n \in Names, k \in {"checkout", "remove"} :
              job[n][k].state = "active" /\ job' = [job EXCEPT ![n][k].state = "failed"]
          /\ UNCHANGED maint
    /\ UNCHANGED <<owner, ns, project, repo, worktree, sandbox, pod, rec, changes, lapse>>

\* ttlSecondsAfterFinished: an hour, against reconciles every 5 minutes at most, so
\* a success has been read ("noted", or status.cloned) before it expires.
ProjectJobExpires(k) ==
    /\ maint[k] = "failed" \/ (maint[k] = "succeeded" /\ k = "init" /\ project.cloned)
    /\ maint' = [maint EXCEPT ![k] = "absent"]
    /\ UNCHANGED <<owner, ns, project, repo, worktree, job, sandbox, pod, rec, changes, faults, lapse>>

SandboxJobExpiresIfDone(n, k) ==  \* mutant: no ttl on a Job that failed
    /\ job[n][k].state = "noted"
    /\ job' = [job EXCEPT ![n][k] = NoJob]
    /\ UNCHANGED <<owner, ns, project, repo, worktree, maint, sandbox, pod, rec, changes, faults, lapse>>

SandboxJobExpires(n, k) ==
    /\ job[n][k].state \in {"noted", "failed"}
    /\ job' = [job EXCEPT ![n][k] = NoJob]
    /\ UNCHANGED <<owner, ns, project, repo, worktree, maint, sandbox, pod, rec, changes, faults, lapse>>

-----------------------------------------------------------------------------
(* Kubernetes *)

\* The containers start, for the first time or again: the kubelet makes the
\* directory of the subPath mount when there is none.
PodStarts(n) ==
    /\ pod[n].state \in {"Pending", "Running"} /\ ~pod[n].going
    /\ pod[n].state = "Running" => worktree[n] = NoTree
    /\ Reachable
    /\ pod' = [pod EXCEPT ![n].state = "Running"]
    /\ worktree' = [worktree EXCEPT ![n] = IF @ = NoTree THEN Empty ELSE @]
    /\ UNCHANGED <<owner, ns, project, repo, maint, job, sandbox, rec, changes, faults, lapse>>

\* A pod is evicted and stays Failed, or goes with its node.
PodBreaks(n) ==
    /\ pod[n].state \in {"Pending", "Running"}
    /\ Fault
    /\ \/ pod' = [pod EXCEPT ![n].state = "Failed"]
       \/ pod' = [pod EXCEPT ![n] = NoPod]
    /\ UNCHANGED <<owner, ns, project, repo, worktree, maint, job, sandbox, rec, changes, lapse>>

PodGoes(n) ==
    /\ pod[n].going
    /\ pod' = [pod EXCEPT ![n] = NoPod]
    /\ UNCHANGED <<owner, ns, project, repo, worktree, maint, job, sandbox, rec, changes, faults, lapse>>

\* The owner reference is to a Sandbox that is no more.
Orphan(n, of) == sandbox[n].state = "absent" \/ of # sandbox[n].inc

\* Garbage collection of what a Sandbox owned, one object after the other.
CollectSandbox(n) ==
    /\ \/ /\ pod[n] # NoPod /\ Orphan(n, pod[n].of)
          /\ pod' = [pod EXCEPT ![n] = NoPod]
          /\ UNCHANGED job
       \/ \E k \in {"checkout", "remove"} :
            /\ job[n][k] # NoJob /\ Orphan(n, job[n][k].of)
            /\ job' = [job EXCEPT ![n][k] = NoJob]
            /\ UNCHANGED pod
    /\ UNCHANGED <<owner, ns, project, repo, worktree, maint, sandbox, rec, changes, faults, lapse>>

\* Garbage collection of what the Project owned.
CollectProject(k) ==
    /\ project.state = "gone" /\ maint[k] # "absent"
    /\ maint' = [maint EXCEPT ![k] = "absent"]
    /\ UNCHANGED <<owner, ns, project, repo, worktree, job, sandbox, pod, rec, changes, faults, lapse>>

\* A namespace that terminates deletes what it holds, in any order.
NamespaceDeletes ==
    /\ ns = "terminating"
    /\ \/ /\ project.state = "live"
          /\ DeletedProject
          /\ UNCHANGED <<maint, job, sandbox, pod>>
       \/ \E n \in Names :
            \/ /\ sandbox[n].state = "live"
               /\ DeletedSandbox(n)
               /\ UNCHANGED <<project, maint, job, pod>>
            \/ /\ pod[n] # NoPod \/ job[n] # NoJobs
               /\ pod' = [pod EXCEPT ![n] = NoPod]
               /\ job' = [job EXCEPT ![n] = NoJobs]
               /\ UNCHANGED <<project, maint, sandbox>>
       \/ /\ maint # NoMaint
          /\ maint' = NoMaint
          /\ UNCHANGED <<project, job, sandbox, pod>>
    /\ UNCHANGED <<owner, ns, repo, worktree, rec, changes, faults, lapse>>

\* It goes itself when nothing is left in it.
NamespaceGoes ==
    /\ ns = "terminating"
    /\ project.state \in {"none", "gone"}
    /\ maint = NoMaint
    /\ \A n \in Names : /\ sandbox[n].state = "absent" /\ pod[n] = NoPod
                       /\ job[n] = NoJobs
    /\ ns' = "absent"
    /\ UNCHANGED <<owner, project, repo, worktree, maint, job, sandbox, pod, rec, changes, faults, lapse>>

-----------------------------------------------------------------------------
Reconcilers ==
    \/ EnsureNamespace \/ OwnerReady \/ OwnerCleanup
    \/ ProjectFinalizer \/ ProjectApply \/ ProjectCleanup
    \/ \E n \in Names : SandboxFinalizer(n) \/ ApplyCheckout(n) \/ ApplyPod(n)
                        \/ ApplyStatus(n) \/ ApplyFails(n) \/ Cleanup(n)

Users ==
    \/ DeleteOwner \/ CreateProject \/ DeleteProject
    \/ \E n \in Names : CreateSandbox(n) \/ DeleteSandbox(n) \/ SetSuspended(n)

Cluster ==
    \/ InitRuns \/ PurgeRuns \/ JobFails \/ NamespaceDeletes \/ NamespaceGoes
    \/ \E k \in {"init", "purge"} : ProjectJobExpires(k) \/ CollectProject(k)
    \/ \E n \in Names :
        \/ CheckoutRuns(n) \/ RemoveRuns(n) \/ PodStarts(n) \/ PodBreaks(n) \/ PodGoes(n)
        \/ CollectSandbox(n)
        \/ \E k \in {"checkout", "remove"} : SandboxJobExpires(n, k)

Next == Reconcilers \/ Users \/ Cluster

Spec == Init /\ [][Next]_vars

(***************************************************************************)
(* Each object is reconciled again and again, each job and pod moves       *)
(* unless something fails, and what Kubernetes does on deletion it does.   *)
(* A Project may be cloned on and off (its init Job expires every hour):   *)
(* that a Sandbox is reconciled every 15 to 300 s while the clone is there *)
(* nearly all the time is the strong fairness of ApplyCheckout.            *)
(***************************************************************************)
Fairness ==
    /\ WF_vars(EnsureNamespace \/ OwnerReady \/ OwnerCleanup)
    /\ WF_vars(ProjectFinalizer \/ ProjectApply \/ ProjectCleanup)
    /\ WF_vars(InitRuns \/ PurgeRuns)
    /\ WF_vars(\E k \in {"init", "purge"} : maint[k] = "failed" /\ ProjectJobExpires(k))
    /\ WF_vars(NamespaceDeletes \/ NamespaceGoes)
    /\ \A n \in Names :
        /\ SF_vars(ApplyCheckout(n))
        /\ WF_vars(SandboxFinalizer(n) \/ ApplyPod(n) \/ ApplyStatus(n) \/ Cleanup(n))
        /\ WF_vars(CheckoutRuns(n) \/ RemoveRuns(n))
        /\ WF_vars(\E k \in {"checkout", "remove"} : job[n][k].state = "failed" /\ SandboxJobExpires(n, k))
        /\ WF_vars(PodStarts(n) \/ PodGoes(n) \/ CollectSandbox(n))

FairSpec == Spec /\ Fairness

-----------------------------------------------------------------------------
(* Properties *)

\* A live Sandbox whose status says Running has a directory to run on, and the
\* checkout of its branch if its name is new, as long as nothing of an earlier Sandbox
\* of the name was read as its own and no removal was left running: what cleanup,
\* suspension, expired and collected jobs do never lets a pod start before the checkout
\* (apply, cleanup, run_remove).
RunningOnWorktree ==
    \A n \in Names :
        /\ sandbox[n].state = "live" /\ sandbox[n].phase = "Running"
        /\ project.state = "live" /\ lapse[n] = {}
        => /\ worktree[n] # NoTree
           /\ sandbox[n].inc = 1 => worktree[n] = 1

\* The work of a user is never deleted under a Sandbox, though its name was used before:
\* a worktree goes only when its Sandbox or the Project is being deleted, unless an error
\* lifted the finalizer of an earlier Sandbox of the name while its remove Job ran
\* (cleanup, build_worktree_remove_job, run_purge).
WorktreeKept ==
    [][\A n \in Names : worktree[n] \in 1..MaxInc /\ worktree'[n] # worktree[n]
        => \/ sandbox[n].state # "live" \/ project.state # "live"
           \/ "unawaited" \in lapse[n]]_vars

Wanted(n) ==
    /\ owner.state = "ready" /\ project.state = "live"
    /\ sandbox[n].state = "live" /\ ~sandbox[n].suspended /\ pod[n].state # "Failed"

\* A Sandbox that is wanted comes back to Running, with its pod, whatever jobs failed
\* or expired and whatever pods were lost before (requeues of apply).
ComesUp ==
    \A n \in Names :
        []<>(Wanted(n) => sandbox[n].phase = "Running" /\ pod[n].state = "Running" /\ ~pod[n].going)

\* Deletions end, as long as the Owner stays: no finalizer waits for ever for a job
\* that nobody starts again, of this Sandbox or of an earlier one of its name (cleanup
\* of both reconcilers).
DeletionsEnd ==
    []<>(owner.state # "deleting"
         => project.state # "deleting" /\ \A n \in Names : sandbox[n].state # "deleting")

\* owner.sdd, scenario suppression_de_l_owner_supprime_son_namespace: a deleted Owner
\* goes, with its namespace (cleanup_namespace).
OwnerGoes == []<>(owner.state # "deleting")
=============================================================================
