----------------------------- MODULE CodeHealth -----------------------------
(***************************************************************************)
(* The code-health state of a sandbox (sandbox/src/health.rs): one         *)
(* background task that recomputes the report, the notifications of the    *)
(* tools that edit the worktree, the polling that catches the edits nobody *)
(* notifies, and the forced refresh.                                       *)
(*                                                                         *)
(* The mutable fields are behind a mutex that is never held across an      *)
(* await: every section of the task under the mutex is an action, and so   *)
(* is every command it awaits.  Contents are numbers; the worktree has the *)
(* content `head' of the last commit, the content `work' of its tracked    *)
(* files and the content `extra' of its untracked ones.  An option is the  *)
(* set of its value or of nothing.                                         *)
(***************************************************************************)
EXTENDS Naturals, Sequences

CONSTANTS Bases,         \* what POST /code-health/refresh can set as base
          InitialBase,   \* config.health_base_ref, an option: the base before any refresh
          MaxEdits,      \* bound on edits and commits
          MaxRefreshes,  \* bound on refreshes
          MaxFailures,   \* bound on failures of git and of the checks
          Reverts,       \* may an edit bring an earlier content back?
          Untracked,     \* are untracked files edited?
          Commits,       \* are there commits?
          Silently       \* are there edits no tool notifies (terminal, jobs)?

ASSUME HealthAssumption ==
    /\ MaxEdits \in Nat /\ MaxRefreshes \in Nat /\ MaxFailures \in Nat
    /\ {Reverts, Untracked, Commits, Silently} \subseteq BOOLEAN
    /\ InitialBase = {} \/ \E base \in Bases : InitialBase = {base}

VARIABLES mounted,   \* the worktree exists (<sandbox_root>/.git)
          tree,      \* its content
          pending,   \* notifications that edits already made have yet to send
          silent,    \* an edit was made that nobody will notify
          f,         \* Fields, under the mutex
          queue,     \* the unbounded channel of Events
          task,      \* the background task
          spent      \* edits, refreshes and failures so far

vars == <<mounted, tree, pending, silent, f, queue, task, spent>>

None == {}
Contents == 0..MaxEdits
Tree == [head : Contents, work : Contents, extra : Contents]
Option(S) == {None} \cup {{x} : x \in S}
Fingerprints == [head : Contents, diff : Option(Contents)]
Reports == [work : Contents, extra : Contents, base : Option(Bases)]
Events == {"Modified", "Refresh"}

TypeOK ==
    /\ mounted \in BOOLEAN /\ silent \in BOOLEAN
    /\ tree \in Tree
    /\ pending \in 0..MaxEdits
    /\ f \in [phase : {"computing", "fresh", "stale"}, report : Option(Reports),
              staleSince : BOOLEAN, base : Option(Bases),
              lastFingerprint : Option(Fingerprints), computing : BOOLEAN, dirty : BOOLEAN]
    /\ queue \in Seq(Events)
    /\ task \in [pc : {"start", "idle", "head", "diff", "compare", "freshen", "calm", "checks"},
                 why : {"poll", "modified", "refresh"}, head : Contents,
                 fingerprint : Option(Fingerprints), tree : Tree, base : Option(Bases)]
    /\ spent \in [edits : 0..MaxEdits, refreshes : 0..MaxRefreshes, failures : 0..MaxFailures]

CleanTree == [head |-> 0, work |-> 0, extra |-> 0]

(* The task between two cycles: the locals of a cycle are gone. *)
AtRest == [pc |-> "idle", why |-> "poll", head |-> 0, fingerprint |-> None,
           tree |-> CleanTree, base |-> None]

Init ==
    /\ mounted = FALSE
    /\ tree = CleanTree
    /\ pending = 0
    /\ silent = FALSE
    /\ f = [phase |-> "computing", report |-> None, staleSince |-> FALSE, base |-> InitialBase,
            lastFingerprint |-> None, computing |-> FALSE, dirty |-> FALSE]
    /\ queue = <<>>
    /\ task = [AtRest EXCEPT !.pc = "start"]
    /\ spent = [edits |-> 0, refreshes |-> 0, failures |-> 0]

-----------------------------------------------------------------------------
(* The worktree (external): mounted once, edited by tools that notify when  *)
(* they are done, and by processes that do not.                             *)

Mount ==
    /\ ~mounted
    /\ mounted' = TRUE
    /\ UNCHANGED <<tree, pending, silent, f, queue, task, spent>>

NewContents(c) == IF Reverts THEN Contents \ {c} ELSE {spent.edits + 1}

Edited ==
    \/ \E c \in NewContents(tree.work) : tree' = [tree EXCEPT !.work = c]
    \/ Untracked /\ \E c \in NewContents(tree.extra) : tree' = [tree EXCEPT !.extra = c]
    \/ Commits /\ tree.head # tree.work /\ tree' = [tree EXCEPT !.head = tree.work]

Edit ==
    /\ mounted
    /\ spent.edits < MaxEdits
    /\ spent' = [spent EXCEPT !.edits = @ + 1]
    /\ Edited
    /\ \/ pending' = pending + 1 /\ UNCHANGED silent
       \/ Silently /\ silent' = TRUE /\ UNCHANGED pending
    /\ UNCHANGED <<mounted, f, queue, task>>

-----------------------------------------------------------------------------
(* The callers. *)

(* Every place that makes the state stale stamps the moment, once. *)
Stale(fields) == [fields EXCEPT !.phase = "stale", !.staleSince = TRUE]

(* notify_modified, by the tool that made the edit. *)
NotifyModified ==
    /\ pending > 0
    /\ pending' = pending - 1
    /\ f' = [Stale(f) EXCEPT !.dirty = @ \/ f.computing]
    /\ queue' = Append(queue, "Modified")
    /\ UNCHANGED <<mounted, tree, silent, task, spent>>

(* refresh, with a base that was validated, with none (null) or without the *)
(* field, which keeps the sticky one.  An invalid base changes nothing.     *)
Refresh(base) ==
    /\ spent.refreshes < MaxRefreshes
    /\ spent' = [spent EXCEPT !.refreshes = @ + 1]
    /\ f' = [f EXCEPT !.base = base]
    /\ queue' = Append(queue, "Refresh")
    /\ UNCHANGED <<mounted, tree, pending, silent, task>>

-----------------------------------------------------------------------------
(* The background task: run_background and cycle. *)

(* The first computation, if the worktree is there already. *)
Start ==
    /\ task.pc = "start"
    /\ task' = IF mounted THEN [task EXCEPT !.pc = "head", !.why = "refresh"] ELSE AtRest
    /\ UNCHANGED <<mounted, tree, pending, silent, f, queue, spent>>

(* An event wakes the loop: a refresh goes straight to the computation. *)
Wake ==
    /\ task.pc = "idle"
    /\ queue # <<>>
    /\ queue' = Tail(queue)
    /\ task' = IF Head(queue) = "Refresh"
                 THEN [task EXCEPT !.pc = "head", !.why = "refresh"]
                 ELSE [AtRest EXCEPT !.pc = "calm"]
    /\ UNCHANGED <<mounted, tree, pending, silent, f, spent>>

PollTick ==
    /\ task.pc = "idle"
    /\ task' = [task EXCEPT !.pc = "head", !.why = "poll"]
    /\ UNCHANGED <<mounted, tree, pending, silent, f, queue, spent>>

(* The cooldown: a notification arms the timer again, a refresh ends it. *)
CalmBroken ==
    /\ task.pc = "calm"
    /\ queue # <<>>
    /\ queue' = Tail(queue)
    /\ task' = IF Head(queue) = "Refresh"
                 THEN [task EXCEPT !.pc = "head", !.why = "refresh"] ELSE task
    /\ UNCHANGED <<mounted, tree, pending, silent, f, spent>>

CalmOver ==
    /\ task.pc = "calm"
    /\ task' = [task EXCEPT !.pc = "head", !.why = "modified"]
    /\ UNCHANGED <<mounted, tree, pending, silent, f, queue, spent>>

(* fingerprint: `git rev-parse HEAD', then `git diff HEAD' (and the names   *)
(* of the untracked files, never their content); any of them may fail, and  *)
(* they do without a worktree.                                              *)
ReadHead ==
    /\ task.pc = "head"
    /\ mounted
    /\ task' = [task EXCEPT !.pc = "diff", !.head = tree.head]
    /\ UNCHANGED <<mounted, tree, pending, silent, f, queue, spent>>

ReadDiff ==
    /\ task.pc = "diff"
    /\ task' = [task EXCEPT !.pc = "compare", !.head = 0,
                  !.fingerprint = {[head |-> task.head, diff |-> {tree.work} \ {tree.head}]}]
    /\ UNCHANGED <<mounted, tree, pending, silent, f, queue, spent>>

ReadFails ==
    /\ task.pc \in {"head", "diff"}
    /\ mounted => spent.failures < MaxFailures
    /\ spent' = IF mounted THEN [spent EXCEPT !.failures = @ + 1] ELSE spent
    /\ task' = [task EXCEPT !.pc = "compare", !.head = 0, !.fingerprint = None]
    /\ UNCHANGED <<mounted, tree, pending, silent, f, queue>>

Unchanged == task.fingerprint # None /\ task.fingerprint = f.lastFingerprint
Recompute == task.why = "refresh" \/ (task.why = "modified" /\ ~Unchanged)

ComparePolledOnce ==  \* mutant: a polled change is not computed
    /\ task.pc = "compare" /\ task.why = "poll"
    /\ task' = AtRest
    /\ f' = IF Unchanged \/ ~mounted THEN f ELSE Stale(f)
    /\ UNCHANGED <<mounted, tree, pending, silent, queue, spent>>

(* The poll: a new fingerprint makes the state stale and is given the       *)
(* cooldown, after which the fingerprint is read again.                     *)
ComparePolled ==
    /\ task.pc = "compare" /\ task.why = "poll"
    /\ IF Unchanged \/ ~mounted
         THEN task' = AtRest /\ UNCHANGED f
         ELSE task' = [AtRest EXCEPT !.pc = "calm"] /\ f' = Stale(f)
    /\ UNCHANGED <<mounted, tree, pending, silent, queue, spent>>

(* The guard of cycle refuses to recompute what did not change... *)
CompareUnchanged ==
    /\ task.pc = "compare" /\ task.why = "modified"
    /\ Unchanged
    /\ task' = [AtRest EXCEPT !.pc = "freshen"]
    /\ UNCHANGED <<mounted, tree, pending, silent, f, queue, spent>>

(* ... and mark_fresh, under the mutex again. *)
MarkFresh ==
    /\ task.pc = "freshen"
    /\ task' = AtRest
    /\ f' = IF f.computing THEN f ELSE [f EXCEPT !.phase = "fresh", !.staleSince = FALSE]
    /\ UNCHANGED <<mounted, tree, pending, silent, queue, spent>>

-----------------------------------------------------------------------------
(* compute *)

ComputeUnflagged ==  \* mutant: `computing' is not raised
    /\ task.pc = "compare"
    /\ Recompute
    /\ f' = [f EXCEPT !.dirty = FALSE, !.phase = IF @ = "stale" THEN @ ELSE "computing"]
    /\ task' = [task EXCEPT !.pc = "checks", !.tree = tree, !.base = f.base]
    /\ UNCHANGED <<mounted, tree, pending, silent, queue, spent>>

(* The first section captures the base; then the checks run. *)
Compute ==
    /\ task.pc = "compare"
    /\ Recompute
    /\ f' = [f EXCEPT !.computing = TRUE, !.dirty = FALSE,
                      !.phase = IF @ = "stale" THEN @ ELSE "computing"]
    /\ task' = [task EXCEPT !.pc = "checks", !.tree = tree, !.base = f.base]
    /\ UNCHANGED <<mounted, tree, pending, silent, queue, spent>>

(* The checks read the worktree at any moment between their start and their *)
(* end.                                                                     *)
Measured == {[work |-> t.work, extra |-> t.extra, base |-> task.base] : t \in {task.tree, tree}}

PublishLateFingerprint ==  \* mutant: the fingerprint is read after the checks
    /\ task.pc = "checks"
    /\ task' = AtRest
    /\ \E report \in Measured :
          f' = [f EXCEPT !.report = {report}, !.computing = FALSE,
                         !.lastFingerprint = {[head |-> tree.head,
                                               diff |-> {tree.work} \ {tree.head}]},
                         !.phase = IF f.dirty THEN "stale" ELSE "fresh",
                         !.staleSince = @ /\ f.dirty]
    /\ UNCHANGED <<mounted, tree, pending, silent, queue, spent>>

(* The report carries the fingerprint read before the checks. *)
Publish ==
    /\ task.pc = "checks"
    /\ task' = AtRest
    /\ \E report \in Measured :
          f' = [f EXCEPT !.report = {report}, !.lastFingerprint = task.fingerprint,
                         !.computing = FALSE,
                         !.phase = IF f.dirty THEN "stale" ELSE "fresh",
                         !.staleSince = @ /\ f.dirty]
    /\ UNCHANGED <<mounted, tree, pending, silent, queue, spent>>

ChecksFailInError ==  \* mutant: a phase the wire format has not
    /\ task.pc = "checks"
    /\ spent.failures < MaxFailures
    /\ spent' = [spent EXCEPT !.failures = @ + 1]
    /\ task' = AtRest
    /\ f' = [f EXCEPT !.computing = FALSE, !.phase = "error"]
    /\ UNCHANGED <<mounted, tree, pending, silent, queue>>

(* The runner failed: the report in place is fresh only if it carries the   *)
(* fingerprint of this computation and nothing moved.                       *)
ChecksFail ==
    /\ task.pc = "checks"
    /\ spent.failures < MaxFailures
    /\ spent' = [spent EXCEPT !.failures = @ + 1]
    /\ task' = AtRest
    /\ f' = IF Unchanged /\ f.report # None /\ ~f.dirty
              THEN [f EXCEPT !.computing = FALSE, !.phase = "fresh", !.staleSince = FALSE]
              ELSE [Stale(f) EXCEPT !.computing = FALSE]
    /\ UNCHANGED <<mounted, tree, pending, silent, queue>>

-----------------------------------------------------------------------------
BaseChoices == {f.base} \cup Option(Bases)

Background ==
    \/ Start \/ CalmOver \/ CalmBroken
    \/ ReadHead \/ ReadDiff \/ ReadFails
    \/ ComparePolled \/ CompareUnchanged \/ MarkFresh
    \/ Compute \/ ChecksFail \/ Publish

Callers ==
    \/ Mount \/ Edit \/ NotifyModified
    \/ \E base \in BaseChoices : Refresh(base)

Next == Callers \/ Background \/ Wake \/ PollTick

Spec == Init /\ [][Next]_vars

(* The task goes on: git and the checks end, the timers fire.  The select!  *)
(* of the loop takes its ready branches in random order, so that polling    *)
(* does not starve the events: strong fairness of Wake.  A tool that edited *)
(* notifies; a worktree is mounted in the end.                              *)
Fairness ==
    /\ WF_vars(Background)
    /\ SF_vars(Wake)
    /\ WF_vars(PollTick)
    /\ WF_vars(NotifyModified)
    /\ WF_vars(Mount)

FairSpec == Spec /\ Fairness

-----------------------------------------------------------------------------
(* Properties. *)

(* The phase, the stamp and the flags that seven places write agree: the    *)
(* state is stamped exactly while stale, a modification during a            *)
(* computation leaves it stale, and it is fresh only over a report and with *)
(* no computation under way.                                                *)
PhaseHonest ==
    /\ f.staleSince <=> f.phase = "stale"
    /\ f.dirty /\ f.computing => f.phase = "stale"
    /\ f.phase = "fresh" => f.report # None /\ ~f.computing
    /\ f.computing <=> task.pc = "checks"

Settled == /\ task.pc = "idle"
           /\ queue = <<>>
           /\ pending = 0
           /\ ~silent

(* When every edit was notified and the task has nothing left to do, a      *)
(* fresh report is a report on the tracked files as they are, as long as    *)
(* contents do not come back (Reverts is FALSE): a worktree edited after    *)
(* the fingerprint was read and restored after the checks defeats it.       *)
FreshIsTrue ==
    Settled /\ f.phase = "fresh" => \A r \in f.report : r.work = tree.work

(* Once the edits stop the state becomes fresh and stays so, over a report  *)
(* on the tracked files as they are, even if nobody notified the edits and  *)
(* some computations failed.                                                *)
SettlesOnTruth ==
    <>[](f.phase = "fresh" /\ \A r \in f.report : r.work = tree.work)
=============================================================================
