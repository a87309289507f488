---------------------------- MODULE SandboxJobs ----------------------------
(***************************************************************************)
(* The job registry of a sandbox pod and the process groups behind it      *)
(* (sandbox/src/jobs.rs): the POST, DELETE and DELETE ?prefix handlers,    *)
(* the supervisor task of each job, the SIGKILL watchdogs, the eviction of *)
(* finished jobs and the callback that resolves a Restate awakeable.       *)
(*                                                                         *)
(* The registry is one mutex held for short sections; between two sections *)
(* of a handler every other task may run, so a handler is one action per   *)
(* section.  An insertion takes the next `seq', which names here both the  *)
(* incarnation of the job and its process group (process_group(0): pgid is *)
(* the pid of `sh'); pids are not reused.  A group has the leader "sh" and *)
(* a descendant "child" that the script left in the background.            *)
(***************************************************************************)
EXTENDS Naturals, FiniteSets

CONSTANTS JobIds,         \* job ids callers use
          CallbackIds,    \* those whose POST carries callback.awakeable_id
          Prefixes,       \* what DELETE ?prefix= can match: sets of job ids
          MaxRunning,     \* MAX_RUNNING_JOBS (4)
          MaxKept,        \* MAX_FINISHED_KEPT (20)
          Deleters,       \* concurrent DELETE handlers
          MaxSeq          \* bound on insertions

ASSUME JobsAssumption ==
    /\ IsFiniteSet(JobIds)
    /\ "none" \notin JobIds   \* what jobOf says of a seq without a job
    /\ CallbackIds \subseteq JobIds
    /\ Prefixes \subseteq SUBSET JobIds
    /\ MaxRunning \in Nat \ {0}
    /\ MaxKept \in Nat
    /\ MaxSeq \in Nat

VARIABLES reg,       \* registry: job id -> JobRecord, or NoRecord
          nextSeq,   \* Inner.next_seq
          jobOf,     \* the job id inserted under a seq
          pc,        \* where the creation, then the supervisor, of a seq stands
          group,     \* live members of the process group of a seq
          outcome,   \* state the supervisor computed and has yet to publish
          watch,     \* seqs with a SIGKILL watchdog sleeping
          del,       \* the DELETE handlers in flight
          cb,        \* the callback task of a seq
          resolved,  \* what Restate was told of a seq (external)
          log        \* the log file at a job's path: the seq that created it, 0: none

vars == <<reg, nextSeq, jobOf, pc, group, outcome, watch, del, cb, resolved, log>>

Seqs == 1..MaxSeq
Outcomes == {"succeeded", "failed", "timed_out", "cancelled"}
JobState == {"running"} \cup Outcomes
Members == {"sh", "child"}
NoRecord == [state |-> "absent"]
Record == [state : JobState, pgid : Seqs \cup {0}, cancel : BOOLEAN,
           timedOut : BOOLEAN, awakeable : BOOLEAN, seq : Seqs]
Phase == {"free", "inserted", "unwound", "failed", "spawned", "waiting", "killing", "decided", "done"}

TypeOK ==
    /\ reg \in [JobIds -> Record \cup {NoRecord}]
    /\ nextSeq \in 1..(MaxSeq + 1)
    /\ jobOf \in [Seqs -> JobIds \cup {"none"}]
    /\ pc \in [Seqs -> Phase]
    /\ group \in [Seqs -> SUBSET Members]
    /\ outcome \in [Seqs -> Outcomes \cup {"none"}]
    /\ watch \subseteq Seqs
    /\ del \in [Deleters -> [todo : SUBSET Seqs, await : SUBSET JobIds]]
    /\ cb \in [Seqs -> {"none", "pending", "over"}]
    /\ resolved \in [Seqs -> Outcomes \cup {"none"}]
    /\ log \in [JobIds -> Seqs \cup {0}]

NoDelete == [todo |-> {}, await |-> {}]

Init ==
    /\ reg = [j \in JobIds |-> NoRecord]
    /\ nextSeq = 1
    /\ jobOf = [s \in Seqs |-> "none"]
    /\ pc = [s \in Seqs |-> "free"]
    /\ group = [s \in Seqs |-> {}]
    /\ outcome = [s \in Seqs |-> "none"]
    /\ watch = {}
    /\ del = [d \in Deleters |-> NoDelete]
    /\ cb = [s \in Seqs |-> "none"]
    /\ resolved = [s \in Seqs |-> "none"]
    /\ log = [j \in JobIds |-> 0]

-----------------------------------------------------------------------------
(* The registry. *)

Running(r) == {j \in JobIds : r[j].state = "running"}
Finished(r) == {j \in JobIds : r[j].state \in Outcomes}

(* evict_finished: the loop drops the finished job of smallest seq until at *)
(* most MaxKept are left, so it keeps those with fewer than MaxKept younger *)
(* finished jobs.                                                           *)
Younger(r, j) == {k \in Finished(r) : r[k].seq > r[j].seq}
EvictedOneLate(r) == {j \in Finished(r) : Cardinality(Younger(r, j)) > MaxKept}  \* mutant
Evicted(r) == {j \in Finished(r) : Cardinality(Younger(r, j)) >= MaxKept}
EvictFinished(r) == [j \in JobIds |-> IF j \in Evicted(r) THEN NoRecord ELSE r[j]]

(* is_running, mark_spawned, cause_flags and mark_timed_out look the record *)
(* up by job id: they see whatever incarnation is registered under it.      *)
Known(j) == reg[j].state # "absent"
IsRunning(j) == reg[j].state = "running"

-----------------------------------------------------------------------------
(* Signals and deaths. *)

(* SIGTERM leaves alive the members that trap or ignore it. *)
SigTerm(s) ==
    \E survivors \in SUBSET group[s] : group' = [group EXCEPT ![s] = survivors]

SigKill(s) == group' = [group EXCEPT ![s] = {}]

(* A member of the group ends by itself. *)
Exit(s) ==
    /\ \E m \in group[s] : group' = [group EXCEPT ![s] = @ \ {m}]
    /\ UNCHANGED <<reg, nextSeq, jobOf, pc, outcome, watch, del, cb, resolved, log>>

-----------------------------------------------------------------------------
(* POST /jobs *)

CreateOverCap(j) ==  \* mutant: the cap off by one
    /\ nextSeq <= MaxSeq
    /\ ~Known(j)
    /\ Cardinality(Running(reg)) <= MaxRunning
    /\ reg' = [reg EXCEPT ![j] =
                 [state |-> "running", pgid |-> 0, cancel |-> FALSE, timedOut |-> FALSE,
                  awakeable |-> j \in CallbackIds, seq |-> nextSeq]]
    /\ jobOf' = [jobOf EXCEPT ![nextSeq] = j]
    /\ pc' = [pc EXCEPT ![nextSeq] = "inserted"]
    /\ nextSeq' = nextSeq + 1
    /\ UNCHANGED <<group, outcome, watch, del, cb, resolved, log>>

(* handle_create, first section: a known id is answered as it is (nothing   *)
(* changes); an unknown one under the cap is inserted as running.           *)
Create(j) ==
    /\ nextSeq <= MaxSeq
    /\ ~Known(j)
    /\ Cardinality(Running(reg)) < MaxRunning
    /\ reg' = [reg EXCEPT ![j] =
                 [state |-> "running", pgid |-> 0, cancel |-> FALSE, timedOut |-> FALSE,
                  awakeable |-> j \in CallbackIds, seq |-> nextSeq]]
    /\ jobOf' = [jobOf EXCEPT ![nextSeq] = j]
    /\ pc' = [pc EXCEPT ![nextSeq] = "inserted"]
    /\ nextSeq' = nextSeq + 1
    /\ UNCHANGED <<group, outcome, watch, del, cb, resolved, log>>

(* spawn_job: truncates the log of the id, then starts the group. *)
SpawnJob(s) ==
    /\ pc[s] = "inserted"
    /\ pc' = [pc EXCEPT ![s] = "spawned"]
    /\ group' = [group EXCEPT ![s] = Members]
    /\ log' = [log EXCEPT ![jobOf[s]] = s]
    /\ UNCHANGED <<reg, nextSeq, jobOf, outcome, watch, del, cb, resolved>>

SpawnFailsKeepingRecord(s) ==  \* mutant: no forget
    /\ pc[s] = "inserted"
    /\ pc' = [pc EXCEPT ![s] = "unwound"]
    /\ log' \in {log, [log EXCEPT ![jobOf[s]] = s]}
    /\ UNCHANGED <<reg, nextSeq, jobOf, group, outcome, watch, del, cb, resolved>>

(* spawn_job failed, before or after the log was opened: forget the record. *)
SpawnFails(s) ==
    /\ pc[s] = "inserted"
    /\ pc' = [pc EXCEPT ![s] = "unwound"]
    /\ reg' = [reg EXCEPT ![jobOf[s]] = NoRecord]
    /\ log' \in {log, [log EXCEPT ![jobOf[s]] = s]}
    /\ UNCHANGED <<nextSeq, jobOf, group, outcome, watch, del, cb, resolved>>

(* ... and remove the log, by path, out of the lock. *)
RemoveFailedLog(s) ==
    /\ pc[s] = "unwound"
    /\ pc' = [pc EXCEPT ![s] = "failed"]
    /\ log' = [log EXCEPT ![jobOf[s]] = 0]
    /\ UNCHANGED <<reg, nextSeq, jobOf, group, outcome, watch, del, cb, resolved>>

MarkSpawnedIgnoringCancel(s) ==  \* mutant: cancel_raced ignored
    LET j == jobOf[s] IN
    /\ pc[s] = "spawned"
    /\ pc' = [pc EXCEPT ![s] = "waiting"]
    /\ reg' = IF ~Known(j) THEN reg ELSE [reg EXCEPT ![j].pgid = s]
    /\ UNCHANGED <<group, watch, nextSeq, jobOf, outcome, del, cb, resolved, log>>

(* mark_spawned, then the kill of a job cancelled before it had a pgid; the *)
(* supervisor starts.                                                       *)
MarkSpawned(s) ==
    LET j == jobOf[s] IN
    /\ pc[s] = "spawned"
    /\ pc' = [pc EXCEPT ![s] = "waiting"]
    /\ reg' = IF ~Known(j) THEN reg ELSE [reg EXCEPT ![j].pgid = s]
    /\ IF Known(j) /\ reg[j].cancel
         THEN SigTerm(s) /\ watch' = watch \cup {s}
         ELSE UNCHANGED <<group, watch>>
    /\ UNCHANGED <<nextSeq, jobOf, outcome, del, cb, resolved, log>>

-----------------------------------------------------------------------------
(* The supervisor task and its watchdog. *)

(* supervise, the leader was reaped in time: the cause is read under the    *)
(* lock, a cancellation first; without one the exit code, whichever it is,  *)
(* tells success from failure.                                              *)
Reap(s) ==
    LET j == jobOf[s] IN
    /\ pc[s] = "waiting"
    /\ "sh" \notin group[s]
    /\ pc' = [pc EXCEPT ![s] = "decided"]
    /\ \E byExitCode \in {"succeeded", "failed"} :
          outcome' = [outcome EXCEPT ![s] =
                        IF Known(j) /\ reg[j].cancel THEN "cancelled"
                        ELSE IF Known(j) /\ reg[j].timedOut THEN "timed_out"
                        ELSE byExitCode]
    /\ UNCHANGED <<reg, nextSeq, jobOf, group, watch, del, cb, resolved, log>>

(* supervise, timeout_secs elapsed first: mark_timed_out, SIGTERM, watchdog. *)
Elapse(s) ==
    LET j == jobOf[s] IN
    /\ pc[s] = "waiting"
    /\ pc' = [pc EXCEPT ![s] = "killing"]
    /\ reg' = IF ~Known(j) THEN reg ELSE [reg EXCEPT ![j].timedOut = TRUE]
    /\ IF Known(j) /\ reg[j].pgid # 0
         THEN SigTerm(reg[j].pgid) /\ watch' = watch \cup {reg[j].pgid}
         ELSE UNCHANGED <<group, watch>>
    /\ UNCHANGED <<nextSeq, jobOf, outcome, del, cb, resolved, log>>

ReapTimedOutTooSoon(s) ==  \* mutant: does not wait for the leader
    /\ pc[s] = "killing"
    /\ pc' = [pc EXCEPT ![s] = "decided"]
    /\ outcome' = [outcome EXCEPT ![s] = "timed_out"]
    /\ UNCHANGED <<reg, nextSeq, jobOf, group, watch, del, cb, resolved, log>>

ReapTimedOutUnset(s) ==  \* mutant: no state for the timeout branch
    /\ pc[s] = "killing"
    /\ "sh" \notin group[s]
    /\ pc' = [pc EXCEPT ![s] = "decided"]
    /\ UNCHANGED <<reg, nextSeq, jobOf, group, outcome, watch, del, cb, resolved, log>>

(* ... then waits for the leader and publishes timed_out, whatever else     *)
(* happened.                                                                *)
ReapTimedOut(s) ==
    /\ pc[s] = "killing"
    /\ "sh" \notin group[s]
    /\ pc' = [pc EXCEPT ![s] = "decided"]
    /\ outcome' = [outcome EXCEPT ![s] = "timed_out"]
    /\ UNCHANGED <<reg, nextSeq, jobOf, group, watch, del, cb, resolved, log>>

FinishKeepingLogs(s) ==  \* mutant: eviction forgets the log files
    LET j == jobOf[s] IN
    /\ pc[s] = "decided"
    /\ pc' = [pc EXCEPT ![s] = "done"]
    /\ IF ~Known(j)
         THEN UNCHANGED <<reg, cb>>
         ELSE /\ reg' = EvictFinished([reg EXCEPT ![j].state = outcome[s]])
              /\ cb' = [cb EXCEPT ![s] = IF reg[j].awakeable THEN "pending" ELSE @]
    /\ UNCHANGED <<nextSeq, jobOf, group, outcome, watch, del, resolved, log>>

(* finish: publishes the terminal state, evicts, starts the callback task. *)
Finish(s) ==
    LET j == jobOf[s]
        published == [reg EXCEPT ![j].state = outcome[s]]
    IN
    /\ pc[s] = "decided"
    /\ pc' = [pc EXCEPT ![s] = "done"]
    /\ IF ~Known(j)
         THEN UNCHANGED <<reg, log, cb>>
         ELSE /\ reg' = EvictFinished(published)
              /\ log' = [k \in JobIds |-> IF k \in Evicted(published) THEN 0 ELSE log[k]]
              /\ cb' = [cb EXCEPT ![s] = IF reg[j].awakeable THEN "pending" ELSE @]
    /\ UNCHANGED <<nextSeq, jobOf, group, outcome, watch, del, resolved>>

WatchdogNeverKills(s) ==  \* mutant: no SIGKILL after the grace
    /\ s \in watch
    /\ watch' = watch \ {s}
    /\ UNCHANGED <<group, reg, nextSeq, jobOf, pc, outcome, del, cb, resolved, log>>

(* spawn_kill_watchdog, after KILL_GRACE. *)
Watchdog(s) ==
    /\ s \in watch
    /\ watch' = watch \ {s}
    /\ IF IsRunning(jobOf[s]) THEN SigKill(s) ELSE UNCHANGED group
    /\ UNCHANGED <<reg, nextSeq, jobOf, pc, outcome, del, cb, resolved, log>>

(* resolve_awakeable: a 2xx ends the task; an attempt may reach Restate and *)
(* its answer be lost, so the task retries; the window may be exhausted.    *)
ResolveAwakeable(s) ==
    /\ cb[s] = "pending"
    /\ \/ /\ resolved' = [resolved EXCEPT ![s] = outcome[s]]
          /\ cb' \in {cb, [cb EXCEPT ![s] = "over"]}
       \/ /\ cb' = [cb EXCEPT ![s] = "over"]
          /\ UNCHANGED resolved
    /\ UNCHANGED <<reg, nextSeq, jobOf, pc, group, outcome, watch, del, log>>

-----------------------------------------------------------------------------
(* DELETE /jobs/{job_id} and DELETE /jobs?prefix= *)

Idle(d) == del[d] = NoDelete

(* One section marks the targets and collects the pgids known by then. *)
MarkCancelled(d, targets) ==
    /\ reg' = [j \in JobIds |-> IF j \in targets THEN [reg[j] EXCEPT !.cancel = TRUE]
                                ELSE reg[j]]
    /\ del' = [del EXCEPT ![d] = [todo |-> {reg[j].pgid : j \in targets} \ {0},
                                  await |-> targets]]
    /\ UNCHANGED <<nextSeq, jobOf, pc, group, outcome, watch, cb, resolved, log>>

(* request_cancel: an unknown id is a 404, a finished one is answered as it *)
(* is; neither changes anything.                                            *)
CancelOne(d, j) ==
    /\ Idle(d)
    /\ IsRunning(j)
    /\ MarkCancelled(d, {j})

CancelPrefix(d, P) ==
    /\ Idle(d)
    /\ P \cap Running(reg) # {}
    /\ MarkCancelled(d, P \cap Running(reg))

(* The handler signals each target's group and arms its watchdog. *)
SignalTarget(d, s) ==
    /\ s \in del[d].todo
    /\ del' = [del EXCEPT ![d].todo = @ \ {s}]
    /\ SigTerm(s)
    /\ watch' = watch \cup {s}
    /\ UNCHANGED <<reg, nextSeq, jobOf, pc, outcome, cb, resolved, log>>

(* await_terminal: the id is no longer running, or CANCEL_WAIT_MAX elapsed, *)
(* or the caller hung up.                                                   *)
AwaitEnds(d, j) ==
    /\ del[d].todo = {}
    /\ j \in del[d].await
    /\ del' = [del EXCEPT ![d].await = @ \ {j}]
    /\ UNCHANGED <<reg, nextSeq, jobOf, pc, group, outcome, watch, cb, resolved, log>>

-----------------------------------------------------------------------------
(* The pod restarts: the registry, the tasks, the processes and the logs of *)
(* its container are gone.  next_seq restarts at 1 in the code; it goes on  *)
(* here so that a seq names one incarnation for ever.                       *)
Restart ==
    /\ reg' = [j \in JobIds |-> NoRecord]
    /\ pc' = [s \in Seqs |-> IF s < nextSeq THEN "done" ELSE "free"]
    /\ jobOf' = [s \in Seqs |-> "none"]
    /\ group' = [s \in Seqs |-> {}]
    /\ outcome' = [s \in Seqs |-> "none"]
    /\ watch' = {}
    /\ del' = [d \in Deleters |-> NoDelete]
    /\ cb' = [s \in Seqs |-> "none"]
    /\ resolved' = [s \in Seqs |-> "none"]
    /\ log' = [j \in JobIds |-> 0]
    /\ UNCHANGED nextSeq

Supervisor(s) == Reap(s) \/ Elapse(s) \/ ReapTimedOut(s) \/ Finish(s)
Creation(s) == SpawnJob(s) \/ SpawnFails(s) \/ RemoveFailedLog(s) \/ MarkSpawned(s)

Next ==
    \/ \E j \in JobIds : Create(j)
    \/ \E s \in Seqs : \/ Creation(s)
                       \/ Exit(s)
                       \/ Supervisor(s)
                       \/ Watchdog(s)
                       \/ ResolveAwakeable(s)
    \/ \E d \in Deleters : \/ \E j \in JobIds : CancelOne(d, j)
                           \/ \E P \in Prefixes : CancelPrefix(d, P)
                           \/ \E s \in Seqs : SignalTarget(d, s)
                           \/ \E j \in JobIds : AwaitEnds(d, j)
    \/ Restart

Spec == Init /\ [][Next]_vars

(* tokio runs every task that can run, and its timers fire: a creation, a   *)
(* supervisor whose leader died, a watchdog and a DELETE handler all go on. *)
(* Nothing obliges a process to end, nor is the timeout of a job assumed to *)
(* elapse (it may be 24 h away).                                            *)
Fairness ==
    /\ \A s \in Seqs : /\ WF_vars(Creation(s))
                       /\ WF_vars(Reap(s) \/ ReapTimedOut(s) \/ Finish(s))
                       /\ WF_vars(Watchdog(s))
                       /\ \A d \in Deleters : WF_vars(SignalTarget(d, s))

FairSpec == Spec /\ Fairness

-----------------------------------------------------------------------------
(* Properties. *)

Owns(j, s) == reg[j].state = "running" /\ reg[j].seq = s

Active == {"inserted", "spawned", "waiting", "killing", "decided"}

(* Tasks and records agree: a creation or a supervisor at work finds the    *)
(* very record it was started for under its id, still running, and every    *)
(* running record has such a task, the only one that may end it.            *)
TasksMatchRecords ==
    /\ \A s \in Seqs : pc[s] \in Active => jobOf[s] \in JobIds /\ Owns(jobOf[s], s)
    /\ \A j \in JobIds : Known(j) => jobOf[reg[j].seq] = j
    /\ \A j \in JobIds : IsRunning(j) => pc[reg[j].seq] \in Active
    /\ \A j \in JobIds : IsRunning(j) =>
          /\ reg[j].pgid = IF pc[reg[j].seq] \in {"inserted", "spawned"} THEN 0 ELSE reg[j].seq
          /\ reg[j].timedOut => pc[reg[j].seq] \in {"killing", "decided"}

(* A live leader is the leader of the incarnation registered as running     *)
(* under its id, whatever cancellations, timeouts, evictions and re-posts   *)
(* came in between.  Hence two leaders never run under one id, and the cap  *)
(* on running records (handle_create, one lock for check and insertion) is  *)
(* a cap on processes.                                                      *)
LeadersAccounted ==
    /\ \A s \in Seqs : "sh" \in group[s] => jobOf[s] \in JobIds /\ Owns(jobOf[s], s)
    /\ Cardinality(Running(reg)) <= MaxRunning

Doomed(s) == /\ pc[s] \in {"waiting", "killing"}
             /\ reg[jobOf[s]].cancel \/ reg[jobOf[s]].timedOut

(* A job cancelled at any moment, the window before its spawn included, or  *)
(* past its timeout, whose leader is still alive, has a SIGKILL on its way: *)
(* its watchdog sleeps or a DELETE handler is about to arm it.              *)
KillArmed ==
    \A s \in Seqs :
        Doomed(s) /\ "sh" \in group[s] =>
            s \in watch \/ \E d \in Deleters : s \in del[d].todo

(* A log file outlives its record only until the handler that failed to     *)
(* start its job removes it: evictions leave nothing on the disk.           *)
NoOrphanLog ==
    \A j \in JobIds : log[j] # 0 =>
        Known(j) \/ \E s \in Seqs : pc[s] = "unwound" /\ jobOf[s] = j

(* Restate is told of a job only once its leader is dead, and told what a   *)
(* GET answers for as long as the registry keeps that incarnation.          *)
ResolvedTruthfully ==
    \A s \in Seqs : resolved[s] # "none" =>
        /\ "sh" \notin group[s]
        /\ \A j \in JobIds : Known(j) /\ reg[j].seq = s => reg[j].state = resolved[s]

(* What the pod promises to its callers (JobContract). *)
NotLaunched == {"free", "inserted", "unwound", "failed"}
Launched(j) == {s \in Seqs : jobOf[s] = j /\ pc[s] \notin NotLaunched}
Contract == INSTANCE JobContract WITH
    job <- [j \in JobIds |-> reg[j].state],
    starting <- {j \in JobIds : IsRunning(j) /\ pc[reg[j].seq] = "inserted"},
    cancelling <- {j \in JobIds : IsRunning(j) /\ reg[j].cancel},
    launched <- [j \in JobIds |-> Cardinality(Launched(j))]
ImplementsContract == Contract!ContractSpec

(* A job that was cancelled, or whose timeout elapsed, ends: its leader     *)
(* dies of the SIGTERM or of the watchdog and the terminal state is         *)
(* published.                                                               *)
DoomedJobEnds ==
    \A j \in JobIds : (IsRunning(j) /\ (reg[j].cancel \/ reg[j].timedOut)) ~> ~IsRunning(j)
=============================================================================
