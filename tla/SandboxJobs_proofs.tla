------------------------- MODULE SandboxJobs_proofs -------------------------
(***************************************************************************)
(* Safety of the job registry, for any number of jobs, insertions and      *)
(* concurrent DELETE handlers and for any caps: its tasks, processes, logs *)
(* and callbacks; that it implements the promise of JobContract; and what  *)
(* follows on its size, on cancellations and on the awakeables.            *)
(***************************************************************************)
EXTENDS SandboxJobs, FiniteSetTheorems, TLAPS

(* A task at work knows its job, and a supervisor publishes a terminal      *)
(* state, never its initial "none".                                         *)
TasksTyped ==
    \A s \in Seqs : /\ pc[s] \in Active => jobOf[s] \in JobIds
                    /\ pc[s] = "decided" => outcome[s] \in Outcomes

Typed == TypeOK /\ TasksTyped

LEMMA InitTyped == Init => Typed
BY JobsAssumption DEF Init, Typed, TypeOK, Active, TasksTyped, Seqs, NoDelete, NoRecord, Phase

(* Types survive a step: the terminal state a supervisor publishes was      *)
(* computed by the branch of supervise that reaped the leader.              *)
LEMMA NextTyped == Typed /\ [Next]_vars => Typed'
<1> SUFFICES ASSUME Typed, [Next]_vars PROVE Typed'
    OBVIOUS
<1> USE DEF Typed, TypeOK, TasksTyped, Active
<1>1. ASSUME NEW j \in JobIds, Create(j) PROVE Typed'
    <2> DEFINE r == [state |-> "running", pgid |-> 0, cancel |-> FALSE, timedOut |-> FALSE,
                     awakeable |-> j \in CallbackIds, seq |-> nextSeq]
    <2>1. nextSeq \in Seqs /\ nextSeq + 1 \in 1..(MaxSeq + 1)
        BY <1>1, JobsAssumption DEF Create, Seqs
    <2>2. (j \in CallbackIds) \in BOOLEAN
        OBVIOUS
    <2>3. r \in Record
        <3> HIDE DEF TypeOK
        <3> DEFINE a == j \in CallbackIds
        <3>1. a \in BOOLEAN
            BY <2>2
        <3> HIDE DEF a
        <3> QED BY <2>1, <3>1 DEF Record, JobState
    <2> HIDE DEF r
    <2>4. reg' = [reg EXCEPT ![j] = r]
        BY <1>1 DEF Create, r
    <2>5. /\ jobOf' = [jobOf EXCEPT ![nextSeq] = j]
          /\ pc' = [pc EXCEPT ![nextSeq] = "inserted"]
          /\ nextSeq' = nextSeq + 1
          /\ UNCHANGED <<group, outcome, watch, del, cb, resolved, log>>
        BY <1>1 DEF Create
    <2> QED
        BY <2>1, <2>3, <2>4, <2>5 DEF Phase
<1>2. ASSUME NEW s \in Seqs, SpawnJob(s) PROVE Typed'
    BY <1>2 DEF SpawnJob, Members, Phase
<1>3. ASSUME NEW s \in Seqs, SpawnFails(s) PROVE Typed'
    BY <1>3 DEF SpawnFails, Phase
<1>4. ASSUME NEW s \in Seqs, RemoveFailedLog(s) PROVE Typed'
    BY <1>4 DEF RemoveFailedLog, Phase
<1>5. ASSUME NEW s \in Seqs, MarkSpawned(s) PROVE Typed'
    <2>1. reg' \in [JobIds -> Record \cup {NoRecord}]
        <3>1. CASE ~Known(jobOf[s])
            BY <1>5, <3>1 DEF MarkSpawned
        <3>2. CASE Known(jobOf[s]) /\ jobOf[s] \in JobIds
            <4>1. reg[jobOf[s]] \in Record
                BY <3>2 DEF Known, NoRecord
            <4>2. [reg[jobOf[s]] EXCEPT !.pgid = s] \in Record
                BY <4>1 DEF Record
            <4> QED BY <1>5, <3>2, <4>2 DEF MarkSpawned
        <3>3. CASE jobOf[s] \notin JobIds
            BY <1>5, <3>3 DEF MarkSpawned
        <3> QED BY <3>1, <3>2, <3>3
    <2>2. group' \in [Seqs -> SUBSET Members] /\ watch' \subseteq Seqs
        BY <1>5 DEF MarkSpawned, SigTerm
    <2>3. pc' \in [Seqs -> Phase] /\ TasksTyped'
        BY <1>5 DEF MarkSpawned, Phase
    <2> QED BY <1>5, <2>1, <2>2, <2>3 DEF MarkSpawned
<1>6. ASSUME NEW s \in Seqs, Exit(s) PROVE Typed'
    BY <1>6 DEF Exit
<1>7. ASSUME NEW s \in Seqs, Reap(s) PROVE Typed'
    BY <1>7 DEF Reap, Outcomes, Phase
<1>8. ASSUME NEW s \in Seqs, Elapse(s) PROVE Typed'
    <2> DEFINE j == jobOf[s]
    <2>1. j \in JobIds
        BY <1>8 DEF Elapse
    <2>2. ASSUME Known(j)
          PROVE reg[j] \in Record /\ [reg[j] EXCEPT !.timedOut = TRUE] \in Record
        <3>1. reg[j] \in Record
            BY <2>1, <2>2 DEF Known, NoRecord
        <3> QED BY <3>1 DEF Record
    <2>3. reg' \in [JobIds -> Record \cup {NoRecord}]
        BY <1>8, <2>1, <2>2 DEF Elapse
    <2>4. group' \in [Seqs -> SUBSET Members] /\ watch' \subseteq Seqs
        <3>1. CASE Known(j) /\ reg[j].pgid # 0
            <4>1. reg[j].pgid \in Seqs
                BY <2>2, <3>1 DEF Record
            <4> QED BY <1>8, <3>1, <4>1 DEF Elapse, SigTerm
        <3>2. CASE ~(Known(j) /\ reg[j].pgid # 0)
            BY <1>8, <3>2 DEF Elapse
        <3> QED BY <3>1, <3>2
    <2>5. pc' \in [Seqs -> Phase] /\ TasksTyped'
        BY <1>8 DEF Elapse, Phase
    <2> QED BY <1>8, <2>3, <2>4, <2>5 DEF Elapse
<1>9. ASSUME NEW s \in Seqs, ReapTimedOut(s) PROVE Typed'
    BY <1>9 DEF ReapTimedOut, Outcomes, Phase
<1>10. ASSUME NEW s \in Seqs, Finish(s) PROVE Typed'
    BY <1>10 DEF Finish, EvictFinished, Record, NoRecord, JobState, Known, Phase
<1>11. ASSUME NEW s \in Seqs, Watchdog(s) PROVE Typed'
    BY <1>11 DEF Watchdog, SigKill
<1>12. ASSUME NEW s \in Seqs, ResolveAwakeable(s) PROVE Typed'
    BY <1>12 DEF ResolveAwakeable
<1>13. ASSUME NEW d \in Deleters, NEW T \in SUBSET JobIds, MarkCancelled(d, T),
              T \subseteq Running(reg)
       PROVE Typed'
    <2>1. ASSUME NEW j \in T
          PROVE reg[j] \in Record /\ [reg[j] EXCEPT !.cancel = TRUE] \in Record
        <3>1. reg[j] \in Record
            BY <1>13 DEF Running, NoRecord
        <3> QED BY <3>1 DEF Record
    <2>2. reg' \in [JobIds -> Record \cup {NoRecord}]
        BY <1>13, <2>1 DEF MarkCancelled
    <2>3. {reg[j].pgid : j \in T} \ {0} \subseteq Seqs
        <3>1. ASSUME NEW j \in T PROVE reg[j].pgid \in Seqs \cup {0}
            BY <2>1 DEF Record
        <3> HIDE DEF TypeOK
        <3> QED BY <3>1
    <2> QED BY <1>13, <2>2, <2>3 DEF MarkCancelled
<1>14. ASSUME NEW d \in Deleters, NEW j \in JobIds, CancelOne(d, j) PROVE Typed'
    BY <1>13, <1>14 DEF CancelOne, IsRunning, Running
<1>15. ASSUME NEW d \in Deleters, NEW P \in Prefixes, CancelPrefix(d, P) PROVE Typed'
    BY <1>13, <1>15 DEF CancelPrefix, Running
<1>16. ASSUME NEW d \in Deleters, NEW s \in Seqs, SignalTarget(d, s) PROVE Typed'
    BY <1>16 DEF SignalTarget, SigTerm
<1>17. ASSUME NEW d \in Deleters, NEW j \in JobIds, AwaitEnds(d, j) PROVE Typed'
    BY <1>17 DEF AwaitEnds
<1>18. CASE Restart
    BY <1>18 DEF Restart, NoDelete, Phase
<1>19. CASE UNCHANGED vars
    BY <1>19 DEF vars
<1> QED
    BY <1>1, <1>2, <1>3, <1>4, <1>5, <1>6, <1>7, <1>8, <1>9, <1>10, <1>11, <1>12,
       <1>14, <1>15, <1>16, <1>17, <1>18, <1>19 DEF Next, Creation, Supervisor

(* Every variable keeps its type in every behaviour of the registry.        *)
THEOREM TypeCorrect == Spec => []TypeOK
<1>1. Typed => TypeOK
    BY DEF Typed
<1> QED
    BY <1>1, InitTyped, NextTyped, PTL DEF Spec
-----------------------------------------------------------------------------
(* The inductive invariant.  TasksMatchRecords is not inductive by itself:  *)
(* the seq about to be inserted must name nothing yet, and a leader must    *)
(* only live while the task that waits for it does.                         *)

Fresh == /\ \A s \in Seqs : s >= nextSeq => pc[s] = "free"
         /\ \A j \in JobIds : Known(j) => reg[j].seq < nextSeq

LeadersHaveTask ==
    \A s \in Seqs : "sh" \in group[s] => pc[s] \in {"spawned", "waiting", "killing"}

Books == Typed /\ TasksMatchRecords /\ Fresh /\ LeadersHaveTask

LEMMA InitBooks == Init => Books
<1> SUFFICES ASSUME Init PROVE Books
    OBVIOUS
<1>1. Typed
    BY InitTyped
<1> QED
    BY <1>1 DEF Init, Books, TasksMatchRecords, Fresh, LeadersHaveTask, Active, Known,
       IsRunning, NoRecord

(* What the registry holds of a known job. *)
LEMMA KnownRecord ==
    ASSUME Typed, NEW j \in JobIds, Known(j)
    PROVE  reg[j] \in Record
BY DEF Typed, TypeOK, Known, NoRecord

(* Publishing a terminal state and evicting only touch finished records:    *)
(* the record of the supervisor stops running, the other running ones stay. *)
LEMMA FinishEffect ==
    ASSUME Books, NEW s \in Seqs, Finish(s), NEW k \in JobIds
    PROVE  /\ k = jobOf[s] => reg'[k].state # "running"
           /\ k # jobOf[s] /\ IsRunning(k) => reg'[k] = reg[k]
           /\ reg'[k].state # "absent" => Known(k) /\ reg'[k].seq = reg[k].seq
           /\ reg'[k].state = "running" => reg'[k] = reg[k]
<1> DEFINE j == jobOf[s]
           pub == [reg EXCEPT ![j].state = outcome[s]]
<1>1. /\ j \in JobIds
      /\ Owns(j, s)
      /\ outcome[s] \in Outcomes
    BY DEF Books, Typed, TasksTyped, TasksMatchRecords, Finish, Active
<1>2. Known(j) /\ reg[j] \in Record
    BY <1>1, KnownRecord DEF Owns, Known, Books
<1>3. /\ reg' = EvictFinished(pub)
      /\ pub[j].state = outcome[s]
      /\ pub[j].seq = reg[j].seq
    BY <1>1, <1>2 DEF Finish, Books, Typed, TypeOK, Record
<1>4. k # j => pub[k] = reg[k]
    BY <1>1 DEF Books, Typed, TypeOK
<1>5. reg'[k] = NoRecord \/ reg'[k] = pub[k]
    BY <1>3 DEF EvictFinished
<1>6. pub[k].state = "running" => k \notin Evicted(pub)
    BY DEF Evicted, Finished, Outcomes
<1>7. pub[k].state = "running" => reg'[k] = pub[k]
    BY <1>3, <1>6 DEF EvictFinished
<1>8. NoRecord.state = "absent"
    BY DEF NoRecord
<1> HIDE DEF pub, j
<1> QED
    BY <1>1, <1>2, <1>3, <1>4, <1>5, <1>7, <1>8 DEF j, Outcomes, IsRunning, Known
(* A step that leaves the records and the tasks alone and starts no process *)
(* keeps the books.                                                         *)
LEMMA QuietStep ==
    ASSUME Books, Typed', UNCHANGED <<reg, nextSeq, jobOf, pc>>,
           \A s \in Seqs : group'[s] \subseteq group[s]
    PROVE  Books'
BY DEF Books, TasksMatchRecords, Fresh, LeadersHaveTask, Owns, Known, IsRunning

LEMMA NextBooks == Books /\ [Next]_vars => Books'
<1> SUFFICES ASSUME Books, [Next]_vars PROVE Books'
    OBVIOUS
<1>0. Typed /\ Typed'
    BY NextTyped DEF Books
<1>t. /\ reg \in [JobIds -> Record \cup {NoRecord}]
      /\ nextSeq \in 1..(MaxSeq + 1)
      /\ jobOf \in [Seqs -> JobIds \cup {"none"}]
      /\ pc \in [Seqs -> Phase]
      /\ group \in [Seqs -> SUBSET Members]
    BY <1>0 DEF Typed, TypeOK
<1>k. ASSUME NEW j \in JobIds, Known(j) PROVE reg[j] \in Record /\ reg[j].seq \in Seqs
    BY <1>0, <1>k, KnownRecord DEF Record
<1>u. ASSUME NEW s \in Seqs, pc[s] \in Active
      PROVE /\ jobOf[s] \in JobIds
            /\ Owns(jobOf[s], s)
            /\ Known(jobOf[s])
            /\ \A t \in Seqs : pc[t] \in Active /\ t # s => jobOf[t] # jobOf[s]
            /\ \A j \in JobIds : Known(j) /\ reg[j].seq = s => j = jobOf[s]
    BY <1>u DEF Books, TasksMatchRecords, Owns, Known
<1> USE DEF TasksMatchRecords, Fresh, LeadersHaveTask, Owns, Known, IsRunning, Active
<1>1. ASSUME NEW j \in JobIds, Create(j) PROVE Books'
    <2>1. nextSeq \in Seqs /\ nextSeq <= MaxSeq
        BY <1>1, <1>t, JobsAssumption DEF Create, Seqs
    <2>2. pc[nextSeq] = "free" /\ "sh" \notin group[nextSeq]
        BY <2>1 DEF Books, Seqs
    <2>3. /\ reg'[j].state = "running" /\ reg'[j].seq = nextSeq /\ reg'[j].pgid = 0
          /\ ~ reg'[j].timedOut
          /\ \A k \in JobIds \ {j} : reg'[k] = reg[k]
          /\ jobOf'[nextSeq] = j
          /\ \A s \in Seqs \ {nextSeq} : jobOf'[s] = jobOf[s] /\ pc'[s] = pc[s]
          /\ pc'[nextSeq] = "inserted"
          /\ nextSeq' = nextSeq + 1
          /\ group' = group
          /\ ~Known(j)
        BY <1>1, <1>t, <2>1 DEF Create
    <2>4. \A k \in JobIds : Known(k) => reg[k].seq \in Seqs /\ reg[k].seq # nextSeq
        BY <1>k, <2>1 DEF Books, Seqs
    <2>5. TasksMatchRecords'
        BY <2>1, <2>2, <2>3, <2>4, <1>u DEF Books
    <2>6. Fresh'
        BY <2>1, <2>3, <2>4, <1>t DEF Books, Seqs
    <2>7. LeadersHaveTask'
        BY <2>1, <2>2, <2>3 DEF Books
    <2> QED BY <1>0, <2>5, <2>6, <2>7 DEF Books
<1>2. ASSUME NEW s \in Seqs, SpawnJob(s) PROVE Books'
    BY <1>2, <1>0, <1>t, <1>u, <1>k DEF SpawnJob, Books
<1>3. ASSUME NEW s \in Seqs, SpawnFails(s) PROVE Books'
    <2>1. /\ reg'[jobOf[s]].state = "absent"
          /\ \A k \in JobIds \ {jobOf[s]} : reg'[k] = reg[k]
        BY <1>3, <1>t, <1>u DEF SpawnFails, NoRecord
    <2> QED BY <1>3, <1>0, <1>t, <1>u, <1>k, <2>1 DEF SpawnFails, Books
<1>4. ASSUME NEW s \in Seqs, RemoveFailedLog(s) PROVE Books'
    BY <1>4, <1>0, <1>t, <1>u, <1>k DEF RemoveFailedLog, Books
<1>5. ASSUME NEW s \in Seqs, MarkSpawned(s) PROVE Books'
    <2> DEFINE j == jobOf[s]
    <2>1. /\ pc[s] = "spawned" /\ pc' = [pc EXCEPT ![s] = "waiting"]
          /\ reg' = [reg EXCEPT ![j].pgid = s]
          /\ UNCHANGED <<nextSeq, jobOf>>
        BY <1>5, <1>u DEF MarkSpawned
    <2>2. /\ reg'[j].state = reg[j].state /\ reg'[j].seq = reg[j].seq /\ reg'[j].pgid = s
          /\ \A k \in JobIds \ {j} : reg'[k] = reg[k]
        BY <2>1, <1>t, <1>u, <1>k DEF Record
    <2>3. \A t \in Seqs : group'[t] \subseteq group[t]
        BY <1>5, <1>t DEF MarkSpawned, SigTerm
    <2>4. TasksMatchRecords'
        BY <2>1, <2>2, <1>t, <1>u, <1>k DEF Books
    <2>5. Fresh' /\ LeadersHaveTask'
        BY <2>1, <2>2, <2>3, <1>t, <1>u, <1>k DEF Books
    <2> QED BY <1>0, <2>4, <2>5 DEF Books
<1>6. ASSUME NEW s \in Seqs, Exit(s) PROVE Books'
    <2>1. \A t \in Seqs : group'[t] \subseteq group[t]
        BY <1>6, <1>t DEF Exit
    <2> QED BY <1>6, <1>0, <2>1, QuietStep DEF Exit
<1>7. ASSUME NEW s \in Seqs, Reap(s) \/ ReapTimedOut(s) PROVE Books'
    <2>1. /\ pc[s] \in {"waiting", "killing"} /\ "sh" \notin group[s]
          /\ pc' = [pc EXCEPT ![s] = "decided"]
          /\ UNCHANGED <<reg, nextSeq, jobOf, group>>
        BY <1>7 DEF Reap, ReapTimedOut
    <2> QED BY <2>1, <1>0, <1>t, <1>u, <1>k DEF Books
<1>8. ASSUME NEW s \in Seqs, Elapse(s) PROVE Books'
    <2> DEFINE j == jobOf[s]
    <2>1. /\ pc[s] = "waiting" /\ pc' = [pc EXCEPT ![s] = "killing"]
          /\ reg' = [reg EXCEPT ![j].timedOut = TRUE]
          /\ UNCHANGED <<nextSeq, jobOf>>
        BY <1>8, <1>u DEF Elapse
    <2>2. /\ reg'[j].state = reg[j].state /\ reg'[j].seq = reg[j].seq
          /\ reg'[j].pgid = reg[j].pgid
          /\ \A k \in JobIds \ {j} : reg'[k] = reg[k]
        BY <2>1, <1>t, <1>u, <1>k DEF Record
    <2>3. \A t \in Seqs : group'[t] \subseteq group[t]
        BY <1>8, <1>t DEF Elapse, SigTerm
    <2>4. TasksMatchRecords'
        BY <2>1, <2>2, <1>t, <1>u, <1>k DEF Books
    <2>5. Fresh' /\ LeadersHaveTask'
        BY <2>1, <2>2, <2>3, <1>t, <1>u, <1>k DEF Books
    <2> QED BY <1>0, <2>4, <2>5 DEF Books
<1>10. ASSUME NEW s \in Seqs, Finish(s) PROVE Books'
    <2>1. /\ pc[s] = "decided" /\ pc' = [pc EXCEPT ![s] = "done"]
          /\ UNCHANGED <<nextSeq, jobOf, group>>
        BY <1>10 DEF Finish
    <2>2. \A k \in JobIds :
             /\ k = jobOf[s] => reg'[k].state # "running"
             /\ k # jobOf[s] /\ IsRunning(k) => reg'[k] = reg[k]
             /\ reg'[k].state # "absent" => Known(k) /\ reg'[k].seq = reg[k].seq
             /\ reg'[k].state = "running" => reg'[k] = reg[k]
        BY <1>10, FinishEffect
    <2>3. TasksMatchRecords'
        BY <2>1, <2>2, <1>t, <1>u, <1>k DEF Books
    <2>4. Fresh' /\ LeadersHaveTask'
        BY <2>1, <2>2, <1>t, <1>u, <1>k DEF Books
    <2> QED BY <1>0, <2>3, <2>4 DEF Books
<1>11. ASSUME NEW s \in Seqs, Watchdog(s) PROVE Books'
    <2>1. \A t \in Seqs : group'[t] \subseteq group[t]
        BY <1>11, <1>t DEF Watchdog, SigKill
    <2> QED BY <1>11, <1>0, <2>1, QuietStep DEF Watchdog
<1>12. ASSUME NEW s \in Seqs, ResolveAwakeable(s) PROVE Books'
    BY <1>12, <1>0, QuietStep DEF ResolveAwakeable
<1>13. ASSUME NEW d \in Deleters, NEW T \in SUBSET JobIds, MarkCancelled(d, T),
              T \subseteq Running(reg)
       PROVE Books'
    <2>1. \A k \in JobIds : /\ reg'[k].state = reg[k].state
                            /\ Known(k) => /\ reg'[k].seq = reg[k].seq
                                           /\ reg'[k].pgid = reg[k].pgid
                                           /\ reg'[k].timedOut = reg[k].timedOut
        <3> SUFFICES ASSUME NEW k \in JobIds
                     PROVE /\ reg'[k].state = reg[k].state
                           /\ Known(k) => /\ reg'[k].seq = reg[k].seq
                                          /\ reg'[k].pgid = reg[k].pgid
                                          /\ reg'[k].timedOut = reg[k].timedOut
            OBVIOUS
        <3>1. CASE k \in T
            <4>1. reg'[k] = [reg[k] EXCEPT !.cancel = TRUE] /\ reg[k] \in Record
                BY <1>13, <3>1, <1>k DEF MarkCancelled, Running
            <4> QED BY <4>1 DEF Record
        <3>2. CASE k \notin T
            BY <1>13, <3>2 DEF MarkCancelled
        <3> QED BY <3>1, <3>2
    <2>2. UNCHANGED <<nextSeq, jobOf, pc, group>>
        BY <1>13 DEF MarkCancelled
    <2> QED BY <2>1, <2>2, <1>0, <1>t, <1>u, <1>k DEF Books
<1>14. ASSUME NEW d \in Deleters, NEW j \in JobIds, CancelOne(d, j) PROVE Books'
    BY <1>13, <1>14 DEF CancelOne, Running
<1>15. ASSUME NEW d \in Deleters, NEW P \in Prefixes, CancelPrefix(d, P) PROVE Books'
    BY <1>13, <1>15 DEF CancelPrefix, Running
<1>16. ASSUME NEW d \in Deleters, NEW s \in Seqs, SignalTarget(d, s) PROVE Books'
    <2>1. \A t \in Seqs : group'[t] \subseteq group[t]
        BY <1>16, <1>t DEF SignalTarget, SigTerm
    <2> QED BY <1>16, <1>0, <2>1, QuietStep DEF SignalTarget
<1>17. ASSUME NEW d \in Deleters, NEW j \in JobIds, AwaitEnds(d, j) PROVE Books'
    BY <1>17, <1>0, QuietStep DEF AwaitEnds
<1>18. CASE Restart
    BY <1>18, <1>0, <1>t DEF Restart, Books, NoRecord, Seqs
<1>19. CASE UNCHANGED vars
    BY <1>19, <1>0, QuietStep DEF vars
<1> QED
    BY <1>1, <1>2, <1>3, <1>4, <1>5, <1>6, <1>7, <1>8, <1>10, <1>11, <1>12,
       <1>14, <1>15, <1>16, <1>17, <1>18, <1>19 DEF Next, Creation, Supervisor

(* The books always balance: every task at work holds the running record it *)
(* was started for, and every running record has its one task.              *)
THEOREM BooksBalance == Spec => []TasksMatchRecords
<1>1. Books => TasksMatchRecords
    BY DEF Books
<1> QED
    BY <1>1, InitBooks, NextBooks, PTL DEF Spec
-----------------------------------------------------------------------------
(* The cap.  Only Create makes a record run, and it counts them first.      *)

Capped == Cardinality(Running(reg)) <= MaxRunning

LEMMA RunningFinite == IsFiniteSet(Running(reg)) /\ Cardinality(Running(reg)) \in Nat
BY JobsAssumption, FS_Subset, FS_CardinalityType DEF Running

LEMMA FewerRunning ==
    ASSUME Capped, Running(reg') \subseteq Running(reg)
    PROVE  Capped'
<1>1. /\ IsFiniteSet(Running(reg')) /\ Cardinality(Running(reg')) \in Nat
      /\ Cardinality(Running(reg')) <= Cardinality(Running(reg))
    BY RunningFinite, FS_Subset, FS_CardinalityType
<1> QED
    BY <1>1, RunningFinite, JobsAssumption DEF Capped, Running

LEMMA NextCapped == Books /\ Capped /\ [Next]_vars => Capped'
<1> SUFFICES ASSUME Books, Capped, [Next]_vars PROVE Capped'
    OBVIOUS
<1>t. Typed /\ reg \in [JobIds -> Record \cup {NoRecord}]
    BY DEF Books, Typed, TypeOK
<1>1. ASSUME NEW j \in JobIds, Create(j) PROVE Capped'
    <2>1. /\ j \notin Running(reg)
          /\ Running(reg') = Running(reg) \cup {j}
        BY <1>1, <1>t DEF Create, Running, Known
    <2>2. Cardinality(Running(reg')) = Cardinality(Running(reg)) + 1
        BY <2>1, RunningFinite, FS_AddElement
    <2> QED
        BY <1>1, <2>2, RunningFinite, JobsAssumption DEF Create, Capped, Running
<1>2. ASSUME NEW s \in Seqs, Finish(s) PROVE Capped'
    <2>1. Running(reg') \subseteq Running(reg)
        BY <1>2, FinishEffect DEF Running
    <2> QED BY <2>1, FewerRunning
<1>3. ASSUME NEW s \in Seqs, SpawnFails(s) PROVE Capped'
    <2>1. Running(reg') \subseteq Running(reg)
        BY <1>3, <1>t DEF SpawnFails, Running, NoRecord
    <2> QED BY <2>1, FewerRunning
<1>4. ASSUME NEW s \in Seqs, MarkSpawned(s) \/ Elapse(s) PROVE Capped'
    <2>1. \A k \in JobIds : reg'[k].state = reg[k].state
        <3>1. jobOf[s] \in JobIds /\ Known(jobOf[s])
            BY <1>4 DEF MarkSpawned, Elapse, Books, TasksMatchRecords, Active, Owns, Known
        <3>2. reg[jobOf[s]] \in Record
            BY <3>1, <1>t, KnownRecord
        <3> QED BY <1>4, <1>t, <3>1, <3>2 DEF MarkSpawned, Elapse, Record
    <2>2. Running(reg') \subseteq Running(reg)
        BY <2>1 DEF Running
    <2> QED BY <2>2, FewerRunning
<1>5. ASSUME NEW d \in Deleters, NEW T \in SUBSET JobIds, MarkCancelled(d, T),
             T \subseteq Running(reg)
      PROVE Capped'
    <2>1. ASSUME NEW k \in JobIds PROVE reg'[k].state = reg[k].state
        <3>1. CASE k \in T
            <4>1. reg[k] \in Record /\ reg'[k] = [reg[k] EXCEPT !.cancel = TRUE]
                BY <1>5, <1>t, <3>1, KnownRecord DEF MarkCancelled, Running, Known
            <4> QED BY <4>1 DEF Record
        <3>2. CASE k \notin T
            BY <1>5, <3>2 DEF MarkCancelled
        <3> QED BY <3>1, <3>2
    <2>2. Running(reg') \subseteq Running(reg)
        BY <2>1 DEF Running
    <2> QED BY <2>2, FewerRunning
<1>6. CASE Restart
    <2>1. Running(reg') \subseteq Running(reg)
        BY <1>6 DEF Restart, Running, NoRecord
    <2> QED BY <2>1, FewerRunning
<1>7. CASE UNCHANGED reg
    BY <1>7 DEF Capped
<1>8. ASSUME NEW d \in Deleters, NEW j \in JobIds, CancelOne(d, j) PROVE Capped'
    BY <1>5, <1>8 DEF CancelOne, IsRunning, Running
<1>9. ASSUME NEW d \in Deleters, NEW P \in Prefixes, CancelPrefix(d, P) PROVE Capped'
    BY <1>5, <1>9 DEF CancelPrefix, Running
<1> QED
    BY <1>1, <1>2, <1>3, <1>4, <1>6, <1>7, <1>8, <1>9
       DEF Next, Creation, Supervisor, vars, SpawnJob, RemoveFailedLog, Exit, Reap,
           ReapTimedOut, Watchdog, ResolveAwakeable, SignalTarget, AwaitEnds

(* At most MaxRunning jobs run, and each live leader is accounted for by    *)
(* the running record of its own incarnation: the cap bounds processes.     *)
THEOREM CapHolds == Spec => []LeadersAccounted
<1>1. Init => Capped
    <2> SUFFICES ASSUME Init PROVE Capped
        OBVIOUS
    <2>1. Running(reg) = {}
        BY DEF Init, Running, NoRecord
    <2> QED BY <2>1, FS_EmptySet, JobsAssumption DEF Capped
<1>2. Books /\ Capped => LeadersAccounted
    BY DEF Books, Capped, LeadersAccounted, LeadersHaveTask, TasksMatchRecords, Active
<1> QED
    BY <1>1, <1>2, InitBooks, NextBooks, NextCapped, PTL DEF Spec
-----------------------------------------------------------------------------
(* A kill stays armed.  What may disturb it: a new incarnation, the flags   *)
(* set by DELETE and by the timeout, a watchdog that fires, a DELETE handler *)
(* that starts over.                                                        *)

LEMMA NextKillArmed == Books /\ KillArmed /\ [Next]_vars => KillArmed'
<1> SUFFICES ASSUME Books, KillArmed, [Next]_vars,
                    NEW s \in Seqs, Doomed(s)', "sh" \in group'[s]
             PROVE  s \in watch' \/ \E d \in Deleters : s \in del'[d].todo
    BY DEF KillArmed
<1>t. /\ Typed /\ Books'
      /\ reg \in [JobIds -> Record \cup {NoRecord}]
      /\ pc \in [Seqs -> Phase]
      /\ group \in [Seqs -> SUBSET Members]
      /\ watch \subseteq Seqs
      /\ del \in [Deleters -> [todo : SUBSET Seqs, await : SUBSET JobIds]]
    BY NextBooks DEF Books, Typed, TypeOK
<1>k. ASSUME NEW j \in JobIds, Known(j) PROVE reg[j] \in Record /\ reg[j].seq \in Seqs
    BY <1>t, <1>k, KnownRecord DEF Record
<1>u. ASSUME NEW t \in Seqs, pc[t] \in Active
      PROVE  /\ jobOf[t] \in JobIds
             /\ Owns(jobOf[t], t)
             /\ Known(jobOf[t])
             /\ reg[jobOf[t]].pgid = IF pc[t] \in {"inserted", "spawned"} THEN 0 ELSE t
             /\ \A j \in JobIds : Known(j) /\ reg[j].seq = t => j = jobOf[t]
    BY <1>u DEF Books, TasksMatchRecords, Owns, Known, IsRunning
<1> DEFINE Armed == s \in watch' \/ \E d \in Deleters : s \in del'[d].todo
<1>d. ASSUME Doomed(s), "sh" \in group[s], watch \subseteq watch', UNCHANGED del
      PROVE  Armed
    BY <1>d DEF KillArmed
<1> HIDE DEF Armed
<1> USE DEF Doomed, Active
<1>1. ASSUME NEW j \in JobIds, Create(j) PROVE Armed
    <2>1. pc[s] = pc'[s] /\ jobOf[s] = jobOf'[s]
        BY <1>1, <1>t DEF Create, Typed, TypeOK
    <2>2. jobOf[s] \in JobIds /\ Known(jobOf[s])
        BY <2>1, <1>u
    <2>3. Doomed(s) /\ UNCHANGED <<group, watch, del>>
        BY <1>1, <1>t, <2>1, <2>2 DEF Create
    <2> QED BY <2>3, <1>d
<1>2. ASSUME NEW t \in Seqs, SpawnJob(t) PROVE Armed
    <2>1. s # t /\ Doomed(s) /\ "sh" \in group[s] /\ UNCHANGED <<watch, del>>
        BY <1>2, <1>t DEF SpawnJob
    <2> QED BY <2>1, <1>d
<1>3. ASSUME NEW t \in Seqs, SpawnFails(t) PROVE Armed
    <2>1. pc[s] = pc'[s] /\ pc[s] \in Active /\ s # t
        BY <1>3, <1>t DEF SpawnFails
    <2>2. jobOf[s] # jobOf[t] /\ jobOf[s] \in JobIds /\ jobOf[t] \in JobIds
        BY <1>3, <2>1, <1>u DEF SpawnFails, Owns
    <2>3. Doomed(s) /\ UNCHANGED <<group, watch, del>>
        BY <1>3, <1>t, <2>1, <2>2 DEF SpawnFails
    <2> QED BY <2>3, <1>d
<1>4. ASSUME NEW t \in Seqs, RemoveFailedLog(t) PROVE Armed
    <2>1. Doomed(s) /\ UNCHANGED <<group, watch, del>>
        BY <1>4, <1>t DEF RemoveFailedLog
    <2> QED BY <2>1, <1>d
<1>5. ASSUME NEW t \in Seqs, MarkSpawned(t) \/ Elapse(t) PROVE Armed
    <2> DEFINE j == jobOf[t]
    <2>1. /\ pc[t] \in {"spawned", "waiting"}
          /\ j \in JobIds /\ Known(j) /\ reg[j] \in Record /\ Owns(j, t)
          /\ pc[t] = "waiting" => reg[j].pgid = t
          /\ ~ reg[j].timedOut
        BY <1>5, <1>u, <1>k DEF MarkSpawned, Elapse, Books, TasksMatchRecords, IsRunning, Owns
    <2>2. /\ UNCHANGED <<jobOf, del>>
          /\ watch \subseteq watch'
          /\ group'[s] \subseteq group[s]
          /\ \A k \in JobIds \ {j} : reg'[k] = reg[k]
          /\ \A u \in Seqs \ {t} : pc'[u] = pc[u]
        BY <1>5, <1>t, <2>1 DEF MarkSpawned, Elapse, SigTerm
    <2>3. CASE s = t /\ MarkSpawned(t)
        <3>1. reg'[j].cancel = reg[j].cancel /\ ~ reg'[j].timedOut
            BY <2>1, <2>3, <1>t DEF MarkSpawned, Record
        <3>2. reg[j].cancel
            BY <2>2, <2>3, <3>1
        <3> QED BY <2>1, <2>3, <3>2 DEF MarkSpawned, Armed
    <2>4. CASE s = t /\ Elapse(t)
        <3>1. reg[j].pgid = t /\ t # 0
            BY <2>1, <2>4, JobsAssumption DEF Elapse, Seqs
        <3> QED BY <2>1, <2>4, <3>1 DEF Elapse, Armed
    <2>5. CASE s # t
        <3>1. pc[s] = pc'[s]
            BY <2>2, <2>5
        <3>2. jobOf[s] # j /\ jobOf[s] \in JobIds
            BY <2>1, <2>5, <3>1, <1>u DEF Owns
        <3>3. Doomed(s)
            BY <2>2, <3>1, <3>2
        <3> QED BY <2>2, <3>3, <1>d
    <2> QED BY <1>5, <2>3, <2>4, <2>5
<1>6. ASSUME NEW t \in Seqs, Exit(t) PROVE Armed
    <2>1. Doomed(s) /\ "sh" \in group[s] /\ UNCHANGED <<watch, del>>
        BY <1>6, <1>t DEF Exit
    <2> QED BY <2>1, <1>d
<1>7. ASSUME NEW t \in Seqs, Reap(t) \/ ReapTimedOut(t) PROVE Armed
    <2>1. Doomed(s) /\ UNCHANGED <<group, watch, del>>
        BY <1>7, <1>t DEF Reap, ReapTimedOut
    <2> QED BY <2>1, <1>d
<1>8. ASSUME NEW t \in Seqs, Finish(t) PROVE Armed
    <2>1. s # t /\ pc[s] = pc'[s] /\ UNCHANGED <<jobOf, group, watch, del>>
        BY <1>8, <1>t DEF Finish
    <2>2. jobOf[s] # jobOf[t] /\ jobOf[s] \in JobIds /\ IsRunning(jobOf[s])
        BY <1>8, <2>1, <1>u DEF Finish, Owns, IsRunning
    <2>3. reg'[jobOf[s]] = reg[jobOf[s]]
        BY <1>8, <2>2, FinishEffect
    <2> QED BY <2>1, <2>3, <1>d
<1>9. ASSUME NEW t \in Seqs, Watchdog(t) PROVE Armed
    <2>1. Doomed(s) /\ IsRunning(jobOf[s]) /\ UNCHANGED del
        BY <1>9, <1>u DEF Watchdog, Owns, IsRunning
    <2>2. "sh" \in group[s] /\ s # t
        BY <1>9, <1>t, <2>1 DEF Watchdog, SigKill
    <2> QED BY <1>9, <2>1, <2>2 DEF Watchdog, KillArmed, Armed
<1>10. ASSUME NEW t \in Seqs, ResolveAwakeable(t) PROVE Armed
    <2>1. Doomed(s) /\ UNCHANGED <<group, watch, del>>
        BY <1>10 DEF ResolveAwakeable
    <2> QED BY <2>1, <1>d
<1>11. ASSUME NEW d \in Deleters, NEW T \in SUBSET JobIds, MarkCancelled(d, T),
              T \subseteq Running(reg), Idle(d)
       PROVE Armed
    <2> DEFINE j == jobOf[s]
    <2>1. /\ UNCHANGED <<pc, jobOf, group, watch>>
          /\ del' = [del EXCEPT ![d] = [todo |-> {reg[k].pgid : k \in T} \ {0}, await |-> T]]
          /\ j \in JobIds /\ Known(j) /\ reg[j].pgid = s
        BY <1>11, <1>u DEF MarkCancelled
    <2>2. CASE j \in T
        <3>1. s # 0
            BY JobsAssumption DEF Seqs
        <3>2. s \in {reg[k].pgid : k \in T} \ {0}
            BY <2>1, <2>2, <3>1
        <3>3. s \in del'[d].todo
            BY <2>1, <3>2, <1>t
        <3> QED BY <3>3 DEF Armed
    <2>3. CASE j \notin T
        <3>1. Doomed(s)
            BY <1>11, <2>1, <2>3 DEF MarkCancelled
        <3>2. PICK e \in Deleters : s \in watch \/ s \in del[e].todo
            BY <2>1, <3>1 DEF KillArmed
        <3>3. s \in del[e].todo => e # d
            BY <1>11 DEF Idle, NoDelete
        <3> QED BY <2>1, <3>2, <3>3, <1>t DEF Armed
    <2> QED BY <2>2, <2>3
<1>12. ASSUME NEW d \in Deleters, NEW j \in JobIds, CancelOne(d, j) PROVE Armed
    BY <1>11, <1>12 DEF CancelOne, IsRunning, Running
<1>13. ASSUME NEW d \in Deleters, NEW P \in Prefixes, CancelPrefix(d, P) PROVE Armed
    BY <1>11, <1>13 DEF CancelPrefix, Running
<1>14. ASSUME NEW d \in Deleters, NEW t \in Seqs, SignalTarget(d, t) PROVE Armed
    <2>1. /\ Doomed(s) /\ "sh" \in group[s]
          /\ watch' = watch \cup {t}
          /\ \A e \in Deleters : del'[e].todo = IF e = d THEN del[e].todo \ {t}
                                                        ELSE del[e].todo
        BY <1>14, <1>t DEF SignalTarget, SigTerm
    <2> QED BY <2>1 DEF KillArmed, Armed
<1>15. ASSUME NEW d \in Deleters, NEW j \in JobIds, AwaitEnds(d, j) PROVE Armed
    <2>1. /\ Doomed(s) /\ UNCHANGED <<group, watch>>
          /\ \A e \in Deleters : del'[e].todo = del[e].todo
        BY <1>15, <1>t DEF AwaitEnds
    <2> QED BY <2>1 DEF KillArmed, Armed
<1>16. ASSUME Restart PROVE Armed
    BY <1>16 DEF Restart
<1>17. ASSUME UNCHANGED vars PROVE Armed
    <2>1. Doomed(s) /\ UNCHANGED <<group, watch, del>>
        BY <1>17 DEF vars
    <2> QED BY <2>1, <1>d
<1> HIDE DEF Doomed, Active
<1>18. Armed
    BY <1>1, <1>2, <1>3, <1>4, <1>5, <1>6, <1>7, <1>8, <1>9, <1>10, <1>12, <1>13, <1>14,
       <1>15, <1>16, <1>17 DEF Next, Creation, Supervisor
<1> QED BY <1>18 DEF Armed

(* No cancellation and no timeout is ever lost: while the leader of a doomed *)
(* job lives, a watchdog sleeps for it or a DELETE handler is about to arm  *)
(* one, even when the DELETE came before the process had a pgid.            *)
THEOREM KillStaysArmed == Spec => []KillArmed
<1>1. Init => KillArmed
    BY DEF Init, KillArmed
<1> QED
    BY <1>1, InitBooks, NextBooks, NextKillArmed, PTL DEF Spec
-----------------------------------------------------------------------------
(* Logs and callbacks.  What finish publishes and evicts, seen from each id: *)
(* its own record gets the outcome, the others keep theirs, and whatever is  *)
(* evicted loses its log file in the same step.                              *)
LEMMA FinishPublishes ==
    ASSUME Books, NEW s \in Seqs, Finish(s), NEW k \in JobIds
    PROVE  /\ reg'[k].state # "absent" =>
                  /\ reg'[k].seq = reg[k].seq
                  /\ reg'[k].state = IF k = jobOf[s] THEN outcome[s] ELSE reg[k].state
                  /\ Known(k)
           /\ reg'[k].state = "absent" => log'[k] = 0 \/ (~Known(k) /\ log'[k] = log[k])
           /\ reg'[k].state # "absent" => log'[k] = log[k]
<1> DEFINE j == jobOf[s]
           pub == [reg EXCEPT ![j].state = outcome[s]]
<1>1. /\ j \in JobIds
      /\ Owns(j, s)
      /\ outcome[s] \in Outcomes
    BY DEF Books, Typed, TasksTyped, TasksMatchRecords, Finish, Active
<1>2. Known(j) /\ reg[j] \in Record
    BY <1>1, KnownRecord DEF Owns, Known, Books
<1>3. /\ reg' = EvictFinished(pub)
      /\ log' = [i \in JobIds |-> IF i \in Evicted(pub) THEN 0 ELSE log[i]]
      /\ pub[j].state = outcome[s]
      /\ pub[j].seq = reg[j].seq
    BY <1>1, <1>2 DEF Finish, Books, Typed, TypeOK, Record
<1>4. k # j => pub[k] = reg[k]
    BY <1>1 DEF Books, Typed, TypeOK
<1>5. IF k \in Evicted(pub) THEN reg'[k] = NoRecord /\ log'[k] = 0
                            ELSE reg'[k] = pub[k] /\ log'[k] = log[k]
    BY <1>3 DEF EvictFinished
<1>6. NoRecord.state = "absent" /\ "absent" \notin Outcomes
    BY DEF NoRecord, Outcomes
<1>7. CASE k \in Evicted(pub)
    <2>1. reg'[k] = NoRecord /\ log'[k] = 0
        BY <1>5, <1>7
    <2> HIDE DEF pub
    <2> QED BY <1>6, <2>1
<1>8. CASE k \notin Evicted(pub) /\ k = j
    <2>1. reg'[k].state = outcome[s] /\ reg'[k].seq = reg[k].seq /\ log'[k] = log[k]
        BY <1>3, <1>5, <1>8
    <2> QED BY <1>1, <1>2, <1>6, <1>8, <2>1
<1>9. CASE k \notin Evicted(pub) /\ k # j
    <2>1. reg'[k] = reg[k] /\ log'[k] = log[k]
        BY <1>4, <1>5, <1>9
    <2> QED BY <1>9, <2>1 DEF Known
<1> QED BY <1>7, <1>8, <1>9

(* A step that keeps the states of the records.                             *)
LEMMA StatesKept ==
    ASSUME Books, Typed', NEW s \in Seqs, MarkSpawned(s) \/ Elapse(s), NEW k \in JobIds
    PROVE  reg'[k].state = reg[k].state /\ (Known(k) => reg'[k].seq = reg[k].seq)
<1>1. jobOf[s] \in JobIds /\ Known(jobOf[s])
    BY DEF MarkSpawned, Elapse, Books, TasksMatchRecords, Active, Owns, Known
<1>2. reg[jobOf[s]] \in Record
    BY <1>1, KnownRecord DEF Books
<1>3. reg \in [JobIds -> Record \cup {NoRecord}]
    BY DEF Books, Typed, TypeOK
<1> QED BY <1>1, <1>2, <1>3 DEF MarkSpawned, Elapse, Record

LEMMA StatesKeptByCancel ==
    ASSUME Books, NEW d \in Deleters, NEW T \in SUBSET JobIds, MarkCancelled(d, T),
           T \subseteq Running(reg), NEW k \in JobIds
    PROVE  reg'[k].state = reg[k].state /\ (Known(k) => reg'[k].seq = reg[k].seq)
<1>1. CASE k \in T
    <2>1. Known(k)
        BY <1>1 DEF Running, Known
    <2>2. reg[k] \in Record /\ reg'[k] = [reg[k] EXCEPT !.cancel = TRUE]
        BY <1>1, <2>1, KnownRecord DEF MarkCancelled, Books
    <2> QED BY <2>2 DEF Record
<1>2. CASE k \notin T
    BY <1>2 DEF MarkCancelled
<1> QED BY <1>1, <1>2

LEMMA NextNoOrphanLog == Books /\ NoOrphanLog /\ [Next]_vars => NoOrphanLog'
<1> SUFFICES ASSUME Books, NoOrphanLog, [Next]_vars,
                    NEW k \in JobIds, log'[k] # 0
             PROVE  Known(k)' \/ \E t \in Seqs : pc'[t] = "unwound" /\ jobOf'[t] = k
    BY DEF NoOrphanLog
<1> DEFINE Explained == Known(k)' \/ \E t \in Seqs : pc'[t] = "unwound" /\ jobOf'[t] = k
<1>t. /\ Typed /\ Typed'
      /\ reg \in [JobIds -> Record \cup {NoRecord}]
      /\ jobOf \in [Seqs -> JobIds \cup {"none"}]
      /\ pc \in [Seqs -> Phase]
      /\ log \in [JobIds -> Seqs \cup {0}]
    BY NextTyped DEF Books, Typed, TypeOK
<1>u. ASSUME NEW t \in Seqs, pc[t] \in Active
      PROVE jobOf[t] \in JobIds /\ Known(jobOf[t])
    BY <1>u DEF Books, TasksMatchRecords, Owns, Known
<1>q. ASSUME log'[k] = log[k], reg'[k].state = reg[k].state,
             \A t \in Seqs : pc[t] = "unwound" => pc'[t] = pc[t] /\ jobOf'[t] = jobOf[t]
      PROVE  Explained
    BY <1>q DEF NoOrphanLog, Known
<1> HIDE DEF Explained
<1>1. ASSUME NEW j \in JobIds, Create(j) PROVE Explained
    <2>1. nextSeq \in Seqs /\ pc[nextSeq] = "free"
        BY <1>1, <1>t, JobsAssumption DEF Create, Seqs, Books, Fresh, Typed, TypeOK
    <2>2. CASE k = j
        BY <1>1, <1>t, <2>2 DEF Create, Explained, Known
    <2>3. CASE k # j
        BY <1>1, <1>t, <2>1, <2>3, <1>q DEF Create
    <2> QED BY <2>2, <2>3
<1>2. ASSUME NEW s \in Seqs, SpawnJob(s) PROVE Explained
    <2>1. CASE k = jobOf[s]
        BY <1>2, <2>1, <1>u DEF SpawnJob, Active, Explained, Known
    <2>2. CASE k # jobOf[s]
        BY <1>2, <1>t, <2>2, <1>q DEF SpawnJob
    <2> QED BY <2>1, <2>2
<1>3. ASSUME NEW s \in Seqs, SpawnFails(s) PROVE Explained
    <2>1. CASE k = jobOf[s]
        BY <1>3, <1>t, <2>1 DEF SpawnFails, Explained
    <2>2. CASE k # jobOf[s]
        BY <1>3, <1>t, <2>2, <1>q DEF SpawnFails
    <2> QED BY <2>1, <2>2
<1>4. ASSUME NEW s \in Seqs, RemoveFailedLog(s) PROVE Explained
    <2>1. k # jobOf[s] /\ log'[k] = log[k]
        BY <1>4, <1>t DEF RemoveFailedLog
    <2>2. Known(k) \/ \E t \in Seqs : pc[t] = "unwound" /\ jobOf[t] = k
        BY <2>1 DEF NoOrphanLog
    <2> QED BY <1>4, <1>t, <2>1, <2>2 DEF RemoveFailedLog, Explained, Known
<1>5. ASSUME NEW s \in Seqs, MarkSpawned(s) \/ Elapse(s) PROVE Explained
    <2>1. reg'[k].state = reg[k].state
        BY <1>5, <1>t, StatesKept
    <2> QED BY <1>5, <1>t, <2>1, <1>q DEF MarkSpawned, Elapse
<1>6. ASSUME NEW s \in Seqs, Finish(s) PROVE Explained
    <2>1. /\ reg'[k].state = "absent" => ~Known(k) /\ log'[k] = log[k]
          /\ reg'[k].state # "absent" => Known(k)'
        BY <1>6, FinishPublishes DEF Known
    <2>2. CASE reg'[k].state = "absent"
        BY <1>6, <1>t, <2>1, <2>2, <1>q DEF Finish, Known
    <2> QED BY <2>1, <2>2 DEF Explained
<1>7. ASSUME NEW d \in Deleters, NEW T \in SUBSET JobIds, MarkCancelled(d, T),
             T \subseteq Running(reg)
      PROVE Explained
    <2>1. reg'[k].state = reg[k].state
        BY <1>7, StatesKeptByCancel
    <2> QED BY <1>7, <2>1, <1>q DEF MarkCancelled
<1>8. ASSUME NEW d \in Deleters, NEW j \in JobIds, CancelOne(d, j) PROVE Explained
    BY <1>7, <1>8 DEF CancelOne, IsRunning, Running
<1>9. ASSUME NEW d \in Deleters, NEW P \in Prefixes, CancelPrefix(d, P) PROVE Explained
    BY <1>7, <1>9 DEF CancelPrefix, Running
<1>10. ASSUME NEW s \in Seqs, Reap(s) \/ ReapTimedOut(s) PROVE Explained
    BY <1>10, <1>t, <1>q DEF Reap, ReapTimedOut
<1>11. ASSUME Restart PROVE Explained
    BY <1>11 DEF Restart
<1>12. ASSUME UNCHANGED <<reg, pc, jobOf, log>> PROVE Explained
    BY <1>12, <1>q
<1>13. Explained
    BY <1>1, <1>2, <1>3, <1>4, <1>5, <1>6, <1>8, <1>9, <1>10, <1>11, <1>12
       DEF Next, Creation, Supervisor, vars, Exit, Watchdog, ResolveAwakeable,
           SignalTarget, AwaitEnds
<1> QED BY <1>13 DEF Explained

(* Evictions, failed spawns and restarts leave no log file on the disk that *)
(* neither a record nor a handler about to remove it accounts for.          *)
THEOREM LogsAccounted == Spec => []NoOrphanLog
<1>1. Init => NoOrphanLog
    BY DEF Init, NoOrphanLog
<1> QED
    BY <1>1, InitBooks, NextBooks, NextNoOrphanLog, PTL DEF Spec
-----------------------------------------------------------------------------
(* Callbacks.  Restate is told what the supervisor decided; a supervisor     *)
(* that is done has published the same in the record it keeps, if any, and   *)
(* nothing changes a finished record any more.                               *)

Told ==
    \A s \in Seqs :
        /\ cb[s] = "pending" \/ resolved[s] # "none" => pc[s] = "done"
        /\ resolved[s] # "none" => resolved[s] = outcome[s]
        /\ pc[s] = "done" =>
              \A j \in JobIds : Known(j) /\ reg[j].seq = s => reg[j].state = outcome[s]

LEMMA NextTold == Books /\ Told /\ [Next]_vars => Told'
<1> SUFFICES ASSUME Books, Told, [Next]_vars, NEW t \in Seqs
             PROVE  /\ cb'[t] = "pending" \/ resolved'[t] # "none" => pc'[t] = "done"
                    /\ resolved'[t] # "none" => resolved'[t] = outcome'[t]
                    /\ pc'[t] = "done" =>
                          \A k \in JobIds : Known(k)' /\ reg'[k].seq = t =>
                             reg'[k].state = outcome'[t]
    BY DEF Told
<1> DEFINE Fine == /\ cb'[t] = "pending" \/ resolved'[t] # "none" => pc'[t] = "done"
                   /\ resolved'[t] # "none" => resolved'[t] = outcome'[t]
                   /\ pc'[t] = "done" =>
                         \A k \in JobIds : Known(k)' /\ reg'[k].seq = t =>
                            reg'[k].state = outcome'[t]
<1>t. /\ Typed /\ Typed'
      /\ reg \in [JobIds -> Record \cup {NoRecord}]
      /\ pc \in [Seqs -> Phase]
      /\ cb \in [Seqs -> {"none", "pending", "over"}]
      /\ resolved \in [Seqs -> Outcomes \cup {"none"}]
      /\ outcome \in [Seqs -> Outcomes \cup {"none"}]
    BY NextTyped DEF Books, Typed, TypeOK
<1>h. /\ cb[t] = "pending" \/ resolved[t] # "none" => pc[t] = "done"
      /\ resolved[t] # "none" => resolved[t] = outcome[t]
      /\ pc[t] = "done" =>
            \A k \in JobIds : Known(k) /\ reg[k].seq = t => reg[k].state = outcome[t]
    BY DEF Told
<1>u. ASSUME NEW s \in Seqs, pc[s] \in Active
      PROVE  /\ jobOf[s] \in JobIds /\ Owns(jobOf[s], s) /\ Known(jobOf[s])
             /\ \A j \in JobIds : Known(j) /\ reg[j].seq = s => j = jobOf[s]
    BY <1>u DEF Books, TasksMatchRecords, Owns, Known
<1>q. ASSUME \A k \in JobIds : Known(k)' => /\ Known(k)
                                            /\ reg'[k].seq = reg[k].seq
                                            /\ reg'[k].state = reg[k].state,
             pc'[t] = pc[t] \/ (pc[t] # "done" /\ pc'[t] # "done"),
             pc[t] = "done" => outcome'[t] = outcome[t],
             cb'[t] = cb[t], resolved'[t] = resolved[t]
      PROVE  Fine
    BY <1>q, <1>h
<1> HIDE DEF Fine
<1>1. ASSUME NEW j \in JobIds, Create(j) PROVE Fine
    <2>1. nextSeq \in Seqs /\ pc[nextSeq] = "free"
        BY <1>1, <1>t, JobsAssumption DEF Create, Seqs, Books, Fresh, Typed, TypeOK
    <2>2. /\ reg'[j].seq = nextSeq
          /\ \A k \in JobIds \ {j} : reg'[k] = reg[k]
          /\ pc' = [pc EXCEPT ![nextSeq] = "inserted"]
          /\ UNCHANGED <<cb, resolved, outcome>>
        BY <1>1, <1>t DEF Create
    <2>3. CASE t = nextSeq
        BY <1>h, <1>t, <2>1, <2>2, <2>3 DEF Fine
    <2>4. CASE t # nextSeq
        BY <1>h, <1>t, <2>1, <2>2, <2>4 DEF Fine, Known
    <2> QED BY <2>3, <2>4
<1>2. ASSUME NEW s \in Seqs, SpawnJob(s) \/ RemoveFailedLog(s) PROVE Fine
    BY <1>2, <1>t, <1>q DEF SpawnJob, RemoveFailedLog, Known
<1>3. ASSUME NEW s \in Seqs, SpawnFails(s) PROVE Fine
    <2>1. \A k \in JobIds : Known(k)' => reg'[k] = reg[k]
        BY <1>3, <1>t DEF SpawnFails, Known, NoRecord
    <2> QED BY <1>3, <1>t, <2>1, <1>q DEF SpawnFails, Known
<1>4. ASSUME NEW s \in Seqs, MarkSpawned(s) \/ Elapse(s) PROVE Fine
    <2>1. \A k \in JobIds : /\ reg'[k].state = reg[k].state
                            /\ Known(k) => reg'[k].seq = reg[k].seq
        BY <1>4, <1>t, StatesKept
    <2> QED BY <1>4, <1>t, <2>1, <1>q DEF MarkSpawned, Elapse, Known
<1>5. ASSUME NEW s \in Seqs, Reap(s) \/ ReapTimedOut(s) PROVE Fine
    BY <1>5, <1>t, <1>q DEF Reap, ReapTimedOut, Known
<1>6. ASSUME NEW s \in Seqs, Finish(s) PROVE Fine
    <2>1. \A k \in JobIds : Known(k)' =>
             /\ Known(k)
             /\ reg'[k].seq = reg[k].seq
             /\ reg'[k].state = IF k = jobOf[s] THEN outcome[s] ELSE reg[k].state
        BY <1>6, FinishPublishes DEF Known
    <2>2. /\ pc[s] = "decided" /\ pc' = [pc EXCEPT ![s] = "done"]
          /\ UNCHANGED <<outcome, resolved>>
          /\ \A r \in Seqs \ {s} : cb'[r] = cb[r]
        BY <1>6, <1>t DEF Finish
    <2>3. Owns(jobOf[s], s) /\ \A j \in JobIds : Known(j) /\ reg[j].seq = s => j = jobOf[s]
        BY <2>2, <1>u DEF Active
    <2>4. CASE t = s
        BY <1>h, <1>t, <2>1, <2>2, <2>3, <2>4 DEF Fine
    <2>5. CASE t # s
        <3>1. pc'[t] = pc[t] /\ cb'[t] = cb[t]
            BY <2>2, <2>5, <1>t
        <3>2. \A k \in JobIds : Known(k)' /\ reg'[k].seq = t => k # jobOf[s]
            BY <2>1, <2>3, <2>5 DEF Owns
        <3> QED BY <1>h, <2>1, <2>2, <3>1, <3>2 DEF Fine
    <2> QED BY <2>4, <2>5
<1>7. ASSUME NEW d \in Deleters, NEW T \in SUBSET JobIds, MarkCancelled(d, T),
             T \subseteq Running(reg)
      PROVE Fine
    <2>1. \A k \in JobIds : /\ reg'[k].state = reg[k].state
                            /\ Known(k) => reg'[k].seq = reg[k].seq
        BY <1>7, StatesKeptByCancel
    <2> QED BY <1>7, <2>1, <1>q DEF MarkCancelled, Known
<1>8. ASSUME NEW d \in Deleters, NEW j \in JobIds, CancelOne(d, j) PROVE Fine
    BY <1>7, <1>8 DEF CancelOne, IsRunning, Running
<1>9. ASSUME NEW d \in Deleters, NEW P \in Prefixes, CancelPrefix(d, P) PROVE Fine
    BY <1>7, <1>9 DEF CancelPrefix, Running
<1>10. ASSUME NEW s \in Seqs, ResolveAwakeable(s) PROVE Fine
    <2>1. /\ UNCHANGED <<reg, pc, outcome>>
          /\ pc[s] = "done"
          /\ resolved'[t] = resolved[t] \/ (t = s /\ resolved'[t] = outcome[t])
          /\ cb'[t] = "pending" => cb[t] = "pending"
        BY <1>10, <1>t DEF ResolveAwakeable, Told
    <2> QED BY <1>h, <2>1 DEF Fine, Known
<1>11. ASSUME Restart PROVE Fine
    BY <1>11 DEF Restart, Fine, Known, NoRecord
<1>12. ASSUME UNCHANGED <<reg, pc, outcome, cb, resolved>> PROVE Fine
    BY <1>12, <1>q DEF Known
<1>13. Fine
    BY <1>1, <1>2, <1>3, <1>4, <1>5, <1>6, <1>8, <1>9, <1>10, <1>11, <1>12
       DEF Next, Creation, Supervisor, vars, Exit, Watchdog, SignalTarget, AwaitEnds
<1> QED BY <1>13 DEF Fine

(* Restate is told of a dead job only, and exactly what a GET answers: an   *)
(* outcome is decided once the leader was reaped and never changes, however *)
(* often the callback is retried.                                           *)
THEOREM CallbacksTruthful == Spec => []ResolvedTruthfully
<1>1. Init => Told
    BY DEF Init, Told, NoRecord, Known
<1>2. Books /\ Told => ResolvedTruthfully
    BY DEF Books, Told, LeadersHaveTask, ResolvedTruthfully
<1> QED
    BY <1>1, <1>2, InitBooks, NextBooks, NextTold, PTL DEF Spec

-----------------------------------------------------------------------------
(* The job registry implements the promise of JobContract: each section of  *)
(* a handler or of a supervisor is one step of the contract or none of its  *)
(* callers' business.                                                       *)

-----------------------------------------------------------------------------
(* Eviction.  The numbers of the finished records are distinct, so the one  *)
(* record that is kept longest and the last one that is dropped are well    *)
(* defined, and counting the younger ones bounds what is kept on each side. *)

LEMMA MinimalSubset ==
    ASSUME NEW S, IsFiniteSet(S), NEW T \in SUBSET (SUBSET S), T # {}
    PROVE  \E X \in T : \A Y \in T : ~(Y \subseteq X /\ Y # X)
<1>1. FiniteSubsetsOf(S) = SUBSET S
    BY FS_FiniteSubsetsOfFinite
<1>2. IsWellFoundedOn(StrictSubsetOrdering(S), SUBSET S)
    BY <1>1, FS_StrictSubsetOrderingWellFounded
<1>3. PICK X \in T : \A Y \in T : ~(<<Y, X>> \in StrictSubsetOrdering(S))
    BY <1>2, WFMin
<1>4. ASSUME NEW Y \in T, Y \subseteq X, Y # X PROVE FALSE
    <2>1. <<Y, X>> \in (SUBSET S) \X (SUBSET S)
        OBVIOUS
    <2> QED BY <1>3, <1>4, <2>1 DEF StrictSubsetOrdering
<1> QED BY <1>4

LEMMA SeqsFinite == IsFiniteSet(Seqs)
BY FS_Interval, JobsAssumption DEF Seqs

LEMMA Least ==
    ASSUME NEW S \in SUBSET Seqs, S # {}
    PROVE  \E m \in S : \A n \in S : m <= n
<1> DEFINE Upto(n) == {m \in S : m <= n}
           T == {Upto(n) : n \in S}
<1>1. T \in SUBSET (SUBSET Seqs) /\ T # {}
    OBVIOUS
<1>2. PICK X \in T : \A Y \in T : ~(Y \subseteq X /\ Y # X)
    <2> HIDE DEF T
    <2> QED BY <1>1, SeqsFinite, MinimalSubset
<1>3. PICK m \in S : X = Upto(m)
    BY <1>2
<1>4. ASSUME NEW n \in S, n < m PROVE FALSE
    <2>0. S \subseteq Int /\ m \in Int /\ n \in Int
        BY DEF Seqs
    <2>1. Upto(n) \subseteq X /\ m \in X /\ m \notin Upto(n)
        <3>1. Upto(n) \subseteq Upto(m)
            <4>1. ASSUME NEW k \in S, k <= n PROVE k <= m
                BY <2>0, <1>4, <4>1
            <4> QED BY <4>1
        <3>2. m \in Upto(m) /\ m \notin Upto(n)
            BY <2>0, <1>4
        <3> QED BY <1>3, <3>1, <3>2
    <2>2. Upto(n) \in T
        OBVIOUS
    <2> QED BY <1>2, <2>1, <2>2
<1> QED BY <1>4 DEF Seqs

LEMMA Greatest ==
    ASSUME NEW S \in SUBSET Seqs, S # {}
    PROVE  \E m \in S : \A n \in S : n <= m
<1> DEFINE From(n) == {m \in S : n <= m}
           T == {From(n) : n \in S}
<1>1. T \in SUBSET (SUBSET Seqs) /\ T # {}
    OBVIOUS
<1>2. PICK X \in T : \A Y \in T : ~(Y \subseteq X /\ Y # X)
    <2> HIDE DEF T
    <2> QED BY <1>1, SeqsFinite, MinimalSubset
<1>3. PICK m \in S : X = From(m)
    BY <1>2
<1>4. ASSUME NEW n \in S, m < n PROVE FALSE
    <2>0. S \subseteq Int /\ m \in Int /\ n \in Int
        BY DEF Seqs
    <2>1. From(n) \subseteq X /\ m \in X /\ m \notin From(n)
        <3>1. From(n) \subseteq From(m)
            <4>1. ASSUME NEW k \in S, n <= k PROVE m <= k
                BY <2>0, <1>4, <4>1
            <4> QED BY <4>1
        <3>2. m \in From(m) /\ m \notin From(n)
            BY <2>0, <1>4
        <3> QED BY <1>3, <3>1, <3>2
    <2>2. From(n) \in T
        OBVIOUS
    <2> QED BY <1>2, <2>1, <2>2
<1> QED BY <1>4 DEF Seqs

Numbered(r) == /\ \A j \in Finished(r) : r[j].seq \in Seqs
               /\ \A j, k \in Finished(r) : r[j].seq = r[k].seq => j = k

LEMMA EvictionKeeps ==
    ASSUME NEW r, Numbered(r)
    PROVE  /\ Evicted(r) \subseteq Finished(r)
           /\ Cardinality(Finished(r) \ Evicted(r)) <= MaxKept
           /\ Evicted(r) # {} => Cardinality(Finished(r) \ Evicted(r)) = MaxKept
<1> DEFINE F == Finished(r)
           K == F \ Evicted(r)
<1>0. ASSUME NEW S \in SUBSET F PROVE IsFiniteSet(S) /\ Cardinality(S) \in Nat
    <2>1. S \subseteq JobIds
        BY DEF Finished
    <2> QED BY <2>1, JobsAssumption, FS_Subset, FS_CardinalityType
<1>1. Evicted(r) \subseteq F
    BY DEF Evicted
<1>2. ASSUME NEW j \in F PROVE Younger(r, j) \in SUBSET F
    BY DEF Younger
<1>3. Cardinality(K) <= MaxKept
    <2>1. CASE K = {}
        BY <2>1, FS_EmptySet, JobsAssumption
    <2>2. CASE K # {}
        <3> DEFINE N == {r[j].seq : j \in K}
        <3>1. N \in SUBSET Seqs /\ N # {}
            BY <2>2 DEF Numbered
        <3>2. PICK n \in N : \A m \in N : n <= m
            BY <3>1, Least
        <3>3. PICK j \in K : n = r[j].seq
            BY <3>2
        <3>4. ASSUME NEW k \in K \ {j} PROVE k \in Younger(r, j)
            <4>1. r[k].seq \in Seqs /\ r[j].seq \in Seqs /\ r[k].seq # r[j].seq
                BY <3>4 DEF Numbered
            <4>2. r[j].seq <= r[k].seq
                BY <3>2, <3>3
            <4> QED BY <4>1, <4>2 DEF Younger, Seqs
        <3>5. Cardinality(K \ {j}) <= Cardinality(Younger(r, j))
            BY <3>4, <1>0, <1>2, FS_Subset
        <3>6. Cardinality(Younger(r, j)) < MaxKept
            <4>1. ~(Cardinality(Younger(r, j)) >= MaxKept)
                BY DEF Evicted
            <4> QED BY <4>1, <1>0, <1>2, JobsAssumption
        <3>7. Cardinality(K \ {j}) = Cardinality(K) - 1
            BY <1>0, FS_RemoveElement
        <3> HIDE DEF K
        <3>8. K \in SUBSET F /\ K \ {j} \in SUBSET F
            BY DEF K
        <3>9. /\ Cardinality(K) \in Nat /\ Cardinality(K \ {j}) \in Nat
              /\ Cardinality(Younger(r, j)) \in Nat
            BY <1>0, <1>2, <3>8, <3>3 DEF K
        <3> QED BY <3>5, <3>6, <3>7, <3>9, JobsAssumption
    <2> QED BY <2>1, <2>2
<1>4. ASSUME Evicted(r) # {} PROVE Cardinality(K) >= MaxKept
    <2> DEFINE N == {r[j].seq : j \in Evicted(r)}
    <2>1. N \in SUBSET Seqs /\ N # {}
        BY <1>1, <1>4 DEF Numbered
    <2>2. PICK n \in N : \A m \in N : m <= n
        BY <2>1, Greatest
    <2>3. PICK j \in Evicted(r) : n = r[j].seq
        BY <2>2
    <2>4. ASSUME NEW k \in Younger(r, j) PROVE k \in K
        <3>1. r[k].seq \in Seqs /\ r[j].seq \in Seqs /\ r[k].seq > r[j].seq /\ k \in F
            BY <1>1 DEF Numbered, Younger
        <3>2. k \notin Evicted(r)
            BY <2>2, <2>3, <3>1 DEF Seqs
        <3> QED BY <3>1, <3>2
    <2>5. Cardinality(Younger(r, j)) <= Cardinality(K)
        BY <2>4, <1>0, FS_Subset
    <2>6. Cardinality(Younger(r, j)) >= MaxKept
        BY DEF Evicted
    <2>7. Cardinality(K) \in Nat /\ Cardinality(Younger(r, j)) \in Nat
        BY <1>0, <1>1, <1>2
    <2> QED BY <2>5, <2>6, <2>7, JobsAssumption
<1>5. Cardinality(K) \in Nat
    BY <1>0
<1> HIDE DEF K
<1>6. /\ Cardinality(K) <= MaxKept
      /\ Evicted(r) # {} => Cardinality(K) = MaxKept
    BY <1>3, <1>4, <1>5, JobsAssumption
<1> QED BY <1>1, <1>6 DEF K
-----------------------------------------------------------------------------
(* A supervisor publishes "cancelled" only of a record that carries the     *)
(* flag; the flag is never taken back.                                      *)

CancelledOnRequest ==
    \A s \in Seqs : pc[s] = "decided" /\ outcome[s] = "cancelled" => reg[jobOf[s]].cancel

LEMMA NextCancelled == Books /\ CancelledOnRequest /\ [Next]_vars => CancelledOnRequest'
<1> SUFFICES ASSUME Books, CancelledOnRequest, [Next]_vars, NEW t \in Seqs,
                    pc'[t] = "decided", outcome'[t] = "cancelled"
             PROVE  reg'[jobOf'[t]].cancel
    BY DEF CancelledOnRequest
<1> DEFINE Fine == reg'[jobOf'[t]].cancel
<1>t. /\ Typed /\ Typed'
      /\ reg \in [JobIds -> Record \cup {NoRecord}]
      /\ jobOf \in [Seqs -> JobIds \cup {"none"}]
      /\ pc \in [Seqs -> Phase]
      /\ outcome \in [Seqs -> Outcomes \cup {"none"}]
    BY NextTyped DEF Books, Typed, TypeOK
<1>u. ASSUME NEW s \in Seqs, pc[s] \in Active
      PROVE  /\ jobOf[s] \in JobIds /\ Owns(jobOf[s], s) /\ Known(jobOf[s])
             /\ reg[jobOf[s]] \in Record
    BY <1>t, <1>u, KnownRecord DEF Books, TasksMatchRecords, Owns, Known
<1>q. ASSUME pc[t] = "decided", outcome[t] = "cancelled", jobOf'[t] = jobOf[t],
             reg'[jobOf[t]] = reg[jobOf[t]] \/ reg'[jobOf[t]].cancel = reg[jobOf[t]].cancel
      PROVE  Fine
    BY <1>q DEF CancelledOnRequest
<1> HIDE DEF Fine
<1> USE DEF Active
<1>1. ASSUME NEW j \in JobIds, Create(j) PROVE Fine
    <2>1. pc[t] = pc'[t] /\ jobOf'[t] = jobOf[t] /\ outcome' = outcome
        BY <1>1, <1>t DEF Create, Typed, TypeOK
    <2>2. jobOf[t] # j
        BY <1>1, <1>u, <2>1 DEF Create
    <2> QED BY <1>1, <1>t, <1>u, <1>q, <2>1, <2>2 DEF Create
<1>2. ASSUME NEW s \in Seqs, SpawnJob(s) \/ RemoveFailedLog(s) PROVE Fine
    BY <1>2, <1>t, <1>q DEF SpawnJob, RemoveFailedLog
<1>3. ASSUME NEW s \in Seqs, SpawnFails(s) PROVE Fine
    <2>1. pc[t] = "decided" /\ t # s /\ UNCHANGED <<jobOf, outcome>>
        BY <1>3, <1>t DEF SpawnFails
    <2>2. jobOf[t] # jobOf[s] /\ jobOf[t] \in JobIds
        BY <1>3, <1>u, <2>1 DEF SpawnFails, Owns
    <2> QED BY <1>3, <1>t, <1>q, <2>1, <2>2 DEF SpawnFails
<1>4. ASSUME NEW s \in Seqs, MarkSpawned(s) \/ Elapse(s) PROVE Fine
    <2>1. pc[t] = "decided" /\ UNCHANGED <<jobOf, outcome>>
        BY <1>4, <1>t DEF MarkSpawned, Elapse
    <2>2. reg[jobOf[t]] \in Record /\ jobOf[t] \in JobIds
        BY <1>u, <2>1
    <2>3. reg'[jobOf[t]].cancel = reg[jobOf[t]].cancel
        BY <1>4, <1>t, <2>2 DEF MarkSpawned, Elapse, Record
    <2> QED BY <1>q, <2>1, <2>3
<1>5. ASSUME NEW s \in Seqs, Reap(s) \/ ReapTimedOut(s) PROVE Fine
    <2>1. UNCHANGED <<reg, jobOf>> /\ \A r \in Seqs \ {s} : pc'[r] = pc[r] /\ outcome'[r] = outcome[r]
        BY <1>5, <1>t DEF Reap, ReapTimedOut
    <2>2. CASE t = s
        BY <1>5, <1>t, <2>1, <2>2 DEF Reap, ReapTimedOut, Fine
    <2> QED BY <1>q, <2>1, <2>2
<1>6. ASSUME NEW s \in Seqs, Finish(s) PROVE Fine
    <2>1. pc[t] = "decided" /\ t # s /\ UNCHANGED <<jobOf, outcome>>
        BY <1>6, <1>t DEF Finish
    <2>2. jobOf[t] # jobOf[s] /\ jobOf[t] \in JobIds /\ IsRunning(jobOf[t])
        BY <1>6, <1>u, <2>1 DEF Finish, Owns, IsRunning
    <2>3. reg'[jobOf[t]] = reg[jobOf[t]]
        BY <1>6, <2>2, FinishEffect
    <2> QED BY <1>q, <2>1, <2>3
<1>7. ASSUME NEW d \in Deleters, NEW T \in SUBSET JobIds, MarkCancelled(d, T) PROVE Fine
    <2>1. UNCHANGED <<pc, jobOf, outcome>>
        BY <1>7 DEF MarkCancelled
    <2>2. reg[jobOf[t]] \in Record /\ jobOf[t] \in JobIds /\ reg[jobOf[t]].cancel
        BY <1>u, <2>1 DEF CancelledOnRequest
    <2> QED BY <1>7, <2>1, <2>2 DEF MarkCancelled, Record, Fine
<1>8. ASSUME NEW d \in Deleters, NEW j \in JobIds, CancelOne(d, j) PROVE Fine
    BY <1>7, <1>8 DEF CancelOne
<1>9. ASSUME NEW d \in Deleters, NEW P \in Prefixes, CancelPrefix(d, P) PROVE Fine
    BY <1>7, <1>9 DEF CancelPrefix, Running
<1>10. ASSUME Restart PROVE Fine
    BY <1>10 DEF Restart
<1>11. ASSUME UNCHANGED <<reg, pc, jobOf, outcome>> PROVE Fine
    BY <1>11, <1>q
<1>12. Fine
    BY <1>1, <1>2, <1>3, <1>4, <1>5, <1>6, <1>8, <1>9, <1>10, <1>11
       DEF Next, Creation, Supervisor, vars, Exit, Watchdog, ResolveAwakeable,
           SignalTarget, AwaitEnds
<1> QED BY <1>12 DEF Fine
-----------------------------------------------------------------------------
(* The steps.  What a caller may see or care about of the registry:         *)

JobBar == [j \in JobIds |-> reg[j].state]
StartingBar == {j \in JobIds : IsRunning(j) /\ pc[reg[j].seq] = "inserted"}
CancellingBar == {j \in JobIds : IsRunning(j) /\ reg[j].cancel}
LaunchedBar == [j \in JobIds |-> Cardinality(Launched(j))]

(* The contract counts with the same operator. *)
LEMMA SameCount == ASSUME NEW S PROVE Contract!Cardinality(S) = Cardinality(S)
BY DEF Contract!Cardinality, Cardinality

LEMMA LaunchedFinite ==
    ASSUME NEW j
    PROVE  IsFiniteSet(Launched(j)) /\ Cardinality(Launched(j)) \in Nat
BY SeqsFinite, FS_Subset, FS_CardinalityType DEF Launched

(* ... none of which changes in a step of a task past its spawn that does   *)
(* not publish, nor in those of the log remover, the watchdog, the callback.*)
LEMMA Unobserved ==
    ASSUME Books,
           \A j \in JobIds : /\ reg'[j].state = reg[j].state
                             /\ IsRunning(j) => /\ reg'[j].seq = reg[j].seq
                                                /\ reg'[j].cancel = reg[j].cancel,
           \A s \in Seqs : /\ pc'[s] = "inserted" <=> pc[s] = "inserted"
                           /\ pc'[s] \in NotLaunched <=> pc[s] \in NotLaunched,
           jobOf' = jobOf
    PROVE  UNCHANGED Contract!contractVars
<1>1. \A j \in JobIds : IsRunning(j) => reg[j].seq \in Seqs
    BY KnownRecord DEF Books, IsRunning, Known, Record
<1>2. JobBar' = JobBar /\ StartingBar' = StartingBar /\ CancellingBar' = CancellingBar
    BY <1>1 DEF JobBar, StartingBar, CancellingBar, IsRunning
<1>3. \A j \in JobIds : Launched(j)' = Launched(j)
    BY DEF Launched
<1>4. LaunchedBar' = LaunchedBar
    BY <1>3 DEF LaunchedBar
<1> QED
    BY <1>2, <1>4 DEF Contract!contractVars, JobBar, StartingBar, CancellingBar, LaunchedBar

(* The sections that callers observe are the operations of the contract.    *)
LEMMA StepsImplement ==
    Books /\ CancelledOnRequest /\ [Next]_vars
        => [Contract!ContractNext]_(Contract!contractVars)
<1> SUFFICES ASSUME Books, CancelledOnRequest, [Next]_vars
             PROVE  Contract!ContractNext \/ UNCHANGED Contract!contractVars
    OBVIOUS
<1> DEFINE Goal == Contract!ContractNext \/ UNCHANGED Contract!contractVars
<1>t. /\ Typed /\ Typed' /\ Books'
      /\ reg \in [JobIds -> Record \cup {NoRecord}]
      /\ nextSeq \in 1..(MaxSeq + 1)
      /\ jobOf \in [Seqs -> JobIds \cup {"none"}]
      /\ pc \in [Seqs -> Phase]
    BY NextTyped, NextBooks DEF Books, Typed, TypeOK
<1>k. ASSUME NEW j \in JobIds, Known(j)
      PROVE  reg[j] \in Record /\ reg[j].seq \in Seqs /\ jobOf[reg[j].seq] = j
    BY <1>t, <1>k, KnownRecord DEF Record, Books, TasksMatchRecords
<1>u. ASSUME NEW s \in Seqs, pc[s] \in Active
      PROVE  /\ jobOf[s] \in JobIds /\ Owns(jobOf[s], s) /\ Known(jobOf[s])
             /\ reg[jobOf[s]] \in Record
    BY <1>t, <1>u, KnownRecord DEF Books, TasksMatchRecords, Owns, Known
<1>b. /\ Contract!RunningJobs = Running(reg)
      /\ Contract!FinishedJobs = Finished(reg)
    BY DEF Contract!RunningJobs, Contract!FinishedJobs, Running, Finished, Contract!Outcomes, Outcomes
<1> HIDE DEF Goal
<1>1. ASSUME NEW j \in JobIds, Create(j) PROVE Contract!Accept(j)
    <2>1. nextSeq \in Seqs /\ pc[nextSeq] = "free"
        BY <1>1, <1>t, JobsAssumption DEF Create, Seqs, Books, Fresh, Typed, TypeOK
    <2>2. /\ reg'[j].state = "running" /\ reg'[j].seq = nextSeq /\ ~ reg'[j].cancel
          /\ \A k \in JobIds \ {j} : reg'[k] = reg[k]
          /\ jobOf' = [jobOf EXCEPT ![nextSeq] = j]
          /\ pc' = [pc EXCEPT ![nextSeq] = "inserted"]
          /\ ~Known(j)
        BY <1>1, <1>t DEF Create
    <2>3. JobBar[j] = "absent" /\ JobBar' = [JobBar EXCEPT ![j] = "running"]
        BY <2>2 DEF JobBar, Known
    <2>4. \A k \in JobIds : Known(k) => reg[k].seq # nextSeq
        BY <1>k, <2>1, <1>t DEF Books, Fresh, Seqs
    <2>5. StartingBar' = StartingBar \cup {j} /\ CancellingBar' = CancellingBar
        BY <1>k, <1>t, <2>1, <2>2, <2>4 DEF StartingBar, CancellingBar, IsRunning, Known
    <2>6. \A k \in JobIds : Launched(k)' = Launched(k)
        BY <1>t, <2>1, <2>2 DEF Launched, NotLaunched
    <2>7. LaunchedBar' = LaunchedBar
        BY <2>6 DEF LaunchedBar
    <2>8. Contract!Cardinality(Contract!RunningJobs) < MaxRunning
        BY <1>1, <1>b, SameCount DEF Create
    <2> QED
        BY <2>3, <2>5, <2>7, <2>8
           DEF Contract!Accept, JobBar, StartingBar, CancellingBar, LaunchedBar
<1>2. ASSUME NEW s \in Seqs, NEW j \in JobIds, j = jobOf[s], SpawnJob(s)
      PROVE  Contract!Launch(j)
    <2>1. /\ pc[s] = "inserted" /\ pc' = [pc EXCEPT ![s] = "spawned"]
          /\ UNCHANGED <<reg, jobOf>>
          /\ j \in JobIds /\ Owns(j, s)
        BY <1>2, <1>u DEF SpawnJob, Active
    <2>2. /\ JobBar' = JobBar /\ CancellingBar' = CancellingBar
          /\ j \in StartingBar /\ StartingBar' = StartingBar \ {j}
        BY <1>k, <1>t, <2>1 DEF JobBar, CancellingBar, StartingBar, IsRunning, Owns, Known
    <2>3. /\ s \notin Launched(j) /\ Launched(j)' = Launched(j) \cup {s}
          /\ \A k \in JobIds \ {j} : Launched(k)' = Launched(k)
        BY <1>2, <1>t, <2>1 DEF Launched, NotLaunched
    <2>4. Cardinality(Launched(j)') = Cardinality(Launched(j)) + 1
        BY <2>3, LaunchedFinite, FS_AddElement
    <2>5. LaunchedBar' = [LaunchedBar EXCEPT ![j] = @ + 1]
        BY <2>1, <2>3, <2>4 DEF LaunchedBar
    <2> QED
        BY <2>2, <2>5 DEF Contract!Launch, JobBar, StartingBar, CancellingBar, LaunchedBar
<1>3. ASSUME NEW s \in Seqs, NEW j \in JobIds, j = jobOf[s], SpawnFails(s)
      PROVE  Contract!Refuse(j)
    <2>1. /\ pc[s] = "inserted" /\ pc' = [pc EXCEPT ![s] = "unwound"]
          /\ reg' = [reg EXCEPT ![j] = NoRecord]
          /\ UNCHANGED jobOf
          /\ j \in JobIds /\ Owns(j, s)
        BY <1>3, <1>u DEF SpawnFails, Active
    <2>2. /\ j \in StartingBar
          /\ JobBar' = [JobBar EXCEPT ![j] = "absent"]
          /\ StartingBar' = StartingBar \ {j}
          /\ CancellingBar' = CancellingBar \ {j}
        <3>1. reg'[j].state = "absent" /\ \A k \in JobIds \ {j} : reg'[k] = reg[k]
            BY <1>t, <2>1 DEF NoRecord
        <3>2. j \in StartingBar
            BY <2>1 DEF StartingBar, IsRunning, Owns
        <3>3. JobBar' = [JobBar EXCEPT ![j] = "absent"]
            BY <3>1 DEF JobBar
        <3>4. CancellingBar' = CancellingBar \ {j}
            BY <3>1 DEF CancellingBar, IsRunning
        <3>5. \A k \in JobIds \ {j} : IsRunning(k) => reg[k].seq \in Seqs /\ reg[k].seq # s
            BY <1>k, <1>3, <2>1 DEF IsRunning, Known
        <3>6. StartingBar' = StartingBar \ {j}
            BY <1>t, <2>1, <3>1, <3>5 DEF StartingBar, IsRunning
        <3> QED BY <3>2, <3>3, <3>4, <3>6
    <2>3. \A k \in JobIds : Launched(k)' = Launched(k)
        BY <1>t, <2>1 DEF Launched, NotLaunched
    <2>4. LaunchedBar' = LaunchedBar
        BY <2>3 DEF LaunchedBar
    <2> QED
        BY <2>2, <2>4 DEF Contract!Refuse, JobBar, StartingBar, CancellingBar, LaunchedBar
<1>4. ASSUME NEW d \in Deleters, NEW T \in SUBSET JobIds, MarkCancelled(d, T),
             T \subseteq Running(reg), T # {}
      PROVE  Contract!Cancel(T)
    <2>1. UNCHANGED <<pc, jobOf>>
        BY <1>4 DEF MarkCancelled
    <2>2. \A k \in JobIds : /\ reg'[k].state = reg[k].state
                            /\ Known(k) => reg'[k].seq = reg[k].seq
                            /\ Known(k) => (reg'[k].cancel <=> (k \in T \/ reg[k].cancel))
        <3> SUFFICES ASSUME NEW k \in JobIds
                     PROVE  /\ reg'[k].state = reg[k].state
                            /\ Known(k) => reg'[k].seq = reg[k].seq
                            /\ Known(k) => (reg'[k].cancel <=> (k \in T \/ reg[k].cancel))
            OBVIOUS
        <3>1. reg'[k].state = reg[k].state /\ (Known(k) => reg'[k].seq = reg[k].seq)
            BY <1>4, StatesKeptByCancel
        <3>2. ASSUME Known(k) PROVE reg'[k].cancel <=> (k \in T \/ reg[k].cancel)
            <4>1. reg[k] \in Record
                BY <1>k, <3>2
            <4> QED BY <1>4, <4>1 DEF MarkCancelled, Record
        <3> QED BY <3>1, <3>2
    <2>3. JobBar' = JobBar /\ StartingBar' = StartingBar
        BY <2>1, <2>2 DEF JobBar, StartingBar, IsRunning, Known
    <2>4. CancellingBar' = CancellingBar \cup T
        BY <1>4, <2>2 DEF CancellingBar, IsRunning, Known, Running
    <2>5. LaunchedBar' = LaunchedBar
        BY <2>1 DEF LaunchedBar, Launched
    <2> QED
        BY <1>4, <1>b, <2>3, <2>4, <2>5
           DEF Contract!Cancel, JobBar, StartingBar, CancellingBar, LaunchedBar
<1>5. ASSUME NEW s \in Seqs, NEW j \in JobIds, j = jobOf[s], Finish(s),
             NEW o, o = outcome[s],
             NEW ev, ev = Evicted([reg EXCEPT ![j].state = o])
      PROVE  ev \in SUBSET JobIds /\ Contract!Finish(j, o, ev)
    <2> DEFINE pub == [reg EXCEPT ![j].state = o]
    <2>1. /\ pc[s] = "decided" /\ pc' = [pc EXCEPT ![s] = "done"]
          /\ reg' = EvictFinished(pub)
          /\ UNCHANGED jobOf
          /\ j \in JobIds /\ Owns(j, s) /\ reg[j] \in Record
          /\ o \in Outcomes /\ ev = Evicted(pub)
        BY <1>5, <1>t, <1>u DEF Finish, Active, Typed, TasksTyped
    <2>2. /\ pub[j].state = o /\ pub[j].seq = s
          /\ \A k \in JobIds \ {j} : pub[k] = reg[k]
        BY <1>t, <2>1 DEF Record, Owns
    <2> HIDE DEF pub
    <2>3. Finished(pub) = Finished(reg) \cup {j}
        BY <2>1, <2>2 DEF Finished
    <2>4. Numbered(pub)
        <3>1. \A k \in Finished(pub) : Known(k) /\ pub[k].seq = reg[k].seq /\ k \in JobIds
            BY <2>1, <2>2 DEF Finished, Known, Outcomes, Owns
        <3> QED BY <1>k, <3>1 DEF Numbered
    <2>5. /\ ev \subseteq Finished(pub)
          /\ Cardinality(Finished(pub) \ ev) <= MaxKept
          /\ ev # {} => Cardinality(Finished(pub) \ ev) = MaxKept
        BY <2>1, <2>4, EvictionKeeps
    <2>6. ev \in SUBSET JobIds
        BY <2>5 DEF Finished
    <2>7. /\ JobBar[j] = "running"
          /\ JobBar' = [k \in JobIds |-> IF k \in ev THEN "absent"
                                         ELSE IF k = j THEN o ELSE JobBar[k]]
        BY <2>1, <2>2 DEF JobBar, EvictFinished, NoRecord, Owns
    <2>8. j \notin StartingBar
        BY <2>1 DEF StartingBar, Owns
    <2>9. \A k \in JobIds :
             /\ k = j => reg'[k].state # "running"
             /\ k # j /\ IsRunning(k) => reg'[k] = reg[k]
             /\ reg'[k].state = "running" => reg'[k] = reg[k]
        BY <1>5, FinishEffect
    <2>10. \A k \in JobIds : k # j /\ IsRunning(k) => reg[k].seq # s /\ reg[k].seq \in Seqs
        BY <1>k, <2>1 DEF IsRunning, Known, Owns
    <2>11. StartingBar' = StartingBar
        BY <1>t, <2>1, <2>8, <2>9, <2>10 DEF StartingBar, IsRunning
    <2>12. CancellingBar' = CancellingBar \ {j}
        BY <2>9 DEF CancellingBar, IsRunning
    <2>13. o = "cancelled" => j \in CancellingBar
        BY <1>5, <2>1 DEF CancelledOnRequest, CancellingBar, IsRunning, Owns
    <2>14. \A k \in JobIds : Launched(k)' = Launched(k)
        BY <1>t, <2>1 DEF Launched, NotLaunched
    <2>15. LaunchedBar' = LaunchedBar
        BY <2>14 DEF LaunchedBar
    <2>16. /\ ev \subseteq Contract!FinishedJobs \cup {j}
           /\ Contract!Cardinality((Contract!FinishedJobs \cup {j}) \ ev) <= MaxKept
           /\ ev # {} => Contract!Cardinality((Contract!FinishedJobs \cup {j}) \ ev) = MaxKept
        BY <1>b, <2>3, <2>5, SameCount
    <2>17. o \in Contract!Outcomes
        BY <2>1 DEF Outcomes, Contract!Outcomes
    <2> QED
        BY <2>6, <2>7, <2>8, <2>11, <2>12, <2>13, <2>15, <2>16, <2>17
           DEF Contract!Finish, JobBar, StartingBar, CancellingBar, LaunchedBar
<1>6. ASSUME Restart PROVE Contract!Reset
    <2>1. JobBar' = [j \in JobIds |-> "absent"] /\ StartingBar' = {} /\ CancellingBar' = {}
        BY <1>6 DEF Restart, NoRecord, JobBar, StartingBar, CancellingBar, IsRunning
    <2>2. \A j \in JobIds : Launched(j)' = {}
        BY <1>6, JobsAssumption DEF Restart, Launched
    <2>3. LaunchedBar' = [j \in JobIds |-> 0]
        BY <2>2, FS_EmptySet DEF LaunchedBar
    <2> QED
        BY <2>1, <2>3 DEF Contract!Reset, JobBar, StartingBar, CancellingBar, LaunchedBar
<1>7. ASSUME NEW s \in Seqs, MarkSpawned(s) \/ Elapse(s) PROVE Goal
    <2>1. \A k \in JobIds : /\ reg'[k].state = reg[k].state
                            /\ IsRunning(k) => /\ reg'[k].seq = reg[k].seq
                                               /\ reg'[k].cancel = reg[k].cancel
        <3>1. jobOf[s] \in JobIds /\ Known(jobOf[s]) /\ reg[jobOf[s]] \in Record
            BY <1>7, <1>u DEF MarkSpawned, Elapse, Active
        <3> QED BY <1>7, <1>t, <3>1 DEF MarkSpawned, Elapse, Record
    <2>2. /\ jobOf' = jobOf
          /\ \A t \in Seqs : /\ pc'[t] = "inserted" <=> pc[t] = "inserted"
                             /\ pc'[t] \in NotLaunched <=> pc[t] \in NotLaunched
        BY <1>7, <1>t DEF MarkSpawned, Elapse, NotLaunched
    <2> QED BY <2>1, <2>2, Unobserved DEF Goal
<1>8. ASSUME NEW s \in Seqs, RemoveFailedLog(s) \/ Reap(s) \/ ReapTimedOut(s) PROVE Goal
    <2>1. UNCHANGED reg
        BY <1>8 DEF RemoveFailedLog, Reap, ReapTimedOut
    <2>2. /\ jobOf' = jobOf
          /\ \A t \in Seqs : /\ pc'[t] = "inserted" <=> pc[t] = "inserted"
                             /\ pc'[t] \in NotLaunched <=> pc[t] \in NotLaunched
        BY <1>8, <1>t DEF RemoveFailedLog, Reap, ReapTimedOut, NotLaunched
    <2> QED BY <2>1, <2>2, Unobserved DEF Goal
<1>9. ASSUME UNCHANGED <<reg, pc, jobOf>> PROVE Goal
    BY <1>9, Unobserved DEF Goal
<1>10. ASSUME NEW j \in JobIds, Create(j) PROVE Goal
    BY <1>1, <1>10 DEF Goal, Contract!ContractNext
<1>11. ASSUME NEW s \in Seqs, SpawnJob(s) \/ SpawnFails(s) PROVE Goal
    <2>1. PICK j \in JobIds : j = jobOf[s]
        BY <1>11, <1>u DEF SpawnJob, SpawnFails, Active
    <2>2. Contract!Launch(j) \/ Contract!Refuse(j)
        BY <1>2, <1>3, <1>11, <2>1
    <2> QED BY <2>2 DEF Goal, Contract!ContractNext
<1>12. ASSUME NEW s \in Seqs, Finish(s) PROVE Goal
    <2>1. PICK j \in JobIds : j = jobOf[s]
        BY <1>12, <1>u DEF Finish, Active
    <2>2. PICK o \in Contract!Outcomes : o = outcome[s]
        BY <1>12, <1>t DEF Finish, Typed, TasksTyped, Outcomes, Contract!Outcomes
    <2>3. PICK ev : ev = Evicted([reg EXCEPT ![j].state = o])
        OBVIOUS
    <2>4. ev \in SUBSET JobIds /\ Contract!Finish(j, o, ev)
        BY <1>5, <1>12, <2>1, <2>2, <2>3
    <2> QED BY <2>4 DEF Goal, Contract!ContractNext
<1>13. ASSUME NEW d \in Deleters, NEW j \in JobIds, CancelOne(d, j) PROVE Goal
    BY <1>4, <1>13 DEF CancelOne, IsRunning, Running, Goal, Contract!ContractNext
<1>14. ASSUME NEW d \in Deleters, NEW P \in Prefixes, CancelPrefix(d, P) PROVE Goal
    BY <1>4, <1>14 DEF CancelPrefix, Running, Goal, Contract!ContractNext
<1>15. ASSUME Restart PROVE Goal
    BY <1>6, <1>15 DEF Goal, Contract!ContractNext
<1>16. Goal
    BY <1>7, <1>8, <1>9, <1>10, <1>11, <1>12, <1>13, <1>14, <1>15
       DEF Next, Creation, Supervisor, vars, Exit, Watchdog, ResolveAwakeable,
           SignalTarget, AwaitEnds
<1> QED BY <1>16 DEF Goal

(* The registry implements the contract: whatever the interleaving of its   *)
(* handlers, supervisors and evictions, callers see a history of it.        *)
THEOREM JobsImplementContract == Spec => ImplementsContract
<1>1. Init => Contract!ContractInit
    <2> SUFFICES ASSUME Init PROVE Contract!ContractInit
        OBVIOUS
    <2>1. JobBar = [j \in JobIds |-> "absent"] /\ StartingBar = {} /\ CancellingBar = {}
        BY DEF Init, NoRecord, JobBar, StartingBar, CancellingBar, IsRunning
    <2>2. \A j \in JobIds : Launched(j) = {}
        BY DEF Init, Launched, NotLaunched
    <2>3. LaunchedBar = [j \in JobIds |-> 0]
        BY <2>2, FS_EmptySet DEF LaunchedBar
    <2> QED
        BY <2>1, <2>3 DEF Contract!ContractInit, JobBar, StartingBar, CancellingBar, LaunchedBar
<1>2. Init => CancelledOnRequest
    BY DEF Init, CancelledOnRequest
<1> QED
    BY <1>1, <1>2, InitBooks, NextBooks, NextCancelled, StepsImplement, PTL
       DEF Spec, ImplementsContract, Contract!ContractSpec
-----------------------------------------------------------------------------
(* The size of the registry.  Only Finish makes a finished record, and it   *)
(* evicts down to MaxKept in the same section; every other step leaves the  *)
(* finished records as they are or empties the registry.                    *)

FewKept == Cardinality(Finished(reg)) <= MaxKept

LEMMA FinishedFinite == IsFiniteSet(Finished(reg)) /\ Cardinality(Finished(reg)) \in Nat
BY JobsAssumption, FS_Subset, FS_CardinalityType DEF Finished

LEMMA FewerFinished ==
    ASSUME FewKept, Finished(reg') \subseteq Finished(reg)
    PROVE  FewKept'
<1>1. /\ IsFiniteSet(Finished(reg')) /\ Cardinality(Finished(reg')) \in Nat
      /\ Cardinality(Finished(reg')) <= Cardinality(Finished(reg))
    BY FinishedFinite, FS_Subset, FS_CardinalityType
<1> QED
    BY <1>1, FinishedFinite, JobsAssumption DEF FewKept, Finished

(* finish on a registry whose records are numbered apart: what is left of   *)
(* the finished ones is what EvictionKeeps counts.                          *)
LEMMA FinishKeepsFew == ASSUME Books, NEW s \in Seqs, Finish(s) PROVE FewKept'
<1> DEFINE j == jobOf[s]
           pub == [reg EXCEPT ![j].state = outcome[s]]
<1>1. j \in JobIds /\ Owns(j, s) /\ outcome[s] \in Outcomes
    BY DEF Books, Typed, TasksTyped, TasksMatchRecords, Finish, Active
<1>2. Known(j) /\ reg[j] \in Record /\ reg \in [JobIds -> Record \cup {NoRecord}]
    BY <1>1, KnownRecord DEF Owns, Known, Books, Typed, TypeOK
<1>3. reg' = EvictFinished(pub)
    BY <1>2 DEF Finish
<1>4. \A k \in JobIds : /\ pub[k].state # "absent" => Known(k) /\ pub[k].seq = reg[k].seq
                        /\ k # j => pub[k] = reg[k]
    BY <1>1, <1>2 DEF Record, Known
<1>5. \A k \in JobIds : Known(k) => reg[k].seq \in Seqs /\ jobOf[reg[k].seq] = k
    <2> TAKE k \in JobIds
    <2> HAVE Known(k)
    <2>1. reg[k] \in Record
        BY KnownRecord DEF Books
    <2> QED BY <2>1 DEF Record, Books, TasksMatchRecords
<1> HIDE DEF pub, j
<1>6. "absent" \notin Outcomes /\ NoRecord.state \notin Outcomes
    BY DEF Outcomes, NoRecord
<1>7. Numbered(pub)
    <2>1. \A k \in Finished(pub) : k \in JobIds /\ Known(k) /\ pub[k].seq = reg[k].seq
        BY <1>4, <1>6 DEF Finished
    <2> QED BY <2>1, <1>5 DEF Numbered
<1>8. Finished(reg') = Finished(pub) \ Evicted(pub)
    <2>1. \A k \in JobIds : reg'[k] = IF k \in Evicted(pub) THEN NoRecord ELSE pub[k]
        BY <1>3 DEF EvictFinished
    <2>2. \A k \in JobIds : reg'[k].state \in Outcomes
                               <=> k \notin Evicted(pub) /\ pub[k].state \in Outcomes
        BY <2>1, <1>6
    <2> QED BY <2>2 DEF Finished
<1>9. Cardinality(Finished(reg')) <= MaxKept
    BY <1>7, <1>8, EvictionKeeps
<1> QED BY <1>9 DEF FewKept, Finished

LEMMA NextFewKept == Books /\ FewKept /\ [Next]_vars => FewKept'
<1> SUFFICES ASSUME Books, FewKept, [Next]_vars PROVE FewKept'
    OBVIOUS
<1>t. reg \in [JobIds -> Record \cup {NoRecord}] /\ Typed'
    BY NextTyped DEF Books, Typed, TypeOK
<1>n. NoRecord.state = "absent" /\ "absent" \notin Outcomes /\ "running" \notin Outcomes
    BY DEF NoRecord, Outcomes
<1>q. ASSUME \A k \in JobIds : reg'[k].state \in Outcomes => reg'[k].state = reg[k].state
      PROVE  FewKept'
    <2>1. Finished(reg') \subseteq Finished(reg)
        BY <1>q DEF Finished
    <2> QED BY <2>1, FewerFinished
<1>1. ASSUME NEW j \in JobIds, Create(j) PROVE FewKept'
    <2>1. reg'[j].state = "running" /\ \A k \in JobIds \ {j} : reg'[k] = reg[k]
        BY <1>1, <1>t DEF Create
    <2> QED BY <2>1, <1>n, <1>q
<1>2. ASSUME NEW s \in Seqs, SpawnFails(s) PROVE FewKept'
    <2>1. \A k \in JobIds : reg'[k] = reg[k] \/ reg'[k] = NoRecord
        BY <1>2, <1>t DEF SpawnFails
    <2> QED BY <2>1, <1>n, <1>q
<1>3. ASSUME NEW s \in Seqs, MarkSpawned(s) \/ Elapse(s) PROVE FewKept'
    <2>1. \A k \in JobIds : reg'[k].state = reg[k].state
        BY <1>3, <1>t, StatesKept DEF Books
    <2> QED BY <2>1, <1>q
<1>4. ASSUME NEW s \in Seqs, Finish(s) PROVE FewKept'
    BY <1>4, FinishKeepsFew
<1>5. ASSUME NEW d \in Deleters, NEW T \in SUBSET JobIds, MarkCancelled(d, T),
             T \subseteq Running(reg)
      PROVE FewKept'
    BY <1>5, <1>q, StatesKeptByCancel
<1>6. ASSUME NEW d \in Deleters, NEW j \in JobIds, CancelOne(d, j) PROVE FewKept'
    BY <1>5, <1>6 DEF CancelOne, IsRunning, Running
<1>7. ASSUME NEW d \in Deleters, NEW P \in Prefixes, CancelPrefix(d, P) PROVE FewKept'
    BY <1>5, <1>7 DEF CancelPrefix, Running
<1>8. ASSUME Restart PROVE FewKept'
    BY <1>8, <1>n, <1>q DEF Restart
<1>9. ASSUME UNCHANGED reg PROVE FewKept'
    BY <1>9, <1>q
<1> QED
    BY <1>1, <1>2, <1>3, <1>4, <1>6, <1>7, <1>8, <1>9
       DEF Next, Creation, Supervisor, vars, SpawnJob, RemoveFailedLog, Reap, ReapTimedOut,
           Exit, Watchdog, ResolveAwakeable, SignalTarget, AwaitEnds

(* The registry never remembers more than MAX_RUNNING_JOBS running jobs and *)
(* MAX_FINISHED_KEPT finished ones, whatever was posted, cancelled and      *)
(* posted again: creation counts before it inserts, finish evicts in the    *)
(* section that publishes.  The bound is one on the pod's memory and, with  *)
(* LogsAccounted, on the log files it keeps.                                *)
RegistryBounded == Cardinality({j \in JobIds : Known(j)}) <= MaxRunning + MaxKept

THEOREM RegistryStaysSmall == Spec => []RegistryBounded
<1>1. Init => FewKept /\ Capped
    <2> SUFFICES ASSUME Init PROVE FewKept /\ Capped
        OBVIOUS
    <2>1. Finished(reg) = {} /\ Running(reg) = {}
        BY DEF Init, Finished, Running, NoRecord, Outcomes
    <2> QED BY <2>1, FS_EmptySet, JobsAssumption DEF FewKept, Capped
<1>2. Books /\ FewKept /\ Capped => RegistryBounded
    <2> SUFFICES ASSUME Books, FewKept, Capped PROVE RegistryBounded
        OBVIOUS
    <2>1. {j \in JobIds : Known(j)} = Running(reg) \cup Finished(reg)
        <3>1. \A j \in JobIds : Known(j) <=> reg[j].state \in {"running"} \cup Outcomes
            <4> TAKE j \in JobIds
            <4>1. reg[j] \in Record \/ reg[j] = NoRecord
                BY DEF Books, Typed, TypeOK
            <4> QED BY <4>1 DEF Record, JobState, NoRecord, Known, Outcomes
        <3> QED BY <3>1 DEF Running, Finished
    <2>2. Running(reg) \cap Finished(reg) = {}
        BY DEF Running, Finished, Outcomes
    <2>3. Cardinality(Running(reg) \cup Finished(reg))
            = Cardinality(Running(reg)) + Cardinality(Finished(reg))
                - Cardinality(Running(reg) \cap Finished(reg))
        BY RunningFinite, FinishedFinite, FS_Union
    <2>4. Cardinality({j \in JobIds : Known(j)})
            = Cardinality(Running(reg)) + Cardinality(Finished(reg))
        BY <2>1, <2>2, <2>3, RunningFinite, FinishedFinite, FS_EmptySet
    <2>5. MaxRunning \in Nat /\ MaxKept \in Nat
        BY JobsAssumption
    <2> QED
        BY <2>4, <2>5, RunningFinite, FinishedFinite DEF RegistryBounded, FewKept, Capped
<1> QED
    BY <1>1, <1>2, InitBooks, NextBooks, NextCapped, NextFewKept, PTL DEF Spec
-----------------------------------------------------------------------------
(* What callers were told.                                                  *)

(* "cancelled" is only ever published for a job somebody cancelled: a       *)
(* supervisor about to publish it finds the flag still set in the record of *)
(* its own incarnation, through any re-post of the id, timeout or eviction. *)
THEOREM CancelledMeansAsked == Spec => []CancelledOnRequest
<1>1. Init => CancelledOnRequest
    BY DEF Init, CancelledOnRequest
<1> QED BY <1>1, InitBooks, NextBooks, NextCancelled, PTL DEF Spec

(* A callback that Restate received and whose answer was lost is sent again *)
(* with the very same outcome: the awakeable of an incarnation is never     *)
(* resolved two ways.                                                       *)
NeverTwoOutcomes ==
    \A s \in Seqs : resolved[s] # "none" /\ resolved'[s] # "none" => resolved'[s] = resolved[s]

LEMMA OutcomeStands ==
    ASSUME Books, Told, Told', [Next]_vars PROVE NeverTwoOutcomes
<1> SUFFICES ASSUME NEW t \in Seqs, resolved[t] # "none", resolved'[t] # "none"
             PROVE  resolved'[t] = resolved[t]
    BY DEF NeverTwoOutcomes
<1>1. /\ pc[t] = "done" /\ resolved[t] = outcome[t] /\ resolved'[t] = outcome'[t]
      /\ outcome \in [Seqs -> Outcomes \cup {"none"}]
    BY DEF Told, Books, Typed, TypeOK
<1>2. ~Restart
    BY DEF Restart
<1>3. outcome'[t] = outcome[t]
    BY <1>1, <1>2
       DEF Next, vars, Create, Creation, SpawnJob, SpawnFails, RemoveFailedLog, MarkSpawned,
           Exit, Supervisor, Reap, Elapse, ReapTimedOut, Finish, Watchdog, ResolveAwakeable,
           CancelOne, CancelPrefix, MarkCancelled, SignalTarget, AwaitEnds
<1> QED BY <1>1, <1>3

THEOREM AwakeablesResolvedOneWay == Spec => [][NeverTwoOutcomes]_vars
<1>1. Init => Told
    BY DEF Init, Told, NoRecord, Known
<1>2. Books /\ Told /\ Told' /\ [Next]_vars => [NeverTwoOutcomes]_vars
    BY OutcomeStands
<1> QED BY <1>1, <1>2, InitBooks, NextBooks, NextTold, PTL DEF Spec
=============================================================================
