-------------------------- MODULE StateStream_proofs --------------------------
(***************************************************************************)
(* Proofs about StateStream, for any tabs, hub loops and objects and any   *)
(* bounds: its type, that no connection is told the past, that none of the *)
(* last states it is owed is lost on the way, that one watch loop serves   *)
(* every connection and that a used hub has a loop at work.                *)
(***************************************************************************)
EXTENDS StateStream, TLAPS

(* The type, with what it takes to keep it: an object that exists has been *)
(* created, so a replay has a time to give.                                *)
Typed ==
    /\ StreamTypeOK
    /\ \A o \in here : at[o] >= 1

LEMMA InitTyped == StreamInit => Typed
<1> SUFFICES ASSUME StreamInit PROVE Typed
    OBVIOUS
<1> USE HubAssumption, StreamAssumption
<1>1. HubTypeOK
    BY DEF StreamInit, HubInit, HubTypeOK
<1>2. NoWatch \in [pc : {"none", "top", "streaming", "resolving"},
                   listed : SUBSET {Sandboxes, Projects},
                   backlog : [Objects -> Seq(1..MaxChanges + 1)],
                   event : Event \cup {<<>>}]
    BY DEF NoWatch, NoEvents
<1>3. NoWatch.pc = "none" /\ NoWatch.event = <<>>
    BY DEF NoWatch
<1>4. /\ here \subseteq Objects /\ clock \in 1..MaxChanges + 1
      /\ at \in [Objects -> 0..clock] /\ \A o \in here : at[o] >= 1
    BY DEF StreamInit
<1>5. /\ cache \in [Projects -> {"unknown", "owner", "miss"}]
      /\ dead \in BOOLEAN
      /\ link \in [Loops -> {"off", "accepted", "building", "served"}]
      /\ owed \in [Loops -> SUBSET Objects]
    BY DEF StreamInit
<1>6. \A i \in Loops : watch[i] = NoWatch
    BY DEF StreamInit
<1>7. watch \in [Loops -> [pc : {"none", "top", "streaming", "resolving"},
                           listed : SUBSET {Sandboxes, Projects},
                           backlog : [Objects -> Seq(1..MaxChanges + 1)],
                           event : Event \cup {<<>>}]]
    BY <1>2 DEF StreamInit
<1>8. chan \in [Loops -> Seq(Event)]
    BY DEF StreamInit
<1>9. told \in [Loops -> [Objects -> 0..MaxChanges + 1]]
    <2>1. 0 \in 0..MaxChanges + 1
        OBVIOUS
    <2> QED BY <2>1 DEF StreamInit
<1> QED
    BY <1>1, <1>3, <1>4, <1>5, <1>6, <1>7, <1>8, <1>9 DEF Typed, StreamTypeOK

-----------------------------------------------------------------------------
(* The hubs.  What they do of themselves keeps the sockets and the sockets  *)
(* the tabs remember in step with the loops.                                *)

LEMMA LoopTurns ==
    ASSUME HubTypeOK, NEW i \in Loops, hub[i] # "open" \/ ws'[TabOf[i]] # i,
           TopOfLoop(i) \/ BackOff(i),
           ws' = ws \/ ws' = [ws EXCEPT ![TabOf[i]] = IF @ = i THEN 0 ELSE @],
           UNCHANGED <<used, hubRunning>>, faults' \in 0..MaxFaults
    PROVE  HubTypeOK'
<1> USE HubAssumption DEF HubTypeOK
<1>1. PICK h \in {"opening", "ended", "sleeping"}, k \in {"connecting", "none"} :
          /\ hub' = [hub EXCEPT ![i] = h]
          /\ sock' = [sock EXCEPT ![i] = k]
          /\ k = "none" <=> h # "opening"
    BY DEF TopOfLoop, BackOff
<1>2. /\ hub' \in [Loops -> {"unborn", "opening", "open", "sleeping", "ended"}]
      /\ sock' \in [Loops -> {"none", "connecting", "open", "closing"}]
    BY <1>1
<1>3. \A j \in Loops : sock'[j] = "none" <=> hub'[j] \in {"unborn", "sleeping", "ended"}
    BY <1>1
<1>4. ws' \in [Tabs -> Loops \cup {0}]
    OBVIOUS
<1>5. ASSUME NEW t \in Tabs, ws'[t] # 0 PROVE hub'[ws'[t]] = "open" /\ TabOf[ws'[t]] = t
    <2>1. ws'[t] = ws[t] /\ hub[ws[t]] = "open" /\ TabOf[ws[t]] = t
        BY <1>5
    <2>2. ws[t] # i
        BY <2>1
    <2> QED BY <1>1, <2>1, <2>2
<1> QED
    BY <1>2, <1>3, <1>4, <1>5

LEMMA HubKept ==
    ASSUME HubTypeOK
    PROVE  /\ HubChoices => HubTypeOK'
           /\ \A i \in Loops : HubGoesOn(i) \/ Opened(i) => HubTypeOK'
<1> USE HubAssumption
<1>1. ASSUME NEW t \in Tabs, Unmount(t) PROVE HubTypeOK'
    BY <1>1 DEF Unmount, HubTypeOK
<1>2. ASSUME NEW t \in Tabs, NEW i \in Loops, Mount(t, i) PROVE HubTypeOK'
    BY <1>2 DEF Mount, HubTypeOK
<1>3. ASSUME NEW i \in Loops, OpenFails(i) PROVE HubTypeOK'
    <2>1. hub[i] # "open" /\ BackOff(i) /\ ws' = ws /\ UNCHANGED <<used, hubRunning>>
        BY <1>3 DEF OpenFails
    <2>2. faults' \in 0..MaxFaults
        BY <1>3 DEF OpenFails, Fault, HubTypeOK
    <2> QED BY <2>1, <2>2, LoopTurns
<1>4. ASSUME NEW i \in Loops, Cut(i) PROVE HubTypeOK'
    BY <1>4 DEF Cut, Fault, HubTypeOK
<1>5. ASSUME NEW i \in Loops, Closed(i) PROVE HubTypeOK'
    <2>1. /\ TopOfLoop(i) \/ BackOff(i)
          /\ ws' = [ws EXCEPT ![TabOf[i]] = IF @ = i THEN 0 ELSE @]
          /\ UNCHANGED <<used, hubRunning, faults>>
        BY <1>5 DEF Closed
    <2>2. ws'[TabOf[i]] # i /\ faults' \in 0..MaxFaults
        BY <2>1 DEF HubTypeOK
    <2> QED BY <2>1, <2>2, LoopTurns
<1>6. ASSUME NEW i \in Loops, SleepOver(i) PROVE HubTypeOK'
    <2>1. hub[i] # "open" /\ TopOfLoop(i) /\ ws' = ws /\ UNCHANGED <<used, hubRunning>>
        BY <1>6 DEF SleepOver
    <2>2. faults' \in 0..MaxFaults
        BY <1>6 DEF SleepOver, HubTypeOK
    <2> QED BY <2>1, <2>2, LoopTurns
<1>7. ASSUME NEW i \in Loops, Opened(i) PROVE HubTypeOK'
    BY <1>7 DEF Opened, HubTypeOK
<1> QED
    BY <1>1, <1>2, <1>3, <1>4, <1>5, <1>6, <1>7 DEF HubChoices, HubGoesOn

(* A handler that ends closes its socket, when it is open.                 *)
LEMMA HangUpKept ==
    ASSUME HubTypeOK, NEW i \in Loops, Fault,
           sock' = [sock EXCEPT ![i] = IF @ = "open" THEN "closing" ELSE @],
           UNCHANGED <<used, hubRunning, ws, hub>>
    PROVE  HubTypeOK'
<1>1. /\ sock' \in [Loops -> {"none", "connecting", "open", "closing"}]
      /\ \A j \in Loops : sock'[j] = "none" <=> sock[j] = "none"
    BY DEF HubTypeOK
<1>2. faults' \in 0..MaxFaults
    BY HubAssumption DEF HubTypeOK, Fault
<1> QED
    BY <1>1, <1>2 DEF HubTypeOK

(* The server may fail while the tabs are at rest.                         *)
LEMMA HubStays ==
    ASSUME HubTypeOK, UNCHANGED hubVars, UNCHANGED faults \/ Fault
    PROVE  HubTypeOK'
BY HubAssumption DEF HubTypeOK, hubVars, Fault

-----------------------------------------------------------------------------
(* The type.                                                               *)

Watches == [pc : {"none", "top", "streaming", "resolving"},
            listed : SUBSET {Sandboxes, Projects},
            backlog : [Objects -> Seq(1..MaxChanges + 1)],
            event : Event \cup {<<>>}]

WatchTyped == /\ watch \in [Loops -> Watches]
              /\ \A i \in Loops : watch[i].pc = "resolving" <=> watch[i].event # <<>>
LinksTyped == /\ link \in [Loops -> {"off", "accepted", "building", "served"}]
              /\ chan \in [Loops -> Seq(Event)]
              /\ told \in [Loops -> [Objects -> 0..MaxChanges + 1]]
              /\ owed \in [Loops -> SUBSET Objects]
ClusterTyped == /\ here \subseteq Objects
                /\ clock \in 1..MaxChanges + 1
                /\ at \in [Objects -> 0..clock]
                /\ \A o \in here : at[o] >= 1
CacheTyped == cache \in [Projects -> {"unknown", "owner", "miss"}] /\ dead \in BOOLEAN

LEMMA TypeParts ==
    Typed <=> HubTypeOK /\ WatchTyped /\ LinksTyped /\ ClusterTyped /\ CacheTyped
BY DEF Typed, StreamTypeOK, WatchTyped, Watches, LinksTyped, ClusterTyped, CacheTyped

LEMMA Kinds == \A o \in Objects : Kind(o) \in {Sandboxes, Projects} /\ o \in Kind(o)
BY DEF Kind, Objects

(* What a dispatch puts in the channels is an event of the object.         *)
LEMMA DispatchTyped ==
    ASSUME LinksTyped, NEW o \in Objects, NEW n \in 1..MaxChanges + 1,
           Dispatch(o, n)
    PROVE  chan' \in [Loops -> Seq(Event)]
<1>1. <<o, n>> \in Event
    BY DEF Event
<1> QED
    BY <1>1 DEF LinksTyped, Dispatch

(* One watch loop goes from one state of its own to another.               *)
LEMMA OneWatchTyped ==
    ASSUME WatchTyped, NEW w \in Loops, NEW v \in Watches,
           watch' = [watch EXCEPT ![w] = v],
           v.pc = "resolving" <=> v.event # <<>>
    PROVE  WatchTyped'
BY DEF WatchTyped

LEMMA HeadAndTail ==
    ASSUME NEW D, NEW s \in Seq(D), s # <<>>
    PROVE  Head(s) \in D /\ Tail(s) \in Seq(D)
OBVIOUS

LEMMA NextTyped == Typed /\ [StreamNext]_streamVars => Typed'
<1> SUFFICES ASSUME Typed, [StreamNext]_streamVars PROVE Typed'
    OBVIOUS
<1> USE HubAssumption, StreamAssumption
<1>0. HubTypeOK /\ WatchTyped /\ LinksTyped /\ ClusterTyped /\ CacheTyped
    BY TypeParts
<1>a. (HubTypeOK /\ WatchTyped /\ LinksTyped /\ ClusterTyped /\ CacheTyped)' => Typed'
    BY TypeParts, PTL
<1>c. UNCHANGED clusterVars => ClusterTyped'
    BY <1>0 DEF clusterVars, ClusterTyped
<1>w. UNCHANGED watch => WatchTyped'
    BY <1>0 DEF WatchTyped
<1>l. UNCHANGED linkVars => LinksTyped'
    BY <1>0 DEF linkVars, LinksTyped
<1>s. UNCHANGED <<cache, dead>> => CacheTyped'
    BY <1>0 DEF CacheTyped
<1>h. UNCHANGED hubVars /\ (UNCHANGED faults \/ Fault) => HubTypeOK'
    BY <1>0, HubStays
<1>1. ASSUME HubOnly(HubChoices) \/ \E i \in Loops : HubOnly(HubGoesOn(i)) PROVE Typed'
    BY <1>1, <1>0, <1>a, <1>c, <1>w, <1>l, <1>s, HubKept DEF HubOnly, serverVars
<1>2. ASSUME NEW i \in Loops, Accept(i) PROVE Typed'
    <2>1. HubTypeOK'
        BY <1>2, <1>0, HubKept DEF Accept
    <2>2. LinksTyped'
        BY <1>2, <1>0 DEF Accept, LinksTyped
    <2> QED BY <1>2, <1>a, <1>c, <1>w, <1>s, <2>1, <2>2 DEF Accept, serverVars
<1>3. ASSUME NEW i \in Loops, Turned(i) PROVE Typed'
    <2>1. HubTypeOK'
        BY <1>3, <1>0, HangUpKept DEF Turned
    <2>2. LinksTyped'
        BY <1>3, <1>0 DEF Turned, LinksTyped
    <2> QED BY <1>3, <1>a, <1>c, <1>w, <1>s, <2>1, <2>2 DEF Turned, serverVars
<1>4. ASSUME NEW i \in Loops, Subscribe(i) PROVE Typed'
    <2>1. LinksTyped'
        BY <1>4, <1>0 DEF Subscribe, LinksTyped
    <2> QED BY <1>4, <1>a, <1>c, <1>w, <1>s, <1>h, <2>1 DEF Subscribe, serverVars
<1>5. ASSUME NEW i \in Loops, SpawnLoop(i) PROVE Typed'
    <2>1. LinksTyped'
        BY <1>5, <1>0 DEF SpawnLoop, LinksTyped
    <2>2. WatchTyped'
        <3>1. CASE Spawned
            BY <1>5, <3>1, <1>w DEF SpawnLoop
        <3>2. CASE ~Spawned
            <4> DEFINE v == [watch[i] EXCEPT !.pc = "top"]
            <4>1. v \in Watches /\ v.pc = "top" /\ v.event = <<>>
                BY <1>0, <3>2 DEF WatchTyped, Watches, Spawned
            <4>2. watch' = [watch EXCEPT ![i] = v]
                BY <1>5, <3>2 DEF SpawnLoop
            <4> HIDE DEF v
            <4> QED BY <1>0, <4>1, <4>2, OneWatchTyped
        <3> QED BY <3>1, <3>2
    <2> QED BY <1>5, <1>a, <1>c, <1>s, <1>h, <2>1, <2>2 DEF SpawnLoop
<1>6. ASSUME NEW i \in Loops, Forget(i) PROVE LinksTyped'
    <2>1. 0 \in 0..MaxChanges + 1
        OBVIOUS
    <2> QED BY <1>6, <1>0, <2>1 DEF Forget, LinksTyped
<1>7. ASSUME NEW i \in Loops, BuildFails(i) PROVE Typed'
    <2>1. HubTypeOK'
        BY <1>7, <1>0, HangUpKept DEF BuildFails
    <2>2. LinksTyped' /\ CacheTyped'
        BY <1>7, <1>6, <1>0 DEF BuildFails, CacheTyped
    <2> QED BY <1>7, <1>a, <1>c, <1>w, <2>1, <2>2 DEF BuildFails
<1>8. ASSUME NEW i \in Loops, Leave(i) PROVE Typed'
    BY <1>8, <1>6, <1>a, <1>c, <1>w, <1>s, <1>h DEF Leave, serverVars
<1>9. ASSUME NEW i \in Loops, Deliver(i) PROVE Typed'
    <2>1. Head(chan[i]) \in Objects \X (1..MaxChanges + 1) /\ Tail(chan[i]) \in Seq(Event)
        BY <1>9, <1>0 DEF Deliver, LinksTyped, Event
    <2>2. chan' \in [Loops -> Seq(Event)]
        BY <1>9, <1>0, <2>1 DEF Deliver, LinksTyped
    <2>3. told' \in [Loops -> [Objects -> 0..MaxChanges + 1]]
        <3> DEFINE o == Head(chan[i])[1]  n == Head(chan[i])[2]
        <3>1. o \in Objects /\ n \in 0..MaxChanges + 1
            BY <2>1
        <3>2. told' = [told EXCEPT ![i][o] = n]
            BY <1>9 DEF Deliver
        <3> HIDE DEF o, n
        <3> QED BY <1>0, <3>1, <3>2 DEF LinksTyped
    <2>4. LinksTyped'
        BY <1>9, <1>0, <2>2, <2>3 DEF Deliver, LinksTyped
    <2> QED BY <1>9, <1>a, <1>c, <1>w, <1>s, <1>h, <2>4 DEF Deliver, serverVars
<1>10. ASSUME NEW w \in Loops, StartStream(w) PROVE Typed'
    <2> DEFINE v == [watch[w] EXCEPT !.pc = "streaming"]
    <2>1. v \in Watches /\ v.pc = "streaming" /\ v.event = <<>>
        BY <1>0, <1>10 DEF StartStream, WatchTyped, Watches
    <2>2. watch' = [watch EXCEPT ![w] = v]
        BY <1>10 DEF StartStream
    <2> HIDE DEF v
    <2>3. WatchTyped'
        BY <1>0, <2>1, <2>2, OneWatchTyped
    <2> QED BY <1>10, <1>a, <1>c, <1>l, <1>s, <1>h, <2>3 DEF StartStream
<1>11. ASSUME NEW w \in Loops, StreamError(w) PROVE Typed'
    <2> DEFINE v == [NoWatch EXCEPT !.pc = "top"]
    <2>1. v \in Watches /\ v.pc = "top" /\ v.event = <<>>
        <3>1. NoEvents \in [Objects -> Seq(1..MaxChanges + 1)]
            BY DEF NoEvents
        <3>2. NoWatch \in Watches /\ NoWatch.event = <<>>
            BY <3>1 DEF NoWatch, Watches
        <3> QED BY <3>2 DEF Watches
    <2>2. watch' = [watch EXCEPT ![w] = v]
        BY <1>11 DEF StreamError
    <2> HIDE DEF v
    <2>3. WatchTyped'
        BY <1>0, <2>1, <2>2, OneWatchTyped
    <2> QED BY <1>11, <1>a, <1>c, <1>l, <1>s, <1>h, <2>3 DEF StreamError
<1>12. ASSUME NEW w \in Loops, NEW kind \in {Sandboxes, Projects}, ListKind(w, kind)
       PROVE  Typed'
    <2> DEFINE b == [o \in Objects |-> IF o \in kind \cap here THEN <<at[o]>>
                                       ELSE watch[w].backlog[o]]
               v == [watch[w] EXCEPT !.listed = @ \cup {kind}, !.backlog = b]
    <2>1. b \in [Objects -> Seq(1..MaxChanges + 1)]
        <3>1. \A o \in here : at[o] \in 1..MaxChanges + 1
            BY <1>0 DEF ClusterTyped
        <3>2. \A o \in Objects : watch[w].backlog[o] \in Seq(1..MaxChanges + 1)
            BY <1>0 DEF WatchTyped, Watches
        <3>3. \A n \in 1..MaxChanges + 1 : <<n>> \in Seq(1..MaxChanges + 1)
            OBVIOUS
        <3>4. \A o \in Objects : b[o] \in Seq(1..MaxChanges + 1)
            BY <3>1, <3>2, <3>3
        <3> QED BY <3>4
    <2>2. watch' = [watch EXCEPT ![w] = v]
        BY <1>12 DEF ListKind
    <2> HIDE DEF b
    <2>3. v \in Watches /\ v.pc = watch[w].pc /\ v.event = watch[w].event
        BY <1>0, <2>1 DEF WatchTyped, Watches
    <2> HIDE DEF v
    <2>4. WatchTyped'
        <3>1. v.pc = "resolving" <=> v.event # <<>>
            BY <1>0, <2>3 DEF WatchTyped
        <3> QED BY <1>0, <3>1, <2>2, <2>3, OneWatchTyped
    <2> QED BY <1>12, <1>a, <1>c, <1>l, <1>s, <1>h, <2>4 DEF ListKind
<1>13. ASSUME NEW w \in Loops, NEW o \in Objects, TakeEvent(w, o) PROVE Typed'
    <2> DEFINE n == Head(watch[w].backlog[o])
               b == [watch[w].backlog EXCEPT ![o] = Tail(@)]
               v == [watch[w] EXCEPT !.backlog = b]
               x == [v EXCEPT !.pc = "resolving"]
               u == [x EXCEPT !.event = <<o, n>>]
    <2>1. n \in 1..MaxChanges + 1 /\ Tail(watch[w].backlog[o]) \in Seq(1..MaxChanges + 1)
        <3>1. watch[w].backlog[o] \in Seq(1..MaxChanges + 1) /\ watch[w].backlog[o] # <<>>
            BY <1>0, <1>13 DEF TakeEvent, WatchTyped, Watches
        <3> QED BY <3>1, HeadAndTail
    <2>2. b \in [Objects -> Seq(1..MaxChanges + 1)]
        BY <1>0, <2>1 DEF WatchTyped, Watches
    <2>3. watch[w].pc = "streaming" /\ watch[w].event = <<>>
        BY <1>0, <1>13 DEF TakeEvent, WatchTyped
    <2>4. \/ Dispatch(o, n) /\ watch' = [watch EXCEPT ![w] = v]
          \/ UNCHANGED chan /\ watch' = [watch EXCEPT ![w] = v]
          \/ UNCHANGED chan /\ watch' = [watch EXCEPT ![w] = u]
        BY <1>13 DEF TakeEvent
    <2>5. <<o, n>> \in Event /\ <<o, n>> # <<>>
        BY <2>1 DEF Event
    <2> HIDE DEF b, n
    <2>6. v \in Watches /\ v.pc = "streaming" /\ v.event = <<>>
        BY <1>0, <2>2, <2>3 DEF WatchTyped, Watches
    <2>7. u \in Watches /\ u.pc = "resolving" /\ u.event # <<>>
        <3>1. x \in Watches /\ x.pc = "resolving"
            BY <2>6 DEF Watches
        <3> HIDE DEF x
        <3> QED BY <2>5, <3>1 DEF Watches
    <2> HIDE DEF v, x, u
    <2>8. WatchTyped'
        BY <1>0, <2>4, <2>6, <2>7, OneWatchTyped
    <2>9. LinksTyped'
        <3>1. chan' \in [Loops -> Seq(Event)]
            BY <1>0, <2>1, <2>4, DispatchTyped DEF LinksTyped
        <3> QED BY <1>0, <1>13, <3>1 DEF TakeEvent, LinksTyped
    <2> QED BY <1>13, <1>a, <1>c, <1>s, <1>h, <2>8, <2>9 DEF TakeEvent
<1>14. ASSUME NEW w \in Loops, Resolve(w) PROVE Typed'
    <2> DEFINE o == watch[w].event[1]
               n == watch[w].event[2]
               v == [watch[w] EXCEPT !.pc = "streaming", !.event = <<>>]
    <2>1. watch[w].event \in Event
        BY <1>0, <1>14 DEF Resolve, WatchTyped, Watches
    <2>2. o \in Objects /\ n \in 1..MaxChanges + 1
        BY <2>1 DEF Event
    <2>3. v \in Watches /\ v.pc = "streaming" /\ v.event = <<>>
        BY <1>0 DEF WatchTyped, Watches
    <2>4. /\ watch' = [watch EXCEPT ![w] = v]
          /\ Dispatch(o, n) \/ UNCHANGED chan
          /\ \/ cache' = [cache EXCEPT ![ProjectOf[o]] = "owner"]
             \/ cache' = [cache EXCEPT ![ProjectOf[o]] = "miss"]
          /\ UNCHANGED faults \/ Fault
        BY <1>14 DEF Resolve
    <2> HIDE DEF o, n, v
    <2>5. WatchTyped'
        BY <1>0, <2>3, <2>4, OneWatchTyped
    <2>6. LinksTyped'
        <3>1. chan' \in [Loops -> Seq(Event)]
            BY <1>0, <2>2, <2>4, DispatchTyped DEF LinksTyped
        <3> QED BY <1>0, <1>14, <3>1 DEF Resolve, LinksTyped
    <2>7. CacheTyped'
        BY <1>0, <1>14, <2>4 DEF Resolve, CacheTyped
    <2> QED BY <1>14, <1>a, <1>c, <1>h, <2>4, <2>5, <2>6, <2>7 DEF Resolve
<1>15. ASSUME NEW o \in Objects, NEW exists \in BOOLEAN, ObjectChanges(o, exists)
       PROVE  Typed'
    <2>1. clock' = clock + 1 /\ clock' \in 1..MaxChanges + 1
        BY <1>0, <1>15 DEF ObjectChanges, ClusterTyped
    <2>2. ClusterTyped'
        BY <1>0, <1>15, <2>1 DEF ObjectChanges, ClusterTyped
    <2>3. ASSUME NEW w \in Loops
          PROVE  watch'[w] \in Watches /\ UNCHANGED <<watch[w].pc, watch[w].event>>
        <3> DEFINE b == [watch[w].backlog EXCEPT ![o] = Append(@, clock + 1)]
                   v == [watch[w] EXCEPT !.backlog = b]
        <3>1. watch'[w] = watch[w] \/ watch'[w] = v
            BY <1>15 DEF ObjectChanges
        <3>2. b \in [Objects -> Seq(1..MaxChanges + 1)]
            BY <1>0, <2>1 DEF WatchTyped, Watches
        <3> HIDE DEF b
        <3>3. v \in Watches /\ v.pc = watch[w].pc /\ v.event = watch[w].event
            BY <1>0, <3>2 DEF WatchTyped, Watches
        <3> QED BY <1>0, <3>1, <3>3 DEF WatchTyped
    <2>4. WatchTyped'
        <3>1. watch' \in [Loops -> Watches]
            BY <1>15, <2>3 DEF ObjectChanges
        <3> QED BY <1>0, <2>3, <3>1 DEF WatchTyped
    <2>5. LinksTyped'
        BY <1>0, <1>15 DEF ObjectChanges, LinksTyped
    <2> QED BY <1>15, <1>a, <1>s, <1>h, <2>2, <2>4, <2>5 DEF ObjectChanges
<1>16. ASSUME UNCHANGED streamVars PROVE Typed'
    BY <1>16, <1>a, <1>c, <1>w, <1>l, <1>s, <1>h DEF streamVars, serverVars
<1> QED
    BY <1>1, <1>2, <1>3, <1>4, <1>5, <1>7, <1>8, <1>9, <1>10, <1>11, <1>12, <1>13, <1>14,
       <1>15, <1>16 DEF StreamNext, Handler, WatchLoop

(* The variables of the stream, its hubs, its sockets and its watch loops   *)
(* have their types (StreamTypeOK).                                         *)
THEOREM StreamTypeCorrect == StreamSpec => []StreamTypeOK
<1>1. Typed => StreamTypeOK
    BY DEF Typed
<1> QED
    BY <1>1, InitTyped, NextTyped, PTL DEF StreamSpec

-----------------------------------------------------------------------------
(* The order.  What a connection was sent of an object, or will be, is at   *)
(* most n.                                                                  *)
Sent(i, o, n) ==
    /\ told[i][o] <= n
    /\ \A k \in 1..Len(chan[i]) : chan[i][k][1] = o => chan[i][k][2] <= n

(* A time that may still be sent of an object: its state, a change its      *)
(* watch holds, the event whose owner is being resolved.                    *)
Coming(o, n) ==
    \/ n = at[o]
    \/ \E w \in Loops : \E k \in 1..Len(watch[w].backlog[o]) : n = watch[w].backlog[o][k]
    \/ \E w \in Loops : watch[w].event # <<>> /\ watch[w].event[1] = o /\ watch[w].event[2] = n

(* ensure_watch_loop spawned at most one loop, and a connection that        *)
(* spawned none holds nothing of the watches.                               *)
OneLoop ==
    /\ \A v, w \in Loops : watch[v].pc # "none" /\ watch[w].pc # "none" => v = w
    /\ \A w \in Loops : watch[w].pc = "none" =>
           watch[w].listed = {} /\ \A o \in Objects : watch[w].backlog[o] = <<>>

(* The event in hand, the changes held and the state of an object are in    *)
(* the order of time.                                                       *)
Lined(w, o) ==
    /\ \A k \in 1..Len(watch[w].backlog[o]) : watch[w].backlog[o][k] <= at[o]
    /\ \A k, m \in 1..Len(watch[w].backlog[o]) :
           k < m => watch[w].backlog[o][k] <= watch[w].backlog[o][m]
    /\ watch[w].event # <<>> /\ watch[w].event[1] = o =>
           /\ watch[w].event[2] <= at[o]
           /\ \A k \in 1..Len(watch[w].backlog[o]) : watch[w].event[2] <= watch[w].backlog[o][k]

SentInOrder(i) ==
    /\ \A k \in 1..Len(chan[i]) : told[i][chan[i][k][1]] <= chan[i][k][2]
    /\ \A k, m \in 1..Len(chan[i]) :
           k < m /\ chan[i][k][1] = chan[i][m][1] => chan[i][k][2] <= chan[i][m][2]

Times == 0..MaxChanges + 1

(* What was sent is in order, and nothing to come is before it.             *)
Ordered ==
    /\ OneLoop
    /\ \A w \in Loops, o \in Objects : Lined(w, o)
    /\ \A i \in Loops : SentInOrder(i)
    /\ \A i \in Loops, o \in Objects, n \in Times : Coming(o, n) => Sent(i, o, n)

LEMMA InitOrdered == StreamInit => Ordered
<1> SUFFICES ASSUME StreamInit PROVE Ordered
    OBVIOUS
<1>1. \A w \in Loops : /\ watch[w].pc = "none" /\ watch[w].listed = {}
                       /\ watch[w].event = <<>>
                       /\ \A o \in Objects : watch[w].backlog[o] = <<>>
    BY DEF StreamInit, NoWatch, NoEvents
<1>2. \A i \in Loops : chan[i] = <<>> /\ \A o \in Objects : told[i][o] = 0
    BY DEF StreamInit
<1>3. OneLoop
    BY <1>1 DEF OneLoop
<1>4. \A w \in Loops, o \in Objects : Lined(w, o)
    BY <1>1 DEF Lined
<1>5. \A i \in Loops : SentInOrder(i)
    BY <1>2 DEF SentInOrder
<1>6. \A i \in Loops, o \in Objects, n \in Times : Sent(i, o, n)
    BY <1>2 DEF Sent, Times
<1> QED
    BY <1>3, <1>4, <1>5, <1>6 DEF Ordered

LEMMA Later ==
    ASSUME Typed, NEW i \in Loops, NEW o \in Objects,
           NEW m \in Times, NEW n \in Times, Sent(i, o, m), m <= n
    PROVE  Sent(i, o, n)
<1>1. told[i][o] \in Nat /\ \A k \in 1..Len(chan[i]) : chan[i][k][2] \in Nat
    <2>1. chan[i] \in Seq(Event) /\ told[i][o] \in 0..MaxChanges + 1
        BY DEF Typed, StreamTypeOK
    <2>2. \A k \in 1..Len(chan[i]) : chan[i][k] \in Objects \X (1..MaxChanges + 1)
        BY <2>1 DEF Event
    <2> QED BY <2>1, <2>2, StreamAssumption
<1> QED
    BY <1>1, StreamAssumption DEF Sent, Times

(* What the watches hold, in the terms of the type.                        *)
LEMMA Held ==
    ASSUME Typed
    PROVE  /\ \A o \in Objects : at[o] \in Times /\ at[o] <= clock
           /\ \A w \in Loops, o \in Objects :
                  /\ watch[w].backlog[o] \in Seq(Times)
                  /\ \A k \in 1..Len(watch[w].backlog[o]) : watch[w].backlog[o][k] \in Times
           /\ \A w \in Loops : watch[w].event # <<>> =>
                  watch[w].event[1] \in Objects /\ watch[w].event[2] \in Times
           /\ \A i \in Loops : \A k \in 1..Len(chan[i]) :
                  chan[i][k][1] \in Objects /\ chan[i][k][2] \in Times
           /\ \A i \in Loops, o \in Objects : told[i][o] \in Times
<1> USE StreamAssumption DEF Times
<1>1. ClusterTyped /\ WatchTyped /\ LinksTyped
    BY TypeParts
<1>2. \A o \in Objects : at[o] \in Times /\ at[o] <= clock
    BY <1>1 DEF ClusterTyped
<1>3. \A w \in Loops, o \in Objects :
          /\ watch[w].backlog[o] \in Seq(1..MaxChanges + 1)
          /\ watch[w].event \in Event \cup {<<>>}
    BY <1>1 DEF WatchTyped, Watches
<1>4. \A i \in Loops : \A k \in 1..Len(chan[i]) : chan[i][k] \in Event
    BY <1>1 DEF LinksTyped
<1>5. \A w \in Loops : watch[w].event # <<>> => watch[w].event \in Event
    BY <1>1 DEF WatchTyped, Watches
<1>6. \A i \in Loops, o \in Objects : told[i][o] \in Times
    BY <1>1 DEF LinksTyped
<1>7. \A w \in Loops, o \in Objects :
          /\ watch[w].backlog[o] \in Seq(Times)
          /\ \A k \in 1..Len(watch[w].backlog[o]) : watch[w].backlog[o][k] \in Times
    BY <1>3
<1> QED
    BY <1>2, <1>4, <1>5, <1>6, <1>7 DEF Event

(* A step that sends nothing, and before which something earlier was to     *)
(* come than after it.                                                      *)
LEMMA NothingSent ==
    ASSUME Typed, Ordered, UNCHANGED <<chan, told>>,
           \A o \in Objects, n \in Times : Coming(o, n)' => \E m \in Times : Coming(o, m) /\ m <= n
    PROVE  /\ \A i \in Loops : SentInOrder(i)'
           /\ \A i \in Loops, o \in Objects, n \in Times : Coming(o, n)' => Sent(i, o, n)'
<1>1. \A i \in Loops : SentInOrder(i)'
    BY DEF Ordered, SentInOrder
<1>2. ASSUME NEW i \in Loops, NEW o \in Objects, NEW n \in Times, Coming(o, n)'
      PROVE  Sent(i, o, n)'
    <2>1. PICK m \in Times : Coming(o, m) /\ m <= n
        BY <1>2
    <2>2. Sent(i, o, n)
        BY <2>1, Later DEF Ordered
    <2> QED BY <2>2 DEF Sent
<1> QED
    BY <1>1, <1>2

(* A step that dispatches what was to come, after which nothing earlier of  *)
(* the object is to come.                                                   *)
LEMMA OneSent ==
    ASSUME Typed, Ordered, NEW o \in Objects, NEW n \in Times, Coming(o, n),
           Dispatch(o, n), UNCHANGED told,
           \A p \in Objects, m \in Times : Coming(p, m)' => Coming(p, m) /\ (p = o => n <= m)
    PROVE  /\ \A i \in Loops : SentInOrder(i)'
           /\ \A i \in Loops, p \in Objects, m \in Times : Coming(p, m)' => Sent(i, p, m)'
<1>1. ASSUME NEW i \in Loops
      PROVE  /\ chan[i] \in Seq(Event)
             /\ \/ chan'[i] = chan[i]
                \/ chan'[i] = Append(chan[i], <<o, n>>)
    BY TypeParts DEF LinksTyped, Dispatch
<1>2. \A i \in Loops : Sent(i, o, n)
    BY DEF Ordered
<1>3. ASSUME NEW i \in Loops PROVE SentInOrder(i)'
    <2>1. SentInOrder(i) /\ Sent(i, o, n)
        BY <1>2 DEF Ordered
    <2>2. CASE chan'[i] = chan[i]
        BY <2>1, <2>2 DEF SentInOrder
    <2>3. CASE chan'[i] = Append(chan[i], <<o, n>>)
        <3>1. /\ Len(chan'[i]) = Len(chan[i]) + 1
              /\ \A k \in 1..Len(chan[i]) : chan'[i][k] = chan[i][k]
              /\ chan'[i][Len(chan[i]) + 1] = <<o, n>>
              /\ Len(chan[i]) \in Nat
            BY <1>1, <2>3
        <3>2. \A k \in 1..Len(chan[i]) : /\ chan[i][k][1] = o => chan[i][k][2] <= n
                                         /\ told[i][chan[i][k][1]] <= chan[i][k][2]
            BY <2>1 DEF Sent, SentInOrder
        <3>3. \A k, m \in 1..Len(chan[i]) :
                  k < m /\ chan[i][k][1] = chan[i][m][1] => chan[i][k][2] <= chan[i][m][2]
            BY <2>1 DEF SentInOrder
        <3>4. told[i][o] <= n /\ told' = told
            BY <2>1 DEF Sent
        <3> DEFINE e == <<o, n>>
        <3>5. e[1] = o /\ e[2] = n
            OBVIOUS
        <3>6. ASSUME NEW k \in 1..Len(chan'[i])
              PROVE  told'[i][chan'[i][k][1]] <= chan'[i][k][2]
            <4>1. CASE k \in 1..Len(chan[i])
                BY <3>1, <3>2, <3>4, <4>1
            <4>2. CASE k = Len(chan[i]) + 1
                BY <3>1, <3>4, <3>5, <4>2
            <4> QED BY <3>1, <4>1, <4>2
        <3>7. ASSUME NEW k \in 1..Len(chan'[i]), NEW m \in 1..Len(chan'[i]), k < m,
                     chan'[i][k][1] = chan'[i][m][1]
              PROVE  chan'[i][k][2] <= chan'[i][m][2]
            <4>1. k \in 1..Len(chan[i])
                BY <3>1, <3>7
            <4>2. CASE m \in 1..Len(chan[i])
                BY <3>1, <3>3, <3>7, <4>1, <4>2
            <4>3. CASE m = Len(chan[i]) + 1
                BY <3>1, <3>2, <3>5, <3>7, <4>1, <4>3
            <4> QED BY <3>1, <4>2, <4>3
        <3> QED BY <3>6, <3>7 DEF SentInOrder
    <2> QED BY <1>1, <2>2, <2>3
<1>4. ASSUME NEW i \in Loops, NEW p \in Objects, NEW m \in Times, Coming(p, m)'
      PROVE  Sent(i, p, m)'
    <2>1. Sent(i, p, m) /\ (p = o => n <= m)
        BY <1>4 DEF Ordered
    <2>2. CASE chan'[i] = chan[i]
        BY <2>1, <2>2 DEF Sent
    <2>3. CASE chan'[i] = Append(chan[i], <<o, n>>)
        <3>1. /\ Len(chan'[i]) = Len(chan[i]) + 1
              /\ \A k \in 1..Len(chan[i]) : chan'[i][k] = chan[i][k]
              /\ chan'[i][Len(chan[i]) + 1] = <<o, n>>
              /\ Len(chan[i]) \in Nat
            BY <1>1, <2>3
        <3> QED BY <2>1, <3>1 DEF Sent
    <2> QED BY <1>1, <2>2, <2>3
<1> QED
    BY <1>3, <1>4

(* The browser takes an event: it is the first of its object, and none of   *)
(* that object that follows is before it.                                   *)
LEMMA DeliverKept ==
    ASSUME Typed, Ordered, NEW i \in Loops, Deliver(i)
    PROVE  \A j \in Loops :
               /\ SentInOrder(j)'
               /\ \A o \in Objects, n \in Times : Sent(j, o, n) => Sent(j, o, n)'
<1>1. ASSUME NEW j \in Loops, j # i PROVE chan'[j] = chan[j] /\ told'[j] = told[j]
    BY <1>1, TypeParts DEF Deliver, LinksTyped
<1>2. chan[i] \in Seq(Event) /\ chan[i] # <<>>
    BY TypeParts DEF Deliver, LinksTyped
<1> DEFINE p == Head(chan[i])[1]
           t == Head(chan[i])[2]
<1>3. /\ Len(chan[i]) \in Nat /\ Len(chan[i]) >= 1
      /\ chan'[i] = Tail(chan[i])
      /\ Len(chan'[i]) = Len(chan[i]) - 1
      /\ \A k \in 1..Len(chan[i]) - 1 : chan'[i][k] = chan[i][k + 1]
      /\ p = chan[i][1][1] /\ t = chan[i][1][2]
    <2>1. chan'[i] = Tail(chan[i])
        BY TypeParts DEF Deliver, LinksTyped
    <2> QED BY <1>2, <2>1
<1>4. \A o \in Objects : told'[i][o] = IF o = p THEN t ELSE told[i][o]
    BY TypeParts DEF Deliver, LinksTyped
<1>5. \A k \in 1..Len(chan[i]) : chan[i][k][1] \in Objects /\ chan[i][k][2] \in Times
    BY Held
<1>6. SentInOrder(i)
    BY DEF Ordered
<1> HIDE DEF p, t
<1>7. SentInOrder(i)'
    <2>1. ASSUME NEW k \in 1..Len(chan'[i]) PROVE told'[i][chan'[i][k][1]] <= chan'[i][k][2]
        <3>1. k + 1 \in 1..Len(chan[i]) /\ chan'[i][k] = chan[i][k + 1] /\ 1 \in 1..Len(chan[i])
            BY <1>3, <2>1
        <3> QED BY <1>3, <1>4, <1>5, <1>6, <3>1 DEF SentInOrder
    <2>2. ASSUME NEW k \in 1..Len(chan'[i]), NEW m \in 1..Len(chan'[i]), k < m,
                 chan'[i][k][1] = chan'[i][m][1]
          PROVE  chan'[i][k][2] <= chan'[i][m][2]
        <3>1. /\ k + 1 \in 1..Len(chan[i]) /\ chan'[i][k] = chan[i][k + 1]
              /\ m + 1 \in 1..Len(chan[i]) /\ chan'[i][m] = chan[i][m + 1]
              /\ k + 1 < m + 1
            BY <1>3, <2>2
        <3> QED BY <1>6, <2>2, <3>1 DEF SentInOrder
    <2> QED BY <2>1, <2>2 DEF SentInOrder
<1>8. ASSUME NEW o \in Objects, NEW n \in Times, Sent(i, o, n) PROVE Sent(i, o, n)'
    <2>1. told'[i][o] <= n
        BY <1>3, <1>4, <1>8 DEF Sent
    <2>2. ASSUME NEW k \in 1..Len(chan'[i]), chan'[i][k][1] = o PROVE chan'[i][k][2] <= n
        <3>1. k + 1 \in 1..Len(chan[i]) /\ chan'[i][k] = chan[i][k + 1]
            BY <1>3, <2>2
        <3> QED BY <1>8, <2>2, <3>1 DEF Sent
    <2> QED BY <2>1, <2>2 DEF Sent
<1> QED
    BY <1>1, <1>7, <1>8 DEF Ordered, SentInOrder, Sent

(* What is forgotten with a connection is all it was sent.                 *)
LEMMA ForgetKept ==
    ASSUME Typed, Ordered, NEW i \in Loops, Forget(i)
    PROVE  \A j \in Loops :
               /\ SentInOrder(j)'
               /\ \A o \in Objects, n \in Times : Sent(j, o, n) => Sent(j, o, n)'
<1>1. ASSUME NEW j \in Loops, j # i PROVE chan'[j] = chan[j] /\ told'[j] = told[j]
    BY <1>1, TypeParts DEF Forget, LinksTyped
<1>2. chan'[i] = <<>> /\ \A o \in Objects : told'[i][o] = 0
    BY TypeParts DEF Forget, LinksTyped
<1> QED
    BY <1>1, <1>2 DEF Ordered, SentInOrder, Sent, Times

(* A step after which the watches hold what they held.                     *)
LEMMA HoldsSame ==
    ASSUME Ordered, UNCHANGED at,
           \A w \in Loops : /\ watch'[w].backlog = watch[w].backlog
                            /\ watch'[w].event = watch[w].event
    PROVE  /\ \A w \in Loops, o \in Objects : Lined(w, o)'
           /\ \A o \in Objects, n \in Times : Coming(o, n)' <=> Coming(o, n)
<1>1. \A w \in Loops, o \in Objects : Lined(w, o)'
    BY DEF Ordered, Lined
<1>2. \A o \in Objects, n \in Times : Coming(o, n)' <=> Coming(o, n)
    BY DEF Coming
<1> QED
    BY <1>1, <1>2

(* A watch loop at work is the only one, and nobody else holds anything.    *)
LEMMA NobodyElse ==
    ASSUME Typed, OneLoop, NEW w \in Loops, watch[w].pc # "none",
           NEW u \in Loops, u # w
    PROVE  /\ watch[u].pc = "none" /\ watch[u].listed = {} /\ watch[u].event = <<>>
           /\ \A o \in Objects : watch[u].backlog[o] = <<>>
BY DEF OneLoop, Typed, StreamTypeOK

LEMMA SameLoop ==
    ASSUME Typed, OneLoop, NEW w \in Loops, watch[w].pc # "none",
           NEW v, watch' = [watch EXCEPT ![w] = v], watch'[w].pc # "none"
    PROVE  OneLoop'
<1>1. \A u \in Loops : u # w => watch'[u] = watch[u] /\ watch[u].pc = "none"
    BY NobodyElse, TypeParts DEF WatchTyped
<1>2. ASSUME NEW u \in Loops, watch'[u].pc = "none"
      PROVE  watch'[u].listed = {} /\ \A o \in Objects : watch'[u].backlog[o] = <<>>
    BY <1>1, <1>2 DEF OneLoop
<1> QED
    BY <1>1, <1>2 DEF OneLoop

(* The watch loop takes a change from what it holds: what it holds then is  *)
(* what it held, without its first, or with its first in hand.              *)
LEMMA TakeHeld ==
    ASSUME Typed, Ordered, NEW w \in Loops, NEW o \in Objects, TakeEvent(w, o)
    PROVE  LET n == Head(watch[w].backlog[o])
           IN  /\ n \in Times /\ Coming(o, n)
               /\ OneLoop'
               /\ \A u \in Loops, p \in Objects : Lined(u, p)'
               /\ \A p \in Objects, m \in Times :
                      Coming(p, m)' => Coming(p, m) /\ (p = o => n <= m)
               /\ Dispatch(o, n) \/ UNCHANGED chan
<1> DEFINE q == watch[w].backlog[o]
           n == Head(q)
<1>1. WatchTyped /\ watch[w].pc = "streaming" /\ q # <<>>
    BY TypeParts DEF TakeEvent
<1>2. /\ q \in Seq(Times) /\ Len(q) \in Nat /\ Len(q) >= 1 /\ n = q[1]
      /\ Len(Tail(q)) = Len(q) - 1
      /\ \A k \in 1..Len(q) - 1 : Tail(q)[k] = q[k + 1]
      /\ \A k \in 1..Len(q) : q[k] \in Times
    <2>1. q \in Seq(Times) /\ \A k \in 1..Len(q) : q[k] \in Times
        BY Held
    <2> QED BY <1>1, <2>1
<1>3. watch[w].event = <<>>
    BY <1>1 DEF WatchTyped
<1>4. \A u \in Loops : u # w =>
          /\ watch'[u] = watch[u] /\ watch[u].event = <<>>
          /\ \A p \in Objects : watch[u].backlog[p] = <<>>
    <2>1. \A u \in Loops : u # w => watch'[u] = watch[u]
        BY <1>1 DEF TakeEvent, WatchTyped
    <2> QED BY <1>1, <2>1, NobodyElse DEF Ordered
<1>5. \A p \in Objects : watch'[w].backlog[p] = IF p = o THEN Tail(q) ELSE watch[w].backlog[p]
    <2>1. watch'[w].backlog = [watch[w].backlog EXCEPT ![o] = Tail(@)]
        BY <1>1 DEF TakeEvent, WatchTyped, Watches
    <2> QED BY <1>1, <2>1 DEF WatchTyped, Watches
<1>6. watch'[w].event = <<>> \/ watch'[w].event = <<o, n>>
    BY <1>1, <1>3 DEF TakeEvent, WatchTyped, Watches
<1>8. at' = at /\ (Dispatch(o, n) \/ UNCHANGED chan)
    BY DEF TakeEvent, clusterVars
<1>9. /\ Lined(w, o) /\ Coming(o, n) /\ n \in Times
      /\ n <= at[o] /\ \A k \in 1..Len(q) : n <= q[k]
    <2>1. Lined(w, o)
        BY DEF Ordered
    <2>2. 1 \in 1..Len(q) /\ n \in Times
        BY <1>2
    <2>3. Coming(o, n)
        BY <1>2, <2>2 DEF Coming
    <2>4. \A k \in 1..Len(q) : n <= q[k]
        <3>1. ASSUME NEW k \in 1..Len(q), k # 1 PROVE n <= q[k]
            BY <1>2, <2>1, <2>2, <3>1 DEF Lined
        <3> QED BY <1>2, <3>1 DEF Times
    <2> QED BY <1>2, <2>1, <2>2, <2>3, <2>4 DEF Lined
<1>10. OneLoop'
    <2>1. PICK v : watch' = [watch EXCEPT ![w] = v]
        BY DEF TakeEvent
    <2>2. watch'[w].pc # "none"
        BY <1>1 DEF TakeEvent, WatchTyped, Watches
    <2> QED BY <1>1, <2>1, <2>2, SameLoop DEF Ordered
<1> HIDE DEF n, q
<1>11. ASSUME NEW u \in Loops, NEW p \in Objects PROVE Lined(u, p)'
    <2>1. Lined(u, p)
        BY DEF Ordered
    <2>2. CASE u # w
        BY <1>4, <1>8, <2>1, <2>2 DEF Lined
    <2>3. CASE u = w /\ p # o
        <3>1. watch'[w].backlog[p] = watch[w].backlog[p]
            BY <1>5, <2>3
        <3>2. watch'[w].event = <<>> \/ watch'[w].event[1] # p
            BY <1>6, <2>3
        <3> QED BY <1>8, <2>1, <2>3, <3>1, <3>2 DEF Lined
    <2>4. CASE u = w /\ p = o
        <3>1. watch'[w].backlog[o] = Tail(q)
            BY <1>5
        <3>2. \A k \in 1..Len(Tail(q)) : k + 1 \in 1..Len(q) /\ Tail(q)[k] = q[k + 1]
            BY <1>2
        <3>3. \A k \in 1..Len(q) : q[k] <= at[o]
            BY <1>9 DEF Lined, q
        <3>4. \A k, m \in 1..Len(q) : k < m => q[k] <= q[m]
            BY <1>9 DEF Lined, q
        <3>5. \A k \in 1..Len(Tail(q)) : Tail(q)[k] <= at[o] /\ n <= Tail(q)[k]
            BY <1>9, <3>2, <3>3
        <3>6. \A k, m \in 1..Len(Tail(q)) : k < m => Tail(q)[k] <= Tail(q)[m]
            <4>1. ASSUME NEW k \in 1..Len(Tail(q)), NEW m \in 1..Len(Tail(q)), k < m
                  PROVE  Tail(q)[k] <= Tail(q)[m]
                <5>1. k + 1 < m + 1
                    BY <1>2, <4>1
                <5> QED BY <3>2, <3>4, <5>1
            <4> QED BY <4>1
        <3>7. watch'[w].event # <<>> => watch'[w].event[2] = n
            BY <1>6
        <3> QED BY <1>8, <1>9, <2>4, <3>1, <3>5, <3>6, <3>7 DEF Lined
    <2> QED BY <2>2, <2>3, <2>4
<1>12. ASSUME NEW p \in Objects, NEW m \in Times, Coming(p, m)'
       PROVE  Coming(p, m) /\ (p = o => n <= m)
    <2>1. CASE m = at[p]
        BY <1>9, <2>1 DEF Coming
    <2>2. CASE \E k \in 1..Len(watch'[w].backlog[p]) : m = watch'[w].backlog[p][k]
        <3>1. CASE p = o
            <4>1. PICK k \in 1..Len(Tail(q)) : m = Tail(q)[k]
                BY <1>5, <2>2, <3>1
            <4>2. k + 1 \in 1..Len(q) /\ m = q[k + 1]
                BY <1>2, <4>1
            <4> QED BY <1>9, <3>1, <4>2 DEF Coming, q
        <3>2. CASE p # o
            BY <1>5, <2>2, <3>2 DEF Coming
        <3> QED BY <3>1, <3>2
    <2>3. CASE watch'[w].event # <<>> /\ watch'[w].event[1] = p /\ watch'[w].event[2] = m
        <3>1. p = o /\ m = n
            BY <1>6, <2>3
        <3> QED BY <1>9, <3>1 DEF Times
    <2>4. ASSUME NEW u \in Loops, u # w
          PROVE  /\ Len(watch'[u].backlog[p]) = 0
                 /\ watch'[u].event = <<>>
        BY <1>4, <2>4
    <2> QED BY <1>8, <1>12, <2>1, <2>2, <2>3, <2>4 DEF Coming
<1> QED
    BY <1>8, <1>9, <1>10, <1>11, <1>12 DEF n, q

(* The owner of the event in hand is known, and the event is dispatched or  *)
(* dropped.                                                                 *)
LEMMA ResolveHeld ==
    ASSUME Typed, Ordered, NEW w \in Loops, Resolve(w)
    PROVE  LET o == watch[w].event[1]
               n == watch[w].event[2]
           IN  /\ o \in Objects /\ n \in Times /\ Coming(o, n)
               /\ OneLoop'
               /\ \A u \in Loops, p \in Objects : Lined(u, p)'
               /\ \A p \in Objects, m \in Times :
                      Coming(p, m)' => Coming(p, m) /\ (p = o => n <= m)
               /\ Dispatch(o, n) \/ UNCHANGED chan
<1> DEFINE o == watch[w].event[1]
           n == watch[w].event[2]
<1>1. WatchTyped /\ watch[w].pc = "resolving" /\ watch[w].event # <<>>
    BY TypeParts DEF Resolve, WatchTyped
<1>2. o \in Objects /\ n \in Times
    BY <1>1, Held
<1>3. Coming(o, n)
    BY <1>1 DEF Coming
<1>4. \A u \in Loops : u # w =>
          /\ watch'[u] = watch[u] /\ watch[u].event = <<>>
          /\ \A p \in Objects : watch[u].backlog[p] = <<>>
    <2>1. \A u \in Loops : u # w => watch'[u] = watch[u]
        BY <1>1 DEF Resolve, WatchTyped
    <2> QED BY <1>1, <2>1, NobodyElse DEF Ordered
<1>5. /\ watch'[w].backlog = watch[w].backlog /\ watch'[w].event = <<>>
      /\ watch'[w].pc # "none"
    BY <1>1 DEF Resolve, WatchTyped, Watches
<1>6. at' = at /\ (Dispatch(o, n) \/ UNCHANGED chan)
    BY DEF Resolve, clusterVars
<1>7. n <= at[o] /\ \A k \in 1..Len(watch[w].backlog[o]) : n <= watch[w].backlog[o][k]
    BY <1>1, <1>2 DEF Ordered, Lined
<1>8. OneLoop'
    <2>1. PICK v : watch' = [watch EXCEPT ![w] = v]
        BY DEF Resolve
    <2> QED BY <1>1, <1>5, <2>1, SameLoop DEF Ordered
<1>9. ASSUME NEW u \in Loops, NEW p \in Objects PROVE Lined(u, p)'
    <2>1. /\ watch'[u].backlog = watch[u].backlog
          /\ watch'[u].event = <<>>
        BY <1>4, <1>5
    <2> QED BY <1>6, <2>1 DEF Ordered, Lined
<1> HIDE DEF o, n
<1>10. ASSUME NEW p \in Objects, NEW m \in Times, Coming(p, m)'
       PROVE  Coming(p, m) /\ (p = o => n <= m)
    <2>1. \A u \in Loops : watch'[u].backlog = watch[u].backlog /\ watch'[u].event = <<>>
        BY <1>4, <1>5
    <2>2. \A u \in Loops : u # w => Len(watch[u].backlog[p]) = 0
        BY <1>4
    <2> QED BY <1>6, <1>7, <1>10, <2>1, <2>2 DEF Coming
<1> QED
    BY <1>2, <1>3, <1>6, <1>8, <1>9, <1>10 DEF o, n

(* The watch of a kind replays the states of its objects, which nothing     *)
(* sent or in hand is after.                                                *)
LEMMA ListHeld ==
    ASSUME Typed, Ordered, NEW w \in Loops, NEW kind \in {Sandboxes, Projects},
           ListKind(w, kind)
    PROVE  /\ OneLoop'
           /\ \A u \in Loops, p \in Objects : Lined(u, p)'
           /\ \A p \in Objects, m \in Times : Coming(p, m)' => Coming(p, m)
<1>1. WatchTyped /\ watch[w].pc # "none"
    BY TypeParts DEF ListKind
<1>2. \A u \in Loops : u # w => watch'[u] = watch[u]
    BY <1>1 DEF ListKind, WatchTyped
<1>3. watch'[w].event = watch[w].event /\ watch'[w].pc # "none"
    BY <1>1 DEF ListKind, WatchTyped, Watches
<1>4. ASSUME NEW p \in Objects
      PROVE  watch'[w].backlog[p] = <<at[p]>> \/ watch'[w].backlog[p] = watch[w].backlog[p]
    <2>1. watch'[w].backlog = [o \in Objects |-> IF o \in kind \cap here THEN <<at[o]>>
                                                 ELSE watch[w].backlog[o]]
        BY <1>1 DEF ListKind, WatchTyped, Watches
    <2> QED BY <2>1
<1>5. at' = at
    BY DEF ListKind, clusterVars
<1>6. OneLoop'
    <2>1. PICK v : watch' = [watch EXCEPT ![w] = v]
        BY DEF ListKind
    <2> QED BY <1>1, <1>3, <2>1, SameLoop DEF Ordered
<1>7. ASSUME NEW u \in Loops, NEW p \in Objects PROVE Lined(u, p)'
    <2>1. Lined(u, p) /\ at[p] \in Nat
        BY Held, StreamAssumption DEF Ordered, Times
    <2>2. CASE watch'[u].backlog[p] = watch[u].backlog[p]
        BY <1>2, <1>3, <1>5, <2>1, <2>2 DEF Lined
    <2>3. CASE u = w /\ watch'[w].backlog[p] = <<at[p]>>
        <3>1. /\ Len(watch'[w].backlog[p]) = 1
              /\ watch'[w].backlog[p][1] = at[p]
            BY <2>3
        <3> QED BY <1>3, <1>5, <2>1, <2>3, <3>1 DEF Lined
    <2> QED BY <1>2, <1>4, <2>2, <2>3
<1>8. ASSUME NEW p \in Objects, NEW m \in Times, Coming(p, m)' PROVE Coming(p, m)
    <2>1. \A u \in Loops : watch'[u].event = watch[u].event
        BY <1>2, <1>3
    <2>2. ASSUME NEW u \in Loops, NEW k \in 1..Len(watch'[u].backlog[p]),
                 m = watch'[u].backlog[p][k]
          PROVE  Coming(p, m)
        <3>1. CASE watch'[u].backlog[p] = watch[u].backlog[p]
            BY <2>2, <3>1 DEF Coming
        <3>2. CASE watch'[u].backlog[p] = <<at[p]>>
            BY <2>2, <3>2 DEF Coming
        <3> QED BY <1>2, <1>4, <3>1, <3>2
    <2> QED BY <1>5, <1>8, <2>1, <2>2 DEF Coming
<1> QED
    BY <1>6, <1>7, <1>8

(* A change is after all that was sent and all that was to come.           *)
LEMMA ChangeHeld ==
    ASSUME Typed, Ordered, NEW o \in Objects, NEW exists \in BOOLEAN,
           ObjectChanges(o, exists)
    PROVE  /\ OneLoop'
           /\ \A u \in Loops, p \in Objects : Lined(u, p)'
           /\ \A p \in Objects, n \in Times :
                  Coming(p, n)' => \E m \in Times : Coming(p, m) /\ m <= n
<1>1. WatchTyped /\ ClusterTyped
    BY TypeParts
<1>2. ASSUME NEW w \in Loops
      PROVE  /\ watch'[w].pc = watch[w].pc /\ watch'[w].event = watch[w].event
             /\ watch'[w].listed = watch[w].listed
             /\ \A p \in Objects : \/ watch'[w].backlog[p] = watch[w].backlog[p]
                                   \/ /\ p = o /\ watch[w].listed # {}
                                      /\ watch'[w].backlog[p] =
                                             Append(watch[w].backlog[p], clock + 1)
    <2> DEFINE b == [watch[w].backlog EXCEPT ![o] = Append(@, clock + 1)]
               v == [watch[w] EXCEPT !.backlog = b]
    <2>1. \/ watch'[w] = watch[w]
          \/ watch'[w] = v /\ watch[w].listed # {}
        BY DEF ObjectChanges
    <2>2. \A p \in Objects : \/ b[p] = watch[w].backlog[p]
                             \/ p = o /\ b[p] = Append(watch[w].backlog[p], clock + 1)
        BY <1>1 DEF WatchTyped, Watches
    <2> HIDE DEF b
    <2>3. /\ v.pc = watch[w].pc /\ v.event = watch[w].event
          /\ v.listed = watch[w].listed /\ v.backlog = b
        BY <1>1 DEF WatchTyped, Watches
    <2> HIDE DEF v
    <2> QED BY <2>1, <2>2, <2>3
<1>3. /\ clock \in Nat
      /\ \A p \in Objects : /\ at[p] \in Times /\ at[p] <= clock
                            /\ at'[p] = at[p] \/ (p = o /\ at'[p] = clock + 1)
    BY <1>1, Held, StreamAssumption DEF ObjectChanges, ClusterTyped
<1>4. OneLoop'
    BY <1>2 DEF Ordered, OneLoop
<1>5. ASSUME NEW w \in Loops, NEW p \in Objects
      PROVE  LET old == watch[w].backlog[p]
                 new == watch'[w].backlog[p]
             IN  /\ old \in Seq(Times) /\ \A k \in 1..Len(old) : old[k] \in Times
                 /\ \/ new = old
                    \/ /\ p = o /\ at'[p] = clock + 1
                       /\ Len(new) = Len(old) + 1 /\ new[Len(old) + 1] = clock + 1
                       /\ \A k \in 1..Len(old) : new[k] = old[k]
    <2> DEFINE old == watch[w].backlog[p]
    <2>1. old \in Seq(Times) /\ \A k \in 1..Len(old) : old[k] \in Times
        BY Held
    <2>2. at'[o] = clock + 1
        BY <1>1 DEF ObjectChanges, ClusterTyped
    <2> HIDE DEF old
    <2>3. /\ Len(Append(old, clock + 1)) = Len(old) + 1
          /\ Append(old, clock + 1)[Len(old) + 1] = clock + 1
          /\ \A k \in 1..Len(old) : Append(old, clock + 1)[k] = old[k]
        BY <2>1
    <2> QED BY <1>2, <2>1, <2>2, <2>3 DEF old
<1>6. ASSUME NEW w \in Loops, NEW p \in Objects PROVE Lined(w, p)'
    <2> DEFINE old == watch[w].backlog[p]
               new == watch'[w].backlog[p]
    <2>1. Lined(w, p)
        BY DEF Ordered
    <2>2. /\ watch'[w].event = watch[w].event
          /\ watch[w].event # <<>> => watch[w].event[2] \in Times
        BY <1>2, Held
    <2>3. at[p] <= at'[p] /\ at[p] \in Nat /\ at'[p] \in Nat
        BY <1>3, StreamAssumption DEF Times
    <2>4. CASE new = old
        BY <2>1, <2>2, <2>3, <2>4, <1>5 DEF Lined, Times
    <2>5. CASE new # old
        <3> HIDE DEF old, new
        <3>1. /\ at'[p] = clock + 1 /\ Len(new) = Len(old) + 1
              /\ new[Len(old) + 1] = clock + 1
              /\ \A k \in 1..Len(old) : new[k] = old[k] /\ old[k] \in Times
              /\ Len(old) \in Nat
            BY <1>5, <2>5 DEF old, new
        <3>2. /\ \A k \in 1..Len(old) : old[k] <= at[p]
              /\ \A k, m \in 1..Len(old) : k < m => old[k] <= old[m]
            BY <2>1 DEF Lined, old
        <3>3. \A k \in 1..Len(new) : k \in 1..Len(old) \/ k = Len(old) + 1
            BY <3>1
        <3>4. \A k \in 1..Len(old) : old[k] <= clock + 1
            BY <1>3, <3>1, <3>2 DEF Times
        <3>5. \A k \in 1..Len(new) : new[k] <= at'[p]
            BY <1>3, <3>1, <3>3, <3>4
        <3>6. ASSUME NEW k \in 1..Len(new), NEW m \in 1..Len(new), k < m
              PROVE  new[k] <= new[m]
            <4>1. k \in 1..Len(old)
                BY <3>1, <3>6
            <4>2. CASE m \in 1..Len(old)
                BY <3>1, <3>2, <3>6, <4>1, <4>2
            <4>3. CASE m = Len(old) + 1
                BY <3>1, <3>4, <4>1, <4>3
            <4> QED BY <3>3, <4>2, <4>3
        <3>7. watch[w].event # <<>> /\ watch[w].event[1] = p =>
                  /\ watch[w].event[2] <= at[p]
                  /\ \A k \in 1..Len(old) : watch[w].event[2] <= old[k]
            BY <2>1 DEF Lined, old
        <3>8. watch[w].event # <<>> /\ watch[w].event[1] = p =>
                  /\ watch[w].event[2] <= at'[p]
                  /\ \A k \in 1..Len(new) : watch[w].event[2] <= new[k]
            BY <1>3, <2>2, <2>3, <3>1, <3>3, <3>7 DEF Times
        <3> QED BY <2>2, <3>5, <3>6, <3>8 DEF Lined, new
    <2> QED BY <2>4, <2>5
<1>7. ASSUME NEW p \in Objects, NEW n \in Times, Coming(p, n)'
      PROVE  \E m \in Times : Coming(p, m) /\ m <= n
    <2>1. Coming(p, at[p])
        BY DEF Coming
    <2>2. CASE n = at'[p]
        BY <1>3, <2>1, <2>2, StreamAssumption DEF Times
    <2>3. ASSUME NEW w \in Loops, NEW k \in 1..Len(watch'[w].backlog[p]),
                 n = watch'[w].backlog[p][k]
          PROVE  \E m \in Times : Coming(p, m) /\ m <= n
        <3>1. CASE k \in 1..Len(watch[w].backlog[p]) /\ n = watch[w].backlog[p][k]
            <4>1. Coming(p, n) /\ n <= n
                BY <3>1 DEF Coming, Times
            <4> QED BY <4>1
        <3>2. CASE n = clock + 1
            <4>1. at[p] <= n /\ at[p] \in Times
                BY <1>3, <3>2, StreamAssumption DEF Times
            <4> QED BY <2>1, <4>1
        <3>3. Len(watch[w].backlog[p]) \in Nat
            BY <1>5
        <3> QED BY <1>5, <2>3, <3>1, <3>2, <3>3
    <2>4. CASE Coming(p, n)
        BY <2>4 DEF Times
    <2>5. \A w \in Loops : watch'[w].event = watch[w].event
        BY <1>2
    <2> QED BY <1>7, <2>2, <2>3, <2>4, <2>5 DEF Coming
<1> QED
    BY <1>4, <1>6, <1>7

LEMMA NextOrdered == Typed /\ Ordered /\ [StreamNext]_streamVars => Ordered'
<1> SUFFICES ASSUME Typed, Ordered, [StreamNext]_streamVars PROVE Ordered'
    OBVIOUS
<1> DEFINE InLine == \A w \in Loops, o \in Objects : Lined(w, o)
           SentWell == \A i \in Loops : SentInOrder(i)
           NoPast == \A i \in Loops, o \in Objects, n \in Times : Coming(o, n) => Sent(i, o, n)
<1>a. OneLoop' /\ InLine' /\ SentWell' /\ NoPast' => Ordered'
    BY DEF Ordered
<1>o. OneLoop /\ (UNCHANGED watch => OneLoop')
    BY DEF Ordered, OneLoop
<1>k. UNCHANGED <<at, watch>> =>
          InLine' /\ \A o \in Objects, n \in Times : Coming(o, n)' <=> Coming(o, n)
    BY HoldsSame
<1>n. ASSUME \A o \in Objects, n \in Times : Coming(o, n)' => Coming(o, n),
             UNCHANGED <<chan, told>>
      PROVE  SentWell' /\ NoPast'
    <2>1. \A n \in Times : n <= n
        BY StreamAssumption DEF Times
    <2>2. \A o \in Objects, n \in Times : Coming(o, n)' => \E m \in Times : Coming(o, m) /\ m <= n
        BY <1>n, <2>1
    <2> QED BY <1>n, <2>2, NothingSent
<1>q. ASSUME UNCHANGED <<at, watch, chan, told>> PROVE Ordered'
    BY <1>q, <1>a, <1>o, <1>k, <1>n
<1>p. ASSUME UNCHANGED <<at, watch>>,
             \A j \in Loops :
                 /\ SentInOrder(j)'
                 /\ \A o \in Objects, n \in Times : Sent(j, o, n) => Sent(j, o, n)'
      PROVE  Ordered'
    <2>1. NoPast'
        BY <1>k, <1>p DEF Ordered
    <2> QED BY <1>a, <1>o, <1>k, <1>p, <2>1
<1>1. ASSUME HubOnly(HubChoices) \/ \E i \in Loops : HubOnly(HubGoesOn(i)) PROVE Ordered'
    BY <1>1, <1>q DEF HubOnly, clusterVars, serverVars, linkVars
<1>2. ASSUME NEW i \in Loops, Accept(i) \/ Turned(i) PROVE Ordered'
    BY <1>2, <1>q DEF Accept, Turned, clusterVars, serverVars
<1>3. ASSUME NEW i \in Loops, Subscribe(i) PROVE Ordered'
    BY <1>3, <1>q DEF Subscribe, clusterVars, serverVars
<1>4. ASSUME NEW i \in Loops, SpawnLoop(i) PROVE Ordered'
    <2>1. UNCHANGED <<at, chan, told>>
        BY <1>4 DEF SpawnLoop, clusterVars
    <2>2. CASE Spawned
        BY <1>4, <1>q, <2>1, <2>2 DEF SpawnLoop
    <2>3. CASE ~Spawned
        <3>1. watch' = [watch EXCEPT ![i].pc = "top"] /\ WatchTyped
            BY <1>4, <2>3, TypeParts DEF SpawnLoop
        <3>2. ASSUME NEW w \in Loops
              PROVE  /\ watch'[w].backlog = watch[w].backlog /\ watch'[w].event = watch[w].event
                     /\ watch'[w].listed = watch[w].listed
                     /\ watch[w].pc = "none" /\ (w # i => watch'[w].pc = "none")
            BY <2>3, <3>1 DEF Spawned, WatchTyped, Watches
        <3>3. OneLoop'
            BY <1>o, <3>2 DEF OneLoop
        <3>4. InLine' /\ \A o \in Objects, n \in Times : Coming(o, n)' <=> Coming(o, n)
            BY <2>1, <3>2, HoldsSame
        <3> QED BY <1>a, <1>n, <2>1, <3>3, <3>4
    <2> QED BY <2>2, <2>3
<1>5. ASSUME NEW i \in Loops, Deliver(i) PROVE Ordered'
    <2>1. UNCHANGED <<at, watch>>
        BY <1>5 DEF Deliver, clusterVars, serverVars
    <2> QED BY <1>5, <1>p, <2>1, DeliverKept
<1>6. ASSUME NEW i \in Loops, Leave(i) \/ BuildFails(i) PROVE Ordered'
    <2>1. Forget(i) /\ UNCHANGED <<at, watch>>
        BY <1>6 DEF Leave, BuildFails, clusterVars, serverVars
    <2> QED BY <1>p, <2>1, ForgetKept
<1>7. ASSUME NEW w \in Loops, StartStream(w) PROVE Ordered'
    <2>1. /\ UNCHANGED <<at, chan, told>> /\ WatchTyped
          /\ watch' = [watch EXCEPT ![w].pc = "streaming"] /\ watch[w].pc # "none"
        BY <1>7, TypeParts DEF StartStream, clusterVars, linkVars
    <2>2. \A u \in Loops : watch'[u].backlog = watch[u].backlog /\ watch'[u].event = watch[u].event
        BY <2>1 DEF WatchTyped, Watches
    <2>3. watch'[w].pc # "none"
        BY <2>1 DEF WatchTyped, Watches
    <2>4. OneLoop'
        BY <1>o, <2>1, <2>3, SameLoop
    <2>5. InLine' /\ \A o \in Objects, n \in Times : Coming(o, n)' <=> Coming(o, n)
        BY <2>1, <2>2, HoldsSame
    <2> QED BY <1>a, <1>n, <2>1, <2>4, <2>5
<1>8. ASSUME NEW w \in Loops, StreamError(w) PROVE Ordered'
    <2>1. /\ UNCHANGED <<at, chan, told>> /\ WatchTyped
          /\ watch' = [watch EXCEPT ![w] = [NoWatch EXCEPT !.pc = "top"]]
          /\ watch[w].pc # "none"
        BY <1>8, TypeParts DEF StreamError, clusterVars, linkVars
    <2>2. /\ \A u \in Loops : u # w => watch'[u] = watch[u]
          /\ watch'[w].event = <<>> /\ watch'[w].pc = "top"
          /\ \A o \in Objects : watch'[w].backlog[o] = <<>>
        BY <2>1 DEF WatchTyped, NoWatch, NoEvents
    <2>3. OneLoop'
        BY <1>o, <2>1, <2>2, SameLoop
    <2>4. ASSUME NEW u \in Loops, NEW o \in Objects PROVE Lined(u, o)'
        <3>1. CASE u = w
            <4>1. Len(watch'[w].backlog[o]) = 0
                BY <2>2
            <4> QED BY <2>2, <3>1, <4>1 DEF Lined
        <3>2. CASE u # w
            BY <2>1, <2>2, <3>2 DEF Ordered, Lined
        <3> QED BY <3>1, <3>2
    <2>5. ASSUME NEW o \in Objects, NEW n \in Times, Coming(o, n)' PROVE Coming(o, n)
        <3>1. Len(watch'[w].backlog[o]) = 0 /\ watch'[w].event = <<>>
            BY <2>2
        <3> QED BY <2>1, <2>2, <2>5, <3>1 DEF Coming
    <2> QED BY <1>a, <1>n, <2>1, <2>3, <2>4, <2>5
<1>9. ASSUME NEW w \in Loops, NEW kind \in {Sandboxes, Projects}, ListKind(w, kind)
      PROVE  Ordered'
    <2>1. UNCHANGED <<chan, told>>
        BY <1>9 DEF ListKind, linkVars
    <2> QED BY <1>9, <1>a, <1>n, <2>1, ListHeld
<1>10. ASSUME NEW w \in Loops, NEW o \in Objects, TakeEvent(w, o) PROVE Ordered'
    <2>1. UNCHANGED told
        BY <1>10 DEF TakeEvent
    <2> DEFINE n == Head(watch[w].backlog[o])
    <2>2. /\ n \in Times /\ Coming(o, n) /\ OneLoop' /\ InLine'
          /\ \A p \in Objects, m \in Times : Coming(p, m)' => Coming(p, m) /\ (p = o => n <= m)
          /\ Dispatch(o, n) \/ UNCHANGED chan
        BY <1>10, TakeHeld
    <2> HIDE DEF n
    <2>3. CASE Dispatch(o, n)
        BY <1>a, <2>1, <2>2, <2>3, OneSent
    <2>4. CASE UNCHANGED chan
        BY <1>a, <1>n, <2>1, <2>2, <2>4
    <2> QED BY <2>2, <2>3, <2>4
<1>11. ASSUME NEW w \in Loops, Resolve(w) PROVE Ordered'
    <2>1. UNCHANGED told
        BY <1>11 DEF Resolve
    <2> DEFINE o == watch[w].event[1]
               n == watch[w].event[2]
    <2>2. /\ o \in Objects /\ n \in Times /\ Coming(o, n) /\ OneLoop' /\ InLine'
          /\ \A p \in Objects, m \in Times : Coming(p, m)' => Coming(p, m) /\ (p = o => n <= m)
          /\ Dispatch(o, n) \/ UNCHANGED chan
        BY <1>11, ResolveHeld
    <2> HIDE DEF o, n
    <2>3. CASE Dispatch(o, n)
        BY <1>a, <2>1, <2>2, <2>3, OneSent
    <2>4. CASE UNCHANGED chan
        BY <1>a, <1>n, <2>1, <2>2, <2>4
    <2> QED BY <2>2, <2>3, <2>4
<1>12. ASSUME NEW o \in Objects, NEW exists \in BOOLEAN, ObjectChanges(o, exists)
       PROVE  Ordered'
    <2>1. UNCHANGED <<chan, told>>
        BY <1>12 DEF ObjectChanges
    <2>2. SentWell' /\ NoPast'
        BY <1>12, <2>1, ChangeHeld, NothingSent
    <2> QED BY <1>12, <1>a, <2>2, ChangeHeld
<1>13. ASSUME UNCHANGED streamVars PROVE Ordered'
    BY <1>13, <1>q DEF streamVars, clusterVars, serverVars, linkVars
<1> QED
    BY <1>1, <1>2, <1>3, <1>4, <1>5, <1>6, <1>7, <1>8, <1>9, <1>10, <1>11, <1>12, <1>13
       DEF StreamNext, Handler, WatchLoop

(* What a connection is told of an object never goes back in time: one      *)
(* watch loop however many connections raced to spawn it, and a restarted   *)
(* stream starts after all it sent (InOrder).                               *)
THEOREM ToldInOrder == StreamSpec => []InOrder
<1>1. Ordered => InOrder
    BY DEF Ordered, SentInOrder, InOrder
<1> QED
    BY <1>1, InitTyped, NextTyped, InitOrdered, NextOrdered, PTL DEF StreamSpec

-----------------------------------------------------------------------------
(* Nothing is lost.  The last state of an object that a connection is owed  *)
(* has reached it or its channel, or waits for it in the watches, replay    *)
(* included, or is that of a sandbox whose project is remembered as not     *)
(* found.                                                                   *)
Reached(i, o) ==
    \/ told[i][o] = at[o]
    \/ \E k \in 1..Len(chan[i]) : chan[i][k] = <<o, at[o]>>

Waiting(o) ==
    \/ \E w \in Loops : watch[w].event = <<o, at[o]>>
    \/ \E w \in Loops : \E k \in 1..Len(watch[w].backlog[o]) : watch[w].backlog[o][k] = at[o]
    \/ \A w \in Loops : Kind(o) \notin watch[w].listed

Hidden(o) == o \in Sandboxes /\ cache[ProjectOf[o]] = "miss"

OnItsWay(i, o) == Reached(i, o) \/ Waiting(o) \/ Hidden(o)

NothingLost == \A i \in Subscribers : \A o \in here \cap owed[i] : OnItsWay(i, o)

(* The owner being resolved is that of a sandbox and not resolved yet: the *)
(* answer of another get_project never overtakes it.                       *)
Unresolved ==
    \A w \in Loops : watch[w].event # <<>> =>
        watch[w].event[1] \in Sandboxes /\ cache[ProjectOf[watch[w].event[1]]] = "unknown"

LEMMA NextUnresolved ==
    Typed /\ Ordered /\ Unresolved /\ [StreamNext]_streamVars => Unresolved'
<1> SUFFICES ASSUME Typed, Ordered, Unresolved, [StreamNext]_streamVars PROVE Unresolved'
    OBVIOUS
<1>0. WatchTyped /\ CacheTyped
    BY TypeParts
<1>q. ASSUME \A v \in Loops : watch'[v].event = watch[v].event \/ watch'[v].event = <<>>,
             cache' = cache
      PROVE  Unresolved'
    BY <1>q DEF Unresolved
<1>1. ASSUME NEW i \in Loops, SpawnLoop(i) PROVE Unresolved'
    BY <1>1, <1>0, <1>q DEF SpawnLoop, WatchTyped, Watches
<1>2. ASSUME NEW w \in Loops, StartStream(w) \/ StreamError(w) PROVE Unresolved'
    BY <1>2, <1>0, <1>q DEF StartStream, StreamError, NoWatch, WatchTyped, Watches
<1>3. ASSUME NEW w \in Loops, NEW kind \in {Sandboxes, Projects}, ListKind(w, kind)
      PROVE  Unresolved'
    <2>1. \A v \in Loops : watch'[v].event = watch[v].event
        BY <1>3, <1>0 DEF ListKind, WatchTyped, Watches
    <2> QED BY <1>3, <1>q, <2>1 DEF ListKind
<1>4. ASSUME NEW w \in Loops, NEW o \in Objects, TakeEvent(w, o) PROVE Unresolved'
    <2>1. /\ cache' = cache
          /\ \A v \in Loops : v # w => watch'[v] = watch[v]
          /\ \/ watch'[w].event = watch[w].event
             \/ /\ \E n : watch'[w].event = <<o, n>>
                /\ o \notin Projects /\ cache[ProjectOf[o]] = "unknown"
        <3> DEFINE rest == [watch[w] EXCEPT !.backlog[o] = Tail(@)]
                   n == Head(watch[w].backlog[o])
        <3>1. \/ watch' = [watch EXCEPT ![w] = rest]
              \/ /\ watch' = [watch EXCEPT ![w] = [rest EXCEPT !.pc = "resolving", !.event = <<o, n>>]]
                 /\ o \notin Projects /\ cache[ProjectOf[o]] = "unknown"
            BY <1>4 DEF TakeEvent
        <3> DEFINE taken == [rest EXCEPT !.pc = "resolving", !.event = <<o, n>>]
        <3>2. rest.event = watch[w].event /\ taken.event = <<o, n>>
            BY <1>0 DEF WatchTyped, Watches
        <3>3. \/ watch' = [watch EXCEPT ![w] = rest]
              \/ /\ watch' = [watch EXCEPT ![w] = taken]
                 /\ o \notin Projects /\ cache[ProjectOf[o]] = "unknown"
            BY <3>1
        <3> HIDE DEF rest, n, taken
        <3>4. \A v \in Loops : v # w => watch'[v] = watch[v]
            BY <1>0, <3>3 DEF WatchTyped
        <3>5. \/ watch'[w].event = watch[w].event
              \/ /\ watch'[w].event = <<o, n>>
                 /\ o \notin Projects /\ cache[ProjectOf[o]] = "unknown"
            BY <1>0, <3>2, <3>3 DEF WatchTyped
        <3>6. cache' = cache
            BY <1>4 DEF TakeEvent
        <3> QED BY <3>4, <3>5, <3>6
    <2>2. CASE watch'[w].event = watch[w].event
        BY <1>q, <2>1, <2>2
    <2>3. CASE o \notin Projects /\ cache[ProjectOf[o]] = "unknown" /\ \E n : watch'[w].event = <<o, n>>
        <3>1. o \in Sandboxes /\ watch'[w].event[1] = o
            BY <2>3 DEF Objects
        <3>2. ASSUME NEW v \in Loops, watch'[v].event # <<>>
              PROVE  /\ watch'[v].event[1] \in Sandboxes
                     /\ cache'[ProjectOf[watch'[v].event[1]]] = "unknown"
            <4>1. CASE v = w
                BY <2>1, <2>3, <3>1, <4>1
            <4>2. CASE v # w
                BY <2>1, <3>2, <4>2 DEF Unresolved
            <4> QED BY <4>1, <4>2
        <3> QED BY <3>2 DEF Unresolved
    <2> QED BY <2>1, <2>2, <2>3
<1>5. ASSUME NEW w \in Loops, Resolve(w) PROVE Unresolved'
    <2>1. \A v \in Loops : watch'[v].event = <<>>
        <3>1. watch'[w].event = <<>> /\ \A v \in Loops : v # w => watch'[v] = watch[v]
            BY <1>5, <1>0 DEF Resolve, WatchTyped, Watches
        <3>2. \A v \in Loops : v # w => watch[v].event = <<>>
            BY <1>5, <1>0 DEF Resolve, WatchTyped, Ordered, OneLoop
        <3> QED BY <3>1, <3>2
    <2> QED BY <2>1 DEF Unresolved
<1>6. ASSUME NEW o \in Objects, NEW exists \in BOOLEAN, ObjectChanges(o, exists)
      PROVE  Unresolved'
    <2>1. \A v \in Loops : watch'[v].event = watch[v].event
        BY <1>6, <1>0 DEF ObjectChanges, WatchTyped, Watches
    <2> QED BY <1>6, <1>q, <2>1 DEF ObjectChanges
<1>7. ASSUME UNCHANGED <<watch, cache>> PROVE Unresolved'
    BY <1>7, <1>q
<1> QED
    BY <1>1, <1>2, <1>3, <1>4, <1>5, <1>6, <1>7
       DEF StreamNext, Handler, WatchLoop, HubOnly, Accept, Turned, Subscribe, BuildFails,
           Deliver, Leave, serverVars, streamVars

(* The browser takes an event: if it is not the last of its object, the    *)
(* last is behind it.                                                      *)
LEMMA DeliverReaches ==
    ASSUME Typed, Ordered, NEW i \in Loops, NEW j \in Loops, Deliver(j), NEW o \in Objects,
           Reached(i, o)
    PROVE  Reached(i, o)'
<1>0. LinksTyped /\ at' = at
    BY TypeParts DEF Deliver, clusterVars
<1>1. CASE i # j
    <2>1. chan'[i] = chan[i] /\ told'[i] = told[i]
        BY <1>0, <1>1 DEF Deliver, LinksTyped
    <2> QED BY <1>0, <2>1 DEF Reached
<1>2. CASE i = j
    <2>1. chan[i] \in Seq(Event) /\ chan[i] # <<>>
        BY <1>0, <1>2 DEF Deliver, LinksTyped
    <2>2. chan'[i] = Tail(chan[i])
        BY <1>0, <1>2 DEF Deliver, LinksTyped
    <2>3. /\ Len(chan[i]) \in Nat /\ Len(chan[i]) >= 1
          /\ Len(chan'[i]) = Len(chan[i]) - 1
          /\ \A k \in 1..Len(chan[i]) - 1 : chan'[i][k] = chan[i][k + 1]
          /\ Head(chan[i]) = chan[i][1]
        BY <2>1, <2>2
    <2>4. told'[i][o] = IF o = chan[i][1][1] THEN chan[i][1][2] ELSE told[i][o]
        <3> DEFINE p == Head(chan[i])[1]
                   t == Head(chan[i])[2]
        <3>1. p = chan[i][1][1] /\ t = chan[i][1][2]
            BY <2>3
        <3>2. told' = [told EXCEPT ![i][p] = t]
            BY <1>2 DEF Deliver
        <3> HIDE DEF p, t
        <3> QED BY <1>0, <3>1, <3>2 DEF LinksTyped
    <2>5. CASE told[i][o] = at[o]
        <3>1. at[o] \in Times /\ Sent(i, o, at[o]) /\ SentInOrder(i)
            <4>1. at[o] \in Times
                BY Held
            <4>2. Coming(o, at[o])
                BY DEF Coming
            <4> QED BY <4>1, <4>2 DEF Ordered
        <3>2. 1 \in 1..Len(chan[i])
            BY <2>3
        <3>3. chan[i][1][1] = o => chan[i][1][2] = at[o]
            <4>1. ASSUME chan[i][1][1] = o
                  PROVE  chan[i][1][2] <= at[o] /\ at[o] <= chan[i][1][2]
                <5>1. chan[i][1][2] <= at[o]
                    BY <3>1, <3>2, <4>1 DEF Sent
                <5>2. told[i][o] <= chan[i][1][2]
                    BY <3>1, <3>2, <4>1 DEF SentInOrder
                <5> QED BY <2>5, <5>1, <5>2
            <4>2. chan[i][1][2] \in Nat /\ at[o] \in Nat
                BY <3>1, <3>2, Held DEF Times
            <4> QED BY <4>1, <4>2
        <3>4. told'[i][o] = at[o]
            BY <2>4, <2>5, <3>3
        <3> QED BY <1>0, <3>4 DEF Reached
    <2>6. ASSUME NEW k \in 1..Len(chan[i]), chan[i][k] = <<o, at[o]>> PROVE Reached(i, o)'
        <3>1. CASE k = 1
            <4>1. told'[i][o] = at[o]
                BY <2>4, <2>6, <3>1
            <4> QED BY <1>0, <4>1 DEF Reached
        <3>2. CASE k # 1
            <4>1. k - 1 \in 1..Len(chan'[i]) /\ chan'[i][k - 1] = chan[i][k]
                BY <2>3, <2>6, <3>2
            <4> QED BY <1>0, <2>6, <4>1 DEF Reached
        <3> QED BY <3>1, <3>2
    <2> QED BY <2>5, <2>6 DEF Reached
<1> QED BY <1>1, <1>2

(* What a dispatch adds to the channels, and that it takes nothing away.   *)
LEMMA DispatchReaches ==
    ASSUME Typed, NEW p \in Objects, NEW n, Dispatch(p, n), UNCHANGED <<at, told>>,
           NEW i \in Loops, NEW o \in Objects
    PROVE  /\ Reached(i, o) => Reached(i, o)'
           /\ i \in Subscribers /\ p = o /\ n = at[o] => Reached(i, o)'
<1>1. /\ chan[i] \in Seq(Event)
      /\ chan'[i] = IF i \in Subscribers THEN Append(chan[i], <<p, n>>) ELSE chan[i]
    BY TypeParts DEF LinksTyped, Dispatch
<1>2. CASE i \in Subscribers
    <2>1. /\ Len(chan[i]) \in Nat
          /\ Len(chan'[i]) = Len(chan[i]) + 1
          /\ \A k \in 1..Len(chan[i]) : chan'[i][k] = chan[i][k]
          /\ chan'[i][Len(chan[i]) + 1] = <<p, n>>
        BY <1>1, <1>2
    <2>2. /\ Len(chan[i]) + 1 \in 1..Len(chan'[i])
          /\ \A k \in 1..Len(chan[i]) : k \in 1..Len(chan'[i])
        BY <2>1
    <2> QED BY <2>1, <2>2 DEF Reached
<1>3. CASE i \notin Subscribers
    BY <1>1, <1>3 DEF Reached
<1> QED BY <1>2, <1>3

(* The loop takes a change: what it is of is dispatched, or in hand, or of *)
(* a project remembered as not found.                                      *)
LEMMA TakeLosesNothing ==
    ASSUME Typed, Ordered, NEW w \in Loops, NEW p \in Objects, TakeEvent(w, p),
           NEW i \in Subscribers, NEW o \in Objects, OnItsWay(i, o)
    PROVE  OnItsWay(i, o)'
<1> DEFINE n == Head(watch[w].backlog[p])
           rest == [watch[w] EXCEPT !.backlog[p] = Tail(@)]
           taken == [rest EXCEPT !.pc = "resolving", !.event = <<p, n>>]
<1>0. WatchTyped /\ i \in Loops
    BY TypeParts DEF Subscribers
<1>1. /\ watch[w].backlog[p] # <<>> /\ watch[w].event = <<>>
      /\ watch[w].backlog[p] \in Seq(1..MaxChanges + 1)
      /\ UNCHANGED <<at, cache, told>>
    BY <1>0 DEF TakeEvent, WatchTyped, Watches, clusterVars
<1>2. \/ Dispatch(p, n) /\ watch' = [watch EXCEPT ![w] = rest]
      \/ p \in Sandboxes /\ cache[ProjectOf[p]] = "miss" /\ UNCHANGED chan
            /\ watch' = [watch EXCEPT ![w] = rest]
      \/ UNCHANGED chan /\ watch' = [watch EXCEPT ![w] = taken]
    BY DEF TakeEvent, Objects
<1>3. /\ rest.event = <<>> /\ taken.event = <<p, n>>
      /\ rest.listed = watch[w].listed /\ taken.listed = watch[w].listed
      /\ rest.backlog[p] = Tail(watch[w].backlog[p])
      /\ taken.backlog[p] = Tail(watch[w].backlog[p])
      /\ \A q \in Objects : q # p => /\ rest.backlog[q] = watch[w].backlog[q]
                                     /\ taken.backlog[q] = watch[w].backlog[q]
    BY <1>0, <1>1 DEF WatchTyped, Watches
<1>4. /\ Len(watch[w].backlog[p]) \in Nat
      /\ n = watch[w].backlog[p][1]
      /\ Len(Tail(watch[w].backlog[p])) = Len(watch[w].backlog[p]) - 1
      /\ \A k \in 1..Len(watch[w].backlog[p]) - 1 :
             Tail(watch[w].backlog[p])[k] = watch[w].backlog[p][k + 1]
    BY <1>1
<1> HIDE DEF n, rest, taken
<1>5. /\ \A v \in Loops : v # w => watch'[v] = watch[v]
      /\ watch'[w] = rest \/ (watch'[w] = taken /\ UNCHANGED chan)
      /\ watch'[w] = taken \/ Dispatch(p, n)
            \/ (p \in Sandboxes /\ cache[ProjectOf[p]] = "miss" /\ UNCHANGED chan)
    BY <1>0, <1>2 DEF WatchTyped
<1>6. CASE Reached(i, o)
    <2>1. CASE Dispatch(p, n)
        BY <1>0, <1>1, <1>6, <2>1, DispatchReaches DEF OnItsWay
    <2>2. CASE UNCHANGED chan
        BY <1>1, <1>6, <2>2 DEF OnItsWay, Reached
    <2> QED BY <1>2, <2>1, <2>2
<1>7. CASE Hidden(o)
    BY <1>1, <1>7 DEF OnItsWay, Hidden
<1>8. CASE \A v \in Loops : Kind(o) \notin watch[v].listed
    <2>1. \A v \in Loops : watch'[v].listed = watch[v].listed
        BY <1>3, <1>5
    <2> QED BY <1>8, <2>1 DEF OnItsWay, Waiting
<1>9. ASSUME NEW v \in Loops, watch[v].event = <<o, at[o]>> PROVE OnItsWay(i, o)'
    <2>1. v # w
        <3>1. <<o, at[o]>> # <<>>
            OBVIOUS
        <3> QED BY <1>1, <1>9, <3>1
    <2> QED BY <1>1, <1>5, <1>9, <2>1 DEF OnItsWay, Waiting
<1>10. ASSUME NEW v \in Loops, NEW k \in 1..Len(watch[v].backlog[o]),
              watch[v].backlog[o][k] = at[o]
       PROVE  OnItsWay(i, o)'
    <2>1. CASE v # w \/ o # p
        <3>1. watch'[v].backlog[o] = watch[v].backlog[o]
            BY <1>3, <1>5, <2>1
        <3> QED BY <1>1, <1>10, <3>1 DEF OnItsWay, Waiting
    <2>2. CASE v = w /\ o = p /\ k # 1
        <3>1. k \in 1..Len(watch[w].backlog[p]) /\ k # 1 /\ watch[w].backlog[p][k] = at[o]
            BY <1>10, <2>2
        <3>2. k - 1 \in 1..Len(watch[w].backlog[p]) - 1 /\ (k - 1) + 1 = k
            BY <1>4, <3>1
        <3>3. watch'[w].backlog[o] = Tail(watch[w].backlog[p])
            BY <1>3, <1>5, <2>2
        <3>4. k - 1 \in 1..Len(watch'[w].backlog[o]) /\ watch'[w].backlog[o][k - 1] = at[o]
            BY <1>4, <3>1, <3>2, <3>3
        <3> QED BY <1>1, <3>4 DEF OnItsWay, Waiting
    <2>3. CASE v = w /\ o = p /\ k = 1
        <3>1. n = at[o]
            BY <1>4, <1>10, <2>3
        <3>2. CASE Dispatch(p, n)
            BY <1>0, <1>1, <2>3, <3>1, <3>2, DispatchReaches DEF OnItsWay
        <3>3. CASE p \in Sandboxes /\ cache[ProjectOf[p]] = "miss"
            BY <1>1, <2>3, <3>3 DEF OnItsWay, Hidden
        <3>4. CASE watch'[w] = taken
            BY <1>1, <1>3, <2>3, <3>1, <3>4 DEF OnItsWay, Waiting
        <3> QED BY <1>5, <3>2, <3>3, <3>4
    <2> QED BY <2>1, <2>2, <2>3
<1> QED
    BY <1>6, <1>7, <1>8, <1>9, <1>10 DEF OnItsWay, Waiting

(* The owner answers, or is not found.                                     *)
LEMMA ResolveLosesNothing ==
    ASSUME Typed, Ordered, Unresolved, NEW w \in Loops, Resolve(w),
           NEW i \in Subscribers, NEW o \in Objects, OnItsWay(i, o)
    PROVE  OnItsWay(i, o)'
<1> DEFINE p == watch[w].event[1]
           n == watch[w].event[2]
<1>0. WatchTyped /\ CacheTyped /\ i \in Loops
    BY TypeParts DEF Subscribers
<1>1. /\ watch[w].event # <<>> /\ p \in Objects
      /\ p \in Sandboxes /\ cache[ProjectOf[p]] = "unknown" /\ ProjectOf[p] \in Projects
      /\ UNCHANGED <<at, told>>
    BY <1>0, Held, StreamAssumption DEF Resolve, WatchTyped, Unresolved, clusterVars
<1>2. /\ watch' = [watch EXCEPT ![w].pc = "streaming", ![w].event = <<>>]
      /\ \/ cache' = [cache EXCEPT ![ProjectOf[p]] = "owner"] /\ Dispatch(p, n)
         \/ cache' = [cache EXCEPT ![ProjectOf[p]] = "miss"] /\ UNCHANGED chan
    BY DEF Resolve
<1> HIDE DEF p, n
<1>3. /\ \A v \in Loops : v # w => watch'[v] = watch[v]
      /\ watch'[w].backlog = watch[w].backlog /\ watch'[w].listed = watch[w].listed
    BY <1>0, <1>2 DEF WatchTyped, Watches
<1>4. CASE Reached(i, o)
    <2>1. CASE Dispatch(p, n)
        BY <1>0, <1>1, <1>4, <2>1, DispatchReaches DEF OnItsWay
    <2>2. CASE UNCHANGED chan
        BY <1>1, <1>4, <2>2 DEF OnItsWay, Reached
    <2> QED BY <1>2, <2>1, <2>2
<1>5. CASE Hidden(o)
    <2>1. o \in Sandboxes /\ cache[ProjectOf[o]] = "miss" /\ ProjectOf[o] # ProjectOf[p]
        BY <1>1, <1>5 DEF Hidden
    <2>2. cache'[ProjectOf[o]] = "miss"
        BY <1>0, <1>2, <2>1, StreamAssumption DEF CacheTyped
    <2> QED BY <2>1, <2>2 DEF OnItsWay, Hidden
<1>6. CASE \/ \A v \in Loops : Kind(o) \notin watch[v].listed
           \/ \E v \in Loops : \E k \in 1..Len(watch[v].backlog[o]) :
                  watch[v].backlog[o][k] = at[o]
    <2>1. \A v \in Loops : /\ watch'[v].listed = watch[v].listed
                           /\ watch'[v].backlog = watch[v].backlog
        BY <1>3
    <2> QED BY <1>1, <1>6, <2>1 DEF OnItsWay, Waiting
<1>7. ASSUME NEW v \in Loops, watch[v].event = <<o, at[o]>> PROVE OnItsWay(i, o)'
    <2>1. CASE v # w
        BY <1>1, <1>3, <1>7, <2>1 DEF OnItsWay, Waiting
    <2>2. CASE v = w
        <3>1. p = o /\ n = at[o]
            BY <1>7, <2>2 DEF p, n
        <3>2. CASE Dispatch(p, n)
            BY <1>0, <1>1, <3>1, <3>2, DispatchReaches DEF OnItsWay
        <3>3. CASE cache' = [cache EXCEPT ![ProjectOf[p]] = "miss"]
            <4>1. cache'[ProjectOf[o]] = "miss" /\ o \in Sandboxes
                BY <1>0, <1>1, <3>1, <3>3 DEF CacheTyped
            <4> QED BY <4>1 DEF OnItsWay, Hidden
        <3> QED BY <1>2, <3>2, <3>3
    <2> QED BY <2>1, <2>2
<1> QED
    BY <1>4, <1>5, <1>6, <1>7 DEF OnItsWay, Waiting

(* An object changes: the watches that have listed its kind hold the       *)
(* change, and without them a replay is to come.                           *)
LEMMA ChangeLosesNothing ==
    ASSUME Typed, NEW p \in Objects, NEW exists \in BOOLEAN, ObjectChanges(p, exists),
           NEW i \in Loops, NEW o \in Objects, OnItsWay(i, o) \/ o = p
    PROVE  OnItsWay(i, o)'
<1>0. WatchTyped /\ ClusterTyped
    BY TypeParts
<1>1. /\ UNCHANGED <<chan, told, cache>>
      /\ at'[p] = clock + 1 /\ \A q \in Objects : q # p => at'[q] = at[q]
      /\ clock + 1 \in 1..MaxChanges + 1
    BY <1>0, StreamAssumption DEF ObjectChanges, ClusterTyped
<1>2. ASSUME NEW w \in Loops
      PROVE  /\ watch'[w].event = watch[w].event /\ watch'[w].listed = watch[w].listed
             /\ \A q \in Objects : q # p => watch'[w].backlog[q] = watch[w].backlog[q]
             /\ Kind(p) \in watch[w].listed =>
                    watch'[w].backlog[p] = Append(watch[w].backlog[p], clock + 1)
    BY <1>0 DEF ObjectChanges, WatchTyped, Watches
<1>3. CASE o = p
    <2>1. CASE \A w \in Loops : Kind(p) \notin watch[w].listed
        BY <1>2, <1>3, <2>1 DEF OnItsWay, Waiting
    <2>2. ASSUME NEW w \in Loops, Kind(p) \in watch[w].listed PROVE OnItsWay(i, o)'
        <3>1. watch[w].backlog[p] \in Seq(1..MaxChanges + 1)
            BY <1>0 DEF WatchTyped, Watches
        <3> DEFINE l == watch[w].backlog[p]
                   m == Append(l, clock + 1)
        <3>a. Len(m) = Len(l) + 1 /\ m[Len(l) + 1] = clock + 1 /\ Len(l) \in Nat
            BY <1>1, <3>1
        <3>b. watch'[w].backlog[p] = m
            BY <1>2, <2>2
        <3> HIDE DEF l, m
        <3>c. Len(m) \in 1..Len(m) /\ m[Len(m)] = clock + 1
            BY <3>a
        <3>2. /\ Len(watch'[w].backlog[p]) \in 1..Len(watch'[w].backlog[p])
              /\ watch'[w].backlog[p][Len(watch'[w].backlog[p])] = clock + 1
            BY <3>b, <3>c
        <3> QED BY <1>1, <1>3, <3>2 DEF OnItsWay, Waiting
    <2> QED BY <2>1, <2>2
<1>4. CASE o # p
    BY <1>1, <1>2, <1>4 DEF OnItsWay, Reached, Waiting, Hidden
<1> QED BY <1>3, <1>4

LEMMA NextNothingLost ==
    Typed /\ Ordered /\ Unresolved /\ NothingLost /\ [StreamNext]_streamVars => NothingLost'
<1> SUFFICES ASSUME Typed, Ordered, Unresolved, NothingLost, [StreamNext]_streamVars
             PROVE  NothingLost'
    OBVIOUS
<1>t. here' \subseteq Objects /\ Subscribers' \subseteq Loops
    <2>1. Typed'
        BY NextTyped
    <2> QED BY <2>1 DEF Typed, StreamTypeOK, Subscribers
<1> SUFFICES ASSUME NEW i \in Loops, NEW o \in Objects,
                    i \in Subscribers', o \in here', o \in owed'[i]
             PROVE  OnItsWay(i, o)'
    BY <1>t DEF NothingLost
<1>0. WatchTyped /\ LinksTyped /\ ClusterTyped
    BY TypeParts
<1>p. i \in Subscribers /\ o \in here /\ o \in owed[i] => OnItsWay(i, o)
    BY DEF NothingLost
<1>q. ASSUME UNCHANGED <<at, here, cache>>,
             \A w \in Loops : /\ watch'[w].backlog = watch[w].backlog
                              /\ watch'[w].event = watch[w].event
                              /\ watch'[w].listed = watch[w].listed,
             chan'[i] = chan[i], told'[i] = told[i], owed'[i] = owed[i], i \in Subscribers
      PROVE  OnItsWay(i, o)'
    <2>1. OnItsWay(i, o)
        BY <1>p, <1>q
    <2> QED BY <1>q, <2>1 DEF OnItsWay, Reached, Waiting, Hidden
<1>s. link'[i] = link[i] => i \in Subscribers
    BY DEF Subscribers
<1> USE DEF clusterVars, serverVars, linkVars
<1>1. ASSUME HubOnly(HubChoices) \/ \E j \in Loops : HubOnly(HubGoesOn(j))
      PROVE  OnItsWay(i, o)'
    BY <1>1, <1>q, <1>s DEF HubOnly
<1>2. ASSUME NEW j \in Loops, Accept(j) \/ Turned(j) PROVE OnItsWay(i, o)'
    <2>1. link'[i] = link[i]
        BY <1>2, <1>0 DEF Accept, Turned, LinksTyped, Subscribers
    <2> QED BY <1>2, <1>q, <1>s, <2>1 DEF Accept, Turned
<1>3. ASSUME NEW j \in Loops, Subscribe(j) PROVE OnItsWay(i, o)'
    <2>1. CASE i = j
        <3>1. ~Spawned
            BY <1>3, <1>0, <2>1 DEF Subscribe, LinksTyped
        <3>2. \A w \in Loops : watch[w].listed = {} /\ watch' = watch
            BY <1>3, <3>1 DEF Subscribe, Spawned, Ordered, OneLoop
        <3> QED BY <3>2 DEF OnItsWay, Waiting
    <2>2. CASE i # j
        <3>1. link'[i] = link[i] /\ owed'[i] = owed[i]
            BY <1>3, <1>0, <2>2 DEF Subscribe, LinksTyped
        <3> QED BY <1>3, <1>q, <1>s, <3>1 DEF Subscribe
    <2> QED BY <2>1, <2>2
<1>4. ASSUME NEW j \in Loops, SpawnLoop(j) PROVE OnItsWay(i, o)'
    <2>1. i \in Subscribers
        BY <1>4, <1>0 DEF SpawnLoop, LinksTyped, Subscribers
    <2>2. \A w \in Loops : /\ watch'[w].backlog = watch[w].backlog
                           /\ watch'[w].event = watch[w].event
                           /\ watch'[w].listed = watch[w].listed
        BY <1>4, <1>0 DEF SpawnLoop, WatchTyped, Watches
    <2> QED BY <1>4, <1>q, <2>1, <2>2 DEF SpawnLoop
<1>5. ASSUME NEW j \in Loops, Leave(j) \/ BuildFails(j) PROVE OnItsWay(i, o)'
    <2>1. Forget(j) /\ UNCHANGED <<at, here, cache, watch>>
        BY <1>5 DEF Leave, BuildFails
    <2>2. /\ link'[i] = link[i] /\ chan'[i] = chan[i]
          /\ told'[i] = told[i] /\ owed'[i] = owed[i]
        BY <1>0, <2>1 DEF Forget, LinksTyped, Subscribers
    <2> QED BY <1>q, <1>s, <2>1, <2>2
<1>6. ASSUME NEW j \in Loops, Deliver(j) PROVE OnItsWay(i, o)'
    <2>1. OnItsWay(i, o) /\ UNCHANGED <<at, watch, cache>>
        BY <1>6, <1>p, <1>s DEF Deliver
    <2>2. Reached(i, o) => Reached(i, o)'
        BY <1>6, DeliverReaches
    <2> QED BY <2>1, <2>2 DEF OnItsWay, Waiting, Hidden
<1>7. ASSUME NEW w \in Loops, StartStream(w) PROVE OnItsWay(i, o)'
    <2>1. \A v \in Loops : /\ watch'[v].backlog = watch[v].backlog
                           /\ watch'[v].event = watch[v].event
                           /\ watch'[v].listed = watch[v].listed
        BY <1>7, <1>0 DEF StartStream, WatchTyped, Watches
    <2> QED BY <1>7, <1>q, <1>s, <2>1 DEF StartStream
<1>8. ASSUME NEW w \in Loops, StreamError(w) PROVE OnItsWay(i, o)'
    <2>1. watch'[w].listed = {} /\ \A v \in Loops : v # w => watch'[v] = watch[v]
        BY <1>8, <1>0 DEF StreamError, NoWatch, WatchTyped
    <2>2. \A v \in Loops : v # w => watch[v].listed = {}
        BY <1>8, NobodyElse DEF StreamError, Ordered
    <2>3. \A v \in Loops : Kind(o) \notin watch'[v].listed
        BY <2>1, <2>2
    <2> QED BY <2>3 DEF OnItsWay, Waiting
<1>9. ASSUME NEW w \in Loops, NEW kind \in {Sandboxes, Projects}, ListKind(w, kind)
      PROVE  OnItsWay(i, o)'
    <2> DEFINE b == [q \in Objects |-> IF q \in kind \cap here THEN <<at[q]>>
                                       ELSE watch[w].backlog[q]]
    <2>1. /\ watch'[w].backlog = b /\ watch'[w].listed = watch[w].listed \cup {kind}
          /\ watch'[w].event = watch[w].event
          /\ \A v \in Loops : v # w => watch'[v] = watch[v]
          /\ UNCHANGED <<at, here, cache, chan, told, owed, link>>
        BY <1>9, <1>0 DEF ListKind, WatchTyped, Watches
    <2>2. OnItsWay(i, o) /\ o \in here
        BY <1>p, <1>s, <2>1
    <2>3. CASE o \in kind
        <3>1. watch'[w].backlog[o] = <<at[o]>>
            BY <2>1, <2>2, <2>3
        <3>2. 1 \in 1..Len(watch'[w].backlog[o]) /\ watch'[w].backlog[o][1] = at'[o]
            BY <2>1, <3>1
        <3> QED BY <3>2 DEF OnItsWay, Waiting
    <2>4. CASE o \notin kind
        <3>1. Kind(o) # kind
            BY <2>4, Kinds
        <3>2. \A v \in Loops : /\ watch'[v].backlog[o] = watch[v].backlog[o]
                               /\ watch'[v].event = watch[v].event
                               /\ Kind(o) \in watch'[v].listed => Kind(o) \in watch[v].listed
            BY <2>1, <2>4, <3>1
        <3> QED BY <2>1, <2>2, <3>2 DEF OnItsWay, Reached, Waiting, Hidden
    <2> QED BY <2>3, <2>4
<1>10. ASSUME NEW w \in Loops, NEW p \in Objects, TakeEvent(w, p) PROVE OnItsWay(i, o)'
    <2>1. i \in Subscribers /\ OnItsWay(i, o)
        BY <1>10, <1>p, <1>s DEF TakeEvent
    <2> QED BY <1>10, <2>1, TakeLosesNothing
<1>11. ASSUME NEW w \in Loops, Resolve(w) PROVE OnItsWay(i, o)'
    <2>1. i \in Subscribers /\ OnItsWay(i, o)
        BY <1>11, <1>p, <1>s DEF Resolve
    <2> QED BY <1>11, <2>1, ResolveLosesNothing
<1>12. ASSUME NEW p \in Objects, NEW exists \in BOOLEAN, ObjectChanges(p, exists)
       PROVE  OnItsWay(i, o)'
    <2>1. i \in Subscribers
        BY <1>12, <1>s DEF ObjectChanges
    <2>2. o # p => o \in here /\ o \in owed[i]
        BY <1>12, <1>0, <2>1 DEF ObjectChanges, LinksTyped
    <2> QED BY <1>12, <1>p, <2>1, <2>2, ChangeLosesNothing
<1>13. ASSUME UNCHANGED streamVars PROVE OnItsWay(i, o)'
    BY <1>13, <1>q, <1>s DEF streamVars
<1> QED
    BY <1>1, <1>2, <1>3, <1>4, <1>5, <1>6, <1>7, <1>8, <1>9, <1>10, <1>11, <1>12, <1>13
       DEF StreamNext, Handler, WatchLoop

(* No state a connection is owed is ever lost between the cluster and the  *)
(* browser: neither the race of two tabs to spawn the watch loop, nor a    *)
(* watch that breaks, nor the resolution of an owner drops the last state  *)
(* of an object, a project remembered as not found excepted.  What is left *)
(* for ToldInTheEnd is that handlers and watch loop go on.                 *)
THEOREM NoStateLost == StreamSpec => []NothingLost
<1>1. StreamInit => Unresolved /\ NothingLost
    <2> SUFFICES ASSUME StreamInit PROVE Unresolved /\ NothingLost
        OBVIOUS
    <2>1. Subscribers = {} /\ \A w \in Loops : watch[w].event = <<>>
        BY DEF StreamInit, Subscribers, NoWatch
    <2> QED BY <2>1 DEF Unresolved, NothingLost
<1> QED
    BY <1>1, InitTyped, NextTyped, InitOrdered, NextOrdered, NextUnresolved, NextNothingLost,
       PTL DEF StreamSpec

-----------------------------------------------------------------------------
(* The hub of a tab that shows states has a loop at work.                   *)
Working == {"opening", "open", "sleeping"}
HubAlive ==
    \A t \in Tabs :
        /\ hubRunning[t] = used[t]
        /\ used[t] => \E i \in Loops : TabOf[i] = t /\ hub[i] \in Working

(* A loop that turns or backs off goes on while its hub runs.              *)
LEMMA TurningGoesOn ==
    ASSUME HubTypeOK, HubAlive, NEW i \in Loops, TopOfLoop(i) \/ BackOff(i),
           UNCHANGED <<used, hubRunning>>
    PROVE  HubAlive'
<1>1. TabOf[i] \in Tabs
    BY HubAssumption
<1>2. \A j \in Loops : j # i => hub'[j] = hub[j]
    BY DEF TopOfLoop, BackOff, HubTypeOK
<1>3. hubRunning[TabOf[i]] => hub'[i] \in Working
    BY DEF TopOfLoop, BackOff, HubTypeOK, Working
<1> QED
    BY <1>1, <1>2, <1>3 DEF HubAlive

LEMMA NextAlive == Typed /\ HubAlive /\ [StreamNext]_streamVars => HubAlive'
<1> SUFFICES ASSUME Typed, HubAlive, [StreamNext]_streamVars PROVE HubAlive'
    OBVIOUS
<1>0. HubTypeOK
    BY TypeParts
<1>q. UNCHANGED <<used, hubRunning, hub>> => HubAlive'
    BY DEF HubAlive
<1>1. ASSUME NEW t \in Tabs, Unmount(t) PROVE HubAlive'
    <2>1. /\ used' = [used EXCEPT ![t] = FALSE] /\ used \in [Tabs -> BOOLEAN]
          /\ hubRunning' = [hubRunning EXCEPT ![t] = FALSE] /\ hubRunning \in [Tabs -> BOOLEAN]
          /\ hub' = hub
        BY <1>1, <1>0 DEF Unmount, HubTypeOK
    <2>2. ASSUME NEW s \in Tabs PROVE hubRunning'[s] = used'[s] /\ (used'[s] => used[s])
        BY <2>1, Zenon DEF HubAlive
    <2> QED BY <2>1, <2>2 DEF HubAlive
<1>2. ASSUME NEW t \in Tabs, NEW i \in Loops, Mount(t, i) PROVE HubAlive'
    <2>1. /\ hub'[i] = "opening" /\ TabOf[i] = t
          /\ \A j \in Loops : hub[j] \in Working => hub'[j] \in Working
        BY <1>2, <1>0 DEF Mount, HubTypeOK, Working
    <2>2. \A s \in Tabs : /\ s = t => used'[s] = TRUE /\ hubRunning'[s] = TRUE
                          /\ s # t => used'[s] = used[s] /\ hubRunning'[s] = hubRunning[s]
        <3>1. /\ used' = [used EXCEPT ![t] = TRUE] /\ used \in [Tabs -> BOOLEAN]
              /\ hubRunning' = [hubRunning EXCEPT ![t] = TRUE]
              /\ hubRunning \in [Tabs -> BOOLEAN]
            BY <1>2, <1>0 DEF Mount, HubTypeOK
        <3> QED BY <3>1, Zenon
    <2>3. hub'[i] \in Working
        BY <2>1 DEF Working
    <2>4. ASSUME NEW s \in Tabs
          PROVE  /\ hubRunning'[s] = used'[s]
                 /\ used'[s] => \E j \in Loops : TabOf[j] = s /\ hub'[j] \in Working
        <3>1. CASE s = t
            BY <2>1, <2>2, <2>3, <3>1
        <3>2. CASE s # t
            BY <2>1, <2>2, <3>2 DEF HubAlive
        <3> QED BY <3>1, <3>2
    <2> QED BY <2>4 DEF HubAlive
<1>3. ASSUME NEW i \in Loops, OpenFails(i) \/ Closed(i) \/ SleepOver(i) PROVE HubAlive'
    BY <1>3, <1>0, TurningGoesOn DEF OpenFails, Closed, SleepOver
<1>4. ASSUME NEW i \in Loops, Opened(i) PROVE HubAlive'
    <2>1. \A j \in Loops : hub[j] \in Working => hub'[j] \in Working
        BY <1>4, <1>0 DEF Opened, HubTypeOK, Working
    <2> QED BY <1>4, <2>1 DEF Opened, HubAlive
<1>5. HubChoices => HubAlive'
    BY <1>1, <1>2, <1>3, <1>q DEF HubChoices, Cut
<1>6. \A i \in Loops : HubGoesOn(i) \/ Accept(i) => HubAlive'
    BY <1>3, <1>4 DEF HubGoesOn, Accept
<1> QED
    BY <1>5, <1>6, <1>q
       DEF StreamNext, Handler, WatchLoop, HubOnly, Turned, Subscribe, SpawnLoop, BuildFails,
           Deliver, Leave, StartStream, ListKind, TakeEvent, Resolve, StreamError, ObjectChanges,
           hubVars, streamVars

(* A tab that shows states always has a loop that opens its socket, uses it *)
(* or waits to open it again: no failed opening, cut, close or remount in   *)
(* the middle of a back-off leaves a used hub without one (hubTick,         *)
(* onScopeDispose).  UsedHubConnects adds that the loop gets there.         *)
THEOREM UsedHubHasLoop == StreamSpec => []HubAlive
<1>1. StreamInit => HubAlive
    BY DEF StreamInit, HubInit, HubAlive
<1> QED
    BY <1>1, InitTyped, NextTyped, NextAlive, PTL DEF StreamSpec

-----------------------------------------------------------------------------
(* One watch loop.                                                          *)
ServedByOne ==
    /\ \A v, w \in Loops : watch[v].pc # "none" /\ watch[w].pc # "none" => v = w
    /\ \A i \in Loops : link[i] = "served" => Spawned

LEMMA NextServed ==
    Typed /\ Ordered /\ ServedByOne /\ [StreamNext]_streamVars => (Ordered /\ ServedByOne)'
<1> SUFFICES ASSUME Typed, Ordered, ServedByOne, [StreamNext]_streamVars
             PROVE  (Ordered /\ ServedByOne)'
    OBVIOUS
<1>0. Ordered' /\ WatchTyped /\ LinksTyped
    BY NextOrdered, TypeParts
<1>1. ASSUME NEW w \in Loops, watch[w].pc # "none" PROVE watch'[w].pc # "none"
    <2>1. UNCHANGED watch => watch'[w].pc # "none"
        BY <1>1
    <2>2. ASSUME NEW v \in Loops, StartStream(v) \/ StreamError(v) \/ Resolve(v) \/ SpawnLoop(v)
          PROVE  watch'[w].pc # "none"
        BY <1>0, <1>1, <2>2
           DEF StartStream, StreamError, Resolve, SpawnLoop, NoWatch, WatchTyped, Watches
    <2>3. ASSUME NEW v \in Loops, NEW kind \in {Sandboxes, Projects}, ListKind(v, kind)
          PROVE  watch'[w].pc # "none"
        BY <1>0, <1>1, <2>3 DEF ListKind, WatchTyped, Watches
    <2>4. ASSUME NEW v \in Loops, NEW o \in Objects, TakeEvent(v, o)
          PROVE  watch'[w].pc # "none"
        <3> DEFINE rest == [watch[v] EXCEPT !.backlog[o] = Tail(@)]
                   taken == [rest EXCEPT !.pc = "resolving",
                                         !.event = <<o, Head(watch[v].backlog[o])>>]
        <3>1. watch' = [watch EXCEPT ![v] = rest] \/ watch' = [watch EXCEPT ![v] = taken]
            BY <2>4 DEF TakeEvent
        <3>2. rest.pc = watch[v].pc /\ taken.pc = "resolving"
            BY <1>0 DEF WatchTyped, Watches
        <3> HIDE DEF rest, taken
        <3> QED BY <1>0, <1>1, <3>1, <3>2 DEF WatchTyped
    <2>5. ASSUME NEW o \in Objects, NEW exists \in BOOLEAN, ObjectChanges(o, exists)
          PROVE  watch'[w].pc # "none"
        BY <1>0, <1>1, <2>5 DEF ObjectChanges, WatchTyped, Watches
    <2> QED
        BY <2>1, <2>2, <2>3, <2>4, <2>5
           DEF StreamNext, Handler, WatchLoop, HubOnly, Accept, Turned, Subscribe, BuildFails,
               Deliver, Leave, serverVars, streamVars
<1>2. Spawned => Spawned'
    BY <1>1 DEF Spawned
<1>3. ASSUME NEW i \in Loops, link'[i] = "served", link[i] # "served" PROVE Spawned'
    <2>1. CASE \E j \in Loops : Subscribe(j)
        <3>1. Spawned
            BY <1>0, <1>3, <2>1 DEF Subscribe, LinksTyped
        <3> QED BY <1>2, <3>1
    <2>2. CASE \E j \in Loops : SpawnLoop(j)
        <3>1. PICK j \in Loops : SpawnLoop(j)
            BY <2>2
        <3>2. CASE Spawned
            BY <1>2, <3>2
        <3>3. CASE ~Spawned
            <4>1. watch'[j].pc = "top"
                BY <1>0, <3>1, <3>3 DEF SpawnLoop, WatchTyped, Watches
            <4> QED BY <4>1 DEF Spawned
        <3> QED BY <3>2, <3>3
    <2> QED
        BY <1>0, <1>3, <2>1, <2>2
           DEF StreamNext, Handler, WatchLoop, HubOnly, Accept, Turned, BuildFails, Deliver,
               Leave, Forget, StartStream, ListKind, TakeEvent, Resolve, StreamError,
               ObjectChanges, linkVars, streamVars, LinksTyped
<1> QED
    BY <1>0, <1>2, <1>3 DEF ServedByOne, Ordered, OneLoop

(* However many connections found no watch loop and went on to build a     *)
(* client, the owner gets one loop, and a connection that is served has it. *)
THEOREM OneWatchLoop == StreamSpec => []ServedByOne
<1>1. StreamInit => ServedByOne
    BY DEF StreamInit, ServedByOne, NoWatch
<1> QED
    BY <1>1, InitTyped, NextTyped, InitOrdered, NextServed, PTL DEF StreamSpec
=============================================================================
