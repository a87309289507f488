---------------------------- MODULE StateStream ----------------------------
(***************************************************************************)
(* The stream of sandbox and project states of one owner: the socket       *)
(* handler and the watch loop of app/src/ws/sandbox_state.rs, the watch of *)
(* lib/src/k8s.rs, between the Kubernetes objects and the hubs of the      *)
(* browser tabs (StateHub).                                                *)
(*                                                                         *)
(* A connection has the number of the hub loop that opened it.  A state of *)
(* an object is the time of its last change, deletions included; what a    *)
(* phase says is left out.  The owners are independent of one another:   *)
(* each has its subscribers, its watch loop and its lines of the cache.    *)
(***************************************************************************)
EXTENDS StateHub, Sequences

CONSTANTS Sandboxes, Projects,   \* the objects in the namespace of the owner
          ProjectOf,             \* spec.project of a sandbox
          Initially,             \* those that are there at first
          MaxChanges             \* bound on the changes of the objects, in all

Objects == Sandboxes \cup Projects

ASSUME StreamAssumption ==
    /\ Sandboxes \cap Projects = {}
    /\ ProjectOf \in [Sandboxes -> Projects]
    /\ Initially \subseteq Objects
    /\ MaxChanges \in Nat

VARIABLES here,    \* the objects that exist
          clock,   \* the changes so far, from 1
          at,      \* the state of an object; 0, one that was never there
          cache,   \* project_owner: what was resolved for a project, ever
          dead,    \* a Subscriber whose session ended in an error is left behind
          watch,   \* the watch loop a connection spawned, if it did
          link,    \* run_socket for a connection
          chan,    \* the events on their way to the browser: channel and socket
          told,    \* history: the last state of an object the connection was told
          owed     \* history: the objects whose state it must be told in the end

serverVars == <<cache, dead, watch>>
clusterVars == <<here, clock, at>>
linkVars == <<link, chan, told, owed>>
streamVars == <<hubVars, faults, clusterVars, serverVars, linkVars>>

NoEvents == [o \in Objects |-> <<>>]
NoWatch == [pc |-> "none", listed |-> {}, backlog |-> NoEvents, event |-> <<>>]
Event == Objects \X (1..MaxChanges + 1)

(* The values of the variables, and an event in hand exactly while its     *)
(* owner is being resolved.                                                *)
StreamTypeOK ==
    /\ HubTypeOK
    /\ here \subseteq Objects
    /\ clock \in 1..MaxChanges + 1
    /\ at \in [Objects -> 0..clock]
    /\ cache \in [Projects -> {"unknown", "owner", "miss"}]
    /\ dead \in BOOLEAN
    /\ watch \in [Loops -> [pc : {"none", "top", "streaming", "resolving"},
                            listed : SUBSET {Sandboxes, Projects},
                            backlog : [Objects -> Seq(1..MaxChanges + 1)],
                            event : Event \cup {<<>>}]]
    /\ \A i \in Loops : watch[i].pc = "resolving" <=> watch[i].event # <<>>
    /\ link \in [Loops -> {"off", "accepted", "building", "served"}]
    /\ chan \in [Loops -> Seq(Event)]
    /\ told \in [Loops -> [Objects -> 0..MaxChanges + 1]]
    /\ owed \in [Loops -> SUBSET Objects]

StreamInit ==
    /\ HubInit
    /\ here = Initially
    /\ clock = 1
    /\ at = [o \in Objects |-> IF o \in here THEN 1 ELSE 0]
    /\ cache = [p \in Projects |-> "unknown"]
    /\ dead = FALSE
    /\ watch = [i \in Loops |-> NoWatch]
    /\ link = [i \in Loops |-> "off"]
    /\ chan = [i \in Loops |-> <<>>]
    /\ told = [i \in Loops |-> [o \in Objects |-> 0]]
    /\ owed = [i \in Loops |-> {}]

Subscribers == {i \in Loops : link[i] \in {"building", "served"}}
Spawned == \E i \in Loops : watch[i].pc # "none"
Kind(o) == IF o \in Sandboxes THEN Sandboxes ELSE Projects

-----------------------------------------------------------------------------
(* The cluster.                                                            *)

(* An object is created, changes its phase or is deleted; the watches that *)
(* have listed its kind are sent the change.                               *)
ObjectChanges(o, exists) ==
    /\ o \in here \/ exists
    /\ clock <= MaxChanges
    /\ clock' = clock + 1
    /\ here' = IF exists THEN here \cup {o} ELSE here \ {o}
    /\ at' = [at EXCEPT ![o] = clock + 1]
    /\ watch' = [i \in Loops |->
                   IF Kind(o) \in watch[i].listed
                     THEN [watch[i] EXCEPT !.backlog[o] = Append(@, clock + 1)]
                     ELSE watch[i]]
    /\ owed' = [i \in Loops |-> IF i \in Subscribers THEN owed[i] \cup {o} ELSE owed[i]]
    /\ UNCHANGED <<hubVars, faults, cache, dead, link, chan, told>>

-----------------------------------------------------------------------------
(* The socket handler.                                                     *)

Accept(i) ==
    /\ link[i] = "off"
    /\ Opened(i)
    /\ link' = [link EXCEPT ![i] = "accepted"]
    /\ UNCHANGED <<clusterVars, serverVars, chan, told, owed>>

(* The session ends before it subscribed: no owner, or the database fails. *)
Turned(i) ==
    /\ link[i] = "accepted"
    /\ Fault
    /\ link' = [link EXCEPT ![i] = "off"]
    /\ sock' = [sock EXCEPT ![i] = IF @ = "open" THEN "closing" ELSE @]
    /\ UNCHANGED <<used, hubRunning, ws, hub, clusterVars, serverVars, chan, told, owed>>

(* The subscriber is there before the watch loop is.  ensure_watch_loop    *)
(* then looks for the loop, builds a client without the lock, and looks    *)
(* again with it.                                                          *)
Subscribe(i) ==
    /\ link[i] = "accepted"
    /\ link' = [link EXCEPT ![i] = IF Spawned THEN "served" ELSE "building"]
    /\ owed' = [owed EXCEPT ![i] = IF Spawned THEN {} ELSE Objects]
    /\ UNCHANGED <<hubVars, faults, clusterVars, serverVars, chan, told>>

SpawnLoopUnchecked(i) ==  \* mutant: no second look
    /\ link[i] = "building"
    /\ link' = [link EXCEPT ![i] = "served"]
    /\ watch' = [watch EXCEPT ![i].pc = "top"]
    /\ UNCHANGED <<hubVars, faults, clusterVars, cache, dead, chan, told, owed>>

SpawnLoop(i) ==
    /\ link[i] = "building"
    /\ link' = [link EXCEPT ![i] = "served"]
    /\ watch' = IF Spawned THEN watch ELSE [watch EXCEPT ![i].pc = "top"]
    /\ UNCHANGED <<hubVars, faults, clusterVars, cache, dead, chan, told, owed>>

(* What goes with a connection that ends.                                  *)
Forget(i) ==
    /\ link' = [link EXCEPT ![i] = "off"]
    /\ chan' = [chan EXCEPT ![i] = <<>>]
    /\ told' = [told EXCEPT ![i] = [o \in Objects |-> 0]]
    /\ owed' = [owed EXCEPT ![i] = {}]

(* The client cannot be built: the session ends, its subscriber stays.     *)
BuildFails(i) ==
    /\ link[i] = "building"
    /\ Fault
    /\ Forget(i)
    /\ dead' = TRUE
    /\ sock' = [sock EXCEPT ![i] = IF @ = "open" THEN "closing" ELSE @]
    /\ UNCHANGED <<used, hubRunning, ws, hub, clusterVars, cache, watch>>

(* The forwarding task sends an event and the browser takes it; nothing    *)
(* arrives on a socket that closes.                                        *)
Deliver(i) ==
    /\ link[i] = "served"
    /\ hub[i] = "open" /\ sock[i] = "open"
    /\ chan[i] # <<>>
    /\ told' = [told EXCEPT ![i][Head(chan[i])[1]] = Head(chan[i])[2]]
    /\ chan' = [chan EXCEPT ![i] = Tail(@)]
    /\ UNCHANGED <<hubVars, faults, clusterVars, serverVars, link, owed>>

(* The handler sees that the browser is gone.                              *)
Leave(i) ==
    /\ link[i] = "served"
    /\ sock[i] # "open"
    /\ Forget(i)
    /\ UNCHANGED <<hubVars, faults, clusterVars, serverVars>>

-----------------------------------------------------------------------------
(* The watch loop.                                                         *)

(* Every subscriber of the owner gets the event.                           *)
Dispatch(o, n) ==
    chan' = [i \in Loops |-> IF i \in Subscribers THEN Append(chan[i], <<o, n>>) ELSE chan[i]]

(* With nobody subscribed the loop sleeps and looks again.                 *)
StartStream(w) ==
    /\ watch[w].pc = "top"
    /\ Subscribers # {} \/ dead
    /\ watch' = [watch EXCEPT ![w].pc = "streaming"]
    /\ UNCHANGED <<hubVars, faults, clusterVars, cache, dead, linkVars>>

ListKindSilently(w, kind) ==  \* mutant: InitApply is ignored like Init
    /\ watch[w].pc \in {"streaming", "resolving"}
    /\ kind \notin watch[w].listed
    /\ watch' = [watch EXCEPT ![w].listed = @ \cup {kind}]
    /\ UNCHANGED <<hubVars, faults, clusterVars, cache, dead, linkVars>>

(* The watch of a kind lists its objects; an InitApply is replayed for     *)
(* each of them.                                                           *)
ListKind(w, kind) ==
    /\ watch[w].pc \in {"streaming", "resolving"}
    /\ kind \notin watch[w].listed
    /\ watch' = [watch EXCEPT
                   ![w].listed = @ \cup {kind},
                   ![w].backlog = [o \in Objects |->
                       IF o \in kind \cap here THEN <<at[o]>> ELSE @[o]]]
    /\ UNCHANGED <<hubVars, faults, clusterVars, cache, dead, linkVars>>

(* The next change.  That of a project is dispatched, that of a sandbox    *)
(* when its owner is known, and dropped when its project is remembered as  *)
(* not found.                                                              *)
TakeEvent(w, o) ==
    LET n == Head(watch[w].backlog[o])
        rest == [watch[w] EXCEPT !.backlog[o] = Tail(@)]
        known == IF o \in Projects THEN "owner" ELSE cache[ProjectOf[o]]
    IN
    /\ watch[w].pc = "streaming"
    /\ watch[w].backlog[o] # <<>>
    /\ \/ /\ known = "owner"
          /\ Dispatch(o, n)
          /\ watch' = [watch EXCEPT ![w] = rest]
       \/ /\ known = "miss"
          /\ watch' = [watch EXCEPT ![w] = rest]
          /\ UNCHANGED chan
       \/ /\ known = "unknown"
          /\ watch' = [watch EXCEPT ![w] = [rest EXCEPT !.pc = "resolving", !.event = <<o, n>>]]
          /\ UNCHANGED chan
    /\ UNCHANGED <<hubVars, faults, clusterVars, cache, dead, link, told, owed>>

(* get_project answers; an error of any kind is remembered as a miss.      *)
Resolve(w) ==
    LET o == watch[w].event[1]
        p == ProjectOf[o]
    IN
    /\ watch[w].pc = "resolving"
    /\ watch' = [watch EXCEPT ![w].pc = "streaming", ![w].event = <<>>]
    /\ \/ /\ p \in here
          /\ cache' = [cache EXCEPT ![p] = "owner"]
          /\ Dispatch(o, watch[w].event[2])
          /\ UNCHANGED faults
       \/ /\ \/ p \notin here /\ UNCHANGED faults
             \/ Fault
          /\ cache' = [cache EXCEPT ![p] = "miss"]
          /\ UNCHANGED chan
    /\ UNCHANGED <<hubVars, clusterVars, dead, link, told, owed>>

(* An error of either watch ends both, and what they held is lost.  The    *)
(* pause before the next attempt is time spent at the top.                 *)
StreamError(w) ==
    /\ watch[w].pc = "streaming"
    /\ Fault
    /\ watch' = [watch EXCEPT ![w] = [NoWatch EXCEPT !.pc = "top"]]
    /\ UNCHANGED <<hubVars, clusterVars, cache, dead, linkVars>>

-----------------------------------------------------------------------------
(* A step of the hubs that leaves the server alone.                        *)
HubOnly(step) == step /\ UNCHANGED <<clusterVars, serverVars, linkVars>>

Handler(i) ==
    \/ Accept(i)
    \/ Subscribe(i)
    \/ SpawnLoop(i)
    \/ Deliver(i)
    \/ Leave(i)

WatchLoop(w) ==
    \/ StartStream(w)
    \/ \E kind \in {Sandboxes, Projects} : ListKind(w, kind)
    \/ \E o \in Objects : TakeEvent(w, o)
    \/ Resolve(w)

StreamNext ==
    \/ HubOnly(HubChoices)
    \/ \E i \in Loops : HubOnly(HubGoesOn(i)) \/ Handler(i) \/ Turned(i) \/ BuildFails(i)
    \/ \E w \in Loops : WatchLoop(w) \/ StreamError(w)
    \/ \E o \in Objects, exists \in BOOLEAN : ObjectChanges(o, exists)

(* Browser, handlers and watch loop run; nobody owes a change, a view or a *)
(* failure.                                                                *)
StreamSpec ==
    /\ StreamInit /\ [][StreamNext]_streamVars
    /\ \A i \in Loops : /\ WF_streamVars(HubOnly(HubGoesOn(i)))
                        /\ WF_streamVars(Handler(i))
                        /\ WF_streamVars(WatchLoop(i))

-----------------------------------------------------------------------------
(* What a connection is told of an object never goes back in time, whether *)
(* it comes from a replay or from a change: there is one watch loop        *)
(* however many connections raced to spawn it (ensure_watch_loop,          *)
(* sandbox_state.rs:257), and a restarted stream starts after all it sent. *)
InOrder ==
    \A i \in Loops : link[i] # "off" =>
        /\ \A k \in 1..Len(chan[i]) : told[i][chan[i][k][1]] <= chan[i][k][2]
        /\ \A k, m \in 1..Len(chan[i]) :
               k < m /\ chan[i][k][1] = chan[i][m][1] => chan[i][k][2] <= chan[i][m][2]

(* A connection that lasts is told the last state of every object that     *)
(* exists and has changed since it subscribed, and of all of them when its *)
(* subscription came before the watch loop (run_socket subscribes first).  *)
(* Not of the sandboxes of a project remembered as not found.              *)
ToldInTheEnd ==
    \A i \in Loops, o \in Objects :
        <>[](/\ link[i] = "served" /\ sock[i] = "open"
             /\ o \in here \cap owed[i]
             => \/ told[i][o] = at[o]
                \/ o \in Sandboxes /\ cache[ProjectOf[o]] = "miss")
=============================================================================
