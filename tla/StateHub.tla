------------------------------ MODULE StateHub ------------------------------
(***************************************************************************)
(* The hub of a browser tab that keeps one WebSocket to the stream of      *)
(* sandbox states (frontend/src/composables/useSandboxState.ts, with the   *)
(* opening of frontend/src/api/sandboxStateWs.ts).                         *)
(*                                                                         *)
(* A hub loop is the asynchronous function hubTick starts.  One is started *)
(* when the first view that shows states is mounted; it is asked to end    *)
(* when the last one is unmounted, and does so when it next looks.         *)
(* JavaScript is single-threaded: an action is what runs between two       *)
(* awaits.                                                                 *)
(***************************************************************************)
EXTENDS Naturals, FiniteSets

CONSTANTS Tabs,        \* browser tabs
          Loops,       \* hub loops, numbers from 1: each is started at most once
          TabOf,       \* the tab a loop runs in
          MaxFaults    \* bound on the failures of the environment, of all kinds

ASSUME HubAssumption ==
    /\ Loops \subseteq Nat \ {0}
    /\ TabOf \in [Loops -> Tabs]
    /\ MaxFaults \in Nat

VARIABLES used,        \* hubRef > 0: some mounted view of the tab uses the hub
          hubRunning,  \* asks the loops of the tab to go on
          ws,          \* the loop whose socket the tab remembers, or 0
          hub,         \* where a loop stands
          sock,        \* the socket of a loop, as the browser sees it
          faults

hubVars == <<used, hubRunning, ws, hub, sock>>

(* The values of the variables; a loop has a socket while it opens or uses *)
(* one, and the tab remembers the socket of a loop that is open.           *)
HubTypeOK ==
    /\ used \in [Tabs -> BOOLEAN]
    /\ hubRunning \in [Tabs -> BOOLEAN]
    /\ ws \in [Tabs -> Loops \cup {0}]
    /\ hub \in [Loops -> {"unborn", "opening", "open", "sleeping", "ended"}]
    /\ sock \in [Loops -> {"none", "connecting", "open", "closing"}]
    /\ faults \in 0..MaxFaults
    /\ \A i \in Loops : sock[i] = "none" <=> hub[i] \in {"unborn", "sleeping", "ended"}
    /\ \A t \in Tabs : ws[t] # 0 => hub[ws[t]] = "open" /\ TabOf[ws[t]] = t

HubInit ==
    /\ used = [t \in Tabs |-> FALSE]
    /\ hubRunning = [t \in Tabs |-> FALSE]
    /\ ws = [t \in Tabs |-> 0]
    /\ hub = [i \in Loops |-> "unborn"]
    /\ sock = [i \in Loops |-> "none"]
    /\ faults = 0

Fault == faults < MaxFaults /\ faults' = faults + 1

-----------------------------------------------------------------------------
(* The test of the while, then what runs up to the next await: the attempt *)
(* to open a socket, or the end of the loop.                               *)
TopOfLoop(i) ==
    IF hubRunning[TabOf[i]]
      THEN /\ hub' = [hub EXCEPT ![i] = "opening"]
           /\ sock' = [sock EXCEPT ![i] = "connecting"]
      ELSE /\ hub' = [hub EXCEPT ![i] = "ended"]
           /\ sock' = [sock EXCEPT ![i] = "none"]

(* What follows a failure or a short session: a back-off, skipped by a hub *)
(* that was stopped.                                                       *)
BackOff(i) ==
    IF hubRunning[TabOf[i]]
      THEN /\ hub' = [hub EXCEPT ![i] = "sleeping"]
           /\ sock' = [sock EXCEPT ![i] = "none"]
      ELSE TopOfLoop(i)

(* The first view starts the hub; hubTick does nothing in a hub that runs. *)
(* Further views are only counted.                                         *)
Mount(t, i) ==
    /\ ~used[t]
    /\ used' = [used EXCEPT ![t] = TRUE]
    /\ ~hubRunning[t]
    /\ hubRunning' = [hubRunning EXCEPT ![t] = TRUE]
    /\ TabOf[i] = t
    /\ hub[i] = "unborn"
    /\ \A j \in Loops : TabOf[j] = t /\ hub[j] = "unborn" => i <= j
    /\ hub' = [hub EXCEPT ![i] = "opening"]
    /\ sock' = [sock EXCEPT ![i] = "connecting"]
    /\ UNCHANGED <<ws, faults>>

(* onScopeDispose of the last view: the hub is stopped, the socket the tab *)
(* remembers closed; the close event comes later.                          *)
Unmount(t) ==
    /\ used[t]
    /\ used' = [used EXCEPT ![t] = FALSE]
    /\ hubRunning' = [hubRunning EXCEPT ![t] = FALSE]
    /\ sock' = [i \in Loops |-> IF i = ws[t] /\ sock[i] = "open" THEN "closing" ELSE sock[i]]
    /\ ws' = [ws EXCEPT ![t] = 0]
    /\ UNCHANGED <<hub, faults>>

(* The socket opens.  The loop remembers it without looking at hubRunning. *)
Opened(i) ==
    /\ hub[i] = "opening"
    /\ hub' = [hub EXCEPT ![i] = "open"]
    /\ sock' = [sock EXCEPT ![i] = "open"]
    /\ ws' = [ws EXCEPT ![TabOf[i]] = i]
    /\ UNCHANGED <<used, hubRunning, faults>>

OpenFailsForGood(i) ==  \* mutant: the failure ends the loop, the catch is outside it
    /\ hub[i] = "opening"
    /\ Fault
    /\ hub' = [hub EXCEPT ![i] = "ended"]
    /\ sock' = [sock EXCEPT ![i] = "none"]
    /\ UNCHANGED <<used, hubRunning, ws>>

OpenFails(i) ==
    /\ hub[i] = "opening"
    /\ Fault
    /\ BackOff(i)
    /\ UNCHANGED <<used, hubRunning, ws>>

(* The network or a proxy cuts the connection.                             *)
Cut(i) ==
    /\ sock[i] = "open"
    /\ Fault
    /\ sock' = [sock EXCEPT ![i] = "closing"]
    /\ UNCHANGED <<used, hubRunning, ws, hub>>

ClosedKeepingSocket(i) ==  \* mutant: the tab goes on remembering the socket
    /\ hub[i] = "open"
    /\ sock[i] = "closing"
    /\ TopOfLoop(i) \/ BackOff(i)
    /\ UNCHANGED <<used, hubRunning, ws, faults>>

(* The close event: after a session of 5 s or more the loop goes on at     *)
(* once, after a shorter one it backs off.                                 *)
Closed(i) ==
    /\ hub[i] = "open"
    /\ sock[i] = "closing"
    /\ ws' = [ws EXCEPT ![TabOf[i]] = IF @ = i THEN 0 ELSE @]
    /\ TopOfLoop(i) \/ BackOff(i)
    /\ UNCHANGED <<used, hubRunning, faults>>

(* The end of a back-off, in its time or by reconnectNow.                  *)
SleepOver(i) ==
    /\ hub[i] = "sleeping"
    /\ TopOfLoop(i)
    /\ UNCHANGED <<used, hubRunning, ws, faults>>

-----------------------------------------------------------------------------
(* What nobody owes: views, and failures.                                  *)
HubChoices ==
    \/ \E t \in Tabs : Unmount(t) \/ \E i \in Loops : Mount(t, i)
    \/ \E i \in Loops : OpenFails(i) \/ Cut(i)

(* What the browser does in the end: it reports a close, and timers fire.  *)
HubGoesOn(i) == Closed(i) \/ SleepOver(i)

(* A tab never has two sockets: useSandboxState.sdd:47 "Must not: Ouvrir   *)
(* plus d'un WebSocket", useSandboxState.ts:10 "Un seul WebSocket par      *)
(* application".  A loop stopped and not yet ended goes on beside the new  *)
(* one when a view is mounted again.                                       *)
OneSocket ==
    \A t \in Tabs :
        Cardinality({i \in Loops : TabOf[i] = t /\ sock[i] \in {"connecting", "open"}}) <= 1

(* A tab that shows states ends up connected for good, when failures stop: *)
(* no mount, unmount, failed opening or close leaves a used hub without a  *)
(* loop that opens a socket (hubTick, onScopeDispose).                     *)
UsedHubConnects ==
    \A t \in Tabs :
        <>[](used[t] => \E i \in Loops : TabOf[i] = t /\ hub[i] = "open" /\ sock[i] = "open")
=============================================================================
