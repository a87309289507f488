--------------------------- MODULE RpcChat_proofs ---------------------------
(***************************************************************************)
(* Proofs about RpcChat, for any number of conversations and requests and  *)
(* any bounds: its type, the reservations of the turns, the numbers of the *)
(* notifications, the answers on disk and the one answer of a request.     *)
(*                                                                         *)
(* A turn is held when it lives and its reservation was not taken from it. *)
(* The argument is that a held turn's conversation is in busy, that no two *)
(* held turns share one, and that a live turn that is not held is on a     *)
(* spoiled conversation.  The loop is in it: while it holds a request or a *)
(* purge, nobody else reserves.                                            *)
(***************************************************************************)
EXTENDS RpcChat, TLAPS

Held(r) == Live(r) /\ r \notin orphaned
Emitting(r) == turn[r].at = "emitting"

(***************************************************************************)
(* The type, with what it takes to keep it: a notification under way is    *)
(* within its bound, and a live turn and a loop at work know what they are *)
(* on.                                                                     *)
(***************************************************************************)
Typed ==
    /\ RpcTypeOK
    /\ \A r \in Requests : Emitting(r) => turn[r].sent < MaxEvents
    /\ \A r \in Requests : Live(r) => turn[r].conv \in Conversations
    /\ loop.at \in {"loaded", "reserved"} => loop.req \in Requests
    /\ loop.at \in {"loaded", "reserved", "removed", "unnumbered"} => loop.conv \in Conversations
    /\ loop.at = "reserved" => turn[loop.req].at = "reserved"

\* The reservations of the turns.
Reservations ==
    /\ \A r \in Requests : turn[r].at = "none" => r \notin orphaned
    /\ \A r \in Requests : Held(r) => turn[r].conv \in busy
    /\ \A r, s \in Requests : Held(r) /\ Held(s) /\ turn[r].conv = turn[s].conv => r = s
    /\ BusyHasTurn

\* What the loop has in hand between two of its steps.
InHand ==
    /\ loop.at = "loaded" => turn[loop.req].at = "none"
    /\ loop.at = "reserved" =>
           /\ turn[loop.req].conv = loop.conv
           /\ \A s \in Requests : Held(s) /\ turn[s].conv = loop.conv => s = loop.req
    /\ loop.at \in {"removed", "unnumbered"} =>
           (loop.conv \notin spoiled => \A r \in Requests : Live(r) => turn[r].conv # loop.conv)
    /\ loop.at = "clearing" => \A r \in Requests : Live(r) => turn[r].conv \in spoiled
    /\ loop.at = "exited" => \A r \in Requests : ~Live(r)

\* The numbers of the notifications.
Numbers ==
    /\ \A r \in Requests : Live(r) /\ r \in orphaned => turn[r].conv \in spoiled
    /\ \A r \in Requests :
           Emitting(r) /\ turn[r].conv \notin spoiled =>
               /\ turn[r].num = told[turn[r].conv]
               /\ seq[turn[r].conv] = told[turn[r].conv] + 1
    /\ loop.at # "exited" => \A c \in Conversations \ spoiled :
           (\A r \in Requests : Emitting(r) => turn[r].conv # c) => seq[c] = told[c]

Sound == Typed /\ Reservations /\ InHand /\ Numbers

-----------------------------------------------------------------------------
(* The type. *)

\* What the requests say is a message, and nothing said is a text (handle_chat_send).
LEMMA Messages ==
    /\ <<>> \in Seq(Message)
    /\ \A r \in Requests : <<"user", r>> \in Message /\ <<"assistant", r>> \in Message
    /\ \A doc \in Seq(Message), m \in Message : Append(doc, m) \in Seq(Message)
<1>1. \A r \in Requests : <<"user", r>> \in Message /\ <<"assistant", r>> \in Message
    BY DEF Message, Roles
<1>2. <<>> \in Seq(Message)
    OBVIOUS
<1>3. \A doc \in Seq(Message), m \in Message : Append(doc, m) \in Seq(Message)
    OBVIOUS
<1> QED
    BY <1>1, <1>2, <1>3

\* The records the code starts from, and what becomes of one of their fields.
LEMMA Records ==
    /\ Idle \in LoopType /\ Idle.at = "reading"
    /\ NoTurn \in TurnType /\ NoTurn.at = "none"
    /\ Absent \in FileType /\ Torn \in FileType
    /\ \A doc \in Seq(Message) : Whole(doc) \in FileType
<1>1. <<>> \in Seq(Message) /\ 0 \in 0..MaxEvents
    BY Messages, RpcAssumption
<1>2. Idle \in LoopType /\ Idle.at = "reading"
    BY <1>1 DEF Idle, LoopType
<1>3. NoTurn \in TurnType /\ NoTurn.at = "none"
    BY <1>1 DEF NoTurn, TurnType
<1> QED
    BY <1>1, <1>2, <1>3 DEF Absent, Torn, Whole, FileType

\* A reply leaves the loop at rest or on its way out (run_stdio_server).
LEMMA ReplyRests ==
    ASSUME Reply
    PROVE  loop' \in LoopType /\ loop'.at \in {"reading", "draining"}
<1>1. [Idle EXCEPT !.at = "draining"] \in LoopType /\ [Idle EXCEPT !.at = "draining"].at = "draining"
    BY Records DEF LoopType
<1> QED
    BY <1>1, Records DEF Reply

\* A step of a turn from one state of its life to another changes nothing else of it.
LEMMA TurnAt ==
    ASSUME NEW t \in TurnType,
           NEW a \in {"none", "reserved", "spawned", "opened", "running", "emitting", "ended",
                      "closing", "done", "answered", "over", "killed"}
    PROVE  /\ [t EXCEPT !.at = a] \in TurnType
           /\ [t EXCEPT !.at = a].at = a
           /\ [t EXCEPT !.at = a].conv = t.conv
           /\ [t EXCEPT !.at = a].sent = t.sent
           /\ [t EXCEPT !.at = a].num = t.num
BY DEF TurnType

LEMMA InitTyped == Init => Typed
<1> SUFFICES ASSUME Init PROVE Typed
    OBVIOUS
<1>1. loop \in LoopType /\ loop.at = "fresh"
    BY Records DEF Init, LoopType
<1>2. \A r \in Requests : turn[r] = NoTurn /\ turn[r].at = "none"
    BY Records DEF Init
<1>3. RpcTypeOK
    BY <1>1, Records, RpcAssumption DEF Init, RpcTypeOK
<1> QED
    BY <1>1, <1>2, <1>3 DEF Typed, Live, Emitting

\* Every step of the loop keeps the type.
LEMMA LoopTyped ==
    ASSUME Typed,
           \/ Initialize \/ Leave \/ StdoutCloses \/ LoopSteps
           \/ \E c \in Conversations : CreateConversation(c) \/ DeleteConversation(c)
           \/ \E r \in Requests, c \in Conversations : Load(r, c)
    PROVE  Typed'
<1> USE RpcAssumption
<1>0. /\ loop \in LoopType
      /\ file \in [Conversations -> FileType]
      /\ turn \in [Requests -> TurnType]
      /\ purges \in 0..MaxPurges /\ faults \in 0..MaxFaults
    BY DEF Typed, RpcTypeOK
<1>q. \A s \in {"draining", "clearing"} :
          [Idle EXCEPT !.at = s] \in LoopType /\ [Idle EXCEPT !.at = s].at = s
    BY Records DEF LoopType
<1>s. ASSUME turn' = turn, loop' \in LoopType,
             loop'.at \notin {"loaded", "reserved", "removed", "unnumbered"}
      PROVE  /\ \A r \in Requests : Emitting(r)' => turn'[r].sent < MaxEvents
             /\ \A r \in Requests : Live(r)' => turn'[r].conv \in Conversations
             /\ loop'.at \in {"loaded", "reserved"} => loop'.req \in Requests
             /\ loop'.at \in {"loaded", "reserved", "removed", "unnumbered"} =>
                    loop'.conv \in Conversations
             /\ loop'.at # "reserved"
    BY <1>s DEF Typed, Live, Emitting
<1>1. CASE Initialize
    <2>1. RpcTypeOK'
        BY <1>1, <1>0, <1>q DEF Initialize, Typed, RpcTypeOK
    <2> QED
        BY <1>1, <2>1, <1>q, <1>s DEF Initialize, Typed
<1>2. CASE Leave
    <2>1. RpcTypeOK'
        BY <1>2, <1>0, <1>q DEF Leave, Typed, RpcTypeOK
    <2> QED
        BY <1>2, <2>1, <1>q, <1>s DEF Leave, Typed
<1>3. CASE StdoutCloses
    <2>1. UNCHANGED <<loop, turn, file, busy, seq, answers, told, orphaned, spoiled, purges>>
        BY <1>3 DEF StdoutCloses
    <2>2. writer' \in BOOLEAN /\ faults' \in 0..MaxFaults
        <3>1. writer' = FALSE /\ faults < MaxFaults /\ faults' = faults + 1
            BY <1>3 DEF StdoutCloses
        <3>2. faults' \in 0..MaxFaults
            <4>1. faults < MaxFaults /\ faults' = faults + 1
                BY <3>1
            <4> QED
                BY <4>1, <1>0
        <3>3. writer' \in BOOLEAN
            BY <3>1
        <3> QED
            BY <3>2, <3>3
    <2>3. RpcTypeOK'
        BY <2>1, <2>2 DEF Typed, RpcTypeOK
    <2> QED
        BY <2>1, <2>3 DEF Typed, Live, Emitting
<1>4. CASE ClearNumbers
    BY <1>4, <1>0, <1>s, ReplyRests DEF ClearNumbers, Typed, RpcTypeOK
<1>5. CASE PurgeNumbers
    <2>1. /\ loop' = [loop EXCEPT !.at = "unnumbered"] /\ loop.at = "removed"
          /\ loop.conv \in Conversations /\ turn' = turn
        BY <1>5 DEF PurgeNumbers, Typed
    <2>2. loop' \in LoopType /\ loop'.at = "unnumbered" /\ loop'.conv = loop.conv
        BY <2>1, <1>0 DEF LoopType
    <2>3. RpcTypeOK'
        BY <1>5, <2>1, <2>2, <1>0 DEF PurgeNumbers, Typed, RpcTypeOK
    <2> QED
        BY <2>1, <2>2, <2>3 DEF Typed, Live, Emitting
<1>6. CASE PurgeReservation
    BY <1>6, <1>0, <1>s, ReplyRests DEF PurgeReservation, Typed, RpcTypeOK, LiveOn
<1>7. CASE ReserveTurn
    <2> DEFINE new == [NoTurn EXCEPT !.at = "reserved", !.conv = loop.conv, !.doc = loop.read]
    <2>1. /\ loop.at = "loaded" /\ loop.req \in Requests /\ loop.conv \in Conversations
          /\ turn' = [turn EXCEPT ![loop.req] = new]
          /\ loop' = [loop EXCEPT !.at = "reserved"]
        BY <1>7 DEF ReserveTurn, Typed
    <2>2. new \in TurnType /\ new.at = "reserved" /\ new.conv = loop.conv
        BY <2>1, <1>0, Records DEF TurnType, LoopType
    <2> HIDE DEF new
    <2>3. loop' \in LoopType /\ loop'.req = loop.req /\ loop'.conv = loop.conv
        BY <2>1, <1>0 DEF LoopType
    <2>4. turn' \in [Requests -> TurnType]
        BY <2>1, <2>2, <1>0
    <2>5. RpcTypeOK'
        BY <1>7, <2>1, <2>3, <2>4, <1>0 DEF ReserveTurn, Typed, RpcTypeOK
    <2> QED
        BY <2>1, <2>2, <2>3, <2>5, <1>0 DEF Typed, Live, Emitting
<1>8. CASE RefuseBusy
    BY <1>8, <1>0, <1>s, ReplyRests DEF RefuseBusy, Refuse, Typed, RpcTypeOK
<1>9. CASE SpawnTurn
    <2>1. /\ loop.at = "reserved" /\ loop.req \in Requests
          /\ turn' = [turn EXCEPT ![loop.req].at = "spawned"] /\ loop' = Idle
          /\ turn[loop.req].at = "reserved"
        BY <1>9 DEF SpawnTurn, Typed
    <2> DEFINE t == turn[loop.req]
               new == [t EXCEPT !.at = "spawned"]
    <2>2. new \in TurnType /\ new.at = "spawned" /\ new.conv = t.conv
        <3>1. t \in TurnType
            BY <2>1, <1>0
        <3> HIDE DEF t
        <3> QED
            BY <3>1, TurnAt
    <2>3. turn' = [turn EXCEPT ![loop.req] = new]
        BY <2>1
    <2> HIDE DEF new
    <2>4. RpcTypeOK'
        BY <1>9, <2>1, <2>2, <2>3, Records, <1>0 DEF SpawnTurn, Typed, RpcTypeOK
    <2>5. Typed => \A r \in Requests : Emitting(r)' => turn'[r].sent < MaxEvents
        BY <2>1, <2>2, <2>3, <1>0 DEF Typed, Emitting
    <2>6. Typed => \A r \in Requests : Live(r)' => turn'[r].conv \in Conversations
        BY <2>1, <2>2, <2>3, <1>0 DEF Typed, Live
    <2> QED
        BY <2>1, <2>4, <2>5, <2>6, Records DEF Typed
<1>10. CASE RefuseAgent
    <2> DEFINE new == [NoTurn EXCEPT !.at = "over"]
    <2>1. /\ loop.at = "reserved" /\ loop.req \in Requests
          /\ turn' = [turn EXCEPT ![loop.req] = new]
          /\ Reply
        BY <1>10 DEF RefuseAgent, Refuse, Typed
    <2>2. new \in TurnType /\ new.at = "over"
        BY Records DEF TurnType
    <2> HIDE DEF new
    <2>3. turn' \in [Requests -> TurnType]
        BY <2>1, <2>2, <1>0
    <2>4. RpcTypeOK'
        BY <1>10, <2>1, <2>3, ReplyRests, <1>0 DEF RefuseAgent, Refuse, Typed, RpcTypeOK
    <2> QED
        BY <2>1, <2>2, <2>4, ReplyRests, <1>0 DEF Typed, Live, Emitting
<1>11. CASE Exit
    <2> DEFINE new == [NoTurn EXCEPT !.at = "killed"]
    <2>1. /\ turn' = [r \in Requests |-> IF Live(r) THEN new ELSE turn[r]]
          /\ loop' = [Idle EXCEPT !.at = "exited"]
        BY <1>11 DEF Exit
    <2>2. new \in TurnType /\ new.at = "killed"
        BY Records DEF TurnType
    <2> HIDE DEF new
    <2>3. turn' \in [Requests -> TurnType]
        BY <2>1, <2>2, <1>0
    <2>4. loop' \in LoopType /\ loop'.at = "exited"
        BY <2>1, Records DEF LoopType
    <2>5. RpcTypeOK'
        BY <1>11, <2>3, <2>4, <1>0 DEF Exit, Typed, RpcTypeOK
    <2> QED
        BY <2>1, <2>2, <2>4, <2>5, <1>0 DEF Typed, Live, Emitting
<1>12. ASSUME NEW c \in Conversations, CreateConversation(c)
       PROVE  Typed'
    <2>1. file' \in [Conversations -> FileType]
        BY <1>12, <1>0, Messages, Records DEF CreateConversation
    <2> QED
        BY <1>12, <2>1, <1>0, <1>s, ReplyRests DEF CreateConversation, Typed, RpcTypeOK
<1>13. ASSUME NEW c \in Conversations, DeleteConversation(c)
       PROVE  Typed'
    <2>1. /\ turn' = [r \in Requests |->
                          IF turn[r].conv = c /\ turn[r].fd # "none"
                          THEN [turn[r] EXCEPT !.fd = "lost"] ELSE turn[r]]
          /\ loop' = [Idle EXCEPT !.at = "removed", !.conv = c]
        BY <1>13 DEF DeleteConversation
    <2>2. loop' \in LoopType /\ loop'.at = "removed" /\ loop'.conv = c
        BY <2>1, Records DEF LoopType
    <2>3. \A r \in Requests : /\ turn'[r] \in TurnType /\ turn'[r].at = turn[r].at
                              /\ turn'[r].conv = turn[r].conv /\ turn'[r].sent = turn[r].sent
        <3>1. \A t \in TurnType : LET lost == [t EXCEPT !.fd = "lost"] IN
                  lost \in TurnType /\ lost.at = t.at /\ lost.conv = t.conv /\ lost.sent = t.sent
            BY DEF TurnType
        <3>2. \A r \in Requests : turn[r] \in TurnType
            BY <1>0
        <3>3. \A r \in Requests : \/ turn'[r] = [turn[r] EXCEPT !.fd = "lost"]
                                  \/ turn'[r] = turn[r]
            BY <2>1
        <3> QED
            BY <3>1, <3>2, <3>3
    <2>4. turn' \in [Requests -> TurnType]
        BY <2>1, <2>3
    <2>5. file' \in [Conversations -> FileType]
        BY <1>13, <1>0, Records DEF DeleteConversation
    <2>9. purges' \in 0..MaxPurges
        <3>1. purges < MaxPurges /\ purges' = purges + 1
            BY <1>13 DEF DeleteConversation
        <3> QED
            BY <3>1, <1>0
    <2>8. spoiled' \subseteq Conversations
        BY <1>13 DEF DeleteConversation, Typed, RpcTypeOK
    <2>6. UNCHANGED <<writer, busy, seq, answers, told, orphaned, faults>>
        BY <1>13 DEF DeleteConversation
    <2>7. RpcTypeOK'
        BY <2>2, <2>4, <2>5, <2>6, <2>8, <2>9 DEF Typed, RpcTypeOK
    <2> QED
        BY <2>2, <2>3, <2>7 DEF Typed, Live, Emitting
<1>14. ASSUME NEW r \in Requests, NEW c \in Conversations, Load(r, c)
       PROVE  Typed'
    <2>1. CASE Refuse(r)
        BY <1>14, <2>1, <1>0, <1>s, ReplyRests DEF Load, Refuse, Typed, RpcTypeOK
    <2>2. CASE loop' = [at |-> "loaded", req |-> r, conv |-> c, read |-> file[c].text] /\ UNCHANGED answers
        <3>1. loop' \in LoopType /\ loop'.at = "loaded" /\ loop'.req = r /\ loop'.conv = c
            BY <2>2, <1>0 DEF LoopType, FileType
        <3>2. RpcTypeOK'
            BY <1>14, <2>2, <3>1, <1>0 DEF Load, Typed, RpcTypeOK
        <3> QED
            BY <1>14, <3>1, <3>2 DEF Load, Typed, Live, Emitting
    <2> QED
        BY <1>14, <2>1, <2>2 DEF Load
<1> QED
    BY <1>1, <1>2, <1>3, <1>4, <1>5, <1>6, <1>7, <1>8, <1>9, <1>10, <1>11, <1>12, <1>13, <1>14
    DEF LoopSteps

(***************************************************************************)
(* The steps of a turn.  They change its place in its life, and at most    *)
(* the file descriptors of the other turns.                                *)
(***************************************************************************)
Others(r) ==
    \A s \in Requests \ {r} :
        /\ turn'[s].at = turn[s].at /\ turn'[s].conv = turn[s].conv
        /\ turn'[s].num = turn[s].num /\ turn'[s].sent = turn[s].sent

Moves(r) ==
    /\ turn' \in [Requests -> TurnType] /\ Others(r)
    /\ turn[r].at \notin {"none", "reserved", "over", "killed"}
    /\ turn'[r].at \notin {"none", "reserved", "killed"}
    /\ turn'[r].conv = turn[r].conv

\* A turn that is replaced by another record moves alone.
LEMMA MovesAlone ==
    ASSUME NEW r \in Requests, turn \in [Requests -> TurnType], NEW new \in TurnType,
           turn' = [turn EXCEPT ![r] = new],
           turn[r].at \notin {"none", "reserved", "over", "killed"},
           new.at \notin {"none", "reserved", "killed"}, new.conv = turn[r].conv
    PROVE  Moves(r) /\ turn'[r] = new
BY DEF Moves, Others

LEMMA MovesTyped ==
    ASSUME Typed, NEW r \in Requests, Moves(r), RpcTypeOK', loop' = loop,
           turn'[r].at = "emitting" => turn'[r].sent < MaxEvents
    PROVE  Typed'
<1>1. Live(r)
    BY DEF Moves, Live
<1>2. \A s \in Requests : Emitting(s)' => turn'[s].sent < MaxEvents
    BY DEF Moves, Others, Typed, Emitting
<1>3. \A s \in Requests : Live(s)' => turn'[s].conv \in Conversations
    BY <1>1 DEF Moves, Others, Typed, Live
<1>4. loop'.at = "reserved" => turn'[loop'.req].at = "reserved"
    BY DEF Moves, Others, Typed
<1> QED
    BY <1>2, <1>3, <1>4 DEF Typed

\* What opening a file for writing does (save_conversation).
LEMMA TruncateMoves ==
    ASSUME Typed, NEW r \in Requests, NEW doc \in Seq(Message), NEW at \in {"opened", "closing"},
           turn[r].at \notin {"none", "reserved", "over", "killed"},
           Truncate(r, doc, at)
    PROVE  /\ Moves(r) /\ turn'[r].at = at
           /\ file' \in [Conversations -> FileType]
<1> DEFINE others == {s \in LiveOn(turn[r].conv) \ {r} : turn[s].fd \in {"own", "shared"}}
           mine == [turn[r] EXCEPT !.at = at, !.doc = doc,
                                   !.fd = IF others = {} THEN "own" ELSE "shared"]
<1>1. turn \in [Requests -> TurnType] /\ file \in [Conversations -> FileType]
    BY DEF Typed, RpcTypeOK
<1>2. mine \in TurnType /\ mine.at = at /\ mine.conv = turn[r].conv
    <2>1. turn[r] \in TurnType
        BY <1>1
    <2> QED
        BY <2>1 DEF TurnType
<1>3. \A s \in Requests : LET t == [turn[s] EXCEPT !.fd = "shared"] IN
          /\ t \in TurnType /\ t.at = turn[s].at /\ t.conv = turn[s].conv
          /\ t.num = turn[s].num /\ t.sent = turn[s].sent
    BY <1>1 DEF TurnType
<1>4. turn' = [s \in Requests |-> CASE s = r -> mine
                                    [] s \in others -> [turn[s] EXCEPT !.fd = "shared"]
                                    [] OTHER -> turn[s]]
    BY DEF Truncate
<1>5. r \notin others
    OBVIOUS
<1> HIDE DEF mine, others
<1>6. turn'[r] = mine
    BY <1>4, <1>5
<1>7. \A s \in Requests \ {r} : turn'[s] = [turn[s] EXCEPT !.fd = "shared"] \/ turn'[s] = turn[s]
    BY <1>4
<1>8. turn' \in [Requests -> TurnType]
    <2>1. \A s \in Requests : turn'[s] \in TurnType
        BY <1>1, <1>2, <1>3, <1>6, <1>7
    <2> QED
        BY <1>4, <2>1
<1>9. Others(r)
    BY <1>3, <1>7 DEF Others
<1>10. file' \in [Conversations -> FileType]
    BY <1>1, Records DEF Truncate
<1> QED
    BY <1>2, <1>6, <1>8, <1>9, <1>10 DEF Moves

\* What writing it does.
LEMMA WriteMoves ==
    ASSUME Typed, NEW r \in Requests, NEW at \in {"running", "done"},
           turn[r].at \notin {"none", "reserved", "over", "killed"},
           Write(r, at)
    PROVE  /\ Moves(r) /\ turn'[r].at = at
           /\ file' \in [Conversations -> FileType]
<1>1. turn \in [Requests -> TurnType] /\ file \in [Conversations -> FileType]
    BY DEF Typed, RpcTypeOK
<1> DEFINE new == [turn[r] EXCEPT !.at = at, !.fd = "none"]
<1>2. new \in TurnType /\ new.at = at /\ new.conv = turn[r].conv
    <2>1. turn[r] \in TurnType
        BY <1>1
    <2> QED
        BY <2>1 DEF TurnType
<1>3. turn' = [turn EXCEPT ![r] = new]
    BY <1>1 DEF Write
<1> HIDE DEF new
<1>4. Moves(r) /\ turn'[r].at = at
    BY <1>1, <1>2, <1>3, MovesAlone
<1>5. turn[r].doc \in Seq(Message) /\ turn[r] \in TurnType
    BY <1>1 DEF TurnType
<1>6. \/ file' = [file EXCEPT ![turn[r].conv] = Whole(turn[r].doc)]
      \/ file' = [file EXCEPT ![turn[r].conv] = Torn]
      \/ file' = file
    BY DEF Write
<1>7. Whole(turn[r].doc) \in FileType /\ Torn \in FileType
    BY <1>5, Records
<1> QED
    BY <1>1, <1>4, <1>6, <1>7

\* Every step of a turn keeps the type.
LEMMA TurnTyped ==
    ASSUME Typed, NEW r \in Requests,
           TurnSteps(r) \/ SaveRefused(r) \/ TakeNumber(r) \/ Panic(r)
    PROVE  /\ Typed' /\ Moves(r)
           /\ TakeNumber(r) \/ turn'[r].at # "emitting"
           /\ EndTurn(r) \/ turn'[r].at # "over"
<1> USE RpcAssumption
<1>0. /\ turn \in [Requests -> TurnType] /\ turn[r] \in TurnType
      /\ file \in [Conversations -> FileType]
      /\ seq \in [Conversations -> Nat] /\ told \in [Conversations -> Nat]
      /\ faults \in 0..MaxFaults
      /\ <<"user", r>> \in Message /\ <<"assistant", r>> \in Message
    BY Messages DEF Typed, RpcTypeOK
<1>d. \A m \in Message : Append(turn[r].doc, m) \in Seq(Message)
    BY <1>0, Messages DEF TurnType
<1>a. ASSUME NEW a \in {"none", "reserved", "spawned", "opened", "running", "emitting", "ended",
                        "closing", "done", "answered", "over", "killed"},
             a \notin {"none", "reserved", "emitting", "over", "killed"},
             turn[r].at \notin {"none", "reserved", "over", "killed"},
             turn' = [turn EXCEPT ![r].at = a]
      PROVE  Moves(r) /\ turn'[r].at \notin {"emitting", "over"}
    <2> DEFINE new == [turn[r] EXCEPT !.at = a]
    <2>1. turn' = [turn EXCEPT ![r] = new]
        BY <1>a
    <2>2. new \in TurnType /\ new.at = a /\ new.conv = turn[r].conv
        <3> DEFINE t == turn[r]
        <3>1. t \in TurnType
            BY <1>0
        <3> HIDE DEF t
        <3>2. /\ [t EXCEPT !.at = a] \in TurnType /\ [t EXCEPT !.at = a].at = a
              /\ [t EXCEPT !.at = a].conv = t.conv
            BY <1>a, <3>1 DEF TurnType
        <3> QED
            BY <3>2 DEF t
    <2> HIDE DEF new
    <2> QED
        BY <1>a, <1>0, <2>1, <2>2, MovesAlone
<1>f. ASSUME faults < MaxFaults, faults' = faults + 1
      PROVE  faults' \in 0..MaxFaults
    BY <1>f, <1>0
<1>1. CASE SaveQuestion(r)
    <2>1. Moves(r) /\ file' \in [Conversations -> FileType] /\ turn'[r].at \notin {"emitting", "over"}
        <3>1. CASE turn[r].at = "spawned"
            BY <1>1, <3>1, <1>0, <1>d, TruncateMoves DEF SaveQuestion
        <3>2. CASE turn[r].at = "opened"
            BY <1>1, <3>2, <1>0, WriteMoves DEF SaveQuestion
        <3> QED
            BY <1>1, <3>1, <3>2 DEF SaveQuestion
    <2>2. RpcTypeOK' /\ loop' = loop
        BY <1>1, <2>1 DEF SaveQuestion, TurnOnly, Moves, Typed, RpcTypeOK
    <2> QED
        BY <2>1, <2>2, MovesTyped
<1>2. CASE SaveAnswer(r)
    <2>1. Moves(r) /\ file' \in [Conversations -> FileType] /\ turn'[r].at \notin {"emitting", "over"}
        <3>1. CASE turn[r].at = "ended"
            BY <1>2, <3>1, <1>0, <1>d, TruncateMoves DEF SaveAnswer
        <3>2. CASE turn[r].at = "closing"
            BY <1>2, <3>2, <1>0, WriteMoves DEF SaveAnswer
        <3> QED
            BY <1>2, <3>1, <3>2 DEF SaveAnswer
    <2>2. RpcTypeOK' /\ loop' = loop
        BY <1>2, <2>1 DEF SaveAnswer, TurnOnly, Moves, Typed, RpcTypeOK
    <2> QED
        BY <2>1, <2>2, MovesTyped
<1>3. CASE SaveRefused(r)
    <2>1. Moves(r) /\ turn'[r].at \notin {"emitting", "over"}
        <3>1. CASE turn[r].at = "spawned"
            <4> DEFINE new == [turn[r] EXCEPT !.at = "running",
                                              !.doc = Append(turn[r].doc, <<"user", r>>)]
            <4>1. turn' = [turn EXCEPT ![r] = new]
                BY <1>3, <3>1 DEF SaveRefused
            <4>2. new \in TurnType /\ new.at = "running" /\ new.conv = turn[r].conv
                BY <1>0, <1>d DEF TurnType
            <4> HIDE DEF new
            <4> QED
                BY <3>1, <4>1, <4>2, <1>0, MovesAlone
        <3>2. CASE turn[r].at = "ended"
            BY <1>3, <3>2, <1>a DEF SaveRefused
        <3> QED
            BY <1>3, <3>1, <3>2 DEF SaveRefused
    <2>2. turn[r].conv \in Conversations
        BY <2>1 DEF Typed, Moves, Live
    <2>3. faults' \in 0..MaxFaults
        BY <1>3, <1>f DEF SaveRefused
    <2>4. RpcTypeOK' /\ loop' = loop
        BY <1>3, <2>1, <2>2, <2>3 DEF SaveRefused, TurnOnly, Moves, Typed, RpcTypeOK
    <2> QED
        BY <2>1, <2>4, MovesTyped
<1>4. CASE TakeNumber(r)
    <2> DEFINE new == [turn[r] EXCEPT !.at = "emitting", !.num = seq[turn[r].conv]]
    <2>1. /\ turn[r].at = "running" /\ turn[r].sent < MaxEvents
          /\ turn' = [turn EXCEPT ![r] = new]
        BY <1>4 DEF TakeNumber
    <2>2. turn[r].conv \in Conversations
        BY <2>1 DEF Typed, Live
    <2>3. new \in TurnType /\ new.at = "emitting" /\ new.conv = turn[r].conv /\ new.sent = turn[r].sent
        BY <1>0, <2>2 DEF TurnType
    <2> HIDE DEF new
    <2>4. Moves(r) /\ turn'[r] = new
        BY <2>1, <2>3, <1>0, MovesAlone
    <2>5. seq' \in [Conversations -> Nat]
        BY <1>4, <1>0, <2>2 DEF TakeNumber
    <2>6. RpcTypeOK' /\ loop' = loop
        BY <1>4, <2>4, <2>5 DEF TakeNumber, TurnOnly, Moves, Typed, RpcTypeOK
    <2> QED
        BY <1>4, <2>1, <2>3, <2>4, <2>6, MovesTyped
<1>5. CASE Notify(r)
    <2> DEFINE new == [turn[r] EXCEPT !.at = "running", !.sent = turn[r].sent + 1]
    <2>1. turn[r].at = "emitting" /\ turn' = [turn EXCEPT ![r] = new]
        BY <1>5 DEF Notify
    <2>2. turn[r].conv \in Conversations /\ turn[r].sent < MaxEvents
        BY <2>1 DEF Typed, Live, Emitting
    <2>3. turn[r].sent + 1 \in 0..MaxEvents /\ turn[r].num + 1 \in Nat
        <3>1. turn[r].sent \in 0..MaxEvents /\ turn[r].num \in Nat
            BY <1>0 DEF TurnType
        <3> QED
            BY <3>1, <2>2
    <2>4. new \in TurnType /\ new.at = "running" /\ new.conv = turn[r].conv
        BY <1>0, <2>3 DEF TurnType
    <2> HIDE DEF new
    <2>5. Moves(r) /\ turn'[r] = new
        BY <2>1, <2>4, <1>0, MovesAlone
    <2>6. told' \in [Conversations -> Nat]
        BY <1>5, <1>0, <2>2, <2>3 DEF Notify
    <2>7. RpcTypeOK' /\ loop' = loop
        BY <1>5, <2>5, <2>6 DEF Notify, TurnOnly, Moves, Typed, RpcTypeOK
    <2> QED
        BY <2>4, <2>5, <2>7, MovesTyped
<1>6. CASE RunEnds(r)
    <2>1. PICK ok \in BOOLEAN : turn' = [turn EXCEPT ![r].at = "ended", ![r].ok = ok]
        BY <1>6 DEF RunEnds
    <2> DEFINE new == [turn[r] EXCEPT !.at = "ended", !.ok = ok]
    <2>2. turn' = [turn EXCEPT ![r] = new]
        BY <2>1
    <2>3. new \in TurnType /\ new.at = "ended" /\ new.conv = turn[r].conv
        BY <1>0 DEF TurnType
    <2> HIDE DEF new
    <2>4. Moves(r) /\ turn'[r] = new
        BY <1>6, <2>2, <2>3, <1>0, MovesAlone DEF RunEnds
    <2>5. RpcTypeOK' /\ loop' = loop
        BY <1>6, <2>4 DEF RunEnds, TurnOnly, Moves, Typed, RpcTypeOK
    <2> QED
        BY <2>3, <2>4, <2>5, MovesTyped
<1>7. CASE Answer(r)
    <2>1. Moves(r) /\ turn'[r].at \notin {"emitting", "over"}
        BY <1>7, <1>a DEF Answer
    <2>2. RpcTypeOK' /\ loop' = loop
        BY <1>7, <2>1 DEF Answer, TurnOnly, Moves, Typed, RpcTypeOK
    <2> QED
        BY <2>1, <2>2, MovesTyped
<1>8. CASE Panic(r)
    <2>1. Moves(r) /\ turn'[r].at \notin {"emitting", "over"}
        BY <1>8, <1>a DEF Panic
    <2>2. faults' \in 0..MaxFaults
        BY <1>8, <1>f DEF Panic
    <2>3. RpcTypeOK' /\ loop' = loop
        BY <1>8, <2>1, <2>2 DEF Panic, TurnOnly, Moves, Typed, RpcTypeOK
    <2> QED
        BY <2>1, <2>3, MovesTyped
<1>9. CASE EndTurn(r)
    <2> DEFINE new == [NoTurn EXCEPT !.at = "over", !.conv = turn[r].conv]
    <2>1. turn[r].at = "answered" /\ turn' = [turn EXCEPT ![r] = new]
        BY <1>9 DEF EndTurn
    <2>2. turn[r].conv \in Conversations \cup {Nobody}
        BY <1>0 DEF TurnType
    <2>3. new \in TurnType /\ new.at = "over" /\ new.conv = turn[r].conv
        BY <2>2, Records DEF TurnType
    <2> HIDE DEF new
    <2>4. Moves(r) /\ turn'[r] = new
        BY <2>1, <2>3, <1>0, MovesAlone
    <2>5. RpcTypeOK' /\ loop' = loop
        BY <1>9, <2>4 DEF EndTurn, LiveOn, Moves, Typed, RpcTypeOK
    <2> QED
        BY <1>9, <2>3, <2>4, <2>5, MovesTyped
<1> QED
    BY <1>1, <1>2, <1>3, <1>4, <1>5, <1>6, <1>7, <1>8, <1>9 DEF TurnSteps

\* Whatever the loop and the turns do, every variable keeps its type.
THEOREM RpcTypeCorrect == Spec => []RpcTypeOK
<1>1. Typed /\ [Next]_vars => Typed'
    <2> SUFFICES ASSUME Typed, [Next]_vars PROVE Typed'
        OBVIOUS
    <2>1. CASE Next
        BY <2>1, LoopTyped, TurnTyped DEF Next
    <2>2. CASE UNCHANGED vars
        BY <2>2 DEF vars, Typed, RpcTypeOK, Live, Emitting
    <2> QED
        BY <2>1, <2>2
<1>2. Typed => RpcTypeOK
    BY DEF Typed
<1> QED
    BY <1>1, <1>2, InitTyped, PTL DEF Spec

-----------------------------------------------------------------------------
(* The reservations and the numbers. *)

\* A step of a turn that is none of its notifications and not its end.
LEMMA QuietTurn ==
    ASSUME Sound, Typed', NEW r \in Requests, Moves(r),
           UNCHANGED <<loop, busy, orphaned, seq, told>>, spoiled \subseteq spoiled',
           turn[r].at # "emitting", turn'[r].at \notin {"over", "emitting"}
    PROVE  Sound'
<1>1. \A s \in Requests :
          /\ Live(s)' <=> Live(s)
          /\ Held(s)' <=> Held(s)
          /\ Emitting(s)' <=> Emitting(s)
          /\ turn'[s].conv = turn[s].conv
          /\ turn'[s].at = "none" <=> turn[s].at = "none"
          /\ Emitting(s) => turn'[s].num = turn[s].num
    BY DEF Moves, Others, Live, Held, Emitting
<1>2. Reservations'
    BY <1>1 DEF Sound, Reservations, BusyHasTurn, LiveOn
<1>3. InHand'
    BY <1>1 DEF Sound, InHand, Typed
<1>4. Numbers'
    BY <1>1 DEF Sound, Numbers, Typed
<1> QED
    BY <1>2, <1>3, <1>4 DEF Sound

\* On a conversation that is not spoiled there is one live turn, and it is held.
LEMMA OnlyOne ==
    ASSUME Sound, NEW r \in Requests, NEW s \in Requests, Live(r), Live(s),
           turn[r].conv = turn[s].conv, turn[r].conv \notin spoiled
    PROVE  r = s
BY DEF Sound, Reservations, Numbers, Held

\* A notification takes its number, and is sent.
LEMMA NumberTurn ==
    ASSUME Sound, Typed', NEW r \in Requests, Moves(r),
           \/ TakeNumber(r)
           \/ Notify(r) /\ turn'[r].at \notin {"emitting", "over"}
    PROVE  Sound'
<1>0. turn'[r].at # "over" /\ UNCHANGED orphaned
    BY DEF Sound, Typed, RpcTypeOK, TurnType, TakeNumber, Notify
<1>1. \A s \in Requests :
          /\ Live(s)' <=> Live(s)
          /\ Held(s)' <=> Held(s)
          /\ turn'[s].conv = turn[s].conv
          /\ turn'[s].at = "none" <=> turn[s].at = "none"
    BY <1>0 DEF Moves, Others, Live, Held
<1>2. Reservations'
    BY <1>1 DEF Sound, Reservations, BusyHasTurn, LiveOn, TakeNumber, Notify, TurnOnly
<1>3. InHand'
    BY <1>1 DEF Sound, InHand, Typed, TakeNumber, Notify, TurnOnly
<1> DEFINE c == turn[r].conv
<1>4. Live(r) /\ c \in Conversations
    BY DEF Moves, Sound, Typed, Live
<1>5. \A s \in Requests : c \notin spoiled /\ s # r /\ Live(s) => turn[s].conv # c
    BY <1>4, OnlyOne
<1>6. /\ turn \in [Requests -> TurnType]
      /\ seq \in [Conversations -> Nat] /\ told \in [Conversations -> Nat]
    BY DEF Sound, Typed, RpcTypeOK
<1>7. CASE TakeNumber(r)
    <2>1. /\ turn'[r].at = "emitting" /\ turn'[r].num = seq[c] /\ turn[r].at = "running"
          /\ seq' = [seq EXCEPT ![c] = seq[c] + 1] /\ UNCHANGED <<told, orphaned, spoiled, loop>>
        BY <1>7, <1>6 DEF TakeNumber, TurnOnly, TurnType
    <2>2. \A s \in Requests \ {r} : (Emitting(s)' <=> Emitting(s)) /\ turn'[s].num = turn[s].num
        BY DEF Moves, Others, Emitting
    <2>3. loop.at # "exited"
        BY <1>4 DEF Sound, InHand
    <2>4. c \notin spoiled => seq[c] = told[c]
        <3>1. \A s \in Requests : Emitting(s) => Live(s)
            BY DEF Emitting, Live
        <3> QED
            BY <1>4, <1>5, <2>1, <2>3, <3>1 DEF Sound, Numbers, Emitting
    <2>5. ASSUME NEW s \in Requests, Emitting(s)', turn'[s].conv \notin spoiled
          PROVE  /\ turn'[s].num = told[turn'[s].conv]
                 /\ seq'[turn'[s].conv] = told[turn'[s].conv] + 1
        <3>1. CASE s = r
            BY <3>1, <2>1, <2>4, <2>5, <1>1, <1>4, <1>6
        <3>2. CASE s # r
            <4>1. Emitting(s) /\ Live(s) /\ turn[s].conv \notin spoiled
                BY <3>2, <2>2, <2>5, <1>1 DEF Emitting, Live
            <4>2. turn[s].conv # c /\ turn[s].conv \in Conversations
                BY <3>2, <4>1, <1>4, OnlyOne DEF Sound, Typed
            <4> QED
                BY <3>2, <4>1, <4>2, <2>1, <2>2, <1>1, <1>6 DEF Sound, Numbers
        <3> QED
            BY <3>1, <3>2
    <2>6. ASSUME NEW d \in Conversations \ spoiled,
                 \A s \in Requests : Emitting(s)' => turn'[s].conv # d
          PROVE  seq'[d] = told[d]
        <3>1. d # c
            BY <2>1, <2>6, <1>1 DEF Emitting
        <3>2. \A s \in Requests : Emitting(s) => turn[s].conv # d
            BY <2>1, <2>2, <2>6, <1>1, <3>1 DEF Emitting
        <3> QED
            BY <2>1, <2>3, <3>1, <3>2, <1>6 DEF Sound, Numbers
    <2> QED
        BY <1>1, <1>2, <1>3, <2>1, <2>5, <2>6 DEF Sound, Numbers
<1>8. CASE Notify(r) /\ turn'[r].at \notin {"emitting", "over"}
    <2>1. /\ turn[r].at = "emitting"
          /\ told' = [told EXCEPT ![c] = turn[r].num + 1] /\ UNCHANGED <<seq, orphaned, spoiled, loop>>
        BY <1>8 DEF Notify, TurnOnly
    <2>2. \A s \in Requests : Emitting(s)' => Emitting(s) /\ s # r /\ turn'[s].num = turn[s].num
        BY <1>8 DEF Moves, Others, Emitting
    <2>3. loop.at # "exited"
        BY <1>4 DEF Sound, InHand
    <2>4. c \notin spoiled => turn[r].num = told[c] /\ seq[c] = told[c] + 1
        BY <2>1 DEF Sound, Numbers, Emitting
    <2>5. ASSUME NEW s \in Requests, Emitting(s)', turn'[s].conv \notin spoiled
          PROVE  /\ turn'[s].num = told'[turn'[s].conv]
                 /\ seq[turn'[s].conv] = told'[turn'[s].conv] + 1
        <3>1. Emitting(s) /\ Live(s) /\ s # r /\ turn[s].conv \notin spoiled
            BY <2>2, <2>5, <1>1 DEF Emitting, Live
        <3>2. turn[s].conv # c /\ turn[s].conv \in Conversations
            BY <3>1, <1>4, OnlyOne DEF Sound, Typed
        <3> QED
            BY <3>1, <3>2, <2>1, <2>2, <2>5, <1>1, <1>6 DEF Sound, Numbers
    <2>6. ASSUME NEW d \in Conversations \ spoiled,
                 \A s \in Requests : Emitting(s)' => turn'[s].conv # d
          PROVE  seq[d] = told'[d]
        <3>1. CASE d = c
            BY <3>1, <2>1, <2>4, <2>6, <1>6
        <3>2. CASE d # c
            <4>1. \A s \in Requests : Emitting(s) => turn[s].conv # d
                BY <3>2, <2>6, <1>1 DEF Emitting, Moves, Others
            <4> QED
                BY <3>2, <4>1, <2>1, <2>3, <1>6 DEF Sound, Numbers
        <3> QED
            BY <3>1, <3>2
    <2> QED
        BY <1>1, <1>2, <1>3, <2>1, <2>5, <2>6 DEF Sound, Numbers
<1> QED
    BY <1>7, <1>8

\* The end of a turn takes the reservation of whoever has one.
LEMMA EndSound ==
    ASSUME Sound, Typed', NEW r \in Requests, Moves(r), EndTurn(r)
    PROVE  Sound'
<1> DEFINE c == turn[r].conv
<1>1. /\ turn[r].at = "answered" /\ turn'[r].at = "over"
      /\ busy' = busy \ {c} /\ orphaned' = orphaned \cup (LiveOn(c) \ {r})
      /\ UNCHANGED <<loop, seq, told, spoiled>>
    BY DEF EndTurn, Sound, Typed, RpcTypeOK
<1>2. \A s \in Requests :
          /\ turn'[s].conv = turn[s].conv
          /\ Live(s)' <=> Live(s) /\ s # r
          /\ turn'[s].at = "none" <=> turn[s].at = "none"
          /\ Emitting(s)' <=> Emitting(s)
          /\ Emitting(s) => turn'[s].num = turn[s].num
    BY <1>1 DEF Moves, Others, Live, Emitting
<1>3. \A s \in Requests : Held(s)' <=> Held(s) /\ s # r /\ turn[s].conv # c
    BY <1>1, <1>2 DEF Held, LiveOn, Sound, Reservations, Live
<1>4. Reservations'
    <2>1. \A s \in Requests : turn'[s].at = "none" => s \notin orphaned'
        BY <1>1, <1>2 DEF Sound, Reservations, LiveOn, Live
    <2>2. BusyHasTurn'
        BY <1>1, <1>2 DEF Sound, Reservations, BusyHasTurn, LiveOn
    <2> QED
        BY <1>1, <1>2, <1>3, <2>1, <2>2 DEF Sound, Reservations
<1>5. InHand'
    BY <1>1, <1>2, <1>3 DEF Sound, InHand, Typed
<1>6. \A s \in Requests : Live(s)' /\ s \in orphaned' => turn'[s].conv \in spoiled
    <2>1. ASSUME NEW s \in Requests, Live(s), s # r, turn[s].conv = c
          PROVE  c \in spoiled
        BY <2>1, <1>1, OnlyOne DEF Live
    <2> QED
        BY <1>1, <1>2, <2>1 DEF LiveOn, Sound, Numbers
<1>7. Numbers'
    BY <1>1, <1>2, <1>6 DEF Sound, Numbers
<1> QED
    BY <1>4, <1>5, <1>7 DEF Sound

LEMMA TurnSound ==
    ASSUME Sound, NEW r \in Requests,
           TurnSteps(r) \/ SaveRefused(r) \/ TakeNumber(r) \/ Panic(r)
    PROVE  Sound'
<1>1. /\ Typed' /\ Moves(r)
      /\ TakeNumber(r) \/ turn'[r].at # "emitting"
      /\ EndTurn(r) \/ turn'[r].at # "over"
    BY TurnTyped DEF Sound
<1>2. CASE EndTurn(r)
    BY <1>1, <1>2, EndSound
<1>3. CASE TakeNumber(r)
    BY <1>1, <1>3, NumberTurn
<1>4. CASE Notify(r) /\ ~EndTurn(r) /\ ~TakeNumber(r)
    BY <1>1, <1>4, NumberTurn
<1>5. CASE ~EndTurn(r) /\ ~TakeNumber(r) /\ ~Notify(r)
    <2>1. /\ UNCHANGED <<loop, busy, orphaned, seq, told>> /\ spoiled \subseteq spoiled'
          /\ turn[r].at # "emitting"
        BY <1>5 DEF TurnSteps, SaveQuestion, SaveAnswer, SaveRefused, RunEnds, Answer, Panic, TurnOnly
    <2> QED
        BY <1>1, <1>5, <2>1, QuietTurn
<1> QED
    BY <1>2, <1>3, <1>4, <1>5

\* A step of the loop that leaves the turns, the reservations and the numbers alone.
LEMMA QuietLoop ==
    ASSUME Sound, Typed', UNCHANGED <<busy, orphaned, seq, told, spoiled>>,
           \A s \in Requests : /\ turn'[s].at = turn[s].at /\ turn'[s].conv = turn[s].conv
                               /\ turn'[s].num = turn[s].num,
           loop.at # "exited", InHand'
    PROVE  Sound'
<1>1. \A s \in Requests : /\ Live(s)' <=> Live(s)
                          /\ Held(s)' <=> Held(s)
                          /\ Emitting(s)' <=> Emitting(s)
    BY DEF Live, Held, Emitting
<1>2. Reservations'
    BY <1>1 DEF Sound, Reservations, BusyHasTurn, LiveOn
<1>3. Numbers'
    BY <1>1 DEF Sound, Numbers
<1> QED
    BY <1>2, <1>3 DEF Sound

\* A loop at rest has nothing in hand.
LEMMA Rests ==
    ASSUME loop'.at \in {"fresh", "reading", "draining"}
    PROVE  InHand'
BY DEF InHand

\* Every step of the loop keeps what is said of reservations and numbers.
LEMMA LoopSound ==
    ASSUME Sound,
           \/ Initialize \/ Leave \/ StdoutCloses \/ LoopSteps
           \/ \E c \in Conversations : CreateConversation(c) \/ DeleteConversation(c)
           \/ \E r \in Requests, c \in Conversations : Load(r, c)
    PROVE  Sound'
<1>0. Typed'
    BY LoopTyped DEF Sound
<1>a. /\ turn \in [Requests -> TurnType] /\ loop \in LoopType
      /\ seq \in [Conversations -> Nat] /\ told \in [Conversations -> Nat]
    BY DEF Sound, Typed, RpcTypeOK
<1>b. Idle.at = "reading" /\ \A a \in STRING : [Idle EXCEPT !.at = a].at = a
    BY DEF Idle
<1>1. CASE Initialize
    <2>1. /\ loop'.at = "clearing" /\ busy' = {} /\ UNCHANGED <<turn, seq, told>>
          /\ orphaned' = orphaned \cup {r \in Requests : Live(r)}
          /\ spoiled' = spoiled \cup {c \in Conversations : LiveOn(c) # {}}
          /\ loop.at # "exited"
        BY <1>1, <1>b DEF Initialize
    <2>2. \A r \in Requests : /\ Live(r)' <=> Live(r)
                              /\ Emitting(r)' <=> Emitting(r)
                              /\ ~Held(r)'
        BY <2>1 DEF Live, Emitting, Held
    <2>3. \A r \in Requests : Live(r) => turn[r].conv \in spoiled'
        BY <2>1 DEF LiveOn, Sound, Typed
    <2>4. Reservations'
        BY <2>1, <2>2 DEF Sound, Reservations, BusyHasTurn, Live
    <2>5. InHand'
        BY <2>1, <2>2, <2>3 DEF InHand
    <2>6. Numbers'
        BY <2>1, <2>2, <2>3 DEF Sound, Numbers, Emitting, Live
    <2> QED
        BY <1>0, <2>4, <2>5, <2>6 DEF Sound
<1>2. CASE Leave
    BY <1>0, <1>2, <1>b, Rests, QuietLoop DEF Leave
<1>3. CASE StdoutCloses
    <2>1. UNCHANGED <<loop, turn, busy, orphaned, seq, told, spoiled>> /\ loop.at # "exited"
        BY <1>3 DEF StdoutCloses
    <2>2. InHand'
        BY <2>1 DEF Sound, InHand, Live, Held
    <2> QED
        BY <1>0, <2>1, <2>2, QuietLoop
<1>4. CASE ClearNumbers
    <2>1. /\ loop.at = "clearing" /\ UNCHANGED <<turn, busy, orphaned, spoiled>>
          /\ seq' = [c \in Conversations |-> 0] /\ told' = [c \in Conversations |-> 0]
          /\ loop'.at \in {"reading", "draining"}
        BY <1>4, ReplyRests DEF ClearNumbers
    <2>2. \A r \in Requests : /\ Live(r)' <=> Live(r)
                              /\ Emitting(r)' <=> Emitting(r)
                              /\ Held(r)' <=> Held(r)
        BY <2>1 DEF Live, Emitting, Held
    <2>3. Reservations' /\ InHand'
        BY <2>1, <2>2, Rests DEF Sound, Reservations, BusyHasTurn, LiveOn
    <2>4. Numbers'
        BY <2>1, <2>2 DEF Sound, Numbers, InHand, Emitting, Live
    <2> QED
        BY <1>0, <2>3, <2>4 DEF Sound
<1>5. CASE PurgeNumbers
    <2> DEFINE c == loop.conv
    <2>1. /\ loop.at = "removed" /\ UNCHANGED <<turn, busy, orphaned, spoiled>>
          /\ seq' = [seq EXCEPT ![c] = 0] /\ told' = [told EXCEPT ![c] = 0]
          /\ loop'.at = "unnumbered" /\ loop'.conv = c /\ c \in Conversations
        BY <1>5, <1>a DEF PurgeNumbers, LoopType, Sound, Typed
    <2>2. \A r \in Requests : /\ Live(r)' <=> Live(r)
                              /\ Emitting(r)' <=> Emitting(r)
                              /\ Held(r)' <=> Held(r)
        BY <2>1 DEF Live, Emitting, Held
    <2>3. c \notin spoiled => \A r \in Requests : Live(r) => turn[r].conv # c
        BY <2>1 DEF Sound, InHand
    <2>4. Reservations' /\ InHand'
        BY <2>1, <2>2, <2>3 DEF Sound, Reservations, InHand, BusyHasTurn, LiveOn
    <2>5. \A r \in Requests : Emitting(r) => Live(r) /\ turn[r].conv \in Conversations
        BY DEF Emitting, Live, Sound, Typed
    <2>6. Numbers'
        BY <2>1, <2>2, <2>3, <2>5, <1>a DEF Sound, Numbers
    <2> QED
        BY <1>0, <2>4, <2>6 DEF Sound
<1>6. CASE PurgeReservation
    <2> DEFINE c == loop.conv
    <2>1. /\ loop.at = "unnumbered" /\ UNCHANGED <<turn, seq, told, spoiled>>
          /\ busy' = busy \ {c} /\ orphaned' = orphaned \cup LiveOn(c)
          /\ loop'.at \in {"reading", "draining"}
        BY <1>6, ReplyRests DEF PurgeReservation
    <2>2. \A r \in Requests : /\ Live(r)' <=> Live(r)
                              /\ Emitting(r)' <=> Emitting(r)
                              /\ Held(r)' <=> Held(r) /\ turn[r].conv # c
        BY <2>1 DEF Live, Emitting, Held, LiveOn
    <2>3. Reservations'
        BY <2>1, <2>2 DEF Sound, Reservations, BusyHasTurn, LiveOn, Live
    <2>4. InHand'
        BY <2>1, Rests
    <2>5. \A r \in Requests : Live(r)' /\ r \in orphaned' => turn'[r].conv \in spoiled'
        BY <2>1, <2>2 DEF LiveOn, Sound, Numbers, InHand
    <2>6. Numbers'
        BY <2>1, <2>2, <2>5 DEF Sound, Numbers
    <2> QED
        BY <1>0, <2>3, <2>4, <2>6 DEF Sound
<1>7. CASE ReserveTurn
    <2> DEFINE q == loop.req
               c == loop.conv
    <2>1. /\ loop.at = "loaded" /\ q \in Requests /\ c \in Conversations /\ c \notin busy
          /\ turn[q].at = "none" /\ q \notin orphaned
        BY <1>7 DEF ReserveTurn, Sound, Typed, InHand, Reservations
    <2>2. /\ busy' = busy \cup {c} /\ spoiled \subseteq spoiled' /\ UNCHANGED <<seq, told, orphaned>>
          /\ loop'.at = "reserved" /\ loop'.req = q /\ loop'.conv = c
        BY <1>7, <1>a DEF ReserveTurn, LoopType
    <2>3. /\ turn'[q].at = "reserved" /\ turn'[q].conv = c
          /\ \A s \in Requests \ {q} : turn'[s] = turn[s]
        BY <1>7, <1>a, <2>1 DEF ReserveTurn, NoTurn
    <2>4. \A s \in Requests :
              /\ Live(s)' <=> Live(s) \/ s = q
              /\ Held(s)' <=> Held(s) \/ s = q
              /\ Emitting(s)' <=> Emitting(s)
              /\ s # q => turn'[s] = turn[s]
        BY <2>1, <2>2, <2>3 DEF Live, Held, Emitting
    <2>5. \A s \in Requests : Held(s) => turn[s].conv # c /\ s # q
        BY <2>1 DEF Sound, Reservations, Held, Live
    <2>6. BusyHasTurn'
        BY <2>1, <2>2, <2>3, <2>4 DEF Sound, Reservations, BusyHasTurn, LiveOn, Live
    <2>7. Reservations'
        BY <2>1, <2>2, <2>3, <2>4, <2>5, <2>6 DEF Sound, Reservations
    <2>8. InHand'
        BY <2>2, <2>3, <2>4, <2>5 DEF InHand
    <2>9. Numbers'
        BY <2>1, <2>2, <2>3, <2>4 DEF Sound, Numbers, Emitting
    <2> QED
        BY <1>0, <2>7, <2>8, <2>9 DEF Sound
<1>8. CASE RefuseBusy
    BY <1>0, <1>8, Rests, ReplyRests, QuietLoop DEF RefuseBusy, Refuse
<1>9. CASE SpawnTurn
    <2> DEFINE q == loop.req
    <2>1. /\ loop.at = "reserved" /\ q \in Requests /\ loop'.at = "reading"
          /\ turn[q].at = "reserved" /\ turn'[q].at = "spawned"
          /\ turn'[q].conv = turn[q].conv /\ turn'[q].num = turn[q].num
          /\ \A s \in Requests \ {q} : turn'[s] = turn[s]
          /\ UNCHANGED <<busy, orphaned, seq, told, spoiled>>
        BY <1>9, <1>a, <1>b DEF SpawnTurn, Sound, Typed, TurnType
    <2>2. \A s \in Requests :
              /\ Live(s)' <=> Live(s)
              /\ Held(s)' <=> Held(s)
              /\ Emitting(s)' <=> Emitting(s)
              /\ turn'[s].conv = turn[s].conv /\ turn'[s].num = turn[s].num
              /\ turn'[s].at = "none" <=> turn[s].at = "none"
        BY <2>1 DEF Live, Held, Emitting
    <2>3. Reservations' /\ InHand'
        BY <2>1, <2>2, Rests DEF Sound, Reservations, BusyHasTurn, LiveOn
    <2>4. Numbers'
        BY <2>1, <2>2 DEF Sound, Numbers
    <2> QED
        BY <1>0, <2>3, <2>4 DEF Sound
<1>10. CASE RefuseAgent
    <2> DEFINE q == loop.req
               c == loop.conv
    <2>1. /\ loop.at = "reserved" /\ q \in Requests /\ loop'.at \in {"reading", "draining"}
          /\ turn[q].at = "reserved" /\ turn[q].conv = c /\ turn'[q].at = "over"
          /\ \A s \in Requests \ {q} : turn'[s] = turn[s]
          /\ busy' = busy \ {c} /\ UNCHANGED <<orphaned, seq, told, spoiled>>
        BY <1>10, <1>a, ReplyRests DEF RefuseAgent, Refuse, NoTurn, Sound, Typed, InHand
    <2>2. \A s \in Requests :
              /\ Live(s)' <=> Live(s) /\ s # q
              /\ Held(s)' <=> Held(s) /\ s # q
              /\ Emitting(s)' <=> Emitting(s)
              /\ s # q => turn'[s] = turn[s]
        BY <2>1 DEF Live, Held, Emitting
    <2>3. \A s \in Requests : Held(s) /\ s # q => turn[s].conv # c
        BY <2>1 DEF Sound, InHand
    <2>4. BusyHasTurn'
        BY <2>1, <2>2 DEF Sound, Reservations, BusyHasTurn, LiveOn
    <2>5. Reservations' /\ InHand'
        BY <2>1, <2>2, <2>3, <2>4, Rests DEF Sound, Reservations
    <2>6. Numbers'
        BY <2>1, <2>2 DEF Sound, Numbers, Emitting
    <2> QED
        BY <1>0, <2>5, <2>6 DEF Sound
<1>11. CASE Exit
    <2>1. /\ loop'.at = "exited" /\ UNCHANGED <<busy, seq, told, orphaned, spoiled>>
          /\ \A r \in Requests : turn'[r].at = IF Live(r) THEN "killed" ELSE turn[r].at
        BY <1>11, <1>b DEF Exit, NoTurn
    <2>2. \A r \in Requests : ~Live(r)' /\ ~Held(r)' /\ ~Emitting(r)'
        BY <2>1 DEF Live, Held, Emitting
    <2>3. \A r \in Requests : turn'[r].at = "none" => turn[r].at = "none"
        BY <2>1
    <2> QED
        BY <1>0, <2>1, <2>2, <2>3 DEF Sound, Reservations, BusyHasTurn, InHand, Numbers
<1>12. ASSUME NEW c \in Conversations, CreateConversation(c)
       PROVE  Sound'
    BY <1>0, <1>12, Rests, ReplyRests, QuietLoop DEF CreateConversation
<1>13. ASSUME NEW c \in Conversations, DeleteConversation(c)
       PROVE  Sound'
    <2>1. /\ loop.at = "reading" /\ loop'.at = "removed" /\ loop'.conv = c
          /\ UNCHANGED <<busy, seq, told, orphaned>>
          /\ spoiled \subseteq spoiled' /\ (LiveOn(c) # {} => c \in spoiled')
        BY <1>13 DEF DeleteConversation, Idle
    <2>2. \A s \in Requests : /\ turn'[s].at = turn[s].at /\ turn'[s].conv = turn[s].conv
                              /\ turn'[s].num = turn[s].num
        BY <1>13, <1>a DEF DeleteConversation, TurnType
    <2>3. \A s \in Requests : /\ Live(s)' <=> Live(s)
                              /\ Held(s)' <=> Held(s)
                              /\ Emitting(s)' <=> Emitting(s)
        BY <2>1, <2>2 DEF Live, Held, Emitting
    <2>4. Reservations'
        BY <2>1, <2>2, <2>3 DEF Sound, Reservations, BusyHasTurn, LiveOn
    <2>5. InHand'
        BY <2>1, <2>2, <2>3 DEF InHand, LiveOn
    <2>6. Numbers'
        BY <2>1, <2>2, <2>3 DEF Sound, Numbers
    <2> QED
        BY <1>0, <2>4, <2>5, <2>6 DEF Sound
<1>14. ASSUME NEW r \in Requests, NEW c \in Conversations, Load(r, c)
       PROVE  Sound'
    <2>1. /\ loop.at = "reading" /\ turn[r].at = "none"
          /\ UNCHANGED <<turn, busy, orphaned, seq, told, spoiled>>
        BY <1>14 DEF Load, Unread
    <2>2. CASE Refuse(r)
        BY <1>0, <2>1, <2>2, Rests, ReplyRests, QuietLoop DEF Refuse
    <2>3. CASE loop' = [at |-> "loaded", req |-> r, conv |-> c, read |-> file[c].text]
        BY <1>0, <2>1, <2>3, QuietLoop DEF InHand
    <2> QED
        BY <1>14, <2>2, <2>3 DEF Load
<1> QED
    BY <1>1, <1>2, <1>3, <1>4, <1>5, <1>6, <1>7, <1>8, <1>9, <1>10, <1>11, <1>12, <1>13, <1>14
    DEF LoopSteps

LEMMA InitSound == Init => Sound
<1> SUFFICES ASSUME Init PROVE Sound
    OBVIOUS
<1>1. Typed
    BY InitTyped
<1>2. \A r \in Requests : turn[r].at = "none"
    BY Records DEF Init
<1>3. loop.at = "fresh" /\ busy = {} /\ orphaned = {}
    BY DEF Init, Idle
<1> QED
    BY <1>1, <1>2, <1>3 DEF Init, Sound, Reservations, BusyHasTurn, InHand, Numbers, Live, Held, Emitting

\* The reservations, the numbers and what the loop has in hand agree (handle_chat_send,
\* BusyGuard, RpcEventSink, handle_initialize, handle_conversations_delete).
THEOREM RpcSound == Spec => []Sound
<1>1. Sound /\ [Next]_vars => Sound'
    <2> SUFFICES ASSUME Sound, [Next]_vars PROVE Sound'
        OBVIOUS
    <2>1. CASE Next
        BY <2>1, LoopSound, TurnSound DEF Next
    <2>2. CASE UNCHANGED vars
        BY <2>2 DEF vars, Sound, Typed, RpcTypeOK, Reservations, BusyHasTurn, LiveOn, InHand,
                    Numbers, Live, Held, Emitting
    <2> QED
        BY <2>1, <2>2
<1> QED
    BY <1>1, InitSound, PTL DEF Spec

\* Two turns of one conversation run at once only after one has lost its reservation.
THEOREM OneTurnAtATime == Spec => []OneTurn
<1>1. Sound => OneTurn
    BY DEF Sound, Reservations, OneTurn, Held
<1> QED
    BY <1>1, RpcSound, PTL

\* No conversation stays busy without a turn.
THEOREM ReservationsEnd == Spec => []BusyHasTurn
<1>1. Sound => BusyHasTurn
    BY DEF Sound, Reservations
<1> QED
    BY <1>1, RpcSound, PTL

\* A client sees the numbers of a conversation without gap or repetition.
THEOREM NumbersFollow == Spec => []NumberedInOrder
<1>1. Sound => NumberedInOrder
    BY DEF Sound, Numbers, NumberedInOrder, Emitting
<1> QED
    BY <1>1, RpcSound, PTL

-----------------------------------------------------------------------------
(* The answers on disk.  On a conversation that is not spoiled the one live *)
(* turn holds a document with every answer given before, and writes it to a *)
(* file nobody else has open.                                               *)
(*                                                                          *)
(* A question and its answer, next to each other. *)
Pair(text, r) ==
    \E i \in 1..(Len(text) - 1) : text[i] = <<"user", r>> /\ text[i + 1] = <<"assistant", r>>

\* An answer is given at the end of a turn.
Placed(r) == answers[r] = "ok" => turn[r].at \in {"answered", "over", "killed"}

\* A turn under way ends its document on its question.
Asked(r) ==
    turn[r].at \in {"opened", "running", "emitting", "ended"} =>
        turn[r].doc # <<>> /\ turn[r].doc[Len(turn[r].doc)] = <<"user", r>>

\* What a live turn holds and has saved.
Holds(r) ==
    LET c == turn[r].conv IN
    Live(r) /\ c \notin spoiled =>
        /\ turn[r].at \in {"opened", "closing"} => turn[r].fd = "own"
        /\ \A s \in Requests : answers[s] = "ok" /\ turn[s].conv = c /\ s # r => Pair(turn[r].doc, s)
        /\ turn[r].at = "closing" => Pair(turn[r].doc, r)
        /\ turn[r].at = "done" /\ Readable(c) => Pair(file[c].text, r)

Kept == AnswersKept /\ \A r \in Requests : Placed(r) /\ Asked(r) /\ Holds(r)

\* What is added to a text leaves its pairs, and an answer added to its question makes one.
LEMMA PairsStay ==
    ASSUME NEW doc \in Seq(Message), NEW m \in Message, NEW s \in Requests, Pair(doc, s)
    PROVE  Pair(Append(doc, m), s)
<1>1. PICK i \in 1..(Len(doc) - 1) : doc[i] = <<"user", s>> /\ doc[i + 1] = <<"assistant", s>>
    BY DEF Pair
<1>2. Len(doc) \in Nat /\ Len(Append(doc, m)) = Len(doc) + 1
    OBVIOUS
<1>3. i \in 1..(Len(Append(doc, m)) - 1) /\ i \in 1..Len(doc) /\ i + 1 \in 1..Len(doc)
    BY <1>2
<1>4. Append(doc, m)[i] = doc[i] /\ Append(doc, m)[i + 1] = doc[i + 1]
    BY <1>3
<1> QED
    BY <1>1, <1>3, <1>4 DEF Pair

LEMMA PairMade ==
    ASSUME NEW doc \in Seq(Message), NEW r \in Requests,
           doc # <<>>, doc[Len(doc)] = <<"user", r>>
    PROVE  Pair(Append(doc, <<"assistant", r>>), r)
<1> DEFINE text == Append(doc, <<"assistant", r>>)
<1>1. Len(doc) \in Nat /\ Len(doc) > 0 /\ Len(text) = Len(doc) + 1
    BY Messages
<1>2. Len(doc) \in 1..(Len(text) - 1) /\ Len(doc) \in 1..Len(doc)
    BY <1>1
<1>3. text[Len(doc)] = doc[Len(doc)] /\ text[Len(doc) + 1] = <<"assistant", r>>
    BY <1>1, <1>2
<1> HIDE DEF text
<1>4. Pair(text, r)
    BY <1>2, <1>3 DEF Pair
<1> QED
    BY <1>4 DEF text

\* A step of turn r leaves the rest alone: other conversations, and on its own the turns
\* that only a spoiled conversation has.
Aside(r) ==
    LET c == turn[r].conv IN
    /\ \A s \in Requests \ {r} :
           /\ turn'[s].at = turn[s].at /\ turn'[s].conv = turn[s].conv /\ turn'[s].doc = turn[s].doc
           /\ turn'[s].fd = turn[s].fd \/ turn[s].conv = c
           /\ answers'[s] = answers[s]
    /\ \A d \in Conversations \ {c} : file'[d] = file[d]
    /\ spoiled \subseteq spoiled'

LEMMA StepKept ==
    ASSUME Sound, Kept, NEW r \in Requests, Moves(r), Aside(r), (Placed(r) /\ Asked(r))',
           turn[r].conv \notin spoiled' => Holds(r)',
           turn[r].conv \notin spoiled' /\ Readable(turn[r].conv)' =>
               \A s \in Requests : answers'[s] = "ok" /\ turn'[s].conv = turn[r].conv
                                   => Pair(file'[turn[r].conv].text, s)
    PROVE  Kept'
<1> DEFINE c == turn[r].conv
<1>1. Live(r) /\ c \in Conversations /\ turn'[r].conv = c
    BY DEF Moves, Live, Sound, Typed
<1>2. ASSUME NEW s \in Requests \ {r}
      PROVE  (Placed(s) /\ Asked(s) /\ Holds(s))'
    <2>1. /\ turn'[s].at = turn[s].at /\ turn'[s].conv = turn[s].conv
          /\ turn'[s].doc = turn[s].doc /\ answers'[s] = answers[s]
          /\ spoiled \subseteq spoiled'
        BY DEF Aside
    <2>2. (Placed(s) /\ Asked(s))'
        BY <2>1 DEF Kept, Placed, Asked
    <2>3. CASE ~Live(s) \/ turn[s].conv \in spoiled
        BY <2>1, <2>2, <2>3 DEF Holds, Live
    <2>4. CASE Live(s) /\ turn[s].conv \notin spoiled
        <3>1. turn[s].conv # c /\ turn[s].conv \in Conversations
            BY <1>1, <2>4, OnlyOne DEF Sound, Typed
        <3>2. turn'[s].fd = turn[s].fd /\ file'[turn[s].conv] = file[turn[s].conv]
            BY <3>1 DEF Aside
        <3>3. \A q \in Requests : answers'[q] = "ok" /\ turn'[q].conv = turn[s].conv
                                  => answers[q] = "ok" /\ turn[q].conv = turn[s].conv
            BY <1>1, <3>1 DEF Aside
        <3>4. Holds(s)
            BY DEF Kept
        <3> QED
            BY <2>1, <2>2, <2>4, <3>2, <3>3, <3>4 DEF Holds, Live, Readable
    <2> QED
        BY <2>2, <2>3, <2>4
<1>3. Holds(r)'
    BY <1>1 DEF Holds
<1>4. AnswersKept'
    <2> SUFFICES ASSUME NEW s \in Requests, NEW d \in Conversations,
                        answers'[s] = "ok", d \notin spoiled', Readable(d)', turn'[s].conv = d
                 PROVE  Pair(file'[d].text, s)
        BY DEF AnswersKept, Pair
    <2>1. CASE d # c
        <3>1. s # r /\ file'[d] = file[d] /\ d \notin spoiled
            BY <1>1, <2>1 DEF Aside
        <3>2. answers[s] = "ok" /\ turn[s].conv = d /\ Readable(d)
            BY <3>1 DEF Aside, Readable
        <3> QED
            BY <3>1, <3>2 DEF Kept, AnswersKept, Pair
    <2>2. CASE d = c
        BY <1>1, <2>2 DEF Readable
    <2> QED
        BY <2>1, <2>2
<1> QED
    BY <1>2, <1>3, <1>4 DEF Kept

\* Opening the file: nobody else has it open, unless the conversation is spoiled.
LEMMA TruncateAside ==
    ASSUME Sound, NEW r \in Requests, NEW doc, NEW at, Live(r),
           Truncate(r, doc, at), UNCHANGED <<answers, spoiled>>
    PROVE  /\ Aside(r)
           /\ turn'[r].at = at /\ turn'[r].doc = doc
           /\ turn[r].conv \notin spoiled => turn'[r].fd = "own"
           /\ file'[turn[r].conv] = Torn
<1> DEFINE c == turn[r].conv
           others == {s \in LiveOn(c) \ {r} : turn[s].fd \in {"own", "shared"}}
           mine == [turn[r] EXCEPT !.at = at, !.doc = doc,
                                   !.fd = IF others = {} THEN "own" ELSE "shared"]
<1>1. /\ turn \in [Requests -> TurnType] /\ file \in [Conversations -> FileType]
      /\ c \in Conversations /\ turn[r] \in TurnType
    BY DEF Sound, Typed, RpcTypeOK
<1>2. mine.at = at /\ mine.doc = doc /\ (others = {} => mine.fd = "own")
    BY <1>1 DEF TurnType
<1>3. c \notin spoiled => others = {}
    BY OnlyOne DEF LiveOn
<1>4. turn' = [s \in Requests |-> CASE s = r -> mine
                                    [] s \in others -> [turn[s] EXCEPT !.fd = "shared"]
                                    [] OTHER -> turn[s]]
    BY DEF Truncate
<1>5. \A s \in Requests : LET t == [turn[s] EXCEPT !.fd = "shared"] IN
          t.at = turn[s].at /\ t.conv = turn[s].conv /\ t.doc = turn[s].doc
    BY <1>1 DEF TurnType
<1>6. r \notin others /\ \A s \in others : turn[s].conv = c
    BY DEF LiveOn
<1> HIDE DEF mine, others
<1>7. turn'[r] = mine
    BY <1>4, <1>6
<1>8. \A s \in Requests \ {r} :
          \/ turn'[s] = turn[s]
          \/ turn'[s] = [turn[s] EXCEPT !.fd = "shared"] /\ turn[s].conv = c
    BY <1>4, <1>6
<1>9. file' = [file EXCEPT ![c] = Torn]
    BY DEF Truncate
<1>10. Aside(r)
    BY <1>1, <1>5, <1>8, <1>9 DEF Aside
<1> QED
    BY <1>1, <1>2, <1>3, <1>7, <1>9, <1>10

\* Writing it: the file is the document of the turn, unless the conversation is spoiled.
LEMMA WriteAside ==
    ASSUME Sound, Kept, NEW r \in Requests, NEW at, turn[r].at \in {"opened", "closing"},
           Write(r, at), UNCHANGED <<answers, spoiled>>
    PROVE  /\ Aside(r)
           /\ turn'[r].at = at /\ turn'[r].doc = turn[r].doc
           /\ turn[r].conv \notin spoiled => file'[turn[r].conv] = Whole(turn[r].doc)
<1> DEFINE c == turn[r].conv
           new == [turn[r] EXCEPT !.at = at, !.fd = "none"]
<1>0. Live(r)
    BY DEF Live
<1>1. /\ turn \in [Requests -> TurnType] /\ file \in [Conversations -> FileType]
      /\ c \in Conversations /\ turn[r] \in TurnType
    BY <1>0 DEF Sound, Typed, RpcTypeOK
<1>2. new.at = at /\ new.doc = turn[r].doc
    BY <1>1 DEF TurnType
<1>3. turn' = [turn EXCEPT ![r] = new]
    BY <1>1 DEF Write
<1> HIDE DEF new
<1>4. turn'[r] = new /\ \A s \in Requests \ {r} : turn'[s] = turn[s]
    BY <1>1, <1>3
<1>5. \/ file' = [file EXCEPT ![c] = Whole(turn[r].doc)]
      \/ file' = [file EXCEPT ![c] = Torn]
      \/ file' = file
    BY DEF Write
<1>6. \A d \in Conversations \ {c} : file'[d] = file[d]
    BY <1>1, <1>5
<1>7. c \notin spoiled => file'[c] = Whole(turn[r].doc)
    <2> SUFFICES ASSUME c \notin spoiled PROVE file'[c] = Whole(turn[r].doc)
        OBVIOUS
    <2>1. turn[r].fd = "own"
        BY <1>0 DEF Kept, Holds
    <2>2. file' = [file EXCEPT ![c] = Whole(turn[r].doc)]
        BY <2>1 DEF Write
    <2> QED
        BY <1>1, <2>2
<1>8. Aside(r)
    BY <1>4, <1>6 DEF Aside
<1> QED
    BY <1>2, <1>4, <1>7, <1>8

\* A turn that writes nothing.
LEMMA QuietKept ==
    ASSUME Sound, Kept, NEW r \in Requests, Moves(r),
           \/ TakeNumber(r) \/ Notify(r) \/ RunEnds(r) \/ Answer(r) \/ Panic(r) \/ EndTurn(r)
    PROVE  Kept'
<1> DEFINE c == turn[r].conv
<1>1. /\ turn \in [Requests -> TurnType] /\ turn[r] \in TurnType
      /\ answers \in [Requests -> {"none", "ok", "error", "lost"}]
      /\ Live(r) /\ c \in Conversations /\ turn'[r].conv = c
    BY DEF Sound, Typed, RpcTypeOK, Moves, Live
<1>2. UNCHANGED <<file, spoiled>>
    BY DEF TakeNumber, Notify, RunEnds, Answer, Panic, EndTurn
<1>3. \A s \in Requests \ {r} : turn'[s] = turn[s] /\ answers'[s] = answers[s]
    BY <1>1 DEF TakeNumber, Notify, RunEnds, Answer, Panic, EndTurn
<1>4. Aside(r)
    BY <1>2, <1>3 DEF Aside
<1>5. /\ turn'[r].at \in {"running", "emitting", "ended"} =>
            /\ turn'[r].doc = turn[r].doc /\ turn[r].at \in {"running", "emitting"}
            /\ answers'[r] = answers[r]
      /\ turn'[r].at \in {"running", "emitting", "ended", "answered", "over"}
      /\ turn'[r].at = "answered" => turn'[r].doc = turn[r].doc
    <2>1. CASE TakeNumber(r)
        BY <1>1, <2>1 DEF TakeNumber, TurnType
    <2>2. CASE Notify(r)
        BY <1>1, <2>2 DEF Notify, TurnType
    <2>3. CASE RunEnds(r)
        <3>1. PICK ok \in BOOLEAN : turn' = [turn EXCEPT ![r] = [turn[r] EXCEPT !.at = "ended", !.ok = ok]]
            BY <2>3 DEF RunEnds
        <3>2. /\ [turn[r] EXCEPT !.at = "ended", !.ok = ok].at = "ended"
              /\ [turn[r] EXCEPT !.at = "ended", !.ok = ok].doc = turn[r].doc
            BY <1>1 DEF TurnType
        <3> QED
            BY <1>1, <2>3, <3>1, <3>2 DEF RunEnds
    <2>4. CASE Answer(r)
        BY <1>1, <2>4 DEF Answer, TurnType
    <2>5. CASE Panic(r)
        BY <1>1, <2>5 DEF Panic, TurnType
    <2>6. CASE EndTurn(r)
        BY <1>1, <2>6 DEF EndTurn, NoTurn
    <2> QED
        BY <2>1, <2>2, <2>3, <2>4, <2>5, <2>6
<1>6. answers'[r] = "ok" => \/ turn[r].at = "done" /\ turn'[r].at = "answered"
                            \/ answers[r] = "ok" /\ turn'[r].at = "over"
    <2>1. CASE TakeNumber(r) \/ Notify(r) \/ RunEnds(r)
        BY <2>1 DEF Kept, Placed, TakeNumber, Notify, RunEnds
    <2>2. CASE Answer(r)
        BY <1>1, <2>2 DEF Answer, TurnType
    <2>3. CASE Panic(r)
        BY <1>1, <2>3 DEF Panic
    <2>4. CASE EndTurn(r)
        BY <1>1, <2>4 DEF EndTurn, NoTurn
    <2> QED
        BY <2>1, <2>2, <2>3, <2>4
<1>7. (Placed(r) /\ Asked(r))'
    BY <1>5, <1>6 DEF Kept, Placed, Asked
<1>8. Placed(r) /\ Holds(r)
    BY DEF Kept
<1>9. c \notin spoiled' => Holds(r)'
    <2> SUFFICES ASSUME c \notin spoiled, Live(r)'
                 PROVE  /\ turn'[r].at \notin {"opened", "closing", "done"}
                        /\ \A s \in Requests : answers'[s] = "ok" /\ turn'[s].conv = c /\ s # r
                                               => Pair(turn'[r].doc, s)
        BY <1>1, <1>2 DEF Holds
    <2>1. turn'[r].doc = turn[r].doc
        BY <1>5 DEF Live
    <2> QED
        BY <1>1, <1>3, <1>5, <1>8, <2>1 DEF Holds
<1>10. c \notin spoiled' /\ Readable(c)' =>
           \A s \in Requests : answers'[s] = "ok" /\ turn'[s].conv = c => Pair(file'[c].text, s)
    <2> SUFFICES ASSUME c \notin spoiled, Readable(c), NEW s \in Requests,
                        answers'[s] = "ok", turn'[s].conv = c
                 PROVE  Pair(file[c].text, s)
        BY <1>1, <1>2 DEF Readable
    <2>1. CASE answers[s] = "ok"
        BY <1>1, <1>3, <2>1 DEF Kept, AnswersKept, Pair
    <2>2. CASE answers[s] # "ok"
        BY <1>1, <1>3, <1>6, <1>8, <2>2 DEF Holds
    <2> QED
        BY <2>1, <2>2
<1> QED
    BY <1>4, <1>7, <1>9, <1>10, StepKept

\* Every step of a turn keeps what is said of the answers.
LEMMA TurnKept ==
    ASSUME Sound, Kept, NEW r \in Requests,
           TurnSteps(r) \/ SaveRefused(r) \/ TakeNumber(r) \/ Panic(r)
    PROVE  Kept'
<1> DEFINE c == turn[r].conv
<1>m. Moves(r)
    BY TurnTyped DEF Sound
<1>0. /\ turn \in [Requests -> TurnType] /\ turn[r].doc \in Seq(Message)
      /\ Live(r) /\ c \in Conversations /\ turn'[r].conv = c
      /\ <<"user", r>> \in Message /\ <<"assistant", r>> \in Message
    BY <1>m, Messages DEF Sound, Typed, RpcTypeOK, Moves, Live, TurnType
<1>h. Placed(r) /\ Asked(r) /\ Holds(r)
    BY DEF Kept
<1>t. Torn.is = "torn" /\ \A doc : Whole(doc).text = doc
    BY DEF Torn, Whole
<1>1. CASE SaveQuestion(r) /\ turn[r].at = "spawned"
    <2> DEFINE doc == Append(turn[r].doc, <<"user", r>>)
    <2>1. Truncate(r, doc, "opened") /\ UNCHANGED <<answers, spoiled>>
        BY <1>1 DEF SaveQuestion
    <2>2. /\ Aside(r) /\ turn'[r].at = "opened" /\ turn'[r].doc = doc
          /\ c \notin spoiled => turn'[r].fd = "own"
          /\ file'[c] = Torn
        BY <1>0, <2>1, TruncateAside
    <2>3. doc # <<>> /\ doc[Len(doc)] = <<"user", r>>
        BY <1>0
    <2>4. \A s \in Requests : Pair(turn[r].doc, s) => Pair(doc, s)
        BY <1>0, PairsStay
    <2> HIDE DEF doc
    <2>5. (Placed(r) /\ Asked(r))'
        BY <1>1, <1>h, <2>1, <2>2, <2>3 DEF Placed, Asked
    <2>6. \A s \in Requests : answers'[s] = "ok" /\ turn'[s].conv = c /\ s # r
                              => answers[s] = "ok" /\ turn[s].conv = c
        BY <2>2 DEF Aside
    <2>7. c \notin spoiled' => Holds(r)'
        BY <1>0, <1>h, <2>1, <2>2, <2>4, <2>6 DEF Holds
    <2>8. ~Readable(c)'
        BY <1>0, <1>t, <2>2 DEF Readable
    <2> QED
        BY <1>m, <2>2, <2>5, <2>7, <2>8, StepKept
<1>2. CASE SaveAnswer(r) /\ turn[r].at = "ended"
    <2> DEFINE doc == Append(turn[r].doc, <<"assistant", r>>)
    <2>1. Truncate(r, doc, "closing") /\ UNCHANGED <<answers, spoiled>>
        BY <1>2 DEF SaveAnswer
    <2>2. /\ Aside(r) /\ turn'[r].at = "closing" /\ turn'[r].doc = doc
          /\ c \notin spoiled => turn'[r].fd = "own"
          /\ file'[c] = Torn
        BY <1>0, <2>1, TruncateAside
    <2>3. Pair(doc, r)
        BY <1>0, <1>2, <1>h, PairMade DEF Asked
    <2>4. \A s \in Requests : Pair(turn[r].doc, s) => Pair(doc, s)
        BY <1>0, PairsStay
    <2> HIDE DEF doc
    <2>5. (Placed(r) /\ Asked(r))'
        BY <1>2, <1>h, <2>1, <2>2 DEF Placed, Asked
    <2>6. \A s \in Requests : answers'[s] = "ok" /\ turn'[s].conv = c /\ s # r
                              => answers[s] = "ok" /\ turn[s].conv = c
        BY <2>2 DEF Aside
    <2>7. c \notin spoiled' => Holds(r)'
        BY <1>0, <1>h, <2>1, <2>2, <2>3, <2>4, <2>6 DEF Holds
    <2>8. ~Readable(c)'
        BY <1>0, <1>t, <2>2 DEF Readable
    <2> QED
        BY <1>m, <2>2, <2>5, <2>7, <2>8, StepKept
<1>3. ASSUME NEW at \in {"running", "done"}, Write(r, at), UNCHANGED <<answers, spoiled>>,
             at = "running" => turn[r].at = "opened",
             at = "done" => turn[r].at = "closing"
      PROVE  Kept'
    <2>1. /\ Aside(r) /\ turn'[r].at = at /\ turn'[r].doc = turn[r].doc
          /\ c \notin spoiled => file'[c] = Whole(turn[r].doc)
        BY <1>3, WriteAside
    <2>2. answers[r] # "ok"
        BY <1>3, <1>h DEF Placed
    <2>3. (Placed(r) /\ Asked(r))'
        BY <1>3, <1>h, <2>1, <2>2 DEF Placed, Asked
    <2>4. \A s \in Requests : answers'[s] = "ok" /\ turn'[s].conv = c
                              => answers[s] = "ok" /\ turn[s].conv = c /\ s # r
        BY <1>3, <2>1, <2>2 DEF Aside
    <2>5. c \notin spoiled => /\ \A s \in Requests : answers[s] = "ok" /\ turn[s].conv = c /\ s # r
                                                     => Pair(turn[r].doc, s)
                              /\ at = "done" => Pair(turn[r].doc, r)
        BY <1>0, <1>3, <1>h DEF Holds
    <2>6. c \notin spoiled' => Holds(r)'
        BY <1>0, <1>3, <1>t, <2>1, <2>4, <2>5 DEF Holds
    <2>7. c \notin spoiled' => \A s \in Requests : answers'[s] = "ok" /\ turn'[s].conv = c
                                                   => Pair(file'[c].text, s)
        BY <1>3, <1>t, <2>1, <2>4, <2>5
    <2> QED
        BY <1>m, <2>1, <2>3, <2>6, <2>7, StepKept
<1>4. CASE SaveQuestion(r) /\ turn[r].at = "opened"
    BY <1>3, <1>4 DEF SaveQuestion
<1>5. CASE SaveAnswer(r) /\ turn[r].at = "closing"
    BY <1>3, <1>5 DEF SaveAnswer
<1>6. CASE SaveRefused(r)
    <2>1. /\ spoiled' = spoiled \cup {c} /\ UNCHANGED <<file, answers>>
          /\ turn[r].at \in {"spawned", "ended"}
          /\ \A s \in Requests \ {r} : turn'[s] = turn[s]
        BY <1>0, <1>6 DEF SaveRefused
    <2>2. \/ turn'[r].at = "running" /\ turn'[r].doc = Append(turn[r].doc, <<"user", r>>)
          \/ turn'[r].at = "done"
        BY <1>0, <1>6 DEF SaveRefused, TurnType
    <2>3. Aside(r)
        BY <2>1 DEF Aside
    <2>4. LET doc == Append(turn[r].doc, <<"user", r>>) IN doc # <<>> /\ doc[Len(doc)] = <<"user", r>>
        BY <1>0
    <2>5. (Placed(r) /\ Asked(r))'
        BY <1>h, <2>1, <2>2, <2>4 DEF Placed, Asked
    <2> QED
        BY <1>m, <2>1, <2>3, <2>5, StepKept
<1>7. CASE \/ TakeNumber(r) \/ Notify(r) \/ RunEnds(r) \/ Answer(r) \/ Panic(r) \/ EndTurn(r)
    BY <1>m, <1>7, QuietKept
<1>8. SaveQuestion(r) => turn[r].at \in {"spawned", "opened"}
    BY DEF SaveQuestion
<1>9. SaveAnswer(r) => turn[r].at \in {"ended", "closing"}
    BY DEF SaveAnswer
<1> QED
    BY <1>1, <1>2, <1>4, <1>5, <1>6, <1>7, <1>8, <1>9 DEF TurnSteps

\* A step of the loop that gives no answer of a turn, begins none, and changes the file of
\* no conversation but to remove it or to make one.
LEMMA LoopFrame ==
    ASSUME Sound, Kept, spoiled \subseteq spoiled',
           \A s \in Requests : answers'[s] = "ok" => answers[s] = "ok",
           \A s \in Requests :
               \/ /\ turn'[s].conv = turn[s].conv /\ turn'[s].doc = turn[s].doc
                  /\ turn'[s].at = turn[s].at \/ (turn[s].at = "reserved" /\ turn'[s].at = "spawned")
                  /\ turn'[s].fd = turn[s].fd \/ (Live(s) => turn[s].conv \in spoiled')
               \/ turn'[s].at \in {"over", "killed"} /\ turn'[s].conv = Nobody,
           \A c \in Conversations :
               file'[c] = file[c] \/ file'[c] = Absent \/ \A s \in Requests : turn[s].conv # c
    PROVE  Kept'
<1>1. \A s \in Requests : Placed(s) /\ Asked(s) /\ Holds(s)
    BY DEF Kept
<1>2. Nobody \notin Conversations /\ Absent.is # "whole"
    BY RpcAssumption DEF Absent
<1>3. ASSUME NEW s \in Requests
      PROVE  (Placed(s) /\ Asked(s) /\ Holds(s))'
    <2>1. CASE turn'[s].at \in {"over", "killed"}
        BY <2>1 DEF Placed, Asked, Holds, Live
    <2>2. CASE turn'[s].at \notin {"over", "killed"}
        <3> DEFINE c == turn[s].conv
        <3>1. /\ turn'[s].conv = c /\ turn'[s].doc = turn[s].doc
              /\ turn'[s].at = turn[s].at \/ (turn[s].at = "reserved" /\ turn'[s].at = "spawned")
              /\ turn'[s].fd = turn[s].fd \/ (Live(s) => c \in spoiled')
            BY <2>2
        <3>2. (Placed(s) /\ Asked(s))'
            BY <1>1, <3>1 DEF Placed, Asked
        <3>3. ASSUME Live(s)', c \notin spoiled' PROVE Holds(s)'
            <4>1. Live(s) /\ c \notin spoiled /\ c \in Conversations
                BY <3>1, <3>3 DEF Live, Sound, Typed
            <4>2. \A q \in Requests : answers'[q] = "ok" /\ turn'[q].conv = c
                                      => answers[q] = "ok" /\ turn[q].conv = c
                BY <4>1, <1>2
            <4>3. file'[c].is = "whole" => file'[c] = file[c]
                BY <4>1, <1>2
            <4> HIDE DEF c
            <4>4. Holds(s)
                BY <1>1
            <4> QED
                BY <3>1, <3>3, <4>1, <4>2, <4>3, <4>4 DEF Holds, Readable, c
        <3>4. ~(Live(s)' /\ c \notin spoiled') => Holds(s)'
            BY <3>1 DEF Holds
        <3> QED
            BY <3>2, <3>3, <3>4
    <2> QED
        BY <2>1, <2>2
<1>4. AnswersKept'
    <2> SUFFICES ASSUME NEW s \in Requests, NEW c \in Conversations,
                        answers'[s] = "ok", c \notin spoiled', Readable(c)', turn'[s].conv = c
                 PROVE  Pair(file'[c].text, s)
        BY DEF AnswersKept, Pair
    <2>1. answers[s] = "ok" /\ c \notin spoiled /\ turn[s].conv = c
        BY <1>2
    <2>2. file'[c] = file[c] /\ Readable(c)
        BY <1>2, <2>1 DEF Readable
    <2>3. Pair(file[c].text, s)
        BY <2>1, <2>2 DEF Kept, AnswersKept, Pair
    <2> QED
        BY <2>2, <2>3
<1> QED
    BY <1>3, <1>4 DEF Kept

\* A turn begins with what is on disk, unless the conversation is spoiled.
LEMMA ReserveKept ==
    ASSUME Sound, Kept, ReserveTurn
    PROVE  Kept'
<1> DEFINE q == loop.req
           c == loop.conv
<1>0. q' = q
    BY DEF ReserveTurn, Sound, Typed, RpcTypeOK, LoopType
<1>1. /\ q \in Requests /\ c \in Conversations /\ c \notin busy /\ turn[q].at = "none"
      /\ turn \in [Requests -> TurnType]
    BY DEF ReserveTurn, Sound, Typed, InHand, RpcTypeOK
<1>2. /\ turn'[q].at = "reserved" /\ turn'[q].conv = c /\ turn'[q].doc = loop.read
      /\ \A s \in Requests \ {q} : turn'[s] = turn[s]
      /\ UNCHANGED <<file, answers>>
      /\ spoiled \subseteq spoiled'
      /\ c \notin spoiled' => file[c] = Whole(loop.read)
    BY <1>1 DEF ReserveTurn, NoTurn
<1>3. \A s \in Requests : Placed(s) /\ Asked(s) /\ Holds(s)
    BY DEF Kept
<1>4. answers[q] # "ok"
    BY <1>1, <1>3 DEF Placed
<1>5. c \notin spoiled => \A s \in Requests : Live(s) => turn[s].conv # c
    BY <1>1 DEF Sound, Reservations, Numbers, Held
<1>6. \A s \in Requests : answers'[s] = "ok" => s # q /\ answers[s] = "ok" /\ turn'[s] = turn[s]
    BY <1>2, <1>4
<1>7. ASSUME NEW s \in Requests, s # q
      PROVE  (Placed(s) /\ Asked(s) /\ Holds(s))'
    <2>1. turn'[s] = turn[s] /\ Placed(s) /\ Asked(s) /\ Holds(s)
        BY <1>2, <1>3, <1>7
    <2>2. (Placed(s) /\ Asked(s))'
        BY <1>6, <2>1 DEF Placed, Asked
    <2>3. Holds(s)'
        BY <1>2, <1>6, <2>1 DEF Holds, Live, Readable
    <2> QED
        BY <2>2, <2>3
<1>8. (Placed(q) /\ Asked(q) /\ Holds(q))'
    <2>1. c \notin spoiled' => \A s \in Requests : answers'[s] = "ok" /\ turn'[s].conv = c
                                                   => Pair(loop.read, s)
        <3> SUFFICES ASSUME c \notin spoiled', NEW s \in Requests, answers'[s] = "ok", turn'[s].conv = c
                     PROVE  Pair(loop.read, s)
            OBVIOUS
        <3>1. answers[s] = "ok" /\ turn[s].conv = c /\ c \notin spoiled
            BY <1>2, <1>6
        <3>2. Readable(c) /\ file[c].text = loop.read
            BY <1>2 DEF Readable, Whole
        <3> QED
            BY <1>1, <3>1, <3>2 DEF Kept, AnswersKept, Pair
    <2> HIDE DEF q, c
    <2> QED
        BY <1>0, <1>2, <1>4, <2>1 DEF Placed, Asked, Holds
<1>9. AnswersKept'
    <2> SUFFICES ASSUME NEW s \in Requests, NEW d \in Conversations,
                        answers'[s] = "ok", d \notin spoiled', Readable(d)', turn'[s].conv = d
                 PROVE  Pair(file'[d].text, s)
        BY DEF AnswersKept, Pair
    <2>1. answers[s] = "ok" /\ turn[s].conv = d /\ d \notin spoiled /\ file' = file
        BY <1>2, <1>6
    <2> QED
        BY <2>1 DEF Kept, AnswersKept, Pair, Readable
<1>10. \A s \in Requests : (Placed(s) /\ Asked(s) /\ Holds(s))'
    BY <1>0, <1>1, <1>7, <1>8
<1> QED
    BY <1>9, <1>10 DEF Kept

\* Every step of the loop keeps what is said of the answers.
LEMMA LoopKept ==
    ASSUME Sound, Kept,
           \/ Initialize \/ Leave \/ StdoutCloses \/ LoopSteps
           \/ \E c \in Conversations : CreateConversation(c) \/ DeleteConversation(c)
           \/ \E r \in Requests, c \in Conversations : Load(r, c)
    PROVE  Kept'
<1>0. /\ turn \in [Requests -> TurnType] /\ file \in [Conversations -> FileType]
      /\ answers \in [Requests -> {"none", "ok", "error", "lost"}]
    BY DEF Sound, Typed, RpcTypeOK
<1>1. CASE \/ Initialize \/ Leave \/ StdoutCloses
           \/ ClearNumbers \/ PurgeNumbers \/ PurgeReservation
    <2>1. UNCHANGED <<turn, file, answers>> /\ spoiled \subseteq spoiled'
        BY <1>1 DEF Initialize, Leave, StdoutCloses, ClearNumbers, PurgeNumbers, PurgeReservation
    <2> QED
        BY <2>1, LoopFrame
<1>2. CASE RefuseBusy
    <2>1. /\ UNCHANGED <<turn, file, spoiled>>
          /\ answers' = [answers EXCEPT ![loop.req] = "error"]
        BY <1>2 DEF RefuseBusy, Refuse
    <2>2. \A s \in Requests : answers'[s] = "ok" => answers[s] = "ok"
        BY <1>0, <2>1
    <2> QED
        BY <2>1, <2>2, LoopFrame
<1>3. ASSUME NEW r \in Requests, NEW c \in Conversations, Load(r, c)
      PROVE  Kept'
    <2>1. /\ UNCHANGED <<turn, file, spoiled>>
          /\ answers' = answers \/ answers' = [answers EXCEPT ![r] = "error"]
        BY <1>3 DEF Load, Refuse
    <2>2. \A s \in Requests : answers'[s] = "ok" => answers[s] = "ok"
        BY <1>0, <2>1
    <2> QED
        BY <2>1, <2>2, LoopFrame
<1>4. CASE SpawnTurn
    <2> DEFINE q == loop.req
    <2>1. /\ q \in Requests /\ turn[q].at = "reserved"
          /\ UNCHANGED <<file, spoiled, answers>>
          /\ \A s \in Requests \ {q} : turn'[s] = turn[s]
          /\ turn'[q].at = "spawned" /\ turn'[q].conv = turn[q].conv
          /\ turn'[q].doc = turn[q].doc /\ turn'[q].fd = turn[q].fd
        BY <1>0, <1>4 DEF SpawnTurn, Sound, Typed, TurnType
    <2> QED
        BY <2>1, LoopFrame
<1>5. CASE RefuseAgent
    <2> DEFINE q == loop.req
    <2>1. /\ q \in Requests /\ UNCHANGED <<file, spoiled>>
          /\ answers' = [answers EXCEPT ![q] = "error"]
          /\ \A s \in Requests \ {q} : turn'[s] = turn[s]
          /\ turn'[q].at = "over" /\ turn'[q].conv = Nobody
        BY <1>0, <1>5 DEF RefuseAgent, Refuse, NoTurn, Sound, Typed
    <2>2. \A s \in Requests : answers'[s] = "ok" => answers[s] = "ok"
        BY <1>0, <2>1
    <2> QED
        BY <2>1, <2>2, LoopFrame
<1>6. CASE Exit
    <2>1. /\ UNCHANGED <<file, spoiled, answers>>
          /\ \A s \in Requests : \/ turn'[s] = turn[s]
                                 \/ turn'[s].at = "killed" /\ turn'[s].conv = Nobody
        BY <1>0, <1>6 DEF Exit, NoTurn
    <2> QED
        BY <2>1, LoopFrame
<1>7. ASSUME NEW c \in Conversations, CreateConversation(c)
      PROVE  Kept'
    <2>1. /\ UNCHANGED <<turn, answers, spoiled>>
          /\ \A s \in Requests : turn[s].conv # c
          /\ \A d \in Conversations \ {c} : file'[d] = file[d]
        BY <1>0, <1>7 DEF CreateConversation
    <2> QED
        BY <2>1, LoopFrame
<1>8. ASSUME NEW c \in Conversations, DeleteConversation(c)
      PROVE  Kept'
    <2>1. /\ answers' = answers /\ spoiled \subseteq spoiled'
          /\ \A s \in Requests : Live(s) /\ turn[s].conv = c => c \in spoiled'
        BY <1>8 DEF DeleteConversation, LiveOn
    <2>2. file'[c] = Absent /\ \A d \in Conversations \ {c} : file'[d] = file[d]
        BY <1>0, <1>8 DEF DeleteConversation
    <2>3. \A s \in Requests : /\ turn'[s].at = turn[s].at /\ turn'[s].conv = turn[s].conv
                              /\ turn'[s].doc = turn[s].doc
                              /\ turn'[s].fd = turn[s].fd \/ turn[s].conv = c
        BY <1>0, <1>8 DEF DeleteConversation, TurnType
    <2> QED
        BY <2>1, <2>2, <2>3, LoopFrame
<1>9. CASE ReserveTurn
    BY <1>9, ReserveKept
<1> QED
    BY <1>1, <1>2, <1>3, <1>4, <1>5, <1>6, <1>7, <1>8, <1>9 DEF LoopSteps

LEMMA InitKept == Init => Kept
<1> SUFFICES ASSUME Init PROVE Kept
    OBVIOUS
<1>1. \A r \in Requests : turn[r].at = "none" /\ answers[r] = "none"
    BY Records DEF Init
<1> QED
    BY <1>1 DEF Kept, AnswersKept, Placed, Asked, Holds, Live

\* What was answered is on the disk, whatever turns follow, fail or are refused, and
\* whenever their steps and those of the loop come between (handle_chat_send).
THEOREM AnswersOnDisk == Spec => []AnswersKept
<1>1. Sound /\ Kept /\ [Next]_vars => Kept'
    <2> SUFFICES ASSUME Sound, Kept, [Next]_vars PROVE Kept'
        OBVIOUS
    <2>1. CASE Next
        BY <2>1, LoopKept, TurnKept DEF Next
    <2>2. CASE UNCHANGED vars
        BY <2>2, LoopFrame DEF vars
    <2> QED
        BY <2>1, <2>2
<1>2. Kept => AnswersKept
    BY DEF Kept
<1> QED
    BY <1>1, <1>2, InitKept, RpcSound, PTL DEF Spec

-----------------------------------------------------------------------------
(* One answer.  A request in the hands of the loop or of its turn was not   *)
(* answered, so whoever answers it is the first.                            *)
Settled == {"none", "answered", "over", "killed"}
Unanswered ==
    \A r \in Requests :
        /\ turn[r].at \notin Settled => answers[r] = "none"
        /\ loop.at \in {"loaded", "reserved"} /\ loop.req = r => answers[r] = "none"

AnswerStands ==
    \A r \in Requests : answers[r] # "none" =>
        answers'[r] = answers[r] /\ turn'[r].at \in Settled

\* A step that answers nobody and lets no request into the loop or out of its rest.
LEMMA NobodyAnswered ==
    ASSUME Unanswered, UNCHANGED answers,
           \A r \in Requests : turn'[r].at = turn[r].at \/ turn'[r].at \in Settled,
           loop' = loop \/ loop'.at \notin {"loaded", "reserved"}
    PROVE  Unanswered' /\ AnswerStands
BY DEF Unanswered, AnswerStands

\* A refusal answers the one request the loop has read.
LEMMA RefusalFirst ==
    ASSUME Sound, Unanswered, NEW q \in Requests, Refuse(q), answers[q] = "none",
           \A r \in Requests : turn'[r].at = turn[r].at \/ turn'[r].at \in Settled,
           turn'[q].at \in Settled
    PROVE  Unanswered' /\ AnswerStands
<1>1. loop'.at \notin {"loaded", "reserved"}
    BY ReplyRests DEF Refuse
<1>2. \A r \in Requests \ {q} : answers'[r] = answers[r]
    BY DEF Refuse, Sound, Typed, RpcTypeOK
<1> QED
    BY <1>1, <1>2 DEF Unanswered, AnswerStands

LEMMA TurnAnswersOnce ==
    ASSUME Sound, Unanswered, NEW q \in Requests,
           TurnSteps(q) \/ SaveRefused(q) \/ TakeNumber(q) \/ Panic(q)
    PROVE  Unanswered' /\ AnswerStands
<1>1. Moves(q) /\ answers \in [Requests -> {"none", "ok", "error", "lost"}]
    BY TurnTyped DEF Sound, Typed, RpcTypeOK
<1>2. \/ UNCHANGED answers /\ (turn[q].at # "answered" \/ turn'[q].at \in Settled)
      \/ /\ turn[q].at \notin Settled /\ turn'[q].at = "answered"
         /\ \A r \in Requests \ {q} : answers'[r] = answers[r]
    <2>1. CASE Answer(q) \/ Panic(q)
        <3>1. turn[q].at \notin Settled /\ \A r \in Requests \ {q} : answers'[r] = answers[r]
            BY <1>1, <2>1 DEF Answer, Panic, Settled
        <3>2. turn'[q].at = "answered"
            BY <2>1 DEF Answer, Panic, Sound, Typed, RpcTypeOK, TurnType
        <3> QED
            BY <3>1, <3>2
    <2>2. CASE EndTurn(q)
        <3>1. turn'[q].at = "over"
            BY <2>2, Records DEF EndTurn, Sound, Typed, RpcTypeOK, TurnType, NoTurn
        <3> QED
            BY <2>2, <3>1 DEF EndTurn, Settled
    <2>3. CASE SaveQuestion(q) \/ SaveAnswer(q) \/ SaveRefused(q) \/ TakeNumber(q) \/ Notify(q)
               \/ RunEnds(q)
        BY <2>3 DEF SaveQuestion, SaveAnswer, SaveRefused, TakeNumber, Notify, RunEnds
    <2> QED
        BY <2>1, <2>2, <2>3 DEF TurnSteps
<1>3. UNCHANGED loop
    BY DEF TurnSteps, SaveQuestion, SaveAnswer, SaveRefused, TakeNumber, Notify, RunEnds, Answer,
           Panic, EndTurn, TurnOnly
<1>4. loop.at = "reserved" => turn[loop.req].at = "reserved"
    BY DEF Sound, Typed
<1>5. loop.at = "loaded" => turn[loop.req].at = "none"
    BY DEF Sound, InHand
<1>6. turn[q].at \notin {"none", "reserved", "over", "killed"}
    BY <1>1 DEF Moves
<1>7. \A r \in Requests \ {q} : turn'[r].at = turn[r].at
    BY <1>1 DEF Moves, Others
<1> QED
    BY <1>2, <1>3, <1>4, <1>5, <1>6, <1>7 DEF Unanswered, AnswerStands, Settled

LEMMA LoopAnswersOnce ==
    ASSUME Sound, Unanswered,
           \/ Initialize \/ Leave \/ StdoutCloses \/ LoopSteps
           \/ \E c \in Conversations : CreateConversation(c) \/ DeleteConversation(c)
           \/ \E r \in Requests, c \in Conversations : Load(r, c)
    PROVE  Unanswered' /\ AnswerStands
<1>0. /\ turn \in [Requests -> TurnType]
      /\ loop.at \in {"loaded", "reserved"} => loop.req \in Requests
      /\ loop.at = "reserved" => turn[loop.req].at = "reserved"
      /\ loop.at = "loaded" => turn[loop.req].at = "none"
    BY DEF Sound, Typed, RpcTypeOK, InHand
<1>1. CASE Initialize \/ ClearNumbers \/ PurgeNumbers \/ PurgeReservation \/ Leave
           \/ StdoutCloses \/ \E c \in Conversations : CreateConversation(c)
    <2>1. UNCHANGED <<turn, answers>>
        BY <1>1 DEF Initialize, ClearNumbers, PurgeNumbers, PurgeReservation, Leave, StdoutCloses,
                    CreateConversation
    <2>2. loop' = loop \/ loop'.at \notin {"loaded", "reserved"}
        <3>1. CASE ClearNumbers \/ PurgeReservation \/ \E c \in Conversations : CreateConversation(c)
            BY <3>1, ReplyRests DEF ClearNumbers, PurgeReservation, CreateConversation
        <3>2. CASE Initialize \/ PurgeNumbers \/ Leave \/ StdoutCloses
            BY <3>2, Records
               DEF Initialize, PurgeNumbers, Leave, StdoutCloses, Idle, Sound, Typed, RpcTypeOK,
                   LoopType
        <3> QED
            BY <1>1, <3>1, <3>2
    <2> QED
        BY <2>1, <2>2, NobodyAnswered
<1>2. ASSUME NEW c \in Conversations, DeleteConversation(c) PROVE Unanswered' /\ AnswerStands
    <2>1. \A r \in Requests : turn'[r].at = turn[r].at
        BY <1>0, <1>2 DEF DeleteConversation, TurnType
    <2>2. loop'.at \notin {"loaded", "reserved"}
        BY <1>2, Records DEF DeleteConversation, Idle
    <2> QED
        BY <1>2, <2>1, <2>2, NobodyAnswered DEF DeleteConversation
<1>3. ASSUME NEW r \in Requests, NEW c \in Conversations, Load(r, c)
      PROVE  Unanswered' /\ AnswerStands
    <2>1. answers[r] = "none" /\ turn[r].at = "none" /\ UNCHANGED turn
        BY <1>3 DEF Load, Unread
    <2>2. CASE Refuse(r)
        BY <2>1, <2>2, RefusalFirst DEF Settled
    <2>3. CASE ~Refuse(r)
        <3>1. loop'.at = "loaded" /\ loop'.req = r /\ UNCHANGED answers
            BY <1>3, <2>3 DEF Load
        <3> QED
            BY <2>1, <3>1 DEF Unanswered, AnswerStands
    <2> QED
        BY <2>2, <2>3
<1>4. CASE ReserveTurn
    <2> DEFINE q == loop.req
               new == [NoTurn EXCEPT !.at = "reserved", !.conv = loop.conv, !.doc = loop.read]
    <2>1. q \in Requests /\ answers[q] = "none"
        BY <1>0, <1>4 DEF ReserveTurn, Unanswered
    <2>2. turn' = [turn EXCEPT ![q] = new] /\ loop' = [loop EXCEPT !.at = "reserved"]
          /\ UNCHANGED answers
        BY <1>4 DEF ReserveTurn
    <2>3. \A r \in Requests \ {q} : turn'[r] = turn[r]
        BY <1>0, <2>2
    <2>4. loop'.req = q
        BY <2>2 DEF Sound, Typed, RpcTypeOK, LoopType
    <2> QED
        BY <2>1, <2>2, <2>3, <2>4 DEF Unanswered, AnswerStands
<1>5. CASE RefuseBusy
    <2>1. loop.req \in Requests /\ answers[loop.req] = "none" /\ turn[loop.req].at = "none"
        BY <1>0, <1>5 DEF RefuseBusy, Unanswered
    <2> QED
        BY <1>5, <2>1, RefusalFirst DEF RefuseBusy, Settled
<1>6. CASE SpawnTurn
    <2>1. loop.req \in Requests /\ answers[loop.req] = "none"
        BY <1>0, <1>6 DEF SpawnTurn, Unanswered
    <2>2. /\ \A r \in Requests \ {loop.req} : turn'[r] = turn[r]
          /\ UNCHANGED answers /\ loop'.at = "reading"
        BY <1>0, <1>6, Records DEF SpawnTurn
    <2> QED
        BY <2>1, <2>2 DEF Unanswered, AnswerStands
<1>7. CASE RefuseAgent
    <2>1. loop.req \in Requests /\ answers[loop.req] = "none"
        BY <1>0, <1>7 DEF RefuseAgent, Unanswered
    <2>2. /\ \A r \in Requests \ {loop.req} : turn'[r] = turn[r]
          /\ turn'[loop.req].at = "over"
        BY <1>0, <1>7, <2>1, Records DEF RefuseAgent, TurnType, NoTurn
    <2> QED
        BY <1>7, <2>1, <2>2, RefusalFirst DEF RefuseAgent, Settled
<1>8. CASE Exit
    <2>1. \A r \in Requests : turn'[r] = turn[r] \/ turn'[r].at = "killed"
        BY <1>0, <1>8, Records DEF Exit, NoTurn
    <2>2. loop'.at \notin {"loaded", "reserved"}
        BY <1>8, Records DEF Exit, Idle
    <2> QED
        BY <1>8, <2>1, <2>2, NobodyAnswered DEF Exit, Settled
<1> QED
    BY <1>1, <1>2, <1>3, <1>4, <1>5, <1>6, <1>7, <1>8 DEF LoopSteps

\* A chat/send gets one answer, and a request that was answered never runs again: whether
\* it is refused before its turn, its turn ends, fails or panics, or purges and the end of
\* the process come in between (handle_chat_send, run_stdio_server).
THEOREM AnsweredOnce == Spec => [][AnswerStands]_vars
<1>1. Sound /\ Unanswered /\ [Next]_vars => Unanswered' /\ [AnswerStands]_vars
    <2> SUFFICES ASSUME Sound, Unanswered, [Next]_vars PROVE Unanswered' /\ [AnswerStands]_vars
        OBVIOUS
    <2>1. CASE Next
        BY <2>1, LoopAnswersOnce, TurnAnswersOnce DEF Next
    <2>2. CASE UNCHANGED vars
        BY <2>2 DEF vars, Unanswered
    <2> QED
        BY <2>1, <2>2
<1>2. Init => Unanswered
    BY Records DEF Init, Unanswered
<1> QED
    BY <1>1, <1>2, RpcSound, PTL DEF Spec
=============================================================================
