------------------------------ MODULE RpcChat ------------------------------
(***************************************************************************)
(* The conversations of `vanyline serve --stdio' (cli/src/rpc/mod.rs and   *)
(* handlers.rs, over the files of cli/src/store.rs): one loop reads the    *)
(* requests and answers all of them but chat/send, which spawns the turn   *)
(* of its conversation and is answered when the turn ends.                 *)
(*                                                                         *)
(* The loop and the turns run in parallel (tokio's threads), so an action  *)
(* is what is done under one lock, in one call of the file system, or in   *)
(* one message to the writer.  A file is truncated, then written; removing *)
(* it leaves its writers on a file without a name.  What is said in a      *)
(* message is left out: the user message and the answer of request r are   *)
(* <<"user", r>> and <<"assistant", r>>.                                   *)
(***************************************************************************)
EXTENDS Naturals, Sequences

CONSTANTS Conversations,
          Nobody,
          MaxRequests,   \* bounds the chat/send
          MaxPurges,     \* bounds the deletes and the repeated initialize
          MaxEvents,     \* bounds the notifications of a turn
          MaxFaults      \* bounds panics, refused writes, the death of the writer

ASSUME RpcAssumption ==
    /\ Nobody \notin Conversations \cup Nat
    /\ MaxRequests \in Nat /\ MaxPurges \in Nat
    /\ MaxEvents \in Nat \ {0} /\ MaxFaults \in Nat

VARIABLES loop,      \* the loop that reads: what it does, for which request or conversation
          writer,    \* the writer of stdout is at work
          file,      \* the conversations on disk
          busy,      \* conversations reserved by a turn
          seq,       \* next number of a notification of a conversation
          turn,      \* the turns
          answers,   \* how a chat/send was answered
          told,      \* history: the number the client expects next
          orphaned,  \* history: turns whose reservation was taken from them
          spoiled,   \* history: conversations whose contents nothing is said of
          purges, faults

vars == <<loop, writer, file, busy, seq, turn, answers, told, orphaned, spoiled, purges, faults>>

Absent == [is |-> "absent", text |-> <<>>]
Torn == [is |-> "torn", text |-> <<>>]     \* truncated, or no JSON
Whole(doc) == [is |-> "whole", text |-> doc]
Requests == 1..MaxRequests     \* the chat/send, in the order of stdin; each asks for one turn
Roles == {"user", "assistant"}
Message == Roles \X Requests
Idle == [at |-> "reading", req |-> Nobody, conv |-> Nobody, read |-> <<>>]
NoTurn == [at |-> "none", conv |-> Nobody, doc |-> <<>>, fd |-> "none", num |-> 0, sent |-> 0,
           ok |-> FALSE]

Live(r) == turn[r].at \notin {"none", "over", "killed"}
LiveOn(c) == {r \in Requests : Live(r) /\ turn[r].conv = c}
Unread(r) == turn[r].at = "none" /\ answers[r] = "none"
Readable(c) == file[c].is = "whole"

LoopType == [at : {"fresh", "reading", "loaded", "reserved", "removed", "unnumbered",
                   "clearing", "draining", "exited"},
             req : Requests \cup {Nobody}, conv : Conversations \cup {Nobody},
             read : Seq(Message)]
TurnType == [at : {"none", "reserved", "spawned", "opened", "running", "emitting",
                   "ended", "closing", "done", "answered", "over", "killed"},
             conv : Conversations \cup {Nobody}, doc : Seq(Message),
             fd : {"none", "own", "shared", "lost"},
             num : Nat, sent : 0..MaxEvents, ok : BOOLEAN]
FileType == [is : {"absent", "torn", "whole"}, text : Seq(Message)]

RpcTypeOK ==
    /\ loop \in LoopType
    /\ writer \in BOOLEAN
    /\ file \in [Conversations -> FileType]
    /\ busy \subseteq Conversations
    /\ seq \in [Conversations -> Nat] /\ told \in [Conversations -> Nat]
    /\ turn \in [Requests -> TurnType]
    /\ answers \in [Requests -> {"none", "ok", "error", "lost"}]
    /\ orphaned \subseteq Requests /\ spoiled \subseteq Conversations
    /\ purges \in 0..MaxPurges /\ faults \in 0..MaxFaults

Init ==
    /\ loop = [Idle EXCEPT !.at = "fresh"]
    /\ writer = TRUE
    /\ file = [c \in Conversations |-> Absent]
    /\ busy = {}
    /\ seq = [c \in Conversations |-> 0] /\ told = [c \in Conversations |-> 0]
    /\ turn = [r \in Requests |-> NoTurn]
    /\ answers = [r \in Requests |-> "none"]
    /\ orphaned = {} /\ spoiled = {}
    /\ purges = 0 /\ faults = 0

(***************************************************************************)
(* The loop.  An answer that the writer does not take ends it.             *)
(***************************************************************************)
Reply == loop' = IF writer THEN Idle ELSE [Idle EXCEPT !.at = "draining"]

Refuse(r) == answers' = [answers EXCEPT ![r] = "error"] /\ Reply

\* initialize, the first or a repeated one: busy is cleared, then seq.
Initialize ==
    /\ \/ loop.at = "fresh" /\ UNCHANGED purges
       \/ loop.at = "reading" /\ purges < MaxPurges /\ purges' = purges + 1
    /\ loop' = [Idle EXCEPT !.at = "clearing"]
    /\ busy' = {}
    /\ orphaned' = orphaned \cup {r \in Requests : Live(r)}
    /\ spoiled' = spoiled \cup {c \in Conversations : LiveOn(c) # {}}
    /\ UNCHANGED <<writer, file, seq, turn, answers, told, faults>>

ClearNumbers ==
    /\ loop.at = "clearing"
    /\ seq' = [c \in Conversations |-> 0] /\ told' = [c \in Conversations |-> 0]
    /\ Reply
    /\ UNCHANGED <<writer, file, busy, turn, answers, orphaned, spoiled, purges, faults>>

\* conversations/create: a name nobody has had.
CreateConversation(c) ==
    /\ loop.at = "reading" /\ file[c] = Absent /\ \A r \in Requests : turn[r].conv # c
    /\ file' = [file EXCEPT ![c] = Whole(<<>>)]
    /\ Reply
    /\ UNCHANGED <<writer, busy, seq, turn, answers, told, orphaned, spoiled, purges, faults>>

\* conversations/delete removes the file, which its writers keep open, ...
DeleteConversation(c) ==
    /\ loop.at = "reading" /\ purges < MaxPurges
    /\ purges' = purges + 1
    /\ file' = [file EXCEPT ![c] = Absent]
    /\ turn' = [r \in Requests |->
                    IF turn[r].conv = c /\ turn[r].fd # "none" THEN [turn[r] EXCEPT !.fd = "lost"]
                                                               ELSE turn[r]]
    /\ spoiled' = IF LiveOn(c) = {} THEN spoiled ELSE spoiled \cup {c}
    /\ loop' = [Idle EXCEPT !.at = "removed", !.conv = c]
    /\ UNCHANGED <<writer, busy, seq, answers, told, orphaned, faults>>

\* ... forgets the numbers ...
PurgeNumbers ==
    /\ loop.at = "removed"
    /\ seq' = [seq EXCEPT ![loop.conv] = 0] /\ told' = [told EXCEPT ![loop.conv] = 0]
    /\ loop' = [loop EXCEPT !.at = "unnumbered"]
    /\ UNCHANGED <<writer, file, busy, turn, answers, orphaned, spoiled, purges, faults>>

\* ... and the reservation, whoever holds it.
PurgeReservation ==
    /\ loop.at = "unnumbered"
    /\ busy' = busy \ {loop.conv}
    /\ orphaned' = orphaned \cup LiveOn(loop.conv)
    /\ Reply
    /\ UNCHANGED <<writer, file, seq, turn, answers, told, spoiled, purges, faults>>

\* chat/send reads the conversation first, ...
Load(r, c) ==
    /\ loop.at = "reading" /\ Unread(r) /\ \A s \in Requests : s < r => ~Unread(s)
    /\ \/ ~Readable(c) /\ Refuse(r)
       \/ /\ Readable(c)
          /\ loop' = [at |-> "loaded", req |-> r, conv |-> c, read |-> file[c].text]
          /\ UNCHANGED answers
    /\ UNCHANGED <<writer, file, busy, seq, turn, told, orphaned, spoiled, purges, faults>>

\* ... then reserves it: what was read may have been completed meanwhile.
ReserveTurn ==
    LET r == loop.req  c == loop.conv IN
    /\ loop.at = "loaded" /\ c \notin busy
    /\ busy' = busy \cup {c}
    /\ turn' = [turn EXCEPT ![r] = [NoTurn EXCEPT !.at = "reserved", !.conv = c, !.doc = loop.read]]
    /\ spoiled' = IF file[c] = Whole(loop.read) THEN spoiled ELSE spoiled \cup {c}
    /\ loop' = [loop EXCEPT !.at = "reserved"]
    /\ UNCHANGED <<writer, file, seq, answers, told, orphaned, purges, faults>>

\* mutant: the guard that releases the conversation is made before the look.
RefuseBusyReleasing ==
    /\ loop.at = "loaded" /\ loop.conv \in busy
    /\ busy' = busy \ {loop.conv}
    /\ Refuse(loop.req)
    /\ UNCHANGED <<writer, file, seq, turn, told, orphaned, spoiled, purges, faults>>

RefuseBusy ==
    /\ loop.at = "loaded" /\ loop.conv \in busy
    /\ Refuse(loop.req)
    /\ UNCHANGED <<writer, file, busy, seq, turn, told, orphaned, spoiled, purges, faults>>

\* The agent is looked for; there may be none, and the reservation is undone.
SpawnTurn ==
    /\ loop.at = "reserved"
    /\ turn' = [turn EXCEPT ![loop.req].at = "spawned"]
    /\ loop' = Idle
    /\ UNCHANGED <<writer, file, busy, seq, answers, told, orphaned, spoiled, purges, faults>>

\* mutant: no agent, and the reservation stays.
RefuseAgentKeepingBusy ==
    /\ loop.at = "reserved"
    /\ turn' = [turn EXCEPT ![loop.req] = [NoTurn EXCEPT !.at = "over"]]
    /\ Refuse(loop.req)
    /\ UNCHANGED <<writer, file, busy, seq, told, orphaned, spoiled, purges, faults>>

RefuseAgent ==
    /\ loop.at = "reserved"
    /\ busy' = busy \ {loop.conv}
    /\ turn' = [turn EXCEPT ![loop.req] = [NoTurn EXCEPT !.at = "over"]]
    /\ Refuse(loop.req)
    /\ UNCHANGED <<writer, file, seq, told, orphaned, spoiled, purges, faults>>

\* shutdown is answered, stdin may end: either way nothing more is read.
Leave ==
    /\ loop.at \in {"fresh", "reading"}
    /\ loop' = [Idle EXCEPT !.at = "draining"]
    /\ UNCHANGED <<writer, file, busy, seq, turn, answers, told, orphaned, spoiled, purges, faults>>

\* mutant: the process does not wait for the turns (writer.await, the clones of tx).
ExitAtOnce ==
    /\ loop.at = "draining"
    /\ loop' = [Idle EXCEPT !.at = "exited"]
    /\ turn' = [r \in Requests |-> IF Live(r) THEN [NoTurn EXCEPT !.at = "killed"] ELSE turn[r]]
    /\ UNCHANGED <<writer, file, busy, seq, answers, told, orphaned, spoiled, purges, faults>>

\* The writer ends when no turn holds a sender any more, or when stdout is
\* closed; the process then exits and takes the turns left with it.
Exit ==
    /\ loop.at = "draining"
    /\ writer => \A r \in Requests : ~Live(r)
    /\ loop' = [Idle EXCEPT !.at = "exited"]
    /\ turn' = [r \in Requests |-> IF Live(r) THEN [NoTurn EXCEPT !.at = "killed"] ELSE turn[r]]
    /\ UNCHANGED <<writer, file, busy, seq, answers, told, orphaned, spoiled, purges, faults>>

StdoutCloses ==
    /\ writer /\ faults < MaxFaults /\ loop.at # "exited"
    /\ writer' = FALSE /\ faults' = faults + 1
    /\ UNCHANGED <<loop, file, busy, seq, turn, answers, told, orphaned, spoiled, purges>>

(***************************************************************************)
(* A turn.                                                                 *)
(***************************************************************************)
\* save_conversation opens the file, truncating it; a turn without a
\* reservation may find another one writing.
Truncate(r, doc, at) ==
    LET others == {s \in LiveOn(turn[r].conv) \ {r} : turn[s].fd \in {"own", "shared"}} IN
    /\ file' = [file EXCEPT ![turn[r].conv] = Torn]
    /\ turn' = [s \in Requests |->
                    CASE s = r -> [turn[r] EXCEPT !.at = at, !.doc = doc,
                                                  !.fd = IF others = {} THEN "own" ELSE "shared"]
                      [] s \in others -> [turn[s] EXCEPT !.fd = "shared"]
                      [] OTHER -> turn[s]]

\* What two writers at once leave may be neither's, or no JSON at all.
Write(r, at) ==
    LET c == turn[r].conv IN
    /\ file' \in CASE turn[r].fd = "own" -> {[file EXCEPT ![c] = Whole(turn[r].doc)]}
                   [] turn[r].fd = "shared" -> {[file EXCEPT ![c] = Whole(turn[r].doc)],
                                                [file EXCEPT ![c] = Torn]}
                   [] OTHER -> {file}
    /\ turn' = [turn EXCEPT ![r].at = at, ![r].fd = "none"]

TurnOnly == UNCHANGED <<loop, writer, busy, purges>>

\* The user message is saved before the model is asked, ...
SaveQuestion(r) ==
    /\ TurnOnly
    /\ \/ /\ turn[r].at = "spawned"
          /\ Truncate(r, Append(turn[r].doc, <<"user", r>>), "opened")
       \/ /\ turn[r].at = "opened"
          /\ Write(r, "running")
    /\ UNCHANGED <<seq, answers, told, orphaned, spoiled, faults>>

\* mutant: the answer goes after what was read, not after the question.
SaveAnswerForQuestion(r) ==
    /\ TurnOnly
    /\ \/ /\ turn[r].at = "ended" /\ turn[r].ok
          /\ Truncate(r, [turn[r].doc EXCEPT ![Len(turn[r].doc)] = <<"assistant", r>>], "closing")
       \/ /\ turn[r].at = "closing"
          /\ Write(r, "done")
    /\ UNCHANGED <<seq, answers, told, orphaned, spoiled, faults>>

\* ... its answer after a turn that ends well.
SaveAnswer(r) ==
    /\ TurnOnly
    /\ \/ /\ turn[r].at = "ended" /\ turn[r].ok
          /\ Truncate(r, Append(turn[r].doc, <<"assistant", r>>), "closing")
       \/ /\ turn[r].at = "closing"
          /\ Write(r, "done")
    /\ UNCHANGED <<seq, answers, told, orphaned, spoiled, faults>>

\* mutant: a write that fails ends the turn in a state of its own.
SaveRefusedInError(r) ==
    /\ TurnOnly /\ faults < MaxFaults /\ faults' = faults + 1
    /\ turn[r].at \in {"spawned", "ended"}
    /\ turn' = [turn EXCEPT ![r].at = "unsaved"]
    /\ UNCHANGED <<file, seq, answers, told, orphaned, spoiled>>

\* A disk that does not take the file is not heard of.
SaveRefused(r) ==
    /\ TurnOnly /\ faults < MaxFaults /\ faults' = faults + 1
    /\ \/ /\ turn[r].at = "spawned"
          /\ turn' = [turn EXCEPT ![r].at = "running",
                                  ![r].doc = Append(@, <<"user", r>>)]
       \/ /\ turn[r].at = "ended" /\ turn[r].ok
          /\ turn' = [turn EXCEPT ![r].at = "done"]
    /\ spoiled' = spoiled \cup {turn[r].conv}
    /\ UNCHANGED <<file, seq, answers, told, orphaned>>

\* mutant: the number is read, and counted when the notification is sent.
TakeNumberUncounted(r) ==
    /\ TurnOnly
    /\ turn[r].at = "running" /\ turn[r].sent < MaxEvents
    /\ turn' = [turn EXCEPT ![r].at = "emitting", ![r].num = seq[turn[r].conv]]
    /\ UNCHANGED <<seq, file, answers, told, orphaned, spoiled, faults>>

\* A notification takes its number under the lock of seq, and is sent after.
TakeNumber(r) ==
    LET c == turn[r].conv IN
    /\ TurnOnly
    /\ turn[r].at = "running" /\ turn[r].sent < MaxEvents
    /\ turn' = [turn EXCEPT ![r].at = "emitting", ![r].num = seq[c]]
    /\ seq' = [seq EXCEPT ![c] = @ + 1]
    /\ UNCHANGED <<file, answers, told, orphaned, spoiled, faults>>

Notify(r) ==
    /\ TurnOnly
    /\ turn[r].at = "emitting"
    /\ turn' = [turn EXCEPT ![r].at = "running", ![r].sent = @ + 1]
    /\ told' = [told EXCEPT ![turn[r].conv] = turn[r].num + 1]
    /\ UNCHANGED <<file, seq, answers, orphaned, spoiled, faults>>

\* run_agent_turn returns: an answer after a last event, or an error.
RunEnds(r) ==
    /\ TurnOnly
    /\ turn[r].at = "running"
    /\ \E ok \in {o \in BOOLEAN : o => turn[r].sent > 0} :
           turn' = [turn EXCEPT ![r].at = "ended", ![r].ok = ok]
    /\ UNCHANGED <<file, seq, answers, told, orphaned, spoiled, faults>>

\* The answer goes to the writer, while the conversation is still reserved.
Answer(r) ==
    /\ TurnOnly
    /\ \/ turn[r].at = "done"
       \/ turn[r].at = "ended" /\ ~turn[r].ok
    /\ turn' = [turn EXCEPT ![r].at = "answered"]
    /\ answers' = [answers EXCEPT ![r] = IF turn[r].ok THEN "ok" ELSE "error"]
    /\ UNCHANGED <<file, seq, told, orphaned, spoiled, faults>>

Panic(r) ==
    /\ TurnOnly /\ faults < MaxFaults /\ faults' = faults + 1
    /\ turn[r].at = "running"
    /\ turn' = [turn EXCEPT ![r].at = "answered"]
    /\ answers' = [answers EXCEPT ![r] = "lost"]
    /\ UNCHANGED <<file, seq, told, orphaned, spoiled>>

\* BusyGuard is dropped: the conversation is free, whoever reserved it last.
EndTurn(r) ==
    LET c == turn[r].conv IN
    /\ turn[r].at = "answered"
    /\ turn' = [turn EXCEPT ![r] = [NoTurn EXCEPT !.at = "over", !.conv = c]]
    /\ busy' = busy \ {c}
    /\ orphaned' = orphaned \cup (LiveOn(c) \ {r})
    /\ UNCHANGED <<loop, writer, file, seq, answers, told, spoiled, purges, faults>>

LoopSteps ==
    \/ ClearNumbers \/ PurgeNumbers \/ PurgeReservation
    \/ ReserveTurn \/ RefuseBusy \/ SpawnTurn \/ RefuseAgent \/ Exit

TurnSteps(r) ==
    \/ SaveQuestion(r) \/ SaveAnswer(r) \/ Notify(r)
    \/ RunEnds(r) \/ Answer(r) \/ EndTurn(r)

Next ==
    \/ Initialize \/ Leave \/ StdoutCloses \/ LoopSteps
    \/ \E c \in Conversations : CreateConversation(c) \/ DeleteConversation(c)
    \/ \E r \in Requests, c \in Conversations : Load(r, c)
    \/ \E r \in Requests : TurnSteps(r) \/ SaveRefused(r) \/ TakeNumber(r) \/ Panic(r)

Spec == Init /\ [][Next]_vars

\* The loop and the turns run, and a model answers or fails: nothing in the
\* code bounds a turn.
FairSpec == Spec /\ WF_vars(LoopSteps) /\ \A r \in Requests : WF_vars(TurnSteps(r))

(***************************************************************************)
(* Properties.                                                             *)
(***************************************************************************)
\* Two turns of one conversation run at once only after initialize or a
\* delete took the reservation of one of them, or the end of such a turn did
\* (BusyGuard removes the conversation, not its own reservation).
OneTurn ==
    \A r, s \in Requests :
        Live(r) /\ Live(s) /\ turn[r].conv = turn[s].conv /\ r # s => {r, s} \cap orphaned # {}

\* No reservation outlives its turn: a conversation that answers "busy" for
\* ever is what the rollback of handle_chat_send and BusyGuard are there
\* against, whatever purges, panics and removals by others come between.
BusyHasTurn == loop.at # "exited" => \A c \in busy : LiveOn(c) # {}

\* What was answered is on the disk, question and answer next to each other,
\* unless a delete or initialize met a running turn, a write was refused, or
\* the turn was reserved on a copy read before the end of the previous turn.
AnswersKept ==
    \A r \in Requests, c \in Conversations :
        answers[r] = "ok" /\ c \notin spoiled /\ Readable(c) /\ turn[r].conv = c =>
            LET text == file[c].text IN
            \E i \in 1..(Len(text) - 1) : text[i] = <<"user", r>> /\ text[i + 1] = <<"assistant", r>>

\* The notifications of a conversation bear the numbers a client expects, with
\* no gap and no repetition from one turn to the next, as long as no purge
\* met a running turn (RpcEventSink numbers under a lock and sends after it).
NumberedInOrder ==
    \A r \in Requests :
        turn[r].at = "emitting" /\ turn[r].conv \notin spoiled => turn[r].num = told[turn[r].conv]

\* A chat/send whose turn began is answered, also when shutdown or the end of stdin
\* comes first: run_stdio_server waits for the last sender before it ends the process,
\* so no turn is cut short while stdout is open.  A panic counts as an answer, "lost";
\* a closed stdout excuses the rest.
TurnsAnswered == []<>(writer => \A r \in Requests : turn[r].at # "none" => answers[r] # "none")
=============================================================================
