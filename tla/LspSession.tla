----------------------------- MODULE LspSession -----------------------------
(***************************************************************************)
(* One session of a language server (sandbox/src/lsp.rs): a primary        *)
(* server, its auxiliary servers, and the clients that share them, tabs of *)
(* the editor and calls of the tools (lsp_client.rs, ws/lsp.rs).           *)
(*                                                                         *)
(* A request goes to the primary; a "merged" one goes to the auxiliaries   *)
(* too, and a barrier collects the parts of the one answer; a "resolve"    *)
(* goes to the auxiliary that served the item; a "forward" comes from the  *)
(* primary, for an auxiliary.  The tasks (one sender per request, one      *)
(* reader per server, whoever unsubscribes) run in parallel, on worker     *)
(* threads: an action is what is done under the locks held together, or    *)
(* what no other task can tell apart.  The locks of pending and of merges  *)
(* are held together by two pieces of code, in opposite orders: what they  *)
(* do when one waits for the other is an action, or else that both wait    *)
(* for ever (HalfUnsubscribe); "crossed" then bars what needs either lock. *)
(* A server dies when its reader sees the end of its output; what is       *)
(* written to it afterwards is lost.  Only auxiliaries of the role that    *)
(* answers requests are here.                                              *)
(***************************************************************************)
EXTENDS Naturals, FiniteSets

CONSTANTS Clients, Requests, Aux, Primary, Nobody

ASSUME LspAssumption ==
    /\ IsFiniteSet(Aux) /\ Primary \notin Aux
    /\ Nobody \notin Clients

VARIABLES alive,      \* the flag of the primary
          atPrimary,  \* requests the primary has to answer
          aux,        \* the auxiliaries: flag, reader, and their tables
          client,     \* where a client stands with the session
          req,        \* where the task that sends a request is
          pending,    \* session ids that stand for a request of a client
          barrier,    \* the merges under way
          answers,    \* what the asker was answered: how often, and without the primary's part
          crossed     \* a task holds pending and wants merges, the reader of the primary the reverse

vars == <<alive, atPrimary, aux, client, req, pending, barrier, answers, crossed>>

Kinds == {"plain", "merged", "resolve", "forward"}
Unsent == [at |-> "unsent", kind |-> "plain", client |-> Nobody, left |-> {}, on |-> Primary,
           refused |-> FALSE]
NoBarrier == [open |-> FALSE, expected |-> 0, got |-> {}]

TablesOK ==
    /\ alive \in BOOLEAN
    /\ atPrimary \subseteq Requests
    /\ aux \in [Aux -> [alive : BOOLEAN, reader : {"reading", "eof", "drained"},
                        stdin : SUBSET Requests, internal : SUBSET Requests,
                        todo : SUBSET Requests]]
    /\ client \in [Clients -> {"out", "found", "in", "closed", "leaving", "left"}]
    /\ req \in [Requests -> [at : {"unsent", "sending", "fanning", "registering", "checking",
                                   "sent", "failed"},
                             kind : Kinds, client : Clients \cup {Nobody}, left : SUBSET Aux,
                             on : Aux \cup {Primary}, refused : BOOLEAN]]
    /\ pending \subseteq Requests
    /\ barrier \in [Requests -> [open : BOOLEAN, expected : 0..(Cardinality(Aux) + 1),
                                 got : SUBSET (Aux \cup {Primary})]]
    /\ answers \in [Requests -> [count : Nat, headless : BOOLEAN]]

LspTypeOK == TablesOK /\ crossed \in BOOLEAN

Init ==
    /\ alive = TRUE
    /\ atPrimary = {}
    /\ aux = [a \in Aux |-> [alive |-> TRUE, reader |-> "reading", stdin |-> {}, internal |-> {},
                             todo |-> {}]]
    /\ client = [c \in Clients |-> "out"]
    /\ req = [r \in Requests |-> Unsent]
    /\ pending = {}
    /\ barrier = [r \in Requests |-> NoBarrier]
    /\ answers = [r \in Requests |-> [count |-> 0, headless |-> FALSE]]
    /\ crossed = FALSE

AliveAux == {a \in Aux : aux[a].alive}
Busy(r) == req[r].at \in {"sending", "fanning", "registering", "checking"}

\* handle_tsserver_request runs in the reader: nothing else is read meanwhile.
Forwarding == \E r \in Requests : req[r].kind = "forward" /\ Busy(r)

\* send_to_client drops what is for a client that is no longer subscribed; a
\* tsserver/response goes to the primary.
Answered(R, headless) ==
    answers' = [r \in Requests |->
        IF r \in R /\ (req[r].kind = "forward" \/ client[req[r].client] = "in")
        THEN [count |-> answers[r].count + 1, headless |-> answers[r].headless \/ headless]
        ELSE answers[r]]

\* The barrier of r is removed and its answer sent.
Complete(r, got) ==
    /\ barrier' = [barrier EXCEPT ![r] = NoBarrier]
    /\ Answered({r}, Primary \notin got)

\* A part for a barrier that is gone is dropped.
Part(r, child) ==
    LET got == barrier[r].got \cup {child} IN
    IF ~barrier[r].open THEN UNCHANGED <<barrier, answers>>
    ELSE IF Cardinality(got) >= barrier[r].expected THEN Complete(r, got)
    ELSE barrier' = [barrier EXCEPT ![r].got = got] /\ UNCHANGED answers

-----------------------------------------------------------------------------
(* Clients *)

\* get_or_spawn returns a session that is alive at that moment.
Find(c) ==
    /\ client[c] = "out" /\ alive
    /\ client' = [client EXCEPT ![c] = "found"]
    /\ UNCHANGED <<alive, atPrimary, aux, req, pending, barrier, answers, crossed>>

Subscribe(c) ==
    /\ client[c] = "found"
    /\ client' = [client EXCEPT ![c] = "in"]
    /\ UNCHANGED <<alive, atPrimary, aux, req, pending, barrier, answers, crossed>>

Of(c) == {r \in Requests : req[r].client = c}

UnsubscribeKeepingMerges(c) ==  \* mutant: the barriers of the client are left behind
    /\ client[c] \in {"in", "closed"} /\ ~crossed
    /\ \A r \in Of(c) : Busy(r) => req[r].at = "sending"
    /\ client' = [client EXCEPT ![c] = "left"]
    /\ pending' = pending \ Of(c)
    /\ aux' = [a \in Aux |-> [aux[a] EXCEPT !.internal = {r \in @ : req[r].kind = "resolve" => r \notin Of(c)}]]
    /\ req' = [r \in Requests |-> IF r \in Of(c) /\ Busy(r) THEN [req[r] EXCEPT !.at = "failed"] ELSE req[r]]
    /\ UNCHANGED <<alive, atPrimary, barrier, answers, crossed>>

\* A client leaves; a call of a tool may be dropped where it waits for room in the
\* queue of the primary.
Unsubscribe(c) ==
    /\ client[c] \in {"in", "closed"} /\ ~crossed
    /\ \A r \in Of(c) : Busy(r) => req[r].at = "sending"
    /\ client' = [client EXCEPT ![c] = "left"]
    /\ pending' = pending \ Of(c)
    /\ barrier' = [r \in Requests |-> IF r \in Of(c) THEN NoBarrier ELSE barrier[r]]
    /\ aux' = [a \in Aux |-> [aux[a] EXCEPT !.internal = {r \in @ : req[r].kind = "resolve" => r \notin Of(c)}]]
    /\ req' = [r \in Requests |-> IF r \in Of(c) /\ Busy(r) THEN [req[r] EXCEPT !.at = "failed"] ELSE req[r]]
    /\ UNCHANGED <<alive, atPrimary, answers, crossed>>

\* unsubscribe holds pending to its end and takes merges; record_primary_merge_part
\* holds merges and takes pending.  Each has its first lock: neither goes on, nor does
\* a client that leaves later get past pending.  The answer in hand of the reader
\* stays in atPrimary.
HalfUnsubscribe(c) ==
    /\ client[c] \in {"in", "closed"}
    /\ \A r \in Of(c) : Busy(r) => req[r].at = "sending"
    /\ \/ crossed /\ UNCHANGED pending
       \/ /\ ~crossed /\ alive /\ ~Forwarding /\ \E r \in atPrimary : barrier[r].open
          /\ pending' = pending \ Of(c)
    /\ crossed' = TRUE
    /\ client' = [client EXCEPT ![c] = "leaving"]
    /\ req' = [r \in Requests |-> IF r \in Of(c) /\ Busy(r) THEN [req[r] EXCEPT !.at = "failed"] ELSE req[r]]
    /\ UNCHANGED <<alive, atPrimary, aux, barrier, answers>>

-----------------------------------------------------------------------------
(* send *)

\* A client sends one message after the other.
MayAsk(r, c) ==
    /\ req[r] = Unsent /\ client[c] = "in"
    /\ \A s \in Of(c) : ~Busy(s)

\* A request for the primary, with a barrier when the method is merged: it counts
\* the auxiliaries alive now.
Ask(r, c) ==
    /\ MayAsk(r, c) /\ ~crossed
    /\ \E k \in {"plain", "merged"} :
        /\ req' = [req EXCEPT ![r] = [@ EXCEPT !.at = "sending", !.kind = k, !.client = c,
                                               !.left = IF k = "merged" THEN AliveAux ELSE {}]]
        /\ barrier' = IF k = "merged"
                      THEN [barrier EXCEPT ![r] = [open |-> TRUE, got |-> {},
                                                   expected |-> Cardinality(AliveAux) + 1]]
                      ELSE barrier
    /\ pending' = pending \cup {r}
    /\ UNCHANGED <<alive, atPrimary, aux, client, answers, crossed>>

\* route_completion_resolve, for an item an auxiliary has served: the item comes back
\* as it is when that auxiliary is down.
AskResolve(r, c) ==
    /\ MayAsk(r, c)
    /\ \E a \in Aux :
        /\ req' = [req EXCEPT ![r] = [@ EXCEPT !.at = IF aux[a].alive THEN "registering" ELSE "sent",
                                               !.kind = "resolve", !.client = c, !.on = a]]
        /\ answers' = [answers EXCEPT ![r].count = IF aux[a].alive THEN @ ELSE @ + 1]
    /\ UNCHANGED <<alive, atPrimary, aux, client, pending, barrier, crossed>>

\* The queue of the primary has room; nobody reads it once the primary is dead, and
\* it closes at the first write that fails.
SendPrimary(r) ==
    /\ req[r].at = "sending"
    /\ \/ /\ req' = [req EXCEPT ![r].at = IF req[r].kind = "merged" THEN "fanning" ELSE "sent"]
          /\ atPrimary' = IF alive THEN atPrimary \cup {r} ELSE atPrimary
          /\ UNCHANGED barrier
       \/ /\ ~alive /\ (req[r].kind = "merged" => ~crossed)
          /\ req' = [req EXCEPT ![r].at = "failed"]
          /\ barrier' = [barrier EXCEPT ![r] = NoBarrier]
          /\ UNCHANGED atPrimary
    /\ UNCHANGED <<alive, aux, client, pending, answers, crossed>>

AbandonedTwice(r) == [barrier EXCEPT ![r].expected = @ - 1]  \* mutant: a barrier that is gone is counted down too

\* abandon_merge_expectation.
Abandoned(r) == [barrier EXCEPT ![r].expected = IF barrier[r].open THEN @ - 1 ELSE @]

\* The next auxiliary: not counted any more if it is down.
Fan(r) ==
    /\ req[r].at = "fanning"
    /\ \E a \in req[r].left :
        \/ /\ aux[a].alive
           /\ req' = [req EXCEPT ![r] = [@ EXCEPT !.at = "registering", !.on = a,
                                                   !.left = req[r].left \ {a}]]
           /\ UNCHANGED barrier
        \/ /\ ~aux[a].alive /\ ~crossed
           /\ req' = [req EXCEPT ![r].left = @ \ {a}]
           /\ barrier' = Abandoned(r)
    /\ UNCHANGED <<alive, atPrimary, aux, client, pending, answers, crossed>>

\* The request is entered in the table of the auxiliary, then try_send, which a full
\* or closed queue refuses.
Register(r) ==
    LET on == aux[req[r].on] IN
    /\ req[r].at = "registering"
    /\ \E refused \in BOOLEAN :
        /\ req' = [req EXCEPT ![r] = [@ EXCEPT !.at = "checking", !.refused = refused]]
        /\ aux' = [aux EXCEPT ![req[r].on] =
                     [@ EXCEPT !.internal = on.internal \cup {r},
                               !.stdin = IF refused \/ on.reader # "reading"
                                         THEN on.stdin ELSE on.stdin \cup {r}]]
    /\ UNCHANGED <<alive, atPrimary, client, pending, barrier, answers, crossed>>

Checked(r) ==
    req' = [req EXCEPT ![r] = [@ EXCEPT !.at = IF req[r].kind = "merged" THEN "fanning" ELSE "sent",
                                        !.refused = FALSE]]

Withdrawn(r) == aux' = [aux EXCEPT ![req[r].on].internal = @ \ {r}]

\* A refusal, or the flag down by now, withdraws the request from the auxiliary: one
\* part less, or the answer without it.  A forward does not look at the flag again.
Check(r) ==
    LET out == req[r].refused \/ (req[r].kind # "forward" /\ ~aux[req[r].on].alive) IN
    /\ req[r].at = "checking"
    /\ Checked(r)
    /\ \/ ~out /\ UNCHANGED <<aux, barrier, answers>>
       \/ out /\ Withdrawn(r) /\ req[r].kind = "merged" /\ ~crossed
          /\ barrier' = Abandoned(r) /\ UNCHANGED answers
       \/ out /\ Withdrawn(r) /\ req[r].kind # "merged" /\ Answered({r}, FALSE) /\ UNCHANGED barrier
    /\ UNCHANGED <<alive, atPrimary, client, pending, crossed>>

FanEndsEarly(r) ==  \* mutant: the comparison is with the parts of the auxiliaries alone
    /\ req[r].at = "fanning" /\ req[r].left = {} /\ ~crossed
    /\ req' = [req EXCEPT ![r].at = "sent"]
    /\ IF barrier[r].open /\ Cardinality(barrier[r].got) >= barrier[r].expected - 1
       THEN Complete(r, barrier[r].got)
       ELSE UNCHANGED <<barrier, answers>>
    /\ UNCHANGED <<alive, atPrimary, aux, client, pending, crossed>>

\* try_complete_merge, after the last auxiliary.
FanEnds(r) ==
    /\ req[r].at = "fanning" /\ req[r].left = {} /\ ~crossed
    /\ req' = [req EXCEPT ![r].at = "sent"]
    /\ IF barrier[r].open /\ Cardinality(barrier[r].got) >= barrier[r].expected
       THEN Complete(r, barrier[r].got)
       ELSE UNCHANGED <<barrier, answers>>
    /\ UNCHANGED <<alive, atPrimary, aux, client, pending, crossed>>

-----------------------------------------------------------------------------
(* The reader of the primary *)

PrimaryPartUnguarded(r, err) ==  \* mutant: the barrier outlives the primary's error
    \/ /\ barrier[r].open /\ err
       /\ Answered({r}, FALSE)
       /\ UNCHANGED barrier
    \/ /\ barrier[r].open /\ ~err
       /\ Part(r, Primary)

\* record_primary_merge_part: an error of the primary is the answer, at once.
PrimaryPart(r, err) ==
    \/ /\ barrier[r].open /\ err
       /\ barrier' = [barrier EXCEPT ![r] = NoBarrier]
       /\ Answered({r}, FALSE)
    \/ /\ barrier[r].open /\ ~err
       /\ Part(r, Primary)

\* The primary answers: a part of a merge, else the answer of the client the id
\* stands for, else nothing.
PrimaryAnswers(r) ==
    /\ alive /\ ~Forwarding /\ ~crossed
    /\ r \in atPrimary
    /\ atPrimary' = atPrimary \ {r}
    /\ pending' = pending \ {r}
    /\ \/ \E err \in BOOLEAN : PrimaryPart(r, err)
       \/ ~barrier[r].open /\ r \in pending /\ Answered({r}, FALSE) /\ UNCHANGED barrier
       \/ ~barrier[r].open /\ r \notin pending /\ UNCHANGED <<barrier, answers>>
    /\ UNCHANGED <<alive, aux, client, req, crossed>>

\* handle_tsserver_request: null at once when no auxiliary is up.
PrimaryAsks(r) ==
    /\ alive /\ ~Forwarding /\ ~crossed
    /\ req[r] = Unsent
    /\ \/ /\ AliveAux = {}
          /\ req' = [req EXCEPT ![r] = [@ EXCEPT !.at = "sent", !.kind = "forward"]]
          /\ answers' = [answers EXCEPT ![r].count = @ + 1]
       \/ /\ \E a \in AliveAux :
                req' = [req EXCEPT ![r] = [@ EXCEPT !.at = "registering", !.kind = "forward", !.on = a]]
          /\ UNCHANGED answers
    /\ UNCHANGED <<alive, atPrimary, aux, client, pending, barrier, crossed>>

\* The end of its output: every channel to a client closes and the auxiliaries
\* are marked dead.
PrimaryDies ==
    /\ alive /\ ~Forwarding /\ ~crossed
    /\ alive' = FALSE
    /\ atPrimary' = {}
    /\ client' = [c \in Clients |-> IF client[c] = "in" THEN "closed" ELSE client[c]]
    /\ aux' = [a \in Aux |-> [aux[a] EXCEPT !.alive = FALSE]]
    /\ UNCHANGED <<req, pending, barrier, answers, crossed>>

-----------------------------------------------------------------------------
(* The reader of an auxiliary *)

AuxAnswers(a, r) ==
    /\ aux[a].reader = "reading" /\ r \in aux[a].stdin
    /\ aux' = [aux EXCEPT ![a] = [@ EXCEPT !.stdin = aux[a].stdin \ {r},
                                          !.internal = aux[a].internal \ {r}]]
    /\ \/ r \notin aux[a].internal /\ UNCHANGED <<barrier, answers>>
       \/ r \in aux[a].internal /\ req[r].kind = "merged" /\ ~crossed /\ Part(r, a)
       \/ r \in aux[a].internal /\ req[r].kind # "merged" /\ Answered({r}, FALSE) /\ UNCHANGED barrier
    /\ UNCHANGED <<alive, atPrimary, client, req, pending, crossed>>

AuxDies(a) ==
    /\ aux[a].reader = "reading"
    /\ aux' = [aux EXCEPT ![a] = [@ EXCEPT !.alive = FALSE, !.reader = "eof", !.stdin = {}]]
    /\ UNCHANGED <<alive, atPrimary, client, req, pending, barrier, answers, crossed>>

Forwards(a) == {r \in aux[a].internal : req[r].kind = "forward"}

AuxDrainsMergesOnly(a) ==  \* mutant: the resolves of a dead auxiliary are cleared, as its initialize is
    /\ aux[a].reader = "eof"
    /\ aux' = [aux EXCEPT ![a] = [@ EXCEPT !.reader = "drained", !.internal = {},
                                          !.todo = {r \in aux[a].internal : req[r].kind = "merged"}]]
    /\ Answered(Forwards(a), FALSE)
    /\ UNCHANGED <<alive, atPrimary, client, req, pending, barrier, crossed>>

\* The table of a dead auxiliary is emptied under its lock: null for the forwards,
\* the others are kept for later.
AuxDrains(a) ==
    /\ aux[a].reader = "eof"
    /\ aux' = [aux EXCEPT ![a] = [@ EXCEPT !.reader = "drained", !.internal = {},
                                          !.todo = aux[a].todo \cup (aux[a].internal \ Forwards(a))]]
    /\ Answered(Forwards(a), FALSE)
    /\ UNCHANGED <<alive, atPrimary, client, req, pending, barrier, crossed>>

\* Then an empty part for each merge, and for each resolve the item as it is.
AuxWindsUp(a) ==
    LET Merges == {r \in aux[a].todo : req[r].kind = "merged"} IN
    \E r \in IF Merges # {} THEN Merges ELSE aux[a].todo :
        /\ aux' = [aux EXCEPT ![a].todo = @ \ {r}]
        /\ \/ req[r].kind = "merged" /\ ~crossed /\ Part(r, a)
           \/ req[r].kind # "merged" /\ Answered({r}, FALSE) /\ UNCHANGED barrier
        /\ UNCHANGED <<alive, atPrimary, client, req, pending, crossed>>

-----------------------------------------------------------------------------
Sender(r) == SendPrimary(r) \/ Fan(r) \/ Register(r) \/ Check(r) \/ FanEnds(r)
ReaderEnds(a) == AuxDrains(a) \/ AuxWindsUp(a)

Next ==
    \/ \E c \in Clients : Find(c) \/ Subscribe(c) \/ Unsubscribe(c) \/ HalfUnsubscribe(c)
    \/ \E r \in Requests, c \in Clients : Ask(r, c) \/ AskResolve(r, c)
    \/ \E r \in Requests : PrimaryAsks(r) \/ PrimaryAnswers(r) \/ Sender(r)
    \/ \E a \in Aux, r \in Requests : AuxAnswers(a, r)
    \/ \E a \in Aux : AuxDies(a) \/ ReaderEnds(a)
    \/ PrimaryDies

Spec == Init /\ [][Next]_vars

\* The tasks of the runtime run as far as their locks let them, and a server that is
\* up answers; no server has to die and no client has to come or leave.
Fairness ==
    /\ \A r \in Requests : WF_vars(Sender(r)) /\ WF_vars(PrimaryAnswers(r))
    /\ \A a \in Aux, r \in Requests : WF_vars(AuxAnswers(a, r))
    /\ \A a \in Aux : WF_vars(ReaderEnds(a))

FairSpec == Spec /\ Fairness

-----------------------------------------------------------------------------
(* Properties *)

\* The children whose part of r is still to come: the primary that has it, the
\* auxiliary that has it in hand or whose reader is winding it up.
Coming(r) ==
    {p \in {Primary} : r \in atPrimary}
    \cup {a \in Aux : \/ r \in aux[a].todo
                      \/ r \in aux[a].internal /\ aux[a].reader = "eof"
                      \/ r \in aux[a].internal /\ r \in aux[a].stdin}

\* Once send has returned, an open merge lacks a part and every part it counts has
\* come or will: deaths, refusals and removals between the count and the fan-out all
\* go through abandon_merge_expectation or the end of a reader (lsp.rs "jamais
\* d'attente perpetuelle").
BarrierFed ==
    \A r \in Requests : (barrier[r].open /\ req[r].at = "sent" /\ alive) =>
        /\ Cardinality(barrier[r].got) < barrier[r].expected
        /\ barrier[r].expected <= Cardinality(barrier[r].got \cup Coming(r))

\* While no auxiliary has died, a request has at most one answer, and a merged one has
\* the primary's part in it, whatever the order of the answers and of send's own steps;
\* a request for the primary alone always.
OneWholeAnswer ==
    \A r \in Requests : (req[r].kind = "plain" \/ AliveAux = Aux) =>
        answers[r].count <= 1 /\ ~answers[r].headless

\* unsubscribe leaves nothing of the client in any table, and nothing enters them
\* afterwards, neither from a sender it interrupts nor from a reader (lsp.sdd: no
\* residue of a client that left).
NoResidue ==
    \A r \in Requests : (req[r].kind # "forward" /\ req[r] # Unsent
                         /\ client[req[r].client] = "left") =>
        /\ r \notin pending
        /\ ~barrier[r].open
        /\ \A a \in Aux : r \in aux[a].internal => req[r].kind # "resolve"

Waiting(r) ==
    /\ alive /\ req[r] # Unsent /\ req[r].kind # "forward"
    /\ client[req[r].client] = "in" /\ answers[r].count = 0

\* A request does not wait for ever on a session that lives: whatever auxiliary dies
\* and whatever client leaves, at any step of send, the client is answered (lsp.rs
\* "jamais un pend"), unless the locks crossed.
NeverStranded == []<>(crossed \/ \A r \in Requests : ~Waiting(r))

\* The same without the exception: lsp.rs and lsp.sdd say that pending and merges are
\* never taken in opposite orders, so no client waits for ever.  Does not hold: unsubscribe
\* keeps pending while it takes merges.
NobodyHangs == []<>(\A r \in Requests : ~Waiting(r))
=============================================================================
