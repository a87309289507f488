-------------------------- MODULE LspSession_proofs --------------------------
(***************************************************************************)
(* Safety of a session of language servers, for any number of clients,     *)
(* requests and auxiliary servers: merges that can end, whole and single   *)
(* answers, nothing left of a client that is gone, no request forgotten.   *)
(***************************************************************************)
EXTENDS LspSession, FiniteSetTheorems, TLAPS

ReqType == [at : {"unsent", "sending", "fanning", "registering", "checking", "sent", "failed"},
            kind : Kinds, client : Clients \cup {Nobody}, left : SUBSET Aux,
            on : Aux \cup {Primary}, refused : BOOLEAN]
AuxType == [alive : BOOLEAN, reader : {"reading", "eof", "drained"},
            stdin : SUBSET Requests, internal : SUBSET Requests, todo : SUBSET Requests]
BarrierType == [open : BOOLEAN, expected : 0..(Cardinality(Aux) + 1),
                got : SUBSET (Aux \cup {Primary})]
AnswerType == [count : Nat, headless : BOOLEAN]

LEMMA AuxCard == Cardinality(Aux) \in Nat /\ IsFiniteSet(Aux)
BY LspAssumption, FS_CardinalityType

LEMMA NoBarrierTyped == NoBarrier \in BarrierType
BY AuxCard DEF NoBarrier, BarrierType

LEMMA UnsentTyped == Unsent \in ReqType
BY DEF Unsent, ReqType, Kinds

(* The auxiliaries the fan-out of a request has yet to settle. *)
Unserved(r) == req[r].left \cup (IF req[r].at \in {"registering", "checking"} THEN {req[r].on} ELSE {})

(* What the position of a request says of it. *)
ShapeOf(r) ==
    /\ req[r].at = "unsent" => req[r] = Unsent
    /\ req[r].at \in {"registering", "checking"} => req[r].on \in Aux /\ req[r].on \notin req[r].left
    /\ req[r].at = "fanning" => req[r].kind = "merged"
    /\ req[r].at = "sending" => req[r].kind \in {"plain", "merged"}
    /\ req[r].at = "sent" => req[r].left = {}
    /\ req[r].left # {} => req[r].kind = "merged"
    /\ req[r].refused => req[r].at = "checking"
    /\ barrier[r].open => req[r].kind = "merged"
    /\ barrier[r].open => Cardinality(Unserved(r)) < barrier[r].expected

Shape == \A r \in Requests : ShapeOf(r)

Typed == TablesOK /\ Shape

LEMMA TypeFacts ==
    ASSUME TablesOK
    PROVE  /\ req \in [Requests -> ReqType]
           /\ aux \in [Aux -> AuxType]
           /\ barrier \in [Requests -> BarrierType]
           /\ answers \in [Requests -> AnswerType]
           /\ client \in [Clients -> {"out", "found", "in", "closed", "leaving", "left"}]
           /\ alive \in BOOLEAN /\ atPrimary \subseteq Requests /\ pending \subseteq Requests
BY DEF TablesOK, ReqType, AuxType, BarrierType, AnswerType

LEMMA FromFacts ==
    ASSUME req \in [Requests -> ReqType],
           aux \in [Aux -> AuxType],
           barrier \in [Requests -> BarrierType],
           answers \in [Requests -> AnswerType],
           client \in [Clients -> {"out", "found", "in", "closed", "leaving", "left"}],
           alive \in BOOLEAN, atPrimary \subseteq Requests, pending \subseteq Requests
    PROVE  TablesOK
BY DEF TablesOK, ReqType, AuxType, BarrierType, AnswerType

LEMMA UnservedFinite ==
    ASSUME Typed, NEW r \in Requests
    PROVE  /\ Unserved(r) \subseteq Aux
           /\ IsFiniteSet(Unserved(r))
           /\ Cardinality(Unserved(r)) \in Nat
           /\ Cardinality(Unserved(r)) <= Cardinality(Aux)
<1>1. Unserved(r) \subseteq Aux
    BY TypeFacts DEF Typed, Shape, ShapeOf, Unserved, ReqType
<1> QED
    BY <1>1, AuxCard, FS_Subset, FS_CardinalityType

(* An answer counts one more, and says whether the primary's part was in it. *)
LEMMA AnsweredEffect ==
    ASSUME answers \in [Requests -> AnswerType], NEW R, NEW headless \in BOOLEAN,
           Answered(R, headless)
    PROVE  /\ answers' \in [Requests -> AnswerType]
           /\ \A r \in Requests : r \notin R => answers'[r] = answers[r]
           /\ \A r \in Requests :
                 \/ answers'[r] = answers[r]
                 \/ /\ r \in R
                    /\ answers'[r].count = answers[r].count + 1
                    /\ answers'[r].headless <=> (answers[r].headless \/ headless)
<1>1. \A r \in Requests : answers[r].count + 1 \in Nat /\ (answers[r].headless \/ headless) \in BOOLEAN
    BY DEF AnswerType
<1> QED BY <1>1 DEF Answered, AnswerType

LEMMA AnsweredOnce ==
    ASSUME answers \in [Requests -> AnswerType], NEW r \in Requests, Answered({r}, FALSE),
           answers[r].count = 0, ~answers[r].headless
    PROVE  answers'[r].count <= 1 /\ ~answers'[r].headless
<1>1. \/ answers'[r] = answers[r]
      \/ answers'[r] = [count |-> answers[r].count + 1, headless |-> answers[r].headless \/ FALSE]
    BY DEF Answered
<1>2. answers[r] \in AnswerType
    OBVIOUS
<1>3. answers'[r].count \in {0, 1}
    BY <1>1, <1>2 DEF AnswerType
<1>4. ~answers'[r].headless
    <2>1. CASE answers'[r] = answers[r]
        BY <2>1
    <2>2. CASE answers'[r] = [count |-> answers[r].count + 1, headless |-> answers[r].headless \/ FALSE]
        <3>1. answers'[r].headless = (answers[r].headless \/ FALSE)
            BY <2>2
        <3> QED BY <3>1
    <2> QED BY <1>1, <2>1, <2>2
<1> QED BY <1>3, <1>4

LEMMA PartEffect ==
    ASSUME TablesOK, NEW r \in Requests, NEW p \in Aux \cup {Primary}, Part(r, p)
    PROVE  /\ barrier' \in [Requests -> BarrierType]
           /\ answers' \in [Requests -> AnswerType]
           /\ \A s \in Requests \ {r} : barrier'[s] = barrier[s] /\ answers'[s] = answers[s]
           /\ \/ ~barrier[r].open /\ UNCHANGED <<barrier, answers>>
              \/ /\ barrier[r].open
                 /\ Cardinality(barrier[r].got \cup {p}) >= barrier[r].expected
                 /\ barrier'[r] = NoBarrier
                 /\ Answered({r}, Primary \notin barrier[r].got \cup {p})
              \/ /\ barrier[r].open
                 /\ ~(Cardinality(barrier[r].got \cup {p}) >= barrier[r].expected)
                 /\ barrier'[r] = [barrier[r] EXCEPT !.got = @ \cup {p}]
                 /\ UNCHANGED answers
<1>t. barrier \in [Requests -> BarrierType] /\ answers \in [Requests -> AnswerType]
    BY TypeFacts
<1>1. CASE ~barrier[r].open
    BY <1>t, <1>1 DEF Part
<1>2. CASE barrier[r].open /\ Cardinality(barrier[r].got \cup {p}) >= barrier[r].expected
    <2> DEFINE h == Primary \notin barrier[r].got \cup {p}
    <2>1. Answered({r}, h) /\ barrier' = [barrier EXCEPT ![r] = NoBarrier]
        BY <1>2 DEF Part, Complete
    <2>2. h \in BOOLEAN
        OBVIOUS
    <2> HIDE DEF h
    <2>3. /\ answers' \in [Requests -> AnswerType]
          /\ \A s \in Requests \ {r} : answers'[s] = answers[s]
        BY <1>t, <2>1, <2>2, AnsweredEffect
    <2> QED BY <1>t, <1>2, <2>1, <2>3, NoBarrierTyped DEF h
<1>3. CASE barrier[r].open /\ ~(Cardinality(barrier[r].got \cup {p}) >= barrier[r].expected)
    <2>1. barrier' = [barrier EXCEPT ![r].got = barrier[r].got \cup {p}] /\ UNCHANGED answers
        BY <1>3 DEF Part
    <2>2. [barrier[r] EXCEPT !.got = @ \cup {p}] \in BarrierType
        BY <1>t DEF BarrierType
    <2> QED BY <1>t, <1>3, <2>1, <2>2
<1> QED BY <1>1, <1>2, <1>3

(* A barrier that is closed, or that keeps its count, keeps the shape. *)
LEMMA ShapeKept ==
    ASSUME NEW s \in Requests, ShapeOf(s), req'[s] = req[s],
           \/ ~barrier'[s].open
           \/ barrier[s].open /\ barrier'[s].expected = barrier[s].expected
    PROVE  ShapeOf(s)'
<1>1. Unserved(s)' = Unserved(s)
    BY DEF Unserved
<1> QED BY <1>1 DEF ShapeOf

LEMMA InitTyped == Init => Typed
<1> SUFFICES ASSUME Init PROVE Typed
    OBVIOUS
<1>1. TablesOK
    BY UnsentTyped, NoBarrierTyped, FromFacts DEF Init, ReqType, AuxType, BarrierType, AnswerType
<1>2. Shape
    BY DEF Init, Shape, ShapeOf, Unsent, NoBarrier
<1> QED BY <1>1, <1>2 DEF Typed

(* Clients *)
LEMMA ClientsTyped ==
    ASSUME Typed, NEW c \in Clients, Find(c) \/ Subscribe(c) \/ Unsubscribe(c)
    PROVE  Typed'
<1> USE TypeFacts DEF Typed
<1>1. CASE Find(c) \/ Subscribe(c)
    <2>1. UNCHANGED <<alive, atPrimary, aux, req, pending, barrier, answers>>
        BY <1>1 DEF Find, Subscribe
    <2>2. client' \in [Clients -> {"out", "found", "in", "closed", "leaving", "left"}]
        BY <1>1 DEF Find, Subscribe
    <2>3. TablesOK'
        BY <2>1, <2>2 DEF TablesOK
    <2> QED BY <2>1, <2>3 DEF Shape, ShapeOf, Unserved
<1>2. CASE Unsubscribe(c)
    <2>1. req' \in [Requests -> ReqType]
        <3>1. \A s \in Requests : [req[s] EXCEPT !.at = "failed"] \in ReqType
            BY DEF ReqType
        <3> QED BY <1>2, <3>1 DEF Unsubscribe
    <2>2. aux' \in [Aux -> AuxType]
        <3>1. \A a \in Aux : [aux[a] EXCEPT !.internal = {r \in @ : req[r].kind = "resolve" => r \notin Of(c)}]
                             \in AuxType
            BY DEF AuxType
        <3> QED BY <1>2, <3>1 DEF Unsubscribe
    <2>3. barrier' \in [Requests -> BarrierType]
        BY <1>2, NoBarrierTyped DEF Unsubscribe
    <2>4. client' \in [Clients -> {"out", "found", "in", "closed", "leaving", "left"}]
        BY <1>2 DEF Unsubscribe
    <2>5. answers' \in [Requests -> AnswerType] /\ alive' \in BOOLEAN
          /\ atPrimary' \subseteq Requests /\ pending' \subseteq Requests
        BY <1>2 DEF Unsubscribe
    <2>6. TablesOK'
        BY <2>1, <2>2, <2>3, <2>4, <2>5 DEF TablesOK, ReqType, AuxType, BarrierType, AnswerType
    <2>7. ASSUME NEW s \in Requests PROVE ShapeOf(s)'
        <3>1. ShapeOf(s)
            BY DEF Shape
        <3>2. CASE s \in Of(c)
            <4>1. ~barrier'[s].open
                BY <1>2, <3>2 DEF Unsubscribe, NoBarrier
            <4>2. CASE Busy(s)
                <5>1. req[s].at = "sending" /\ req'[s] = [req[s] EXCEPT !.at = "failed"]
                    BY <1>2, <3>2, <4>2 DEF Unsubscribe
                <5> QED BY <3>1, <4>1, <5>1 DEF ShapeOf, ReqType
            <4>3. CASE ~Busy(s)
                BY <1>2, <3>1, <4>1, <4>3, ShapeKept DEF Unsubscribe
            <4> QED BY <4>2, <4>3
        <3>3. CASE s \notin Of(c)
            <4>1. req'[s] = req[s] /\ barrier'[s] = barrier[s]
                BY <1>2, <3>3 DEF Unsubscribe
            <4> QED BY <3>1, <4>1, ShapeKept
        <3> QED BY <3>2, <3>3
    <2> QED BY <2>6, <2>7 DEF Shape
<1> QED BY <1>1, <1>2

(* A client that leaves half-way takes its entries from pending, if anything, and *)
(* drops the message it waits to send.                                            *)
LEMMA HalfEffect ==
    ASSUME Typed, NEW c \in Clients, HalfUnsubscribe(c)
    PROVE  /\ UNCHANGED <<alive, atPrimary, aux, barrier, answers>>
           /\ pending' \subseteq pending /\ \A s \in Requests \ Of(c) : s \in pending => s \in pending'
           /\ client[c] \in {"in", "closed"} /\ client'[c] = "leaving"
           /\ \A d \in Clients \ {c} : client'[d] = client[d]
           /\ client' \in [Clients -> {"out", "found", "in", "closed", "leaving", "left"}]
           /\ req' \in [Requests -> ReqType]
           /\ \A s \in Requests :
                 \/ req'[s] = req[s]
                 \/ /\ s \in Of(c) /\ req[s].at = "sending"
                    /\ req'[s] = [req[s] EXCEPT !.at = "failed"]
<1> USE TypeFacts DEF Typed
<1>1. /\ client \in [Clients -> {"out", "found", "in", "closed", "leaving", "left"}]
      /\ client' = [client EXCEPT ![c] = "leaving"] /\ client[c] \in {"in", "closed"}
    BY DEF HalfUnsubscribe
<1>2. \A s \in Requests : [req[s] EXCEPT !.at = "failed"] \in ReqType
    BY DEF ReqType
<1>3. req' = [s \in Requests |-> IF s \in Of(c) /\ Busy(s) THEN [req[s] EXCEPT !.at = "failed"] ELSE req[s]]
    BY DEF HalfUnsubscribe
<1>4. /\ UNCHANGED <<alive, atPrimary, aux, barrier, answers>>
      /\ pending' = pending \/ pending' = pending \ Of(c)
      /\ \A s \in Of(c) : Busy(s) => req[s].at = "sending"
    BY DEF HalfUnsubscribe
<1> QED BY <1>1, <1>2, <1>3, <1>4

LEMMA HalfTyped ==
    ASSUME Typed, NEW c \in Clients, HalfUnsubscribe(c)
    PROVE  Typed'
<1> USE TypeFacts, HalfEffect DEF Typed
<1>1. TablesOK'
    BY FromFacts DEF TablesOK, ReqType, AuxType, BarrierType, AnswerType
<1>2. ASSUME NEW s \in Requests PROVE ShapeOf(s)'
    <2>1. ShapeOf(s) /\ barrier'[s] = barrier[s]
        BY DEF Shape
    <2>2. CASE req'[s] = req[s]
        BY <2>1, <2>2 DEF ShapeOf, Unserved
    <2>3. CASE req[s].at = "sending" /\ req'[s] = [req[s] EXCEPT !.at = "failed"]
        <3>1. /\ req'[s].at = "failed" /\ req'[s].kind = req[s].kind /\ req'[s].left = req[s].left
              /\ req'[s].refused = req[s].refused
            BY <2>3 DEF ReqType
        <3>2. Unserved(s)' = Unserved(s)
            BY <2>3, <3>1 DEF Unserved
        <3> QED BY <2>1, <2>3, <3>1, <3>2 DEF ShapeOf
    <2> QED BY <2>2, <2>3
<1> QED BY <1>1, <1>2 DEF Shape

(* send *)
LEMMA AskTyped ==
    ASSUME Typed, NEW r \in Requests, NEW c \in Clients, Ask(r, c)
    PROVE  Typed'
<1> USE TypeFacts DEF Typed
<1>1. PICK k \in {"plain", "merged"} :
        /\ req' = [req EXCEPT ![r] = [@ EXCEPT !.at = "sending", !.kind = k, !.client = c,
                                               !.left = IF k = "merged" THEN AliveAux ELSE {}]]
        /\ barrier' = IF k = "merged"
                      THEN [barrier EXCEPT ![r] = [open |-> TRUE, got |-> {},
                                                   expected |-> Cardinality(AliveAux) + 1]]
                      ELSE barrier
    BY DEF Ask
<1>2. AliveAux \subseteq Aux /\ Cardinality(AliveAux) \in Nat /\ Cardinality(AliveAux) <= Cardinality(Aux)
    BY AuxCard, FS_Subset, FS_CardinalityType DEF AliveAux
<1> DEFINE n == Cardinality(AliveAux)
<1> HIDE DEF n
<1>3. [open |-> TRUE, got |-> {}, expected |-> n + 1] \in BarrierType
    BY <1>2, AuxCard DEF BarrierType, n
<1>4. /\ UNCHANGED <<alive, atPrimary, aux, client, answers>>
      /\ pending' = pending \cup {r}
      /\ req[r] = Unsent
    BY DEF Ask, MayAsk
<1>5. /\ req'[r].at = "sending" /\ req'[r].kind = k /\ req'[r].client = c
      /\ req'[r].left = (IF k = "merged" THEN AliveAux ELSE {})
      /\ ~req'[r].refused
    BY <1>1, <1>4 DEF Unsent, ReqType
<1>6. req' \in [Requests -> ReqType]
    <2> DEFINE L == IF k = "merged" THEN AliveAux ELSE {}
    <2>1. L \subseteq Aux
        BY <1>2
    <2> HIDE DEF L
    <2>2. [req[r] EXCEPT !.at = "sending", !.kind = k, !.client = c, !.left = L] \in ReqType
        <3>1. req[r] \in ReqType
            OBVIOUS
        <3>2. "sending" \in {"unsent", "sending", "fanning", "registering", "checking", "sent", "failed"}
              /\ k \in Kinds /\ c \in Clients \cup {Nobody} /\ L \in SUBSET Aux
            BY <2>1 DEF Kinds
        <3> QED BY ONLY <3>1, <3>2 DEF ReqType
    <2> QED BY <1>1, <2>2 DEF L
<1>7. barrier' \in [Requests -> BarrierType]
    BY <1>1, <1>3 DEF n
<1>8. TablesOK'
    BY <1>4, <1>6, <1>7, FromFacts DEF TablesOK, ReqType, AuxType, BarrierType, AnswerType
<1>9. ASSUME NEW s \in Requests PROVE ShapeOf(s)'
    <2>1. ShapeOf(s)
        BY DEF Shape
    <2>2. CASE s # r
        <3>1. req'[s] = req[s] /\ barrier'[s] = barrier[s]
            BY <1>1, <2>2
        <3> QED BY <2>1, <3>1, ShapeKept
    <2>3. CASE s = r
        <3>1. Unserved(r)' = IF k = "merged" THEN AliveAux ELSE {}
            BY <1>5 DEF Unserved
        <3>2. k = "merged" => barrier'[r].expected = n + 1 /\ Cardinality(Unserved(r)') = n
            BY <1>1, <3>1 DEF n
        <3>3. k = "plain" => ~barrier'[r].open
            BY <1>1, <1>4, <2>1, <2>3 DEF ShapeOf, Unsent
        <3> QED BY <1>2, <1>5, <2>3, <3>2, <3>3 DEF ShapeOf, n
    <2> QED BY <2>2, <2>3
<1> QED BY <1>8, <1>9 DEF Shape

LEMMA TypedFrom ==
    ASSUME Typed, NEW r \in Requests,
           req' \in [Requests -> ReqType], aux' \in [Aux -> AuxType],
           barrier' \in [Requests -> BarrierType], answers' \in [Requests -> AnswerType],
           client' = client, alive' \in BOOLEAN,
           atPrimary' \subseteq Requests, pending' \subseteq Requests,
           \A s \in Requests \ {r} : req'[s] = req[s] /\ barrier'[s] = barrier[s],
           ShapeOf(r)'
    PROVE  Typed'
<1>1. TablesOK'
    BY DEF Typed, TablesOK, ReqType, AuxType, BarrierType, AnswerType
<1>2. \A s \in Requests \ {r} : ShapeOf(s)'
    BY ShapeKept DEF Typed, Shape
<1> QED BY <1>1, <1>2 DEF Typed, Shape

LEMMA AskResolveTyped ==
    ASSUME Typed, NEW r \in Requests, NEW c \in Clients, AskResolve(r, c)
    PROVE  Typed'
<1> USE TypeFacts DEF Typed
<1>1. PICK a \in Aux :
        /\ req' = [req EXCEPT ![r] = [@ EXCEPT !.at = IF aux[a].alive THEN "registering" ELSE "sent",
                                               !.kind = "resolve", !.client = c, !.on = a]]
        /\ answers' = [answers EXCEPT ![r].count = IF aux[a].alive THEN @ ELSE @ + 1]
    BY DEF AskResolve
<1>2. /\ UNCHANGED <<alive, atPrimary, aux, client, pending, barrier>>
      /\ req[r] = Unsent
    BY DEF AskResolve, MayAsk
<1>3. answers' \in [Requests -> AnswerType]
    BY <1>1 DEF AnswerType
<1>4. req' \in [Requests -> ReqType]
    <2> DEFINE w == IF aux[a].alive THEN "registering" ELSE "sent"
    <2>1. w \in {"registering", "sent"}
        OBVIOUS
    <2> HIDE DEF w
    <2>2. [req[r] EXCEPT !.at = w, !.kind = "resolve", !.client = c, !.on = a] \in ReqType
        <3>1. req[r] \in ReqType
            OBVIOUS
        <3>2. w \in {"unsent", "sending", "fanning", "registering", "checking", "sent", "failed"}
              /\ "resolve" \in Kinds /\ c \in Clients \cup {Nobody} /\ a \in Aux \cup {Primary}
            BY <2>1 DEF Kinds
        <3> QED BY ONLY <3>1, <3>2 DEF ReqType
    <2> QED BY <1>1, <2>2 DEF w
<1>5. /\ req'[r].at \in {"registering", "sent"} /\ req'[r].kind = "resolve" /\ req'[r].on = a
      /\ req'[r].left = {} /\ ~req'[r].refused
    BY <1>1, <1>2 DEF Unsent, ReqType
<1>6. ~barrier'[r].open
    BY <1>2 DEF Shape, ShapeOf, Unsent
<1>7. ShapeOf(r)'
    BY <1>5, <1>6 DEF ShapeOf
<1> QED BY <1>1, <1>2, <1>3, <1>4, <1>7, TypedFrom

LEMMA SendPrimaryTyped ==
    ASSUME Typed, NEW r \in Requests, SendPrimary(r)
    PROVE  Typed'
<1> USE TypeFacts DEF Typed
<1>1. ShapeOf(r) /\ req[r] \in ReqType /\ barrier[r] \in BarrierType /\ req[r].at = "sending"
    BY DEF Shape, SendPrimary
<1>2. UNCHANGED <<alive, aux, client, pending, answers>> /\ atPrimary' \subseteq Requests
    BY DEF SendPrimary
<1>3. CASE /\ req' = [req EXCEPT ![r].at = IF req[r].kind = "merged" THEN "fanning" ELSE "sent"]
           /\ UNCHANGED barrier
    <2>1. req' \in [Requests -> ReqType]
        <3>1. CASE req[r].kind = "merged"
            <4>1. req' = [req EXCEPT ![r].at = "fanning"]
                BY <1>3, <3>1
            <4> QED BY <4>1 DEF ReqType
        <3>2. CASE req[r].kind # "merged"
            <4>1. req' = [req EXCEPT ![r].at = "sent"]
                BY <1>3, <3>2
            <4> QED BY <4>1 DEF ReqType
        <3> QED BY <3>1, <3>2
    <2>2. /\ req'[r].at = (IF req[r].kind = "merged" THEN "fanning" ELSE "sent")
          /\ req'[r].kind = req[r].kind /\ req'[r].left = req[r].left /\ ~req'[r].refused
        BY <1>1, <1>3 DEF ReqType, ShapeOf
    <2>3. Unserved(r)' = req[r].left /\ Unserved(r) = req[r].left
        BY <1>1, <2>2 DEF Unserved
    <2>4. ShapeOf(r)'
        BY <1>1, <1>3, <2>2, <2>3 DEF ShapeOf
    <2> QED BY <1>2, <1>3, <2>1, <2>4, TypedFrom
<1>4. CASE /\ req' = [req EXCEPT ![r].at = "failed"]
           /\ barrier' = [barrier EXCEPT ![r] = NoBarrier]
    <2>1. req' \in [Requests -> ReqType] /\ barrier' \in [Requests -> BarrierType]
        BY <1>4, NoBarrierTyped DEF ReqType
    <2>2. req'[r] = [req[r] EXCEPT !.at = "failed"] /\ ~barrier'[r].open
        BY <1>4 DEF NoBarrier
    <2>3. ShapeOf(r)'
        BY <1>1, <2>2 DEF ShapeOf, ReqType
    <2> QED BY <1>2, <1>4, <2>1, <2>3, TypedFrom
<1> QED BY <1>3, <1>4 DEF SendPrimary

(* One part less is expected, and one auxiliary less is unserved. *)
LEMMA AbandonedTyped ==
    ASSUME Typed, NEW r \in Requests, barrier' = Abandoned(r),
           NEW x \in Unserved(r), Unserved(r)' = Unserved(r) \ {x}
    PROVE  /\ barrier' \in [Requests -> BarrierType]
           /\ \A s \in Requests \ {r} : barrier'[s] = barrier[s]
           /\ barrier'[r].open = barrier[r].open
           /\ barrier[r].open => Cardinality(Unserved(r)') < barrier'[r].expected
<1> USE TypeFacts DEF Typed
<1>1. ShapeOf(r) /\ barrier[r] \in BarrierType /\ Cardinality(Aux) \in Nat
    BY AuxCard DEF Shape
<1>2. Cardinality(Unserved(r)') = Cardinality(Unserved(r)) - 1 /\ Cardinality(Unserved(r)) \in Nat
      /\ Cardinality(Unserved(r)') \in Nat
    BY UnservedFinite, FS_RemoveElement, FS_CardinalityType
<1>3. barrier[r].open => barrier[r].expected - 1 \in 0..(Cardinality(Aux) + 1)
    BY <1>1, <1>2 DEF ShapeOf, BarrierType
<1>4. barrier' = [barrier EXCEPT ![r].expected = IF barrier[r].open THEN barrier[r].expected - 1
                                                 ELSE barrier[r].expected]
    BY DEF Abandoned
<1>5. barrier' \in [Requests -> BarrierType]
    BY <1>3, <1>4 DEF BarrierType
<1>6. /\ \A s \in Requests \ {r} : barrier'[s] = barrier[s]
      /\ barrier'[r].open = barrier[r].open
      /\ barrier[r].open => barrier'[r].expected = barrier[r].expected - 1
    BY <1>4 DEF BarrierType
<1> QED BY <1>1, <1>2, <1>5, <1>6 DEF ShapeOf, BarrierType

LEMMA FanTyped ==
    ASSUME Typed, NEW r \in Requests, Fan(r)
    PROVE  Typed'
<1> USE TypeFacts DEF Typed
<1>1. ShapeOf(r) /\ req[r] \in ReqType /\ req[r].at = "fanning"
    BY DEF Shape, Fan
<1>2. UNCHANGED <<alive, atPrimary, aux, client, pending, answers>>
    BY DEF Fan
<1>3. PICK a \in req[r].left :
        \/ /\ aux[a].alive
           /\ req' = [req EXCEPT ![r] = [@ EXCEPT !.at = "registering", !.on = a,
                                                   !.left = req[r].left \ {a}]]
           /\ UNCHANGED barrier
        \/ /\ ~aux[a].alive
           /\ req' = [req EXCEPT ![r].left = @ \ {a}]
           /\ barrier' = Abandoned(r)
    BY DEF Fan
<1>4. a \in Aux
    BY <1>1 DEF ReqType
<1>5. CASE /\ req' = [req EXCEPT ![r] = [@ EXCEPT !.at = "registering", !.on = a,
                                                   !.left = req[r].left \ {a}]]
           /\ UNCHANGED barrier
    <2> DEFINE q == [[req[r] EXCEPT !.at = "registering"] EXCEPT !.on = a]
    <2>0. /\ q \in ReqType /\ q.at = "registering" /\ q.on = a /\ q.left = req[r].left
          /\ q.kind = req[r].kind /\ q.refused = req[r].refused
        BY <1>1, <1>4 DEF ReqType
    <2>q. req' = [req EXCEPT ![r] = [q EXCEPT !.left = req[r].left \ {a}]]
        BY <1>5 DEF q
    <2> HIDE DEF q
    <2>1. req' \in [Requests -> ReqType]
        <3>1. [q EXCEPT !.left = req[r].left \ {a}] \in ReqType
            BY <1>1, <2>0 DEF ReqType
        <3> QED BY <2>q, <3>1
    <2>2. /\ req'[r].at = "registering" /\ req'[r].on = a /\ req'[r].left = req[r].left \ {a}
          /\ req'[r].kind = req[r].kind /\ req'[r].refused = req[r].refused
        BY <2>0, <2>q DEF ReqType
    <2>3. Unserved(r)' = Unserved(r)
        BY <1>1, <1>3, <2>2 DEF Unserved
    <2>4. ShapeOf(r)'
        BY <1>1, <1>4, <1>5, <2>2, <2>3 DEF ShapeOf
    <2> QED BY <1>2, <1>5, <2>1, <2>4, TypedFrom
<1>6. CASE /\ req' = [req EXCEPT ![r].left = @ \ {a}]
           /\ barrier' = Abandoned(r)
    <2>1. req' \in [Requests -> ReqType]
        BY <1>6 DEF ReqType
    <2>2. /\ req'[r].at = "fanning" /\ req'[r].on = req[r].on /\ req'[r].left = req[r].left \ {a}
          /\ req'[r].kind = req[r].kind /\ req'[r].refused = req[r].refused
        BY <1>1, <1>6 DEF ReqType
    <2>3. Unserved(r)' = Unserved(r) \ {a} /\ a \in Unserved(r)
        BY <1>1, <1>3, <2>2 DEF Unserved
    <2>4. /\ barrier' \in [Requests -> BarrierType]
          /\ \A s \in Requests \ {r} : barrier'[s] = barrier[s]
          /\ barrier'[r].open = barrier[r].open
          /\ barrier[r].open => Cardinality(Unserved(r)') < barrier'[r].expected
        BY <1>6, <2>3, AbandonedTyped
    <2>5. ShapeOf(r)'
        BY <1>1, <2>2, <2>4 DEF ShapeOf
    <2>6. \A s \in Requests \ {r} : req'[s] = req[s]
        BY <1>6
    <2> QED BY <1>2, <2>1, <2>4, <2>5, <2>6, TypedFrom
<1> QED BY <1>3, <1>5, <1>6

LEMMA RegisterEffect ==
    ASSUME Typed, NEW r \in Requests, NEW a, a = req[r].on, Register(r)
    PROVE  /\ a \in Aux
           /\ UNCHANGED <<alive, atPrimary, client, pending, barrier, answers>>
           /\ req' \in [Requests -> ReqType] /\ aux' \in [Aux -> AuxType]
           /\ \A s \in Requests \ {r} : req'[s] = req[s]
           /\ \A b \in Aux \ {a} : aux'[b] = aux[b]
           /\ req'[r].at = "checking" /\ req'[r].kind = req[r].kind /\ req'[r].left = req[r].left
           /\ req'[r].on = a /\ req'[r].client = req[r].client
           /\ aux'[a].alive = aux[a].alive /\ aux'[a].reader = aux[a].reader /\ aux'[a].todo = aux[a].todo
           /\ aux'[a].internal = aux[a].internal \cup {r}
           /\ aux'[a].stdin = IF req'[r].refused \/ aux[a].reader # "reading"
                              THEN aux[a].stdin ELSE aux[a].stdin \cup {r}
<1> USE TypeFacts DEF Typed
<1>1. req[r] \in ReqType /\ ShapeOf(r) /\ req[r].at = "registering"
    BY DEF Shape, Register
<1>2. a \in Aux /\ aux[a] \in AuxType
    BY <1>1 DEF ShapeOf
<1>3. PICK refused \in BOOLEAN :
        /\ req' = [req EXCEPT ![r] = [@ EXCEPT !.at = "checking", !.refused = refused]]
        /\ aux' = [aux EXCEPT ![a] =
                     [@ EXCEPT !.internal = aux[a].internal \cup {r},
                               !.stdin = IF refused \/ aux[a].reader # "reading"
                                         THEN aux[a].stdin ELSE aux[a].stdin \cup {r}]]
    BY DEF Register
<1> DEFINE S == IF refused \/ aux[a].reader # "reading" THEN aux[a].stdin ELSE aux[a].stdin \cup {r}
<1>4. S \in SUBSET Requests /\ aux[a].internal \cup {r} \in SUBSET Requests
    BY <1>2 DEF AuxType
<1>5. aux' = [aux EXCEPT ![a] = [aux[a] EXCEPT !.internal = aux[a].internal \cup {r}, !.stdin = S]]
    BY <1>3
<1> HIDE DEF S
<1>6. /\ req' \in [Requests -> ReqType]
      /\ \A s \in Requests \ {r} : req'[s] = req[s]
      /\ req'[r].at = "checking" /\ req'[r].kind = req[r].kind /\ req'[r].left = req[r].left
      /\ req'[r].on = a /\ req'[r].client = req[r].client /\ req'[r].refused = refused
    <2>1. [req[r] EXCEPT !.at = "checking", !.refused = refused] \in ReqType
        BY <1>1 DEF ReqType
    <2> QED BY <1>1, <1>3, <2>1 DEF ReqType
<1>7. /\ aux' \in [Aux -> AuxType]
      /\ \A b \in Aux \ {a} : aux'[b] = aux[b]
      /\ aux'[a].alive = aux[a].alive /\ aux'[a].reader = aux[a].reader /\ aux'[a].todo = aux[a].todo
      /\ aux'[a].internal = aux[a].internal \cup {r}
      /\ aux'[a].stdin = S
    <2>1. [aux[a] EXCEPT !.internal = aux[a].internal \cup {r}, !.stdin = S] \in AuxType
        BY <1>2, <1>4 DEF AuxType
    <2> QED BY <1>2, <1>5, <2>1 DEF AuxType
<1> QED BY <1>2, <1>6, <1>7 DEF Register, S

LEMMA RegisterTyped ==
    ASSUME Typed, NEW r \in Requests, Register(r)
    PROVE  Typed'
<1> DEFINE a == req[r].on
<1>1. ShapeOf(r) /\ req[r].at = "registering"
    BY DEF Typed, Shape, Register
<1>2. /\ UNCHANGED <<alive, atPrimary, client, pending, barrier, answers>>
      /\ req' \in [Requests -> ReqType] /\ aux' \in [Aux -> AuxType]
      /\ \A s \in Requests \ {r} : req'[s] = req[s]
      /\ req'[r].at = "checking" /\ req'[r].kind = req[r].kind /\ req'[r].left = req[r].left
      /\ req'[r].on = req[r].on
    BY RegisterEffect
<1>3. Unserved(r)' = Unserved(r)
    BY <1>1, <1>2 DEF Unserved
<1>4. ShapeOf(r)'
    BY <1>1, <1>2, <1>3 DEF ShapeOf
<1> QED BY <1>2, <1>4, TypeFacts, TypedFrom DEF Typed

(* The three ends of a registration. *)
CheckOut(r) == req[r].refused \/ (req[r].kind # "forward" /\ ~aux[req[r].on].alive)

LEMMA CheckEffect ==
    ASSUME Typed, NEW r \in Requests, NEW a, a = req[r].on, Check(r)
    PROVE  /\ a \in Aux
           /\ UNCHANGED <<alive, atPrimary, client, pending>>
           /\ req' \in [Requests -> ReqType] /\ aux' \in [Aux -> AuxType]
           /\ \A s \in Requests \ {r} : req'[s] = req[s]
           /\ req'[r].at = (IF req[r].kind = "merged" THEN "fanning" ELSE "sent")
           /\ req'[r].kind = req[r].kind /\ req'[r].left = req[r].left
           /\ req'[r].on = a /\ req'[r].client = req[r].client /\ ~req'[r].refused
           /\ \/ ~CheckOut(r) /\ UNCHANGED <<aux, barrier, answers>>
              \/ /\ CheckOut(r)
                 /\ \A b \in Aux \ {a} : aux'[b] = aux[b]
                 /\ aux'[a].internal = aux[a].internal \ {r}
                 /\ aux'[a].alive = aux[a].alive /\ aux'[a].reader = aux[a].reader
                 /\ aux'[a].todo = aux[a].todo /\ aux'[a].stdin = aux[a].stdin
                 /\ \/ req[r].kind = "merged" /\ barrier' = Abandoned(r) /\ UNCHANGED answers
                    \/ req[r].kind # "merged" /\ Answered({r}, FALSE) /\ UNCHANGED barrier
<1> USE TypeFacts DEF Typed
<1>1. req[r] \in ReqType /\ ShapeOf(r) /\ req[r].at = "checking"
    BY DEF Shape, Check
<1>2. a \in Aux /\ aux[a] \in AuxType
    BY <1>1 DEF ShapeOf
<1> DEFINE w == IF req[r].kind = "merged" THEN "fanning" ELSE "sent"
<1>3. w \in {"fanning", "sent"} /\ req' = [req EXCEPT ![r] = [@ EXCEPT !.at = w, !.refused = FALSE]]
    BY DEF Check, Checked
<1> HIDE DEF w
<1>4. /\ req' \in [Requests -> ReqType]
      /\ \A s \in Requests \ {r} : req'[s] = req[s]
      /\ req'[r].at = w
      /\ req'[r].kind = req[r].kind /\ req'[r].left = req[r].left
      /\ req'[r].on = a /\ req'[r].client = req[r].client /\ ~req'[r].refused
    <2>1. [req[r] EXCEPT !.at = w, !.refused = FALSE] \in ReqType
        BY <1>1, <1>3 DEF ReqType
    <2> QED BY <1>1, <1>3, <2>1 DEF ReqType
<1>5. UNCHANGED <<alive, atPrimary, client, pending>>
    BY DEF Check
<1>6. CASE ~CheckOut(r)
    <2>1. UNCHANGED <<aux, barrier, answers>>
        BY <1>6 DEF Check, CheckOut
    <2> QED BY <1>2, <1>4, <1>5, <1>6, <2>1 DEF w
<1>7. CASE CheckOut(r)
    <2>1. /\ aux' = [aux EXCEPT ![a].internal = @ \ {r}]
          /\ \/ req[r].kind = "merged" /\ barrier' = Abandoned(r) /\ UNCHANGED answers
             \/ req[r].kind # "merged" /\ Answered({r}, FALSE) /\ UNCHANGED barrier
        BY <1>7 DEF Check, CheckOut, Withdrawn
    <2>2. /\ aux' \in [Aux -> AuxType]
          /\ \A b \in Aux \ {a} : aux'[b] = aux[b]
          /\ aux'[a].internal = aux[a].internal \ {r}
          /\ aux'[a].alive = aux[a].alive /\ aux'[a].reader = aux[a].reader
          /\ aux'[a].todo = aux[a].todo /\ aux'[a].stdin = aux[a].stdin
        BY <1>2, <2>1 DEF AuxType
    <2> QED BY <1>2, <1>4, <1>5, <1>7, <2>1, <2>2 DEF w
<1> QED BY <1>6, <1>7

LEMMA CheckTyped ==
    ASSUME Typed, NEW r \in Requests, Check(r)
    PROVE  Typed'
<1> DEFINE a == req[r].on
<1> USE TypeFacts DEF Typed
<1>1. req[r] \in ReqType /\ ShapeOf(r) /\ req[r].at = "checking"
    BY DEF Shape, Check
<1>2. /\ a \in Aux
      /\ UNCHANGED <<alive, atPrimary, client, pending>>
      /\ req' \in [Requests -> ReqType] /\ aux' \in [Aux -> AuxType]
      /\ \A s \in Requests \ {r} : req'[s] = req[s]
      /\ req'[r].at = (IF req[r].kind = "merged" THEN "fanning" ELSE "sent")
      /\ req'[r].kind = req[r].kind /\ req'[r].left = req[r].left
      /\ ~req'[r].refused
      /\ \/ UNCHANGED <<barrier, answers>>
         \/ req[r].kind = "merged" /\ barrier' = Abandoned(r) /\ UNCHANGED answers
         \/ req[r].kind # "merged" /\ Answered({r}, FALSE) /\ UNCHANGED barrier
    BY CheckEffect
<1> HIDE DEF a
<1>3. Unserved(r)' = Unserved(r) \ {a} /\ a \in Unserved(r)
    BY <1>1, <1>2 DEF Unserved, ShapeOf, a
<1>4. Cardinality(Unserved(r)') = Cardinality(Unserved(r)) - 1 /\ Cardinality(Unserved(r)) \in Nat
    BY <1>3, UnservedFinite, FS_RemoveElement
<1>5. /\ barrier' \in [Requests -> BarrierType]
      /\ \A s \in Requests \ {r} : barrier'[s] = barrier[s]
      /\ barrier'[r].open = barrier[r].open
      /\ barrier[r].open => Cardinality(Unserved(r)') < barrier'[r].expected
    <2>1. CASE UNCHANGED barrier
        BY <1>1, <1>4, <2>1 DEF ShapeOf, BarrierType
    <2>2. CASE barrier' = Abandoned(r)
        BY <1>3, <2>2, AbandonedTyped
    <2> QED BY <1>2, <2>1, <2>2
<1>6. answers' \in [Requests -> AnswerType]
    <2>1. CASE UNCHANGED answers
        BY <2>1
    <2>2. CASE Answered({r}, FALSE)
        BY <2>2, AnsweredEffect
    <2> QED BY <1>2, <2>1, <2>2
<1>7. ShapeOf(r)'
    BY <1>1, <1>2, <1>5 DEF ShapeOf
<1> QED BY <1>2, <1>5, <1>6, <1>7, TypedFrom

LEMMA CompleteEffect ==
    ASSUME Typed, NEW r \in Requests, NEW got, Complete(r, got)
    PROVE  /\ barrier' \in [Requests -> BarrierType]
           /\ answers' \in [Requests -> AnswerType]
           /\ ~barrier'[r].open
           /\ \A s \in Requests \ {r} : barrier'[s] = barrier[s]
<1> DEFINE h == Primary \notin got
<1>1. Answered({r}, h) /\ h \in BOOLEAN
    BY DEF Complete
<1> HIDE DEF h
<1>2. answers' \in [Requests -> AnswerType]
    BY <1>1, AnsweredEffect, TypeFacts DEF Typed
<1> QED BY <1>2, TypeFacts, NoBarrierTyped DEF Complete, Typed, NoBarrier

LEMMA FanEndsTyped ==
    ASSUME Typed, NEW r \in Requests, FanEnds(r)
    PROVE  Typed'
<1> USE TypeFacts DEF Typed
<1>1. req[r] \in ReqType /\ ShapeOf(r) /\ req[r].at = "fanning" /\ req[r].left = {}
    BY DEF Shape, FanEnds
<1>2. /\ req' = [req EXCEPT ![r].at = "sent"]
      /\ UNCHANGED <<alive, atPrimary, aux, client, pending>>
    BY DEF FanEnds
<1>3. /\ req' \in [Requests -> ReqType]
      /\ req'[r].at = "sent" /\ req'[r].kind = req[r].kind /\ req'[r].left = {}
      /\ req'[r].refused = req[r].refused
    BY <1>1, <1>2 DEF ReqType
<1>4. /\ barrier' \in [Requests -> BarrierType]
      /\ answers' \in [Requests -> AnswerType]
      /\ \A s \in Requests \ {r} : barrier'[s] = barrier[s]
      /\ ~barrier'[r].open \/ barrier'[r] = barrier[r]
    <2>1. CASE Complete(r, barrier[r].got)
        BY <2>1, CompleteEffect
    <2>2. CASE UNCHANGED <<barrier, answers>>
        BY <2>2
    <2> QED BY <2>1, <2>2 DEF FanEnds
<1>5. Unserved(r)' = Unserved(r)
    BY <1>1, <1>3 DEF Unserved
<1>6. ShapeOf(r)'
    BY <1>1, <1>3, <1>4, <1>5 DEF ShapeOf
<1> QED BY <1>2, <1>3, <1>4, <1>6, TypedFrom

(* The reader of the primary *)

(* What an action that leaves the requests alone keeps. *)
LEMMA ReaderTyped ==
    ASSUME Typed, NEW r \in Requests, req' = req,
           aux' \in [Aux -> AuxType], client' \in [Clients -> {"out", "found", "in", "closed", "leaving", "left"}],
           barrier' \in [Requests -> BarrierType], answers' \in [Requests -> AnswerType],
           alive' \in BOOLEAN, atPrimary' \subseteq Requests, pending' \subseteq Requests,
           \A s \in Requests \ {r} : barrier'[s] = barrier[s],
           \/ ~barrier'[r].open
           \/ barrier[r].open /\ barrier'[r].expected = barrier[r].expected
    PROVE  Typed'
<1>1. TablesOK'
    BY TypeFacts DEF Typed, TablesOK, ReqType, AuxType, BarrierType, AnswerType
<1>2. \A s \in Requests : ShapeOf(s)'
    BY ShapeKept DEF Typed, Shape
<1> QED BY <1>1, <1>2 DEF Typed, Shape

LEMMA PrimaryPartEffect ==
    ASSUME Typed, NEW r \in Requests, NEW err \in BOOLEAN, PrimaryPart(r, err)
    PROVE  /\ barrier' \in [Requests -> BarrierType]
           /\ answers' \in [Requests -> AnswerType]
           /\ \A s \in Requests \ {r} : barrier'[s] = barrier[s] /\ answers'[s] = answers[s]
           /\ barrier[r].open
           /\ \/ barrier'[r] = NoBarrier /\ Answered({r}, FALSE)
              \/ /\ barrier'[r] = NoBarrier /\ Answered({r}, Primary \notin barrier[r].got \cup {Primary})
                 /\ Cardinality(barrier[r].got \cup {Primary}) >= barrier[r].expected
              \/ /\ barrier'[r] = [barrier[r] EXCEPT !.got = @ \cup {Primary}]
                 /\ ~(Cardinality(barrier[r].got \cup {Primary}) >= barrier[r].expected)
                 /\ UNCHANGED answers
<1> USE TypeFacts DEF Typed
<1>1. CASE err
    <2>1. barrier[r].open /\ barrier' = [barrier EXCEPT ![r] = NoBarrier] /\ Answered({r}, FALSE)
        BY <1>1 DEF PrimaryPart
    <2>2. answers' \in [Requests -> AnswerType] /\ \A s \in Requests \ {r} : answers'[s] = answers[s]
        BY <2>1, AnsweredEffect
    <2> QED BY <2>1, <2>2, NoBarrierTyped
<1>2. CASE ~err
    <2>1. barrier[r].open /\ Part(r, Primary)
        BY <1>2 DEF PrimaryPart
    <2> QED BY <2>1, PartEffect
<1> QED BY <1>1, <1>2

LEMMA PrimaryAnswersTyped ==
    ASSUME Typed, NEW r \in Requests, PrimaryAnswers(r)
    PROVE  Typed'
<1> USE TypeFacts DEF Typed
<1>1. /\ UNCHANGED <<alive, aux, client, req>>
      /\ atPrimary' \subseteq Requests /\ pending' \subseteq Requests
    BY DEF PrimaryAnswers
<1>2. /\ barrier' \in [Requests -> BarrierType]
      /\ answers' \in [Requests -> AnswerType]
      /\ \A s \in Requests \ {r} : barrier'[s] = barrier[s]
      /\ \/ ~barrier'[r].open
         \/ barrier[r].open /\ barrier'[r].expected = barrier[r].expected
    <2>1. ASSUME NEW err \in BOOLEAN, PrimaryPart(r, err)
          PROVE  /\ barrier' \in [Requests -> BarrierType]
                 /\ answers' \in [Requests -> AnswerType]
                 /\ \A s \in Requests \ {r} : barrier'[s] = barrier[s]
                 /\ \/ ~barrier'[r].open
                    \/ barrier[r].open /\ barrier'[r].expected = barrier[r].expected
        <3>1. /\ barrier' \in [Requests -> BarrierType]
              /\ answers' \in [Requests -> AnswerType]
              /\ \A s \in Requests \ {r} : barrier'[s] = barrier[s]
              /\ barrier[r].open
              /\ \/ barrier'[r] = NoBarrier
                 \/ barrier'[r] = [barrier[r] EXCEPT !.got = @ \cup {Primary}]
            BY <2>1, PrimaryPartEffect
        <3>2. \/ ~barrier'[r].open
              \/ barrier'[r].expected = barrier[r].expected
            BY <3>1 DEF NoBarrier, BarrierType
        <3> QED BY <3>1, <3>2
    <2>2. CASE ~barrier[r].open /\ UNCHANGED barrier /\ Answered({r}, FALSE)
        BY <2>2, AnsweredEffect
    <2>3. CASE UNCHANGED <<barrier, answers>> /\ ~barrier[r].open
        BY <2>3
    <2> QED BY <2>1, <2>2, <2>3 DEF PrimaryAnswers
<1> QED BY <1>1, <1>2, ReaderTyped

LEMMA PrimaryAsksTyped ==
    ASSUME Typed, NEW r \in Requests, PrimaryAsks(r)
    PROVE  Typed'
<1> USE TypeFacts DEF Typed
<1>1. /\ UNCHANGED <<alive, atPrimary, aux, client, pending, barrier>>
      /\ req[r] = Unsent /\ ShapeOf(r) /\ req[r] \in ReqType
    BY DEF PrimaryAsks, Shape
<1>2. ~barrier'[r].open
    BY <1>1 DEF ShapeOf, Unsent
<1>3. CASE /\ req' = [req EXCEPT ![r] = [@ EXCEPT !.at = "sent", !.kind = "forward"]]
           /\ answers' = [answers EXCEPT ![r].count = @ + 1]
    <2>1. [req[r] EXCEPT !.at = "sent", !.kind = "forward"] \in ReqType
        BY <1>1 DEF ReqType, Kinds
    <2>2. req' \in [Requests -> ReqType] /\ answers' \in [Requests -> AnswerType]
        BY <1>3, <2>1 DEF AnswerType
    <2>3. req'[r].at = "sent" /\ req'[r].kind = "forward" /\ req'[r].left = {} /\ ~req'[r].refused
        BY <1>1, <1>3 DEF ReqType, Unsent
    <2>4. ShapeOf(r)'
        BY <1>2, <2>3 DEF ShapeOf
    <2> QED BY <1>1, <1>3, <2>2, <2>4, TypedFrom
<1>4. ASSUME NEW a \in AliveAux, UNCHANGED answers,
             req' = [req EXCEPT ![r] = [@ EXCEPT !.at = "registering", !.kind = "forward", !.on = a]]
      PROVE  Typed'
    <2>0. a \in Aux
        BY DEF AliveAux
    <2>1. [req[r] EXCEPT !.at = "registering", !.kind = "forward", !.on = a] \in ReqType
        BY <1>1, <2>0 DEF ReqType, Kinds
    <2>2. req' \in [Requests -> ReqType]
        BY <1>4, <2>1
    <2>3. /\ req'[r].at = "registering" /\ req'[r].kind = "forward" /\ req'[r].left = {}
          /\ req'[r].on = a /\ ~req'[r].refused
        BY <1>1, <1>4 DEF ReqType, Unsent
    <2>4. ShapeOf(r)'
        BY <1>2, <2>0, <2>3 DEF ShapeOf
    <2> QED BY <1>1, <1>4, <2>2, <2>4, TypedFrom
<1> QED BY <1>3, <1>4 DEF PrimaryAsks

LEMMA PrimaryDiesTyped == Typed /\ PrimaryDies => Typed'
<1> SUFFICES ASSUME Typed, PrimaryDies PROVE Typed'
    OBVIOUS
<1> USE TypeFacts DEF Typed
<1>1. aux' \in [Aux -> AuxType]
    <2>1. ASSUME NEW a \in Aux PROVE [aux[a] EXCEPT !.alive = FALSE] \in AuxType
        <3>1. aux[a] \in AuxType
            OBVIOUS
        <3> QED BY ONLY <3>1 DEF AuxType
    <2> QED BY <2>1 DEF PrimaryDies
<1>2. TablesOK'
    BY <1>1 DEF PrimaryDies, TablesOK, ReqType, AuxType, BarrierType, AnswerType
<1> QED BY <1>2 DEF PrimaryDies, Shape, ShapeOf, Unserved

(* The reader of an auxiliary *)

LEMMA AuxAnswersEffect ==
    ASSUME Typed, NEW a \in Aux, NEW r \in Requests, AuxAnswers(a, r)
    PROVE  /\ UNCHANGED <<alive, atPrimary, client, req, pending>>
           /\ aux' \in [Aux -> AuxType]
           /\ \A b \in Aux \ {a} : aux'[b] = aux[b]
           /\ aux[a].reader = "reading" /\ r \in aux[a].stdin
           /\ aux'[a].stdin = aux[a].stdin \ {r} /\ aux'[a].internal = aux[a].internal \ {r}
           /\ aux'[a].alive = aux[a].alive /\ aux'[a].reader = aux[a].reader /\ aux'[a].todo = aux[a].todo
           /\ barrier' \in [Requests -> BarrierType] /\ answers' \in [Requests -> AnswerType]
           /\ \A s \in Requests \ {r} : barrier'[s] = barrier[s] /\ answers'[s] = answers[s]
           /\ \/ r \notin aux[a].internal /\ UNCHANGED <<barrier, answers>>
              \/ r \in aux[a].internal /\ req[r].kind = "merged" /\ Part(r, a)
              \/ r \in aux[a].internal /\ req[r].kind # "merged" /\ Answered({r}, FALSE) /\ UNCHANGED barrier
<1> USE TypeFacts DEF Typed
<1>1. /\ UNCHANGED <<alive, atPrimary, client, req, pending>>
      /\ aux[a].reader = "reading" /\ r \in aux[a].stdin
      /\ aux' = [aux EXCEPT ![a] = [aux[a] EXCEPT !.stdin = aux[a].stdin \ {r},
                                                  !.internal = aux[a].internal \ {r}]]
    BY DEF AuxAnswers
<1>2. /\ aux' \in [Aux -> AuxType]
      /\ \A b \in Aux \ {a} : aux'[b] = aux[b]
      /\ aux'[a].stdin = aux[a].stdin \ {r} /\ aux'[a].internal = aux[a].internal \ {r}
      /\ aux'[a].alive = aux[a].alive /\ aux'[a].reader = aux[a].reader /\ aux'[a].todo = aux[a].todo
    <2>1. [aux[a] EXCEPT !.stdin = aux[a].stdin \ {r}, !.internal = aux[a].internal \ {r}] \in AuxType
        BY DEF AuxType
    <2> QED BY <1>1, <2>1 DEF AuxType
<1>3. \/ r \notin aux[a].internal /\ UNCHANGED <<barrier, answers>>
      \/ r \in aux[a].internal /\ req[r].kind = "merged" /\ Part(r, a)
      \/ r \in aux[a].internal /\ req[r].kind # "merged" /\ Answered({r}, FALSE) /\ UNCHANGED barrier
    BY DEF AuxAnswers
<1>4. /\ barrier' \in [Requests -> BarrierType] /\ answers' \in [Requests -> AnswerType]
      /\ \A s \in Requests \ {r} : barrier'[s] = barrier[s] /\ answers'[s] = answers[s]
    <2>1. CASE UNCHANGED <<barrier, answers>>
        BY <2>1
    <2>2. CASE Part(r, a)
        BY <2>2, PartEffect
    <2>3. CASE Answered({r}, FALSE) /\ UNCHANGED barrier
        <3>1. answers' \in [Requests -> AnswerType] /\ \A s \in Requests \ {r} : answers'[s] = answers[s]
            BY <2>3, AnsweredEffect
        <3> QED BY <2>3, <3>1
    <2> QED BY <1>3, <2>1, <2>2, <2>3
<1> QED BY <1>1, <1>2, <1>3, <1>4

(* A part leaves the barrier's count alone or closes it. *)
LEMMA PartCount ==
    ASSUME Typed, NEW r \in Requests, NEW p \in Aux \cup {Primary}, Part(r, p)
    PROVE  \/ ~barrier'[r].open
           \/ barrier[r].open /\ barrier'[r].expected = barrier[r].expected
<1>1. \/ ~barrier[r].open /\ UNCHANGED barrier
      \/ barrier[r].open /\ barrier'[r] = NoBarrier
      \/ barrier[r].open /\ barrier'[r] = [barrier[r] EXCEPT !.got = @ \cup {p}]
    BY PartEffect DEF Typed
<1>2. barrier[r] \in BarrierType
    BY TypeFacts DEF Typed
<1> QED BY <1>1, <1>2 DEF NoBarrier, BarrierType

LEMMA AuxAnswersTyped ==
    ASSUME Typed, NEW a \in Aux, NEW r \in Requests, AuxAnswers(a, r)
    PROVE  Typed'
<1>1. \/ ~barrier'[r].open
      \/ barrier[r].open /\ barrier'[r].expected = barrier[r].expected
    <2>1. CASE UNCHANGED barrier
        BY <2>1
    <2>2. CASE Part(r, a)
        BY <2>2, PartCount
    <2> QED BY <2>1, <2>2 DEF AuxAnswers
<1>2. /\ UNCHANGED <<alive, atPrimary, client, req, pending>>
      /\ aux' \in [Aux -> AuxType]
      /\ barrier' \in [Requests -> BarrierType] /\ answers' \in [Requests -> AnswerType]
      /\ \A s \in Requests \ {r} : barrier'[s] = barrier[s]
    BY AuxAnswersEffect
<1> QED BY <1>1, <1>2, TypeFacts, ReaderTyped DEF Typed

LEMMA AuxDiesTyped ==
    ASSUME Typed, NEW a \in Aux, AuxDies(a)
    PROVE  Typed'
<1> USE TypeFacts DEF Typed
<1>1. aux' \in [Aux -> AuxType]
    <2>1. [aux[a] EXCEPT !.alive = FALSE, !.reader = "eof", !.stdin = {}] \in AuxType
        BY DEF AuxType
    <2> QED BY <2>1 DEF AuxDies
<1>2. UNCHANGED <<alive, atPrimary, client, req, pending, barrier, answers>>
    BY DEF AuxDies
<1>3. TablesOK'
    BY <1>1, <1>2 DEF TablesOK, ReqType, AuxType, BarrierType, AnswerType
<1> QED BY <1>2, <1>3 DEF Shape, ShapeOf, Unserved

LEMMA AuxDrainsEffect ==
    ASSUME Typed, NEW a \in Aux, AuxDrains(a)
    PROVE  /\ UNCHANGED <<alive, atPrimary, client, req, pending, barrier>>
           /\ aux' \in [Aux -> AuxType]
           /\ \A b \in Aux \ {a} : aux'[b] = aux[b]
           /\ aux[a].reader = "eof"
           /\ aux'[a].reader = "drained" /\ aux'[a].internal = {}
           /\ aux'[a].todo = aux[a].todo \cup (aux[a].internal \ Forwards(a))
           /\ aux'[a].alive = aux[a].alive /\ aux'[a].stdin = aux[a].stdin
           /\ answers' \in [Requests -> AnswerType]
           /\ Answered(Forwards(a), FALSE)
<1> USE TypeFacts DEF Typed
<1> DEFINE T == aux[a].todo \cup (aux[a].internal \ Forwards(a))
<1>1. T \in SUBSET Requests
    BY DEF AuxType
<1>2. aux' = [aux EXCEPT ![a] = [aux[a] EXCEPT !.reader = "drained", !.internal = {}, !.todo = T]]
    BY DEF AuxDrains
<1> HIDE DEF T
<1>3. /\ aux' \in [Aux -> AuxType]
      /\ \A b \in Aux \ {a} : aux'[b] = aux[b]
      /\ aux'[a].reader = "drained" /\ aux'[a].internal = {} /\ aux'[a].todo = T
      /\ aux'[a].alive = aux[a].alive /\ aux'[a].stdin = aux[a].stdin
    <2>1. [aux[a] EXCEPT !.reader = "drained", !.internal = {}, !.todo = T] \in AuxType
        BY <1>1 DEF AuxType
    <2> QED BY <1>2, <2>1 DEF AuxType
<1>4. /\ UNCHANGED <<alive, atPrimary, client, req, pending, barrier>>
      /\ aux[a].reader = "eof" /\ Answered(Forwards(a), FALSE)
    BY DEF AuxDrains
<1>5. answers' \in [Requests -> AnswerType]
    BY <1>4, AnsweredEffect
<1> QED BY <1>3, <1>4, <1>5 DEF T

LEMMA AuxDrainsTyped ==
    ASSUME Typed, NEW a \in Aux, AuxDrains(a)
    PROVE  Typed'
<1>1. /\ UNCHANGED <<alive, atPrimary, client, req, pending, barrier>>
      /\ aux' \in [Aux -> AuxType] /\ answers' \in [Requests -> AnswerType]
    BY AuxDrainsEffect
<1>2. TablesOK'
    BY <1>1, TypeFacts DEF Typed, TablesOK, ReqType, AuxType, BarrierType, AnswerType
<1> QED BY <1>1, <1>2 DEF Typed, Shape, ShapeOf, Unserved

LEMMA AuxWindsUpEffect ==
    ASSUME Typed, NEW a \in Aux, AuxWindsUp(a)
    PROVE  \E r \in aux[a].todo :
              /\ r \in Requests
              /\ UNCHANGED <<alive, atPrimary, client, req, pending>>
              /\ aux' \in [Aux -> AuxType]
              /\ \A b \in Aux \ {a} : aux'[b] = aux[b]
              /\ aux'[a].todo = aux[a].todo \ {r}
              /\ aux'[a].alive = aux[a].alive /\ aux'[a].reader = aux[a].reader
              /\ aux'[a].internal = aux[a].internal /\ aux'[a].stdin = aux[a].stdin
              /\ \/ req[r].kind = "merged" /\ Part(r, a)
                 \/ req[r].kind # "merged" /\ Answered({r}, FALSE) /\ UNCHANGED barrier
<1> USE TypeFacts DEF Typed
<1>1. PICK r \in aux[a].todo :
        /\ aux' = [aux EXCEPT ![a].todo = @ \ {r}]
        /\ \/ req[r].kind = "merged" /\ Part(r, a)
           \/ req[r].kind # "merged" /\ Answered({r}, FALSE) /\ UNCHANGED barrier
        /\ UNCHANGED <<alive, atPrimary, client, req, pending>>
    BY DEF AuxWindsUp
<1>2. r \in Requests
    BY DEF AuxType
<1>3. /\ aux' \in [Aux -> AuxType]
      /\ \A b \in Aux \ {a} : aux'[b] = aux[b]
      /\ aux'[a].todo = aux[a].todo \ {r}
      /\ aux'[a].alive = aux[a].alive /\ aux'[a].reader = aux[a].reader
      /\ aux'[a].internal = aux[a].internal /\ aux'[a].stdin = aux[a].stdin
    BY <1>1 DEF AuxType
<1> QED BY <1>1, <1>2, <1>3

LEMMA AuxWindsUpTyped ==
    ASSUME Typed, NEW a \in Aux, AuxWindsUp(a)
    PROVE  Typed'
<1> USE TypeFacts DEF Typed
<1>1. PICK r \in aux[a].todo :
              /\ r \in Requests
              /\ UNCHANGED <<alive, atPrimary, client, req, pending>>
              /\ aux' \in [Aux -> AuxType]
              /\ \/ req[r].kind = "merged" /\ Part(r, a)
                 \/ req[r].kind # "merged" /\ Answered({r}, FALSE) /\ UNCHANGED barrier
    BY AuxWindsUpEffect
<1>2. CASE Part(r, a)
    <2>1. /\ barrier' \in [Requests -> BarrierType] /\ answers' \in [Requests -> AnswerType]
          /\ \A s \in Requests \ {r} : barrier'[s] = barrier[s]
        BY <1>1, <1>2, PartEffect
    <2> QED BY <1>1, <1>2, <2>1, PartCount, ReaderTyped
<1>3. CASE Answered({r}, FALSE) /\ UNCHANGED barrier
    <2>1. answers' \in [Requests -> AnswerType]
        BY <1>3, AnsweredEffect
    <2>2. Typed'
        <3>1. TablesOK'
            BY <1>1, <1>3, <2>1 DEF TablesOK, ReqType, AuxType, BarrierType, AnswerType
        <3> QED BY <1>1, <1>3, <3>1 DEF Shape, ShapeOf, Unserved
    <2> QED BY <2>2
<1> QED BY <1>1, <1>2, <1>3

LEMMA NextTyped == Typed /\ [Next]_vars => Typed'
<1> SUFFICES ASSUME Typed, [Next]_vars PROVE Typed'
    OBVIOUS
<1>1. CASE UNCHANGED vars
    BY <1>1 DEF vars, Typed, TablesOK, Shape, ShapeOf, Unserved
<1>2. CASE \E c \in Clients : Find(c) \/ Subscribe(c) \/ Unsubscribe(c) \/ HalfUnsubscribe(c)
    BY <1>2, ClientsTyped, HalfTyped
<1>3. CASE \E r \in Requests, c \in Clients : Ask(r, c) \/ AskResolve(r, c)
    BY <1>3, AskTyped, AskResolveTyped
<1>4. CASE \E r \in Requests : PrimaryAsks(r) \/ PrimaryAnswers(r) \/ Sender(r)
    BY <1>4, PrimaryAsksTyped, PrimaryAnswersTyped, SendPrimaryTyped, FanTyped, RegisterTyped,
       CheckTyped, FanEndsTyped DEF Sender
<1>5. CASE \E a \in Aux, r \in Requests : AuxAnswers(a, r)
    BY <1>5, AuxAnswersTyped
<1>6. CASE \E a \in Aux : AuxDies(a) \/ ReaderEnds(a)
    BY <1>6, AuxDiesTyped, AuxDrainsTyped, AuxWindsUpTyped DEF ReaderEnds
<1>7. CASE PrimaryDies
    BY <1>7, PrimaryDiesTyped
<1> QED BY <1>1, <1>2, <1>3, <1>4, <1>5, <1>6, <1>7 DEF Next

(* Every part of the session's state keeps its type; above all a barrier is     *)
(* never counted down below the parts it can still have, whatever auxiliaries   *)
(* die between the count and the fan-out.                                       *)
THEOREM LspTypeCorrect == Spec => []LspTypeOK
<1> DEFINE HandsTyped == crossed \in BOOLEAN
<1>1. Init => HandsTyped
    BY DEF Init
<1>2. HandsTyped /\ [Next]_vars => HandsTyped'
    BY DEF Next, vars, Sender, ReaderEnds, Find, Subscribe, Unsubscribe, HalfUnsubscribe, Ask, AskResolve,
       SendPrimary, Fan, Register, Check, FanEnds, PrimaryAsks, PrimaryAnswers, PrimaryDies, AuxAnswers,
       AuxDies, AuxDrains, AuxWindsUp
<1>3. Typed /\ HandsTyped => LspTypeOK
    BY DEF Typed, LspTypeOK
<1> HIDE DEF HandsTyped
<1> QED BY InitTyped, NextTyped, <1>1, <1>2, <1>3, PTL DEF Spec

-----------------------------------------------------------------------------
(* NoResidue.  The request of a client that left is over: no task of send has *)
(* it in hand, so that nothing can enter a table for it afterwards.           *)
GoneOf(r) ==
    (req[r].kind # "forward" /\ req[r].at # "unsent") =>
        /\ req[r].client \in Clients
        /\ client[req[r].client] \in {"in", "closed", "leaving", "left"}
        /\ client[req[r].client] = "left" =>
              /\ r \notin pending
              /\ ~barrier[r].open
              /\ ~Busy(r)
              /\ \A a \in Aux : r \in aux[a].internal => req[r].kind # "resolve"

Gone == \A r \in Requests : GoneOf(r)

LEMMA GoneKept ==
    ASSUME NEW s \in Requests, GoneOf(s), req'[s] = req[s], client' = client,
           s \in pending' => s \in pending,
           barrier'[s].open => barrier[s].open,
           \A a \in Aux : s \in aux'[a].internal => s \in aux[a].internal
    PROVE  GoneOf(s)'
BY DEF GoneOf, Busy

LEMMA GoneBusy ==
    ASSUME NEW s \in Requests, GoneOf(s), Busy(s), client' = client,
           req'[s].kind = req[s].kind, req'[s].client = req[s].client
    PROVE  GoneOf(s)'
BY DEF GoneOf, Busy

LEMMA ClientsGone ==
    ASSUME Typed, Gone, NEW c \in Clients, Find(c) \/ Subscribe(c) \/ Unsubscribe(c),
           NEW s \in Requests
    PROVE  GoneOf(s)'
<1> USE TypeFacts DEF Typed
<1>1. GoneOf(s) /\ ShapeOf(s) /\ req[s] \in ReqType
    BY DEF Gone, Shape
<1>2. CASE Find(c) \/ Subscribe(c)
    <2>1. /\ UNCHANGED <<req, pending, barrier, aux>>
          /\ client[c] \in {"out", "found"}
          /\ \A d \in Clients \ {c} : client'[d] = client[d]
        BY <1>2 DEF Find, Subscribe
    <2> QED BY <1>1, <2>1 DEF GoneOf, Busy
<1>3. CASE Unsubscribe(c)
    <2>1. /\ client[c] \in {"in", "closed"} /\ client'[c] = "left"
          /\ \A d \in Clients \ {c} : client'[d] = client[d]
          /\ pending' = pending \ Of(c)
        BY <1>3 DEF Unsubscribe
    <2>2. \A a \in Aux : aux'[a].internal = {r \in aux[a].internal : req[r].kind = "resolve" => r \notin Of(c)}
        BY <1>3 DEF Unsubscribe, AuxType
    <2>3. CASE s \in Of(c)
        <3>1. ~barrier'[s].open /\ s \notin pending'
            BY <1>3, <2>1, <2>3 DEF Unsubscribe, NoBarrier
        <3>2. req'[s].kind = req[s].kind /\ req'[s].client = c /\ req[s].client = c /\ ~Busy(s)'
            <4>1. CASE Busy(s)
                <5>1. req'[s] = [req[s] EXCEPT !.at = "failed"]
                    BY <1>3, <2>3, <4>1 DEF Unsubscribe
                <5> QED BY <1>1, <2>3, <5>1 DEF ReqType, Of, Busy
            <4>2. CASE ~Busy(s)
                <5>1. req'[s] = req[s]
                    BY <1>3, <4>2 DEF Unsubscribe
                <5> QED BY <2>3, <4>2, <5>1 DEF Of, Busy
            <4> QED BY <4>1, <4>2
        <3>3. \A a \in Aux : s \in aux'[a].internal => req'[s].kind # "resolve"
            BY <2>2, <2>3, <3>2
        <3> QED BY <2>1, <3>1, <3>2, <3>3 DEF GoneOf
    <2>4. CASE s \notin Of(c)
        <3>1. req'[s] = req[s] /\ barrier'[s] = barrier[s] /\ req[s].client # c
            BY <1>3, <2>4 DEF Unsubscribe, Of
        <3>2. \A a \in Aux : s \in aux'[a].internal => s \in aux[a].internal
            BY <2>2
        <3> QED BY <1>1, <2>1, <3>1, <3>2 DEF GoneOf, Busy
    <2> QED BY <2>3, <2>4
<1> QED BY <1>2, <1>3

LEMMA HalfGone ==
    ASSUME Typed, Gone, NEW c \in Clients, HalfUnsubscribe(c), NEW s \in Requests
    PROVE  GoneOf(s)'
<1>1. GoneOf(s) /\ req[s] \in ReqType
    BY TypeFacts DEF Typed, Gone
<1>2. \/ req'[s] = req[s]
      \/ s \in Of(c) /\ req[s].at = "sending" /\ req'[s] = [req[s] EXCEPT !.at = "failed"]
    BY HalfEffect
<1>3. /\ req'[s].kind = req[s].kind /\ req'[s].client = req[s].client
      /\ req'[s].at = "unsent" <=> req[s].at = "unsent"
      /\ Busy(s)' => Busy(s)
    BY <1>1, <1>2 DEF ReqType, Busy
<1>4. \A d \in Clients : (client'[d] = "leaving" /\ client[d] # "left") \/ client'[d] = client[d]
    BY HalfEffect
<1> QED BY <1>1, <1>3, <1>4, HalfEffect DEF GoneOf

LEMMA AskGone ==
    ASSUME Typed, Gone, NEW r \in Requests, NEW c \in Clients, Ask(r, c) \/ AskResolve(r, c),
           NEW s \in Requests
    PROVE  GoneOf(s)'
<1> USE TypeFacts DEF Typed
<1>1. GoneOf(s) /\ client[c] = "in" /\ UNCHANGED <<aux, client>>
    BY DEF Gone, Ask, AskResolve, MayAsk
<1>2. CASE s # r
    BY <1>1, <1>2, GoneKept DEF Ask, AskResolve
<1>3. CASE s = r
    <2>1. req'[r].client = c
        <3>1. CASE Ask(r, c)
            <4>1. PICK k, L : req' = [req EXCEPT ![r] = [@ EXCEPT !.at = "sending", !.kind = k, !.client = c,
                                                                  !.left = L]]
                BY <3>1 DEF Ask
            <4> QED BY <4>1 DEF ReqType
        <3>2. CASE AskResolve(r, c)
            <4>1. PICK w, a : req' = [req EXCEPT ![r] = [@ EXCEPT !.at = w, !.kind = "resolve", !.client = c,
                                                                  !.on = a]]
                BY <3>2 DEF AskResolve
            <4> QED BY <4>1 DEF ReqType
        <3> QED BY <3>1, <3>2
    <2> QED BY <1>1, <1>3, <2>1 DEF GoneOf
<1> QED BY <1>2, <1>3

LEMMA SenderGone ==
    ASSUME Typed, Gone, NEW r \in Requests, Sender(r), NEW s \in Requests
    PROVE  GoneOf(s)'
<1> USE TypeFacts DEF Typed
<1>1. GoneOf(s) /\ Busy(r) /\ req[r] \in ReqType
    BY DEF Gone, Sender, SendPrimary, Fan, Register, Check, FanEnds, Busy
<1>2. /\ UNCHANGED <<client, pending>>
      /\ req'[r].kind = req[r].kind /\ req'[r].client = req[r].client
    <2>1. CASE SendPrimary(r)
        BY <1>1, <2>1 DEF SendPrimary, ReqType
    <2>2. CASE Fan(r)
        <3>1. PICK a, w, L :
                 \/ req' = [req EXCEPT ![r] = [@ EXCEPT !.at = w, !.on = a, !.left = L]]
                 \/ req' = [req EXCEPT ![r].left = @ \ {a}]
            BY <2>2 DEF Fan
        <3>2. UNCHANGED <<client, pending>>
            BY <2>2 DEF Fan
        <3>3. CASE req' = [req EXCEPT ![r] = [@ EXCEPT !.at = w, !.on = a, !.left = L]]
            BY <1>1, <3>2, <3>3 DEF ReqType
        <3>4. CASE req' = [req EXCEPT ![r].left = @ \ {a}]
            BY <1>1, <3>2, <3>4 DEF ReqType
        <3> QED BY <3>1, <3>3, <3>4
    <2>3. CASE Register(r)
        <3> DEFINE a == req[r].on
        <3> QED BY <2>3, RegisterEffect
    <2>4. CASE Check(r)
        BY <2>4, CheckEffect
    <2>5. CASE FanEnds(r)
        BY <1>1, <2>5 DEF FanEnds, ReqType
    <2> QED BY <2>1, <2>2, <2>3, <2>4, <2>5 DEF Sender
<1>3. CASE s = r
    BY <1>1, <1>2, <1>3, GoneBusy
<1>4. CASE s # r
    <2>1. req'[s] = req[s]
        BY <1>4 DEF Sender, SendPrimary, Fan, Register, Check, Checked, FanEnds
    <2>2. barrier'[s] = barrier[s]
        <3>1. CASE SendPrimary(r)
            BY <1>4, <3>1 DEF SendPrimary
        <3>2. CASE Fan(r)
            BY <1>4, <3>2 DEF Fan, Abandoned
        <3>3. CASE Register(r)
            BY <3>3 DEF Register
        <3>4. CASE Check(r)
            BY <1>4, <3>4 DEF Check, Abandoned
        <3>5. CASE FanEnds(r)
            BY <1>4, <3>5 DEF FanEnds, Complete
        <3> QED BY <3>1, <3>2, <3>3, <3>4, <3>5 DEF Sender
    <2>3. ASSUME NEW b \in Aux, s \in aux'[b].internal PROVE s \in aux[b].internal
        <3>1. CASE UNCHANGED aux
            BY <2>3, <3>1
        <3>2. CASE Register(r)
            <4>1. /\ \A d \in Aux \ {req[r].on} : aux'[d] = aux[d]
                  /\ aux'[req[r].on].internal = aux[req[r].on].internal \cup {r}
                BY <3>2, RegisterEffect
            <4> QED BY <1>4, <2>3, <4>1
        <3>3. CASE Check(r)
            <4>1. \/ UNCHANGED aux
                  \/ /\ \A d \in Aux \ {req[r].on} : aux'[d] = aux[d]
                     /\ aux'[req[r].on].internal = aux[req[r].on].internal \ {r}
                BY <3>3, CheckEffect
            <4> QED BY <2>3, <4>1
        <3> QED BY <3>1, <3>2, <3>3 DEF Sender, SendPrimary, Fan, FanEnds
    <2> QED BY <1>1, <1>2, <2>1, <2>2, <2>3, GoneKept
<1> QED BY <1>3, <1>4

(* A reader opens no barrier and enters nothing in a table. *)
LEMMA ReadersGone ==
    ASSUME Typed, Gone, NEW a \in Aux,
           \/ \E r \in Requests : AuxAnswers(a, r)
           \/ AuxDies(a) \/ ReaderEnds(a),
           NEW s \in Requests
    PROVE  GoneOf(s)'
<1> USE TypeFacts DEF Typed
<1>1. GoneOf(s)
    BY DEF Gone
<1>3. ASSUME NEW r \in Requests, AuxAnswers(a, r) PROVE GoneOf(s)'
    <2>1. /\ UNCHANGED <<client, req, pending>>
          /\ \A b \in Aux \ {a} : aux'[b] = aux[b]
          /\ aux'[a].internal = aux[a].internal \ {r}
        BY <1>3, AuxAnswersEffect
    <2>2. barrier'[s].open => barrier[s].open
        <3>1. CASE Part(r, a)
            BY <3>1, PartEffect
        <3> QED BY <1>3, <3>1 DEF AuxAnswers
    <2> QED BY <1>1, <2>1, <2>2, GoneKept
<1>4. CASE AuxDies(a)
    <2>1. \A b \in Aux : aux'[b].internal = aux[b].internal
        BY <1>4 DEF AuxDies, AuxType
    <2> QED BY <1>1, <1>4, <2>1, GoneKept DEF AuxDies
<1>5. CASE AuxDrains(a)
    <2>1. /\ UNCHANGED <<client, req, pending, barrier>>
          /\ \A b \in Aux \ {a} : aux'[b] = aux[b]
          /\ aux'[a].internal = {}
        BY <1>5, AuxDrainsEffect
    <2> QED BY <1>1, <2>1, GoneKept
<1>6. CASE AuxWindsUp(a)
    <2>1. PICK t \in aux[a].todo :
              /\ t \in Requests
              /\ UNCHANGED <<client, req, pending>>
              /\ \A b \in Aux \ {a} : aux'[b] = aux[b]
              /\ aux'[a].internal = aux[a].internal
              /\ \/ Part(t, a)
                 \/ UNCHANGED barrier
        BY <1>6, AuxWindsUpEffect
    <2>2. barrier'[s].open => barrier[s].open
        <3>1. CASE Part(t, a)
            BY <2>1, <3>1, PartEffect
        <3> QED BY <2>1, <3>1
    <2> QED BY <1>1, <2>1, <2>2, GoneKept
<1> QED BY <1>3, <1>4, <1>5, <1>6 DEF ReaderEnds

LEMMA PrimaryGone ==
    ASSUME Typed, Gone, NEW r \in Requests, PrimaryAsks(r) \/ PrimaryAnswers(r), NEW s \in Requests
    PROVE  GoneOf(s)'
<1> USE TypeFacts DEF Typed
<1>1. GoneOf(s) /\ req[s] \in ReqType
    BY DEF Gone
<1>2. CASE PrimaryAsks(r)
    <2>1. UNCHANGED <<aux, client, pending, barrier>>
        BY <1>2 DEF PrimaryAsks
    <2>2. CASE s = r
        <3>1. PICK w, a :
                 \/ req' = [req EXCEPT ![r] = [@ EXCEPT !.at = w, !.kind = "forward"]]
                 \/ req' = [req EXCEPT ![r] = [@ EXCEPT !.at = w, !.kind = "forward", !.on = a]]
            BY <1>2 DEF PrimaryAsks
        <3>2. req'[r].kind = "forward"
            BY <3>1 DEF ReqType
        <3> QED BY <2>2, <3>2 DEF GoneOf
    <2>3. CASE s # r
        <3>1. req'[s] = req[s]
            BY <1>2, <2>3 DEF PrimaryAsks
        <3> QED BY <1>1, <2>1, <3>1, GoneKept
    <2> QED BY <2>2, <2>3
<1>3. CASE PrimaryAnswers(r)
    <2>1. UNCHANGED <<aux, client, req>> /\ pending' \subseteq pending
        BY <1>3 DEF PrimaryAnswers
    <2>2. barrier'[s].open => barrier[s].open
        <3>1. ASSUME NEW err \in BOOLEAN, PrimaryPart(r, err) PROVE barrier'[s].open => barrier[s].open
            BY <3>1, PrimaryPartEffect
        <3> QED BY <1>3, <3>1 DEF PrimaryAnswers
    <2> QED BY <1>1, <2>1, <2>2, GoneKept
<1> QED BY <1>2, <1>3

LEMMA PrimaryDiesGone ==
    ASSUME Typed, Gone, PrimaryDies, NEW s \in Requests
    PROVE  GoneOf(s)'
<1>1. GoneOf(s) /\ req[s] \in ReqType
    BY TypeFacts DEF Gone, Typed
<1>2. /\ UNCHANGED <<req, pending, barrier>>
          /\ \A c \in Clients : client'[c] = IF client[c] = "in" THEN "closed" ELSE client[c]
        BY TypeFacts DEF Typed, PrimaryDies
<1>3. \A b \in Aux : aux'[b].internal = aux[b].internal
        BY TypeFacts DEF Typed, PrimaryDies, AuxType
<1> QED BY <1>1, <1>2, <1>3 DEF GoneOf, Busy

LEMMA NextGone == Typed /\ Gone /\ [Next]_vars => Gone'
<1> SUFFICES ASSUME Typed, Gone, [Next]_vars, NEW s \in Requests PROVE GoneOf(s)'
    BY DEF Gone
<1>1. CASE UNCHANGED vars
    BY <1>1 DEF vars, Gone, GoneOf, Busy
<1>2. CASE \E c \in Clients : Find(c) \/ Subscribe(c) \/ Unsubscribe(c) \/ HalfUnsubscribe(c)
    BY <1>2, ClientsGone, HalfGone
<1>3. CASE \E r \in Requests, c \in Clients : Ask(r, c) \/ AskResolve(r, c)
    BY <1>3, AskGone
<1>4. CASE \E r \in Requests : PrimaryAsks(r) \/ PrimaryAnswers(r) \/ Sender(r)
    BY <1>4, PrimaryGone, SenderGone
<1>5. CASE \E a \in Aux, r \in Requests : AuxAnswers(a, r)
    BY <1>5, ReadersGone
<1>6. CASE \E a \in Aux : AuxDies(a) \/ ReaderEnds(a)
    BY <1>6, ReadersGone
<1>7. CASE PrimaryDies
    BY <1>7, PrimaryDiesGone
<1> QED BY <1>1, <1>2, <1>3, <1>4, <1>5, <1>6, <1>7 DEF Next

(* A client that left has nothing in any table of the session, and nothing enters *)
(* them for it afterwards: neither a sender it interrupted nor a reader.          *)
THEOREM NothingLeftBehind == Spec => []NoResidue
<1>1. Init => Gone
    BY DEF Init, Gone, GoneOf, Unsent
<1>2. Typed /\ Gone => NoResidue
    BY DEF Typed, Shape, ShapeOf, Gone, GoneOf, NoResidue
<1> QED BY InitTyped, NextTyped, NextGone, <1>1, <1>2, PTL DEF Spec

-----------------------------------------------------------------------------
(* BarrierFed.  What a barrier has of a request or can still get: the parts   *)
(* that came, those on their way, the auxiliaries the fan-out has yet to      *)
(* settle, and the primary it has not been sent to.                           *)
Held(r) == barrier[r].got \cup Coming(r)
Owed(r) == Held(r) \cup Unserved(r) \cup (IF req[r].at = "sending" THEN {Primary} ELSE {})

\* A sender that saw its auxiliary up after registering has left a part with it.
Lodged(r) ==
    (req[r].at = "checking" /\ ~req[r].refused /\ aux[req[r].on].alive) => req[r].on \in Held(r)

FedOf(r) ==
    (alive /\ barrier[r].open /\ req[r].at # "failed") =>
        /\ barrier[r].expected <= Cardinality(Owed(r))
        /\ req[r].at = "sent" => Cardinality(barrier[r].got) < barrier[r].expected
        /\ Lodged(r)

ReadersDown == \A a \in Aux : aux[a].alive => aux[a].reader = "reading" /\ aux[a].todo = {}

Fed == \A r \in Requests : FedOf(r)

LEMMA OwedFinite ==
    ASSUME Typed, NEW r \in Requests
    PROVE  /\ Owed(r) \subseteq Aux \cup {Primary} /\ Held(r) \subseteq Owed(r)
           /\ IsFiniteSet(Owed(r)) /\ Cardinality(Owed(r)) \in Nat
           /\ Cardinality(barrier[r].got) \in Nat /\ barrier[r].expected \in Nat
<1>1. barrier[r] \in BarrierType /\ Unserved(r) \subseteq Aux
    BY TypeFacts, UnservedFinite DEF Typed
<1>2. Owed(r) \subseteq Aux \cup {Primary} /\ barrier[r].got \subseteq Aux \cup {Primary}
    BY <1>1 DEF Owed, Held, Coming, BarrierType
<1>3. IsFiniteSet(Aux \cup {Primary})
    BY AuxCard, FS_AddElement
<1>4. IsFiniteSet(Owed(r)) /\ IsFiniteSet(barrier[r].got)
    BY <1>2, <1>3, FS_Subset
<1>5. barrier[r].expected \in Nat
    BY <1>1, AuxCard DEF BarrierType
<1> QED BY <1>2, <1>4, <1>5, FS_CardinalityType DEF Owed

(* A finite lot of parts. *)
LEMMA Parts ==
    ASSUME NEW S, S \subseteq Aux \cup {Primary}
    PROVE  IsFiniteSet(S) /\ Cardinality(S) \in Nat
BY AuxCard, FS_AddElement, FS_Subset, FS_CardinalityType

LEMMA OwedGrows ==
    ASSUME Typed', NEW r \in Requests
    PROVE  /\ Cardinality(Owed(r)') \in Nat
           /\ barrier'[r].expected \in Nat /\ Cardinality(barrier'[r].got) \in Nat
           /\ \A S : S \subseteq Owed(r)' => Cardinality(S) <= Cardinality(Owed(r)')
<1>1. /\ barrier'[r] \in BarrierType /\ req'[r] \in ReqType
      /\ ShapeOf(r)'
    BY DEF Typed, TablesOK, Shape, BarrierType, ReqType
<1>2. Owed(r)' \subseteq Aux \cup {Primary}
    BY <1>1 DEF Owed, Held, Coming, Unserved, BarrierType, ReqType
<1>3. IsFiniteSet(Owed(r)') /\ Cardinality(Owed(r)') \in Nat
    BY <1>2, Parts
<1>4. \A S : S \subseteq Owed(r)' => Cardinality(S) <= Cardinality(Owed(r)')
    BY <1>3, FS_Subset
<1>5. barrier'[r].expected \in Nat /\ Cardinality(barrier'[r].got) \in Nat
    BY <1>1, AuxCard, Parts DEF BarrierType
<1> QED BY <1>3, <1>4, <1>5

(* A step of the others: nothing that r has or is owed is lost. *)
LEMMA FedKept ==
    ASSUME Typed, Typed', NEW r \in Requests, FedOf(r), alive' => alive, req'[r] = req[r],
           \A a \in Aux : aux'[a].alive => aux[a].alive,
           barrier'[r].open =>
               /\ barrier[r].open /\ barrier'[r].expected = barrier[r].expected
               /\ Held(r) \subseteq Held(r)'
               /\ barrier'[r].got = barrier[r].got \/ Cardinality(barrier'[r].got) < barrier'[r].expected
    PROVE  FedOf(r)'
<1> SUFFICES ASSUME alive', barrier'[r].open, req'[r].at # "failed"
             PROVE  /\ barrier'[r].expected <= Cardinality(Owed(r)')
                    /\ req'[r].at = "sent" => Cardinality(barrier'[r].got) < barrier'[r].expected
                    /\ Lodged(r)'
    BY DEF FedOf
<1>1. /\ barrier[r].expected <= Cardinality(Owed(r))
      /\ req[r].at = "sent" => Cardinality(barrier[r].got) < barrier[r].expected
      /\ Lodged(r)
    BY DEF FedOf
<1>2. Owed(r) \subseteq Owed(r)'
    BY DEF Owed, Unserved
<1>3. Cardinality(Owed(r)) <= Cardinality(Owed(r)')
    BY <1>2, OwedGrows
<1>4. barrier'[r].expected <= Cardinality(Owed(r)')
    BY <1>1, <1>3, OwedFinite, OwedGrows
<1>5. Lodged(r)'
    <2>1. SUFFICES ASSUME req'[r].at = "checking", ~req'[r].refused, aux'[req'[r].on].alive
                   PROVE  req'[r].on \in Held(r)'
        BY DEF Lodged
    <2>2. req[r].on \in Aux
        BY <2>1 DEF Typed, Shape, ShapeOf
    <2> QED BY <1>1, <2>1, <2>2 DEF Lodged
<1> QED BY <1>1, <1>4, <1>5

(* A part that comes is in the barrier, unless it is the last and closes it. *)
LEMMA PartFed ==
    ASSUME Typed, NEW r \in Requests, NEW p \in Aux \cup {Primary}, Part(r, p), barrier'[r].open
    PROVE  /\ barrier[r].open /\ barrier'[r].expected = barrier[r].expected
           /\ barrier'[r].got = barrier[r].got \cup {p}
           /\ Cardinality(barrier'[r].got) < barrier'[r].expected
<1>1. barrier[r] \in BarrierType
    BY TypeFacts DEF Typed
<1>2. /\ barrier[r].open
      /\ ~(Cardinality(barrier[r].got \cup {p}) >= barrier[r].expected)
      /\ barrier'[r] = [barrier[r] EXCEPT !.got = @ \cup {p}]
    <2>1. barrier'[r] # NoBarrier
        BY DEF NoBarrier
    <2>2. barrier'[r] = barrier[r] \/ barrier[r].open
        BY PartEffect DEF Typed
    <2> QED BY <2>1, <2>2, PartEffect DEF Typed
<1>3. barrier'[r].got = barrier[r].got \cup {p} /\ barrier'[r].expected = barrier[r].expected
    BY <1>1, <1>2 DEF BarrierType
<1>4. barrier[r].expected \in Nat /\ Cardinality(barrier[r].got \cup {p}) \in Nat
    <2>1. IsFiniteSet(Aux \cup {Primary})
        BY AuxCard, FS_AddElement
    <2>2. barrier[r].got \cup {p} \subseteq Aux \cup {Primary}
        BY <1>1 DEF BarrierType
    <2> QED BY <1>1, <2>1, <2>2, AuxCard, FS_Subset, FS_CardinalityType DEF BarrierType
<1> QED BY <1>2, <1>3, <1>4

(* One part less is expected of r and at most one is owed no more. *)
LEMMA AbandonedFed ==
    ASSUME Typed, Typed', NEW r \in Requests, barrier' = Abandoned(r), barrier[r].open,
           barrier[r].expected <= Cardinality(Owed(r)),
           NEW x \in Aux, Owed(r) \ {x} \subseteq Owed(r)'
    PROVE  barrier'[r].expected <= Cardinality(Owed(r)')
<1>1. barrier'[r].expected = barrier[r].expected - 1
    BY TypeFacts DEF Typed, Abandoned, BarrierType
<1>2. Cardinality(Owed(r) \ {x}) <= Cardinality(Owed(r)')
    BY OwedGrows
<1>3. Cardinality(Owed(r)) - 1 <= Cardinality(Owed(r) \ {x}) /\ Cardinality(Owed(r) \ {x}) \in Nat
    <2>1. CASE x \in Owed(r)
        <3>1. Cardinality(Owed(r) \ {x}) = Cardinality(Owed(r)) - 1
            BY <2>1, OwedFinite, FS_RemoveElement
        <3>2. Cardinality(Owed(r) \ {x}) \in Nat
            BY OwedFinite, Parts
        <3> QED BY <3>1, <3>2, OwedFinite
    <2>2. CASE x \notin Owed(r)
        <3>1. Owed(r) \ {x} = Owed(r)
            BY <2>2
        <3> QED BY <3>1, OwedFinite
    <2> QED BY <2>1, <2>2
<1>4. Cardinality(Owed(r)') \in Nat
    BY OwedGrows
<1> QED BY <1>1, <1>2, <1>3, <1>4, OwedFinite

LEMMA ClientsFed ==
    ASSUME Typed, Typed', Fed, NEW c \in Clients, Find(c) \/ Subscribe(c) \/ Unsubscribe(c),
           NEW s \in Requests
    PROVE  FedOf(s)'
<1> USE TypeFacts DEF Typed
<1>1. FedOf(s) /\ ShapeOf(s)
    BY DEF Fed, Shape
<1>2. CASE Find(c) \/ Subscribe(c)
    <2>1. UNCHANGED <<alive, atPrimary, aux, req, barrier>>
        BY <1>2 DEF Find, Subscribe
    <2> QED BY <1>1, <2>1 DEF FedOf, Lodged, Owed, Held, Coming, Unserved
<1>3. CASE Unsubscribe(c)
    <2>1. UNCHANGED <<alive, atPrimary>>
        BY <1>3 DEF Unsubscribe
    <2>2. CASE s \in Of(c)
        <3>1. ~barrier'[s].open
            BY <1>3, <2>2 DEF Unsubscribe, NoBarrier
        <3> QED BY <3>1 DEF FedOf
    <2>3. CASE s \notin Of(c)
        <3>1. req'[s] = req[s] /\ barrier'[s] = barrier[s]
            BY <1>3, <2>3 DEF Unsubscribe
        <3>2. ASSUME NEW a \in Aux
              PROVE  /\ aux'[a].alive = aux[a].alive /\ aux'[a].reader = aux[a].reader
                     /\ aux'[a].stdin = aux[a].stdin /\ aux'[a].todo = aux[a].todo
                     /\ s \in aux'[a].internal <=> s \in aux[a].internal
            <4>1. aux'[a] = [aux[a] EXCEPT !.internal = {r \in @ : req[r].kind = "resolve" => r \notin Of(c)}]
                BY <1>3 DEF Unsubscribe
            <4> QED BY <2>3, <4>1 DEF AuxType
        <3>3. Coming(s)' = Coming(s)
            BY <2>1, <3>2 DEF Coming
        <3> QED BY <1>1, <2>1, <3>1, <3>2, <3>3, FedKept DEF Held
    <2> QED BY <2>2, <2>3
<1> QED BY <1>2, <1>3

LEMMA HalfFed ==
    ASSUME Typed, Typed', Fed, NEW c \in Clients, HalfUnsubscribe(c), NEW s \in Requests
    PROVE  FedOf(s)'
<1>1. FedOf(s) /\ req[s] \in ReqType
    BY TypeFacts DEF Typed, Fed
<1>2. CASE req'[s] = req[s]
    BY <1>1, <1>2, HalfEffect, FedKept DEF Held, Coming
<1>3. CASE req'[s] = [req[s] EXCEPT !.at = "failed"]
    BY <1>1, <1>3 DEF FedOf, ReqType
<1> QED BY <1>2, <1>3, HalfEffect

LEMMA AskFed ==
    ASSUME Typed, Typed', Fed, NEW r \in Requests, NEW c \in Clients, Ask(r, c) \/ AskResolve(r, c),
           NEW s \in Requests
    PROVE  FedOf(s)'
<1> USE TypeFacts DEF Typed
<1>1. /\ FedOf(s) /\ ShapeOf(s)
      /\ UNCHANGED <<alive, atPrimary, aux, client>> /\ req[r] = Unsent
    BY DEF Fed, Shape, Ask, AskResolve, MayAsk
<1>2. CASE s # r
    <2>1. req'[s] = req[s] /\ barrier'[s] = barrier[s]
        BY <1>2 DEF Ask, AskResolve
    <2>2. Held(s)' = Held(s)
        BY <1>1, <2>1 DEF Held, Coming
    <2> QED BY <1>1, <2>1, <2>2, FedKept
<1>3. CASE s = r /\ ~barrier'[r].open
    BY <1>3 DEF FedOf
<1>4. CASE s = r /\ barrier'[r].open
    <2>1. PICK k \in {"plain", "merged"} :
            /\ req' = [req EXCEPT ![r] = [@ EXCEPT !.at = "sending", !.kind = k, !.client = c,
                                                   !.left = IF k = "merged" THEN AliveAux ELSE {}]]
            /\ barrier' = IF k = "merged"
                          THEN [barrier EXCEPT ![r] = [open |-> TRUE, got |-> {},
                                                       expected |-> Cardinality(AliveAux) + 1]]
                          ELSE barrier
        <3>1. ~barrier[r].open
            BY <1>1, <1>4 DEF ShapeOf, Unsent
        <3>2. Ask(r, c)
            BY <1>4, <3>1 DEF AskResolve
        <3> QED BY <3>2 DEF Ask
    <2>2. k = "merged"
        BY <1>1, <1>4, <2>1 DEF ShapeOf, Unsent
    <2>3. /\ req'[r].at = "sending" /\ req'[r].left = AliveAux
          /\ barrier'[r].expected = Cardinality(AliveAux) + 1
        BY <2>1, <2>2 DEF ReqType
    <2>4. AliveAux \cup {Primary} \subseteq Owed(r)'
        BY <2>3 DEF Owed, Unserved
    <2>5. Cardinality(AliveAux \cup {Primary}) = Cardinality(AliveAux) + 1
        <3>1. AliveAux \subseteq Aux /\ Primary \notin AliveAux
            BY LspAssumption DEF AliveAux
        <3> QED BY <3>1, Parts, FS_AddElement
    <2>6. barrier'[r].expected <= Cardinality(Owed(r)')
        BY <2>3, <2>4, <2>5, OwedGrows
    <2> QED BY <1>4, <2>3, <2>6 DEF FedOf, Lodged
<1> QED BY <1>3, <1>4, <1>2

LEMMA SendPrimaryFed ==
    ASSUME Typed, Typed', Fed, NEW r \in Requests, SendPrimary(r), NEW s \in Requests
    PROVE  FedOf(s)'
<1> USE TypeFacts DEF Typed
<1>1. /\ FedOf(s) /\ ShapeOf(s) /\ req[r] \in ReqType /\ req[r].at = "sending"
      /\ UNCHANGED <<alive, aux>>
    BY DEF Fed, Shape, SendPrimary
<1>2. CASE s # r
    <2>1. /\ req'[s] = req[s] /\ barrier'[s] = barrier[s]
          /\ s \in atPrimary' <=> s \in atPrimary
        BY <1>2 DEF SendPrimary
    <2>2. Held(s)' = Held(s)
        BY <1>1, <2>1 DEF Held, Coming
    <2> QED BY <1>1, <2>1, <2>2, FedKept
<1>3. CASE s = r
    <2> SUFFICES ASSUME alive', barrier'[r].open PROVE FedOf(r)'
        BY <1>3 DEF FedOf
    <2>1. /\ req' = [req EXCEPT ![r].at = IF req[r].kind = "merged" THEN "fanning" ELSE "sent"]
          /\ atPrimary' = atPrimary \cup {r}
          /\ UNCHANGED barrier
        BY <1>1 DEF SendPrimary, NoBarrier
    <2>2. req[r].kind = "merged"
        BY <1>1, <1>3, <2>1 DEF ShapeOf
    <2>3. req'[r].at = "fanning" /\ req'[r].left = req[r].left
        BY <1>1, <2>1, <2>2 DEF ReqType
    <2>4. Owed(r) \subseteq Owed(r)'
        BY <1>1, <2>1, <2>3 DEF Owed, Held, Coming, Unserved
    <2>5. barrier[r].expected <= Cardinality(Owed(r)')
        BY <1>1, <1>3, <2>1, <2>4, OwedFinite, OwedGrows DEF FedOf
    <2> QED BY <2>1, <2>3, <2>5 DEF FedOf, Lodged
<1> QED BY <1>2, <1>3

LEMMA FanFed ==
    ASSUME Typed, Typed', Fed, NEW r \in Requests, Fan(r), NEW s \in Requests
    PROVE  FedOf(s)'
<1> USE TypeFacts DEF Typed
<1>1. /\ FedOf(s) /\ ShapeOf(s) /\ req[r] \in ReqType /\ req[r].at = "fanning"
      /\ UNCHANGED <<alive, atPrimary, aux>>
    BY DEF Fed, Shape, Fan
<1>2. CASE s # r
    <2>1. req'[s] = req[s] /\ barrier'[s] = barrier[s]
        BY <1>2 DEF Fan, Abandoned
    <2>2. Held(s)' = Held(s)
        BY <1>1, <2>1 DEF Held, Coming
    <2> QED BY <1>1, <2>1, <2>2, FedKept
<1>3. CASE s = r
    <2> SUFFICES ASSUME alive', barrier'[r].open PROVE FedOf(r)'
        BY <1>3 DEF FedOf
    <2>1. PICK a \in req[r].left :
            \/ /\ req' = [req EXCEPT ![r] = [@ EXCEPT !.at = "registering", !.on = a,
                                                      !.left = req[r].left \ {a}]]
               /\ UNCHANGED barrier
            \/ /\ req' = [req EXCEPT ![r].left = @ \ {a}]
               /\ barrier' = Abandoned(r)
        BY DEF Fan
    <2>2. a \in Aux
        BY <1>1 DEF ReqType
    <2>3. CASE /\ req' = [req EXCEPT ![r] = [@ EXCEPT !.at = "registering", !.on = a,
                                                      !.left = req[r].left \ {a}]]
               /\ UNCHANGED barrier
        <3>1. req'[r].at = "registering" /\ req'[r].on = a /\ req'[r].left = req[r].left \ {a}
            BY <1>1, <2>3 DEF ReqType
        <3>2. Owed(r) \subseteq Owed(r)'
            BY <1>1, <2>3, <3>1 DEF Owed, Held, Coming, Unserved
        <3>3. barrier[r].expected <= Cardinality(Owed(r)')
            BY <1>1, <1>3, <2>3, <3>2, OwedFinite, OwedGrows DEF FedOf
        <3> QED BY <2>3, <3>1, <3>3 DEF FedOf, Lodged
    <2>4. CASE /\ req' = [req EXCEPT ![r].left = @ \ {a}]
               /\ barrier' = Abandoned(r)
        <3>1. req'[r].at = "fanning" /\ req'[r].left = req[r].left \ {a} /\ req'[r].on = req[r].on
            BY <1>1, <2>4 DEF ReqType
        <3>2. barrier[r].open /\ barrier'[r].got = barrier[r].got
            BY <2>4 DEF Abandoned, BarrierType
        <3>3. Owed(r) \ {a} \subseteq Owed(r)'
            BY <1>1, <3>1, <3>2 DEF Owed, Held, Coming, Unserved
        <3>4. barrier'[r].expected <= Cardinality(Owed(r)')
            BY <1>1, <1>3, <2>2, <2>4, <3>2, <3>3, AbandonedFed DEF FedOf
        <3> QED BY <3>1, <3>4 DEF FedOf, Lodged
    <2> QED BY <2>1, <2>3, <2>4
<1> QED BY <1>2, <1>3

LEMMA RegisterFed ==
    ASSUME Typed, Typed', Fed, ReadersDown, NEW r \in Requests, Register(r), NEW s \in Requests
    PROVE  FedOf(s)'
<1> USE TypeFacts DEF Typed
<1> DEFINE a == req[r].on
<1>1. /\ FedOf(s) /\ ShapeOf(s) /\ req[r].at = "registering"
    BY DEF Fed, Shape, Register
<1>2. /\ a \in Aux
      /\ UNCHANGED <<alive, atPrimary, barrier>>
      /\ \A t \in Requests \ {r} : req'[t] = req[t]
      /\ \A b \in Aux \ {a} : aux'[b] = aux[b]
      /\ req'[r].at = "checking" /\ req'[r].left = req[r].left /\ req'[r].on = a
      /\ aux'[a].alive = aux[a].alive /\ aux'[a].reader = aux[a].reader /\ aux'[a].todo = aux[a].todo
      /\ aux'[a].internal = aux[a].internal \cup {r}
      /\ aux'[a].stdin = IF req'[r].refused \/ aux[a].reader # "reading"
                         THEN aux[a].stdin ELSE aux[a].stdin \cup {r}
    BY RegisterEffect
<1> HIDE DEF a
<1>3. ASSUME NEW t \in Requests PROVE Held(t) \subseteq Held(t)'
    <2>1. \A b \in Aux : /\ t \in aux[b].todo => t \in aux'[b].todo
                         /\ t \in aux[b].internal => t \in aux'[b].internal
                         /\ t \in aux[b].stdin => t \in aux'[b].stdin
                         /\ aux'[b].reader = aux[b].reader
        BY <1>2
    <2> QED BY <1>2, <2>1 DEF Held, Coming
<1>4. CASE s # r
    <2>1. \A b \in Aux : aux'[b].alive => aux[b].alive
        BY <1>2
    <2> QED BY <1>1, <1>2, <1>3, <1>4, <2>1, FedKept
<1>5. CASE s = r
    <2> SUFFICES ASSUME alive', barrier'[r].open PROVE FedOf(r)'
        BY <1>5 DEF FedOf
    <2>1. Owed(r) \subseteq Owed(r)'
        BY <1>1, <1>2, <1>3 DEF Owed, Unserved, a
    <2>2. barrier[r].expected <= Cardinality(Owed(r)')
        BY <1>1, <1>2, <1>5, <2>1, OwedFinite, OwedGrows DEF FedOf
    <2>3. Lodged(r)'
        <3>1. SUFFICES ASSUME ~req'[r].refused, aux'[a].alive PROVE a \in Held(r)'
            BY <1>2 DEF Lodged
        <3>2. r \in aux'[a].stdin /\ r \in aux'[a].internal
            BY <1>2, <3>1 DEF ReadersDown
        <3> QED BY <1>2, <3>2 DEF Held, Coming
    <2> QED BY <1>2, <2>2, <2>3 DEF FedOf
<1> QED BY <1>4, <1>5

LEMMA CheckFed ==
    ASSUME Typed, Typed', Fed, NEW r \in Requests, Check(r), NEW s \in Requests
    PROVE  FedOf(s)'
<1> USE TypeFacts DEF Typed
<1> DEFINE a == req[r].on
<1>1. /\ FedOf(s) /\ ShapeOf(s) /\ req[r].at = "checking"
    BY DEF Fed, Shape, Check
<1>2. /\ a \in Aux
      /\ UNCHANGED <<alive, atPrimary>>
      /\ \A t \in Requests \ {r} : req'[t] = req[t]
      /\ req'[r].at = (IF req[r].kind = "merged" THEN "fanning" ELSE "sent")
      /\ req'[r].left = req[r].left /\ req'[r].on = a
      /\ \/ ~CheckOut(r) /\ UNCHANGED <<aux, barrier, answers>>
         \/ /\ CheckOut(r)
            /\ \A b \in Aux \ {a} : aux'[b] = aux[b]
            /\ aux'[a].internal = aux[a].internal \ {r}
            /\ aux'[a].alive = aux[a].alive /\ aux'[a].reader = aux[a].reader
            /\ aux'[a].todo = aux[a].todo /\ aux'[a].stdin = aux[a].stdin
            /\ \/ req[r].kind = "merged" /\ barrier' = Abandoned(r) /\ UNCHANGED answers
               \/ req[r].kind # "merged" /\ Answered({r}, FALSE) /\ UNCHANGED barrier
    BY CheckEffect
<1>3. CASE s # r
    <2>1. barrier'[s] = barrier[s] /\ req'[s] = req[s]
        BY <1>2, <1>3 DEF Abandoned
    <2>2. \A b \in Aux : /\ s \in aux'[b].internal <=> s \in aux[b].internal
                         /\ aux'[b].alive = aux[b].alive /\ aux'[b].reader = aux[b].reader
                         /\ aux'[b].todo = aux[b].todo /\ aux'[b].stdin = aux[b].stdin
        BY <1>2, <1>3
    <2>3. Held(s)' = Held(s)
        BY <1>2, <2>1, <2>2 DEF Held, Coming
    <2> QED BY <1>1, <1>2, <2>1, <2>2, <2>3, FedKept
<1>4. CASE s = r
    <2> SUFFICES ASSUME alive', barrier'[r].open PROVE FedOf(r)'
        BY <1>4 DEF FedOf
    <2>1. barrier[r].open /\ barrier'[r].got = barrier[r].got
        <3>1. UNCHANGED barrier \/ barrier' = Abandoned(r)
            BY <1>2
        <3> QED BY <3>1 DEF Abandoned, BarrierType
    <2>2. req[r].kind = "merged"
        BY <1>1, <1>4, <2>1 DEF ShapeOf
    <2>3. req'[r].at = "fanning"
        BY <1>2, <2>2
    <2>4. CASE ~CheckOut(r)
        <3>1. a \in Held(r)
            BY <1>1, <1>2, <1>4, <2>1, <2>2, <2>4 DEF FedOf, Lodged, CheckOut
        <3>2. Held(r)' = Held(r)
            BY <1>2, <2>4 DEF Held, Coming
        <3>3. Owed(r) \subseteq Owed(r)'
            BY <1>1, <1>2, <2>3, <3>1, <3>2 DEF Owed, Unserved
        <3>4. barrier'[r].expected = barrier[r].expected
            BY <1>2, <2>4
        <3>5. barrier'[r].expected <= Cardinality(Owed(r)')
            BY <1>1, <1>2, <1>4, <2>1, <3>3, <3>4, OwedFinite, OwedGrows DEF FedOf
        <3> QED BY <2>3, <3>5 DEF FedOf, Lodged
    <2>5. CASE CheckOut(r)
        <3>1. barrier' = Abandoned(r)
            BY <1>2, <2>2, <2>5
        <3>2. Held(r) \ {a} \subseteq Held(r)'
            <4>1. \A b \in Aux \ {a} : aux'[b] = aux[b]
                BY <1>2, <2>5
            <4> HIDE DEF a
            <4> QED BY <1>2, <2>1, <4>1 DEF Held, Coming
        <3>3. Owed(r) \ {a} \subseteq Owed(r)'
            BY <1>1, <1>2, <2>3, <3>2 DEF Owed, Unserved
        <3>4. barrier'[r].expected <= Cardinality(Owed(r)')
            BY <1>1, <1>2, <1>4, <2>1, <3>1, <3>3, AbandonedFed DEF FedOf
        <3> QED BY <2>3, <3>4 DEF FedOf, Lodged
    <2> QED BY <2>4, <2>5
<1> QED BY <1>3, <1>4

LEMMA FanEndsFed ==
    ASSUME Typed, Typed', Fed, NEW r \in Requests, FanEnds(r), NEW s \in Requests
    PROVE  FedOf(s)'
<1> USE TypeFacts DEF Typed
<1>1. /\ FedOf(s) /\ req[r] \in ReqType /\ req[r].at = "fanning" /\ req[r].left = {}
      /\ UNCHANGED <<alive, atPrimary, aux>>
      /\ req' = [req EXCEPT ![r].at = "sent"]
    BY DEF Fed, FanEnds
<1>2. CASE s # r
    <2>1. req'[s] = req[s] /\ barrier'[s] = barrier[s]
        BY <1>1, <1>2 DEF FanEnds, Complete
    <2>2. Held(s)' = Held(s)
        BY <1>1, <2>1 DEF Held, Coming
    <2> QED BY <1>1, <2>1, <2>2, FedKept
<1>3. CASE s = r
    <2> SUFFICES ASSUME alive', barrier'[r].open PROVE FedOf(r)'
        BY <1>3 DEF FedOf
    <2>1. UNCHANGED barrier /\ ~(Cardinality(barrier[r].got) >= barrier[r].expected)
        BY DEF FanEnds, Complete, NoBarrier
    <2>2. req'[r].at = "sent" /\ req'[r].left = {}
        BY <1>1 DEF ReqType
    <2>3. Owed(r) \subseteq Owed(r)'
        BY <1>1, <2>1, <2>2 DEF Owed, Held, Coming, Unserved
    <2>4. barrier[r].expected <= Cardinality(Owed(r)')
        BY <1>1, <1>3, <2>1, <2>3, OwedFinite, OwedGrows DEF FedOf
    <2>5. Cardinality(barrier[r].got) < barrier[r].expected
        BY <2>1, OwedFinite
    <2> QED BY <2>1, <2>2, <2>4, <2>5 DEF FedOf, Lodged
<1> QED BY <1>2, <1>3

LEMMA PrimaryFed ==
    ASSUME Typed, Typed', Fed, NEW r \in Requests, PrimaryAsks(r) \/ PrimaryAnswers(r) \/ PrimaryDies,
           NEW s \in Requests
    PROVE  FedOf(s)'
<1> USE TypeFacts DEF Typed
<1>1. FedOf(s) /\ ShapeOf(s)
    BY DEF Fed, Shape
<1>2. CASE PrimaryDies
    BY <1>2 DEF FedOf, PrimaryDies
<1>3. CASE PrimaryAsks(r)
    <2>1. UNCHANGED <<alive, atPrimary, aux, barrier>> /\ req[r] = Unsent
        BY <1>3 DEF PrimaryAsks
    <2>2. CASE s = r
        BY <1>1, <2>1, <2>2 DEF FedOf, ShapeOf, Unsent
    <2>3. CASE s # r
        <3>1. req'[s] = req[s]
            BY <1>3, <2>3 DEF PrimaryAsks
        <3>2. Held(s)' = Held(s)
            BY <2>1 DEF Held, Coming
        <3> QED BY <1>1, <2>1, <3>1, <3>2, FedKept
    <2> QED BY <2>2, <2>3
<1>4. CASE PrimaryAnswers(r)
    <2>1. UNCHANGED <<alive, aux, req>> /\ atPrimary' = atPrimary \ {r}
        BY <1>4 DEF PrimaryAnswers
    <2>2. CASE s # r
        <3>1. barrier'[s] = barrier[s]
            <4>1. ASSUME NEW err \in BOOLEAN, PrimaryPart(r, err) PROVE barrier'[s] = barrier[s]
                BY <2>2, <4>1, PrimaryPartEffect
            <4> QED BY <1>4, <4>1 DEF PrimaryAnswers
        <3>2. Held(s)' = Held(s)
            BY <2>1, <2>2, <3>1 DEF Held, Coming
        <3> QED BY <1>1, <2>1, <3>1, <3>2, FedKept
    <2>3. CASE s = r /\ ~barrier'[r].open
        BY <2>3 DEF FedOf
    <2>4. CASE s = r /\ barrier'[r].open
        <3>1. Part(r, Primary)
            <4>1. barrier[r].open /\ barrier'[r] # NoBarrier
                <5>1. barrier[r].open \/ UNCHANGED barrier
                    BY <1>4 DEF PrimaryAnswers, PrimaryPart
                <5> QED BY <2>4, <5>1 DEF NoBarrier
            <4>2. PICK err \in BOOLEAN : PrimaryPart(r, err)
                BY <1>4, <4>1 DEF PrimaryAnswers
            <4> QED BY <4>1, <4>2 DEF PrimaryPart
        <3>2. /\ barrier[r].open /\ barrier'[r].expected = barrier[r].expected
              /\ barrier'[r].got = barrier[r].got \cup {Primary}
              /\ Cardinality(barrier'[r].got) < barrier'[r].expected
            BY <2>4, <3>1, PartFed
        <3>3. Held(r) \subseteq Held(r)'
            BY <2>1, <3>2 DEF Held, Coming
        <3> QED BY <1>1, <2>1, <2>4, <3>2, <3>3, FedKept
    <2> QED BY <2>2, <2>3, <2>4
<1> QED BY <1>2, <1>3, <1>4

LEMMA AuxAnswersFed ==
    ASSUME Typed, Typed', Fed, NEW a \in Aux, NEW r \in Requests, AuxAnswers(a, r), NEW s \in Requests
    PROVE  FedOf(s)'
<1> USE TypeFacts DEF Typed
<1>1. FedOf(s) /\ ShapeOf(s)
    BY DEF Fed, Shape
<1>2. /\ UNCHANGED <<alive, atPrimary, req>>
      /\ \A b \in Aux \ {a} : aux'[b] = aux[b]
      /\ aux[a].reader = "reading"
      /\ aux'[a].stdin = aux[a].stdin \ {r} /\ aux'[a].internal = aux[a].internal \ {r}
      /\ aux'[a].alive = aux[a].alive /\ aux'[a].reader = aux[a].reader /\ aux'[a].todo = aux[a].todo
      /\ \A t \in Requests \ {r} : barrier'[t] = barrier[t]
      /\ \/ r \notin aux[a].internal /\ UNCHANGED <<barrier, answers>>
         \/ r \in aux[a].internal /\ req[r].kind = "merged" /\ Part(r, a)
         \/ r \in aux[a].internal /\ req[r].kind # "merged" /\ Answered({r}, FALSE) /\ UNCHANGED barrier
    <2>1. /\ UNCHANGED <<alive, atPrimary, req>>
          /\ \A b \in Aux \ {a} : aux'[b] = aux[b]
          /\ aux[a].reader = "reading"
          /\ aux'[a].stdin = aux[a].stdin \ {r} /\ aux'[a].internal = aux[a].internal \ {r}
          /\ aux'[a].alive = aux[a].alive /\ aux'[a].reader = aux[a].reader /\ aux'[a].todo = aux[a].todo
        BY AuxAnswersEffect
    <2>2. ASSUME NEW t \in Requests \ {r} PROVE barrier'[t] = barrier[t]
        <3>1. CASE UNCHANGED barrier
            BY <3>1
        <3>2. CASE Part(r, a)
            BY <3>2, PartEffect
        <3> QED BY <3>1, <3>2 DEF AuxAnswers
    <2> QED BY <2>1, <2>2 DEF AuxAnswers
<1>3. \A b \in Aux : aux'[b].alive => aux[b].alive
    BY <1>2
<1>4. Coming(s) \ {a} \subseteq Coming(s)'
    BY <1>2 DEF Coming
<1>5. CASE s # r \/ r \notin aux[a].internal
    <2>1. Coming(s) \subseteq Coming(s)' /\ barrier'[s] = barrier[s]
        BY <1>2, <1>5 DEF Coming
    <2> QED BY <1>1, <1>2, <1>3, <2>1, FedKept DEF Held
<1>6. CASE s = r /\ r \in aux[a].internal /\ barrier'[r].open
    <2>1. Part(r, a)
        BY <1>1, <1>2, <1>6 DEF ShapeOf
    <2>2. /\ barrier[r].open /\ barrier'[r].expected = barrier[r].expected
          /\ barrier'[r].got = barrier[r].got \cup {a}
          /\ Cardinality(barrier'[r].got) < barrier'[r].expected
        BY <1>6, <2>1, PartFed
    <2>3. Held(r) \subseteq Held(r)'
        BY <1>4, <1>6, <2>2 DEF Held
    <2> QED BY <1>1, <1>2, <1>3, <1>6, <2>2, <2>3, FedKept
<1>7. CASE s = r /\ ~barrier'[r].open
    BY <1>7 DEF FedOf
<1> QED BY <1>5, <1>6, <1>7

LEMMA AuxEndsFed ==
    ASSUME Typed, Typed', Fed, NEW a \in Aux, AuxDies(a) \/ ReaderEnds(a), NEW s \in Requests
    PROVE  FedOf(s)'
<1> USE TypeFacts DEF Typed
<1>1. FedOf(s) /\ ShapeOf(s)
    BY DEF Fed, Shape
<1>2. CASE AuxDies(a)
    <2>1. /\ UNCHANGED <<alive, atPrimary, req, barrier>>
          /\ aux' = [aux EXCEPT ![a] = [@ EXCEPT !.alive = FALSE, !.reader = "eof", !.stdin = {}]]
          /\ aux[a].reader = "reading"
        BY <1>2 DEF AuxDies
    <2>2. /\ \A b \in Aux \ {a} : aux'[b] = aux[b]
          /\ ~aux'[a].alive /\ aux'[a].reader = "eof"
          /\ aux'[a].internal = aux[a].internal /\ aux'[a].todo = aux[a].todo
        BY <2>1 DEF AuxType
    <2>3. Held(s) \subseteq Held(s)'
        BY <2>1, <2>2 DEF Held, Coming
    <2>4. \A b \in Aux : aux'[b].alive => aux[b].alive
        BY <2>2
    <2> QED BY <1>1, <2>1, <2>3, <2>4, FedKept
<1>3. CASE AuxDrains(a) /\ barrier[s].open
    <2>1. /\ UNCHANGED <<alive, atPrimary, req, barrier>>
          /\ \A b \in Aux \ {a} : aux'[b] = aux[b]
          /\ aux'[a].todo = aux[a].todo \cup (aux[a].internal \ Forwards(a))
          /\ aux'[a].alive = aux[a].alive
        BY <1>3, AuxDrainsEffect
    <2>2. s \notin Forwards(a)
        BY <1>1, <1>3 DEF ShapeOf, Forwards
    <2>3. Held(s) \subseteq Held(s)'
        BY <2>1, <2>2 DEF Held, Coming
    <2>4. \A b \in Aux : aux'[b].alive => aux[b].alive
        BY <2>1
    <2> QED BY <1>1, <2>1, <2>3, <2>4, FedKept
<1>4. CASE AuxDrains(a) /\ ~barrier[s].open
    <2>1. UNCHANGED barrier
        BY <1>4, AuxDrainsEffect
    <2> QED BY <1>4, <2>1 DEF FedOf
<1>5. CASE AuxWindsUp(a)
    <2>1. PICK r \in aux[a].todo :
              /\ r \in Requests
              /\ UNCHANGED <<alive, atPrimary, client, req, pending>>
              /\ \A b \in Aux \ {a} : aux'[b] = aux[b]
              /\ aux'[a].todo = aux[a].todo \ {r}
              /\ aux'[a].alive = aux[a].alive /\ aux'[a].reader = aux[a].reader
              /\ aux'[a].internal = aux[a].internal /\ aux'[a].stdin = aux[a].stdin
              /\ \/ req[r].kind = "merged" /\ Part(r, a)
                 \/ req[r].kind # "merged" /\ Answered({r}, FALSE) /\ UNCHANGED barrier
        BY <1>5, AuxWindsUpEffect
    <2>2. \A b \in Aux : aux'[b].alive => aux[b].alive
        BY <2>1
    <2>3. Coming(s) \ {a} \subseteq Coming(s)'
        BY <2>1 DEF Coming
    <2>4. CASE s # r
        <3>1. barrier'[s] = barrier[s]
            BY <2>1, <2>4, PartEffect
        <3>2. Coming(s) \subseteq Coming(s)'
            BY <2>1, <2>4 DEF Coming
        <3> QED BY <1>1, <2>1, <2>2, <3>1, <3>2, FedKept DEF Held
    <2>5. CASE s = r /\ barrier'[r].open
        <3>1. Part(r, a)
            BY <1>1, <2>1, <2>5 DEF ShapeOf
        <3>2. /\ barrier[r].open /\ barrier'[r].expected = barrier[r].expected
              /\ barrier'[r].got = barrier[r].got \cup {a}
              /\ Cardinality(barrier'[r].got) < barrier'[r].expected
            BY <2>1, <2>5, <3>1, PartFed
        <3>3. Held(r) \subseteq Held(r)'
            BY <2>3, <2>5, <3>2 DEF Held
        <3> QED BY <1>1, <2>1, <2>2, <2>5, <3>2, <3>3, FedKept
    <2>6. CASE s = r /\ ~barrier'[r].open
        BY <2>6 DEF FedOf
    <2> QED BY <2>4, <2>5, <2>6
<1> QED BY <1>2, <1>3, <1>4, <1>5 DEF ReaderEnds

(* The reader of a server that is up is at work. *)
LEMMA NextReadersDown == Typed /\ ReadersDown /\ [Next]_vars => ReadersDown'
<1> SUFFICES ASSUME Typed, ReadersDown, [Next]_vars, NEW b \in Aux, aux'[b].alive
             PROVE  aux'[b].reader = "reading" /\ aux'[b].todo = {}
    BY DEF ReadersDown
<1> USE TypeFacts DEF Typed
<1>0. aux[b].alive => aux[b].reader = "reading" /\ aux[b].todo = {}
    BY DEF ReadersDown
<1>1. CASE UNCHANGED aux
    BY <1>0, <1>1
<1>2. ASSUME NEW c \in Clients, Unsubscribe(c)
      PROVE  aux'[b].reader = "reading" /\ aux'[b].todo = {}
    <2>1. aux'[b] = [aux[b] EXCEPT !.internal = {r \in @ : req[r].kind = "resolve" => r \notin Of(c)}]
        BY <1>2 DEF Unsubscribe
    <2> QED BY <1>0, <2>1 DEF AuxType
<1>3. ASSUME NEW r \in Requests, Register(r)
      PROVE  aux'[b].reader = "reading" /\ aux'[b].todo = {}
    <2>1. /\ \A d \in Aux \ {req[r].on} : aux'[d] = aux[d]
          /\ aux'[req[r].on].alive = aux[req[r].on].alive /\ aux'[req[r].on].reader = aux[req[r].on].reader
          /\ aux'[req[r].on].todo = aux[req[r].on].todo
        BY <1>3, RegisterEffect
    <2> QED BY <1>0, <2>1
<1>4. ASSUME NEW r \in Requests, Check(r)
      PROVE  aux'[b].reader = "reading" /\ aux'[b].todo = {}
    <2>1. \/ UNCHANGED aux
          \/ /\ \A d \in Aux \ {req[r].on} : aux'[d] = aux[d]
             /\ aux'[req[r].on].alive = aux[req[r].on].alive
             /\ aux'[req[r].on].reader = aux[req[r].on].reader
             /\ aux'[req[r].on].todo = aux[req[r].on].todo
        BY <1>4, CheckEffect
    <2> QED BY <1>0, <2>1
<1>5. ASSUME PrimaryDies PROVE FALSE
    BY <1>5 DEF PrimaryDies, AuxType
<1>6. ASSUME NEW a \in Aux, NEW r \in Requests, AuxAnswers(a, r)
      PROVE  aux'[b].reader = "reading" /\ aux'[b].todo = {}
    <2>1. /\ \A d \in Aux \ {a} : aux'[d] = aux[d]
          /\ aux'[a].alive = aux[a].alive /\ aux'[a].reader = aux[a].reader /\ aux'[a].todo = aux[a].todo
        BY <1>6, AuxAnswersEffect
    <2> QED BY <1>0, <2>1
<1>7. ASSUME NEW a \in Aux, AuxDies(a)
      PROVE  aux'[b].reader = "reading" /\ aux'[b].todo = {}
    <2>1. aux' = [aux EXCEPT ![a] = [@ EXCEPT !.alive = FALSE, !.reader = "eof", !.stdin = {}]]
        BY <1>7 DEF AuxDies
    <2>2. ~aux'[a].alive /\ \A d \in Aux \ {a} : aux'[d] = aux[d]
        BY <2>1 DEF AuxType
    <2> QED BY <1>0, <2>2
<1>8. ASSUME NEW a \in Aux, AuxDrains(a)
      PROVE  aux'[b].reader = "reading" /\ aux'[b].todo = {}
    <2>1. /\ \A d \in Aux \ {a} : aux'[d] = aux[d]
          /\ aux[a].reader = "eof" /\ aux'[a].alive = aux[a].alive
        BY <1>8, AuxDrainsEffect
    <2> QED BY <1>0, <2>1
<1>9. ASSUME NEW a \in Aux, AuxWindsUp(a)
      PROVE  aux'[b].reader = "reading" /\ aux'[b].todo = {}
    <2>1. /\ \A d \in Aux \ {a} : aux'[d] = aux[d]
          /\ aux'[a].todo \subseteq aux[a].todo
          /\ aux'[a].alive = aux[a].alive /\ aux'[a].reader = aux[a].reader
        BY <1>9, AuxWindsUpEffect
    <2> QED BY <1>0, <2>1
<1> QED
    <2>1. CASE UNCHANGED vars
        BY <1>1, <2>1 DEF vars
    <2>2. CASE \E c \in Clients : Find(c) \/ Subscribe(c) \/ Unsubscribe(c) \/ HalfUnsubscribe(c)
        BY <1>1, <1>2, <2>2 DEF Find, Subscribe, HalfUnsubscribe
    <2>3. CASE \E r \in Requests, c \in Clients : Ask(r, c) \/ AskResolve(r, c)
        BY <1>1, <2>3 DEF Ask, AskResolve
    <2>4. CASE \E r \in Requests : PrimaryAsks(r) \/ PrimaryAnswers(r) \/ Sender(r)
        <3>1. ASSUME NEW r \in Requests, PrimaryAsks(r) \/ PrimaryAnswers(r) \/ SendPrimary(r) \/ Fan(r)
                                         \/ FanEnds(r)
              PROVE  UNCHANGED aux
            BY <3>1 DEF PrimaryAsks, PrimaryAnswers, SendPrimary, Fan, FanEnds
        <3> QED BY <1>1, <1>3, <1>4, <2>4, <3>1 DEF Sender
    <2> QED BY <1>5, <1>6, <1>7, <1>8, <1>9, <2>1, <2>2, <2>3, <2>4 DEF Next, ReaderEnds

LEMMA NextFed == Typed /\ Typed' /\ ReadersDown /\ Fed /\ [Next]_vars => Fed'
<1> SUFFICES ASSUME Typed, Typed', ReadersDown, Fed, [Next]_vars, NEW s \in Requests PROVE FedOf(s)'
    BY DEF Fed
<1>1. CASE UNCHANGED vars
    BY <1>1 DEF vars, Fed, FedOf, Lodged, Owed, Held, Coming, Unserved
<1>2. CASE \E c \in Clients : Find(c) \/ Subscribe(c) \/ Unsubscribe(c) \/ HalfUnsubscribe(c)
    BY <1>2, ClientsFed, HalfFed
<1>3. CASE \E r \in Requests, c \in Clients : Ask(r, c) \/ AskResolve(r, c)
    BY <1>3, AskFed
<1>4. CASE \E r \in Requests : PrimaryAsks(r) \/ PrimaryAnswers(r) \/ Sender(r)
    BY <1>4, PrimaryFed, SendPrimaryFed, FanFed, RegisterFed, CheckFed, FanEndsFed DEF Sender
<1>5. CASE \E a \in Aux, r \in Requests : AuxAnswers(a, r)
    BY <1>5, AuxAnswersFed
<1>6. CASE \E a \in Aux : AuxDies(a) \/ ReaderEnds(a)
    BY <1>6, AuxEndsFed
<1>7. CASE PrimaryDies
    BY <1>7, PrimaryFed
<1> QED BY <1>1, <1>2, <1>3, <1>4, <1>5, <1>6, <1>7 DEF Next

(* "Jamais d'attente perpetuelle": on a session that lives, an open merge that send *)
(* is through with lacks a part, and each part it still counts has come or has a    *)
(* server or a reader that will bring it, whatever auxiliary died, and when.        *)
THEOREM NoPerpetualWait == Spec => []BarrierFed
<1>1. Init => Fed /\ ReadersDown
    BY DEF Init, Fed, FedOf, ReadersDown, NoBarrier
<1>2. Typed /\ Fed => BarrierFed
    <2> SUFFICES ASSUME Typed, Fed, NEW r \in Requests, barrier[r].open, req[r].at = "sent", alive
                 PROVE  /\ Cardinality(barrier[r].got) < barrier[r].expected
                        /\ barrier[r].expected <= Cardinality(barrier[r].got \cup Coming(r))
        BY DEF BarrierFed
    <2>1. Owed(r) = barrier[r].got \cup Coming(r)
        BY DEF Typed, Shape, ShapeOf, Owed, Held, Unserved
    <2> QED BY <2>1 DEF Fed, FedOf
<1> QED BY InitTyped, NextTyped, NextReadersDown, NextFed, <1>1, <1>2, PTL DEF Spec

-----------------------------------------------------------------------------
(* OneWholeAnswer.  The auxiliaries that have a merged request or gave their  *)
(* part, and those the fan-out has not given it to: while all are up they are *)
(* apart, and fewer than the barrier expects, so that the last part to come   *)
(* is never the last without the primary's.                                   *)
Given(r) == {a \in Aux : r \in aux[a].stdin} \cup (barrier[r].got \ {Primary})
Kept(r) == req[r].left \cup (IF req[r].at = "registering" \/ (req[r].at = "checking" /\ req[r].refused)
                             THEN {req[r].on} ELSE {})

Fresh(r) ==
    req[r].at = "unsent" =>
        /\ answers[r].count = 0 /\ ~answers[r].headless /\ r \notin pending
        /\ \A a \in Aux : r \notin aux[a].internal /\ r \notin aux[a].stdin /\ r \notin aux[a].todo

Tables(r) ==
    /\ \A a \in Aux : r \in aux[a].internal \/ r \in aux[a].todo => req[r].kind # "plain"
    /\ req[r].at \in {"registering", "checking"} => req[r].kind # "plain"
    /\ req[r].kind \in {"resolve", "forward"} =>
          /\ r \notin pending
          /\ \A a \in Aux : r \in aux[a].internal => a = req[r].on

PlainOnce(r) ==
    req[r].kind = "plain" =>
        /\ answers[r].count <= 1 /\ ~answers[r].headless
        /\ answers[r].count > 0 => r \notin pending

MergedOnce(r) ==
    (req[r].kind = "merged" /\ \A a \in Aux : aux[a].alive) =>
        /\ answers[r].count <= 1 /\ ~answers[r].headless
        /\ answers[r].count > 0 => r \notin pending
        /\ barrier[r].open =>
              /\ answers[r].count = 0
              /\ Cardinality(Given(r) \cup Kept(r)) < barrier[r].expected
              /\ Given(r) \cap Kept(r) = {}
              /\ Primary \in barrier[r].got => r \notin pending

AsideOnce(r) ==
    (req[r].kind \in {"resolve", "forward"} /\ \A a \in Aux : aux[a].alive) =>
        /\ answers[r].count <= 1 /\ ~answers[r].headless
        /\ req[r].at = "registering" =>
              answers[r].count = 0 /\ \A a \in Aux : r \notin aux[a].internal /\ r \notin aux[a].stdin
        /\ (req[r].at = "checking" /\ req[r].refused) =>
              answers[r].count = 0 /\ \A a \in Aux : r \notin aux[a].stdin
        /\ answers[r].count > 0 => \A a \in Aux : r \notin aux[a].internal

WholeOf(r) == Fresh(r) /\ Tables(r) /\ PlainOnce(r) /\ MergedOnce(r) /\ AsideOnce(r)
Whole == \A r \in Requests : WholeOf(r)

LEMMA GivenFinite ==
    ASSUME Typed, NEW r \in Requests
    PROVE  /\ Given(r) \cup Kept(r) \subseteq Aux
           /\ IsFiniteSet(Given(r) \cup Kept(r)) /\ Cardinality(Given(r) \cup Kept(r)) \in Nat
           /\ barrier[r].expected \in Nat /\ answers[r].count \in Nat
<1>1. req[r] \in ReqType /\ barrier[r] \in BarrierType /\ ShapeOf(r) /\ answers[r] \in AnswerType
    BY TypeFacts DEF Typed, Shape
<1>2. Given(r) \cup Kept(r) \subseteq Aux
    BY <1>1 DEF Given, Kept, ShapeOf, ReqType, BarrierType
<1>3. barrier[r].expected \in Nat /\ answers[r].count \in Nat
    BY <1>1, AuxCard DEF BarrierType, AnswerType
<1> QED BY <1>2, <1>3, Parts

(* A step that gives r no answer and puts it in no table. *)
LEMMA WholeKept ==
    ASSUME Typed, NEW r \in Requests, WholeOf(r), req'[r] = req[r], answers'[r] = answers[r],
           barrier'[r] = barrier[r] \/ ~barrier'[r].open,
           r \in pending' => r \in pending,
           \A a \in Aux : /\ aux'[a].alive => aux[a].alive
                          /\ r \in aux'[a].internal => r \in aux[a].internal
                          /\ r \in aux'[a].stdin => r \in aux[a].stdin
                          /\ r \in aux'[a].todo => r \in aux[a].todo \/ r \in aux[a].internal
    PROVE  WholeOf(r)'
<1>1. Fresh(r)' /\ Tables(r)' /\ PlainOnce(r)' /\ AsideOnce(r)'
    BY DEF WholeOf, Fresh, Tables, PlainOnce, AsideOnce
<1>2. MergedOnce(r)'
    <2>1. CASE ~barrier'[r].open
        BY <2>1 DEF WholeOf, MergedOnce
    <2>2. CASE barrier'[r] = barrier[r]
        <3>1. Given(r)' \subseteq Given(r) /\ Kept(r)' = Kept(r)
            BY <2>2 DEF Given, Kept
        <3>2. Given(r)' \cup Kept(r)' \subseteq Given(r) \cup Kept(r)
            BY <3>1
        <3>3. /\ Cardinality(Given(r)' \cup Kept(r)') <= Cardinality(Given(r) \cup Kept(r))
              /\ Cardinality(Given(r)' \cup Kept(r)') \in Nat
            BY <3>2, GivenFinite, FS_Subset, FS_CardinalityType
        <3>4. Given(r) \cap Kept(r) = {} => Given(r)' \cap Kept(r)' = {}
            BY <3>1
        <3> QED BY <2>2, <3>3, <3>4, GivenFinite DEF WholeOf, MergedOnce
    <2> QED BY <2>1, <2>2
<1> QED BY <1>1, <1>2 DEF WholeOf

LEMMA ClientsWhole ==
    ASSUME Typed, Whole, NEW c \in Clients, Find(c) \/ Subscribe(c) \/ Unsubscribe(c),
           NEW s \in Requests
    PROVE  WholeOf(s)'
<1> USE TypeFacts DEF Typed
<1>1. WholeOf(s) /\ ShapeOf(s) /\ req[s] \in ReqType
    BY DEF Whole, Shape
<1>2. CASE Find(c) \/ Subscribe(c)
    <2>1. UNCHANGED <<alive, atPrimary, aux, req, pending, barrier, answers>>
        BY <1>2 DEF Find, Subscribe
    <2> QED BY <1>1, <2>1, WholeKept
<1>3. CASE Unsubscribe(c)
    <2>1. ASSUME NEW a \in Aux
          PROVE  /\ aux'[a].alive = aux[a].alive
                 /\ aux'[a].stdin = aux[a].stdin /\ aux'[a].todo = aux[a].todo
                 /\ s \in aux'[a].internal => s \in aux[a].internal
        <3>1. aux'[a] = [aux[a] EXCEPT !.internal = {r \in @ : req[r].kind = "resolve" => r \notin Of(c)}]
            BY <1>3 DEF Unsubscribe
        <3> QED BY <3>1 DEF AuxType
    <2>2. /\ answers' = answers /\ pending' \subseteq pending
          /\ barrier'[s] = barrier[s] \/ ~barrier'[s].open
        BY <1>3 DEF Unsubscribe, NoBarrier
    <2>3. CASE req'[s] = req[s]
        BY <1>1, <2>1, <2>2, <2>3, WholeKept
    <2>4. CASE req'[s] # req[s]
        <3>1. s \in Of(c) /\ req[s].at = "sending" /\ req'[s] = [req[s] EXCEPT !.at = "failed"]
            BY <1>3, <2>4 DEF Unsubscribe
        <3>2. /\ req'[s].at = "failed" /\ req'[s].kind = req[s].kind
              /\ req[s].kind \in {"plain", "merged"}
            BY <1>1, <3>1 DEF ReqType, ShapeOf
        <3>3. ~barrier'[s].open
            BY <1>3, <3>1 DEF Unsubscribe, NoBarrier
        <3> QED BY <1>1, <2>1, <2>2, <3>2, <3>3 DEF WholeOf, Fresh, Tables, PlainOnce, MergedOnce, AsideOnce
    <2> QED BY <2>3, <2>4
<1> QED BY <1>2, <1>3

LEMMA HalfWhole ==
    ASSUME Typed, Whole, NEW c \in Clients, HalfUnsubscribe(c), NEW s \in Requests
    PROVE  WholeOf(s)'
<1>1. WholeOf(s) /\ ShapeOf(s) /\ req[s] \in ReqType
    BY TypeFacts DEF Typed, Whole, Shape
<1>2. CASE req'[s] = req[s]
    BY <1>1, <1>2, HalfEffect, WholeKept
<1>3. CASE req[s].at = "sending" /\ req'[s] = [req[s] EXCEPT !.at = "failed"]
    <2>1. /\ req'[s].at = "failed" /\ req'[s].kind = req[s].kind /\ req'[s].left = req[s].left
          /\ req[s].kind \in {"plain", "merged"}
        BY <1>1, <1>3 DEF ReqType, ShapeOf
    <2>2. UNCHANGED <<aux, barrier, answers>> /\ (s \in pending' => s \in pending)
        BY HalfEffect
    <2>3. Given(s)' = Given(s) /\ Kept(s)' = Kept(s)
        BY <1>3, <2>1, <2>2 DEF Given, Kept
    <2>4. Fresh(s)' /\ Tables(s)' /\ PlainOnce(s)' /\ AsideOnce(s)'
        BY <1>1, <2>1, <2>2 DEF WholeOf, Fresh, Tables, PlainOnce, AsideOnce
    <2>5. MergedOnce(s)'
        BY <1>1, <2>1, <2>2, <2>3 DEF WholeOf, MergedOnce
    <2> QED BY <2>4, <2>5 DEF WholeOf
<1> QED BY <1>2, <1>3, HalfEffect

LEMMA AskWhole ==
    ASSUME Typed, Whole, NEW r \in Requests, NEW c \in Clients, Ask(r, c), NEW s \in Requests
    PROVE  WholeOf(s)'
<1> USE TypeFacts DEF Typed
<1>1. /\ WholeOf(s) /\ ShapeOf(s)
      /\ UNCHANGED <<alive, atPrimary, aux, client, answers>> /\ req[r] = Unsent
      /\ pending' = pending \cup {r}
    BY DEF Whole, Shape, Ask, MayAsk
<1>2. CASE s # r
    <2>1. req'[s] = req[s] /\ barrier'[s] = barrier[s]
        BY <1>2 DEF Ask
    <2> QED BY <1>1, <1>2, <2>1, WholeKept
<1>3. CASE s = r
    <2>1. PICK k \in {"plain", "merged"} :
            /\ req' = [req EXCEPT ![r] = [@ EXCEPT !.at = "sending", !.kind = k, !.client = c,
                                                   !.left = IF k = "merged" THEN AliveAux ELSE {}]]
            /\ barrier' = IF k = "merged"
                          THEN [barrier EXCEPT ![r] = [open |-> TRUE, got |-> {},
                                                       expected |-> Cardinality(AliveAux) + 1]]
                          ELSE barrier
        BY DEF Ask
    <2>2. /\ req'[r].at = "sending" /\ req'[r].kind = k
          /\ k = "merged" => req'[r].left = AliveAux
        BY <2>1 DEF ReqType
    <2>3. /\ answers[r].count = 0 /\ ~answers[r].headless
          /\ \A a \in Aux : r \notin aux[a].internal /\ r \notin aux[a].stdin /\ r \notin aux[a].todo
        BY <1>1, <1>3 DEF WholeOf, Fresh, Unsent
    <2>4. ASSUME k = "merged"
          PROVE  /\ barrier'[r].got = {} /\ Given(r)' \cap Kept(r)' = {}
                 /\ Cardinality(Given(r)' \cup Kept(r)') < barrier'[r].expected
        <3>1. barrier'[r].got = {} /\ barrier'[r].expected = Cardinality(AliveAux) + 1
            BY <2>1, <2>4
        <3>2. Given(r)' = {} /\ Kept(r)' = AliveAux
            BY <1>1, <2>2, <2>3, <2>4, <3>1 DEF Given, Kept
        <3>3. Cardinality(AliveAux) \in Nat
            BY Parts DEF AliveAux
        <3> QED BY <3>1, <3>2, <3>3
    <2>5. Fresh(r)' /\ Tables(r)' /\ PlainOnce(r)' /\ AsideOnce(r)'
        BY <1>1, <2>2, <2>3 DEF Fresh, Tables, PlainOnce, AsideOnce
    <2>6. MergedOnce(r)'
        BY <1>1, <2>2, <2>3, <2>4 DEF MergedOnce
    <2> QED BY <1>3, <2>5, <2>6 DEF WholeOf
<1> QED BY <1>2, <1>3

LEMMA AskResolveWhole ==
    ASSUME Typed, Whole, NEW r \in Requests, NEW c \in Clients, AskResolve(r, c), NEW s \in Requests
    PROVE  WholeOf(s)'
<1> USE TypeFacts DEF Typed
<1>1. /\ WholeOf(s) /\ ShapeOf(s)
      /\ UNCHANGED <<alive, atPrimary, aux, client, pending, barrier>> /\ req[r] = Unsent
    BY DEF Whole, Shape, AskResolve, MayAsk
<1>2. CASE s # r
    <2>1. req'[s] = req[s] /\ answers'[s] = answers[s]
        BY <1>2 DEF AskResolve
    <2> QED BY <1>1, <1>2, <2>1, WholeKept
<1>3. CASE s = r
    <2>1. PICK a \in Aux :
            /\ req' = [req EXCEPT ![r] = [@ EXCEPT !.at = IF aux[a].alive THEN "registering" ELSE "sent",
                                                   !.kind = "resolve", !.client = c, !.on = a]]
            /\ answers' = [answers EXCEPT ![r].count = IF aux[a].alive THEN @ ELSE @ + 1]
        BY DEF AskResolve
    <2>2. /\ req'[r].at = (IF aux[a].alive THEN "registering" ELSE "sent") /\ req'[r].kind = "resolve"
          /\ answers'[r].headless = answers[r].headless
          /\ aux[a].alive => answers'[r].count = answers[r].count
        BY <2>1 DEF ReqType, AnswerType
    <2>3. /\ answers[r].count = 0 /\ ~answers[r].headless /\ r \notin pending
          /\ \A b \in Aux : r \notin aux[b].internal /\ r \notin aux[b].stdin /\ r \notin aux[b].todo
        BY <1>1, <1>3 DEF WholeOf, Fresh, Unsent
    <2> QED BY <1>1, <1>3, <2>2, <2>3 DEF WholeOf, Fresh, Tables, PlainOnce, MergedOnce, AsideOnce
<1> QED BY <1>2, <1>3

LEMMA SendPrimaryWhole ==
    ASSUME Typed, Whole, NEW r \in Requests, SendPrimary(r), NEW s \in Requests
    PROVE  WholeOf(s)'
<1> USE TypeFacts DEF Typed
<1>1. /\ WholeOf(s) /\ ShapeOf(s) /\ req[r] \in ReqType /\ req[r].at = "sending"
      /\ UNCHANGED <<alive, aux, client, pending, answers>>
    BY DEF Whole, Shape, SendPrimary
<1>2. CASE s # r
    <2>1. req'[s] = req[s] /\ barrier'[s] = barrier[s]
        BY <1>2 DEF SendPrimary
    <2> QED BY <1>1, <1>2, <2>1, WholeKept
<1>3. CASE s = r
    <2>1. /\ req'[r].at \in {"fanning", "sent", "failed"}
          /\ req'[r].kind = req[r].kind /\ req'[r].left = req[r].left
          /\ req[r].kind \in {"plain", "merged"}
        <3>1. PICK w \in {"fanning", "sent", "failed"} : req' = [req EXCEPT ![r].at = w]
            BY DEF SendPrimary
        <3> QED BY <1>1, <1>3, <3>1 DEF ReqType, ShapeOf
    <2>2. barrier'[r] = barrier[r] \/ ~barrier'[r].open
        BY DEF SendPrimary, NoBarrier
    <2>3. \/ /\ Given(r)' \cup Kept(r)' = Given(r) \cup Kept(r)
             /\ Given(r)' = Given(r) /\ Kept(r)' = Kept(r)
          \/ ~barrier'[r].open
        BY <1>1, <2>1, <2>2 DEF Given, Kept
    <2>4. Fresh(r)' /\ Tables(r)' /\ PlainOnce(r)' /\ AsideOnce(r)'
        BY <1>1, <1>3, <2>1 DEF WholeOf, Fresh, Tables, PlainOnce, AsideOnce
    <2>5. MergedOnce(r)'
        BY <1>1, <1>3, <2>1, <2>2, <2>3 DEF WholeOf, MergedOnce
    <2> QED BY <1>3, <2>4, <2>5 DEF WholeOf
<1> QED BY <1>2, <1>3

LEMMA FanWhole ==
    ASSUME Typed, Whole, NEW r \in Requests, Fan(r), NEW s \in Requests
    PROVE  WholeOf(s)'
<1> USE TypeFacts DEF Typed
<1>1. /\ WholeOf(s) /\ ShapeOf(s) /\ req[r] \in ReqType /\ req[r].at = "fanning"
      /\ UNCHANGED <<alive, atPrimary, aux, client, pending, answers>>
    BY DEF Whole, Shape, Fan
<1>2. CASE s # r
    <2>1. req'[s] = req[s] /\ barrier'[s] = barrier[s]
        BY <1>2 DEF Fan, Abandoned
    <2> QED BY <1>1, <1>2, <2>1, WholeKept
<1>3. CASE s = r
    <2>0. req[r].kind = "merged" /\ ~req[r].refused
        BY <1>1, <1>3 DEF ShapeOf
    <2>1. PICK a \in req[r].left :
            \/ /\ req' = [req EXCEPT ![r] = [@ EXCEPT !.at = "registering", !.on = a,
                                                      !.left = req[r].left \ {a}]]
               /\ UNCHANGED barrier
            \/ /\ ~aux[a].alive
               /\ req' = [req EXCEPT ![r].left = @ \ {a}]
        BY DEF Fan
    <2>2. a \in Aux
        BY <1>1 DEF ReqType
    <2>3. CASE /\ req' = [req EXCEPT ![r] = [@ EXCEPT !.at = "registering", !.on = a,
                                                      !.left = req[r].left \ {a}]]
               /\ UNCHANGED barrier
        <3>1. /\ req'[r].at = "registering" /\ req'[r].on = a /\ req'[r].left = req[r].left \ {a}
              /\ req'[r].kind = "merged"
            BY <1>1, <2>0, <2>3 DEF ReqType
        <3>2. Given(r)' = Given(r) /\ Kept(r)' = Kept(r)
            BY <1>1, <2>3, <3>1 DEF Given, Kept
        <3> QED BY <1>1, <1>3, <2>0, <2>3, <3>1, <3>2
                DEF WholeOf, Fresh, Tables, PlainOnce, MergedOnce, AsideOnce
    <2>4. CASE ~aux[a].alive /\ req' = [req EXCEPT ![r].left = @ \ {a}]
        <3>1. req'[r].at = "fanning" /\ req'[r].kind = "merged"
            BY <1>1, <2>0, <2>4 DEF ReqType
        <3> QED BY <1>1, <1>3, <2>0, <2>2, <2>4, <3>1
                DEF WholeOf, Fresh, Tables, PlainOnce, MergedOnce, AsideOnce
    <2> QED BY <2>1, <2>3, <2>4
<1> QED BY <1>2, <1>3

LEMMA RegisterWhole ==
    ASSUME Typed, Whole, ReadersDown, NEW r \in Requests, Register(r), NEW s \in Requests
    PROVE  WholeOf(s)'
<1> USE TypeFacts DEF Typed
<1> DEFINE a == req[r].on
<1>1. /\ WholeOf(s) /\ ShapeOf(s) /\ req[r].at = "registering"
    BY DEF Whole, Shape, Register
<1>2. /\ a \in Aux
      /\ UNCHANGED <<alive, atPrimary, client, pending, barrier, answers>>
      /\ \A t \in Requests \ {r} : req'[t] = req[t]
      /\ \A b \in Aux \ {a} : aux'[b] = aux[b]
      /\ req'[r].at = "checking" /\ req'[r].kind = req[r].kind /\ req'[r].left = req[r].left
      /\ req'[r].on = a
      /\ aux'[a].alive = aux[a].alive /\ aux'[a].reader = aux[a].reader /\ aux'[a].todo = aux[a].todo
      /\ aux'[a].internal = aux[a].internal \cup {r}
      /\ aux'[a].stdin = IF req'[r].refused \/ aux[a].reader # "reading"
                         THEN aux[a].stdin ELSE aux[a].stdin \cup {r}
    BY RegisterEffect
<1> HIDE DEF a
<1>3. CASE s # r
    <2>1. \A b \in Aux : /\ aux'[b].alive = aux[b].alive
                         /\ s \in aux'[b].internal => s \in aux[b].internal
                         /\ s \in aux'[b].stdin => s \in aux[b].stdin
                         /\ aux'[b].todo = aux[b].todo
        BY <1>2, <1>3
    <2> QED BY <1>1, <1>2, <1>3, <2>1, WholeKept
<1>4. CASE s = r
    <2>1. req[r].kind # "plain"
        BY <1>1, <1>4 DEF WholeOf, Tables
    <2>2. Fresh(r)' /\ Tables(r)' /\ PlainOnce(r)'
        BY <1>1, <1>2, <1>4, <2>1 DEF WholeOf, Fresh, Tables, PlainOnce, a
    <2>3. AsideOnce(r)'
        BY <1>1, <1>2, <1>4 DEF WholeOf, AsideOnce
    <2>4. MergedOnce(r)'
        <3> SUFFICES ASSUME req'[r].kind = "merged", \A b \in Aux : aux'[b].alive PROVE MergedOnce(r)'
            BY DEF MergedOnce
        <3>1. \A b \in Aux : aux[b].alive
            BY <1>2
        <3>2. /\ answers[r].count <= 1 /\ ~answers[r].headless
              /\ answers[r].count > 0 => r \notin pending
              /\ barrier[r].open =>
                    /\ answers[r].count = 0
                    /\ Cardinality(Given(r) \cup Kept(r)) < barrier[r].expected
                    /\ Given(r) \cap Kept(r) = {}
                    /\ Primary \in barrier[r].got => r \notin pending
            BY <1>1, <1>2, <1>4, <3>1 DEF WholeOf, MergedOnce
        <3>3. a \in Kept(r) /\ Kept(r) = req[r].left \cup {a} /\ a \notin req[r].left
            BY <1>1, <1>4 DEF Kept, a, ShapeOf
        <3>4. CASE req'[r].refused
            <4>1. Given(r)' = Given(r) /\ Kept(r)' = Kept(r)
                BY <1>1, <1>2, <3>3, <3>4 DEF Given, Kept, a
            <4> QED BY <1>2, <3>2, <4>1 DEF MergedOnce
        <3>5. CASE ~req'[r].refused
            <4>1. aux'[a].stdin = aux[a].stdin \cup {r}
                BY <1>2, <3>1, <3>5 DEF ReadersDown
            <4>2. Given(r)' = Given(r) \cup {a} /\ Kept(r)' = Kept(r) \ {a}
                BY <1>2, <3>3, <3>5, <4>1 DEF Given, Kept
            <4>3. Given(r)' \cup Kept(r)' = Given(r) \cup Kept(r)
                BY <3>3, <4>2
            <4>4. Given(r) \cap Kept(r) = {} => Given(r)' \cap Kept(r)' = {}
                BY <4>2
            <4> QED BY <1>2, <3>2, <4>3, <4>4 DEF MergedOnce
        <3> QED BY <3>4, <3>5
    <2> QED BY <1>4, <2>2, <2>3, <2>4 DEF WholeOf
<1> QED BY <1>3, <1>4

LEMMA CheckWhole ==
    ASSUME Typed, Whole, NEW r \in Requests, Check(r), NEW s \in Requests
    PROVE  WholeOf(s)'
<1> USE TypeFacts DEF Typed
<1> DEFINE a == req[r].on
<1>1. /\ WholeOf(s) /\ ShapeOf(s) /\ req[r].at = "checking"
    BY DEF Whole, Shape, Check
<1>2. /\ a \in Aux
      /\ UNCHANGED <<alive, atPrimary, client, pending>>
      /\ \A t \in Requests \ {r} : req'[t] = req[t]
      /\ req'[r].at = (IF req[r].kind = "merged" THEN "fanning" ELSE "sent")
      /\ req'[r].kind = req[r].kind /\ req'[r].left = req[r].left /\ req'[r].on = a
      /\ \/ ~CheckOut(r) /\ UNCHANGED <<aux, barrier, answers>>
         \/ /\ CheckOut(r)
            /\ \A b \in Aux \ {a} : aux'[b] = aux[b]
            /\ aux'[a].internal = aux[a].internal \ {r}
            /\ aux'[a].alive = aux[a].alive /\ aux'[a].reader = aux[a].reader
            /\ aux'[a].todo = aux[a].todo /\ aux'[a].stdin = aux[a].stdin
            /\ \/ req[r].kind = "merged" /\ barrier' = Abandoned(r) /\ UNCHANGED answers
               \/ req[r].kind # "merged" /\ Answered({r}, FALSE) /\ UNCHANGED barrier
    BY CheckEffect
<1> HIDE DEF a
<1>3. \A b \in Aux : /\ aux'[b].alive = aux[b].alive /\ aux'[b].stdin = aux[b].stdin
                     /\ aux'[b].todo = aux[b].todo
                     /\ \A t \in Requests : t \in aux'[b].internal => t \in aux[b].internal
    BY <1>2
<1>4. CASE s # r
    <2>1. barrier'[s] = barrier[s] /\ req'[s] = req[s] /\ answers'[s] = answers[s]
        <3>1. CASE Answered({r}, FALSE) /\ UNCHANGED barrier
            BY <1>2, <1>4, <3>1, AnsweredEffect
        <3> QED BY <1>2, <1>4, <3>1 DEF Abandoned
    <2> QED BY <1>1, <1>2, <1>3, <1>4, <2>1, WholeKept
<1>5. CASE s = r
    <2>1. req[r].kind # "plain" /\ req'[r].at \notin {"unsent", "registering", "checking"}
        BY <1>1, <1>2, <1>5 DEF WholeOf, Tables
    <2>2. Fresh(r)' /\ Tables(r)' /\ PlainOnce(r)'
        BY <1>1, <1>2, <1>3, <1>5, <2>1 DEF WholeOf, Fresh, Tables, PlainOnce, a
    <2>3. AsideOnce(r)'
        <3> SUFFICES ASSUME req[r].kind \in {"resolve", "forward"}, \A b \in Aux : aux[b].alive
                     PROVE  AsideOnce(r)'
            BY <1>2, <1>3 DEF AsideOnce
        <3>1. CASE ~CheckOut(r)
            BY <1>1, <1>2, <1>5, <2>1, <3>1 DEF WholeOf, AsideOnce
        <3>2. CASE CheckOut(r)
            <4>1. req[r].refused /\ Answered({r}, FALSE)
                BY <1>2, <3>2 DEF CheckOut, a
            <4>2. answers[r].count = 0 /\ ~answers[r].headless
                BY <1>1, <1>5, <4>1 DEF WholeOf, AsideOnce
            <4>3. answers'[r].count <= 1 /\ ~answers'[r].headless
                BY <4>1, <4>2, AnsweredOnce
            <4>4. \A b \in Aux : r \notin aux'[b].internal
                BY <1>1, <1>2, <1>5, <3>2 DEF WholeOf, Tables, a
            <4> QED BY <2>1, <4>3, <4>4 DEF AsideOnce
        <3> QED BY <3>1, <3>2
    <2>4. MergedOnce(r)'
        <3> SUFFICES ASSUME req[r].kind = "merged", \A b \in Aux : aux[b].alive
                     PROVE  MergedOnce(r)'
            BY <1>2, <1>3 DEF MergedOnce
        <3>1. /\ answers[r].count <= 1 /\ ~answers[r].headless
              /\ answers[r].count > 0 => r \notin pending
              /\ barrier[r].open =>
                    /\ answers[r].count = 0
                    /\ Cardinality(Given(r) \cup Kept(r)) < barrier[r].expected
                    /\ Given(r) \cap Kept(r) = {}
                    /\ Primary \in barrier[r].got => r \notin pending
            BY <1>1, <1>5 DEF WholeOf, MergedOnce
        <3>2. answers' = answers
            BY <1>2
        <3>3. CASE ~CheckOut(r)
            <4>1. ~req[r].refused
                BY <3>3 DEF CheckOut
            <4>2. Given(r)' = Given(r) /\ Kept(r)' = Kept(r)
                BY <1>1, <1>2, <2>1, <3>3, <4>1 DEF Given, Kept
            <4> QED BY <1>2, <3>1, <3>3, <4>2 DEF MergedOnce
        <3>4. CASE CheckOut(r)
            <4>1. req[r].refused /\ barrier' = Abandoned(r)
                BY <1>2, <3>4 DEF CheckOut, a
            <4>2. /\ barrier'[r].open = barrier[r].open /\ barrier'[r].got = barrier[r].got
                  /\ barrier[r].open => barrier'[r].expected = barrier[r].expected - 1
                BY <4>1 DEF Abandoned, BarrierType
            <4>3. a \in Kept(r) /\ Kept(r)' = Kept(r) \ {a} /\ Given(r)' = Given(r)
                BY <1>1, <1>2, <1>3, <1>5, <2>1, <4>1, <4>2 DEF Given, Kept, ShapeOf, a
            <4>4. Given(r) \cap Kept(r) = {} =>
                    /\ Given(r)' \cup Kept(r)' = (Given(r) \cup Kept(r)) \ {a}
                    /\ Given(r)' \cap Kept(r)' = {}
                BY <4>3
            <4>5. Cardinality((Given(r) \cup Kept(r)) \ {a}) = Cardinality(Given(r) \cup Kept(r)) - 1
                BY <4>3, GivenFinite, FS_RemoveElement
            <4>6. barrier[r].open => Cardinality(Given(r)' \cup Kept(r)') < barrier'[r].expected
                <5>1. barrier[r].open =>
                        Cardinality(Given(r)' \cup Kept(r)') = Cardinality(Given(r) \cup Kept(r)) - 1
                    BY <3>1, <4>4, <4>5
                <5>2. Cardinality(Given(r) \cup Kept(r)) \in Nat /\ barrier[r].expected \in Nat
                    BY GivenFinite
                <5> QED BY <3>1, <4>2, <5>1, <5>2
            <4> QED BY <1>2, <3>1, <3>2, <4>2, <4>4, <4>6 DEF MergedOnce
        <3> QED BY <3>3, <3>4
    <2> QED BY <1>5, <2>2, <2>3, <2>4 DEF WholeOf
<1> QED BY <1>4, <1>5

(* While all auxiliaries are up, the parts that reach the count hold the primary's. *)
LEMMA LastIsWhole ==
    ASSUME Typed, NEW r \in Requests, barrier[r].open,
           Cardinality(Given(r) \cup Kept(r)) < barrier[r].expected,
           NEW S, S \subseteq Given(r) \cup {Primary}, Cardinality(S) >= barrier[r].expected
    PROVE  Primary \in S
<1> SUFFICES ASSUME Primary \notin S PROVE FALSE
    OBVIOUS
<1>1. S \subseteq Given(r) \cup Kept(r)
    OBVIOUS
<1>2. Cardinality(S) <= Cardinality(Given(r) \cup Kept(r)) /\ Cardinality(S) \in Nat
    BY <1>1, GivenFinite, FS_Subset, FS_CardinalityType
<1> QED BY <1>2, GivenFinite

LEMMA FanEndsWhole ==
    ASSUME Typed, Whole, NEW r \in Requests, FanEnds(r), NEW s \in Requests
    PROVE  WholeOf(s)'
<1> USE TypeFacts DEF Typed
<1>1. /\ WholeOf(s) /\ ShapeOf(s) /\ req[r] \in ReqType /\ req[r].at = "fanning" /\ req[r].left = {}
      /\ UNCHANGED <<alive, atPrimary, aux, client, pending>>
      /\ req' = [req EXCEPT ![r].at = "sent"]
    BY DEF Whole, Shape, FanEnds
<1>2. CASE s # r
    <2>1. req'[s] = req[s] /\ barrier'[s] = barrier[s]
        BY <1>1, <1>2 DEF FanEnds, Complete
    <2>2. answers'[s] = answers[s]
        BY <1>2 DEF FanEnds, Complete, Answered
    <2> QED BY <1>1, <1>2, <2>1, <2>2, WholeKept
<1>3. CASE s = r
    <2>1. req'[r].at = "sent" /\ req'[r].kind = "merged" /\ req'[r].left = {} /\ req[r].kind = "merged"
          /\ ~req'[r].refused /\ ~req[r].refused
        BY <1>1, <1>3 DEF ReqType, ShapeOf
    <2>2. Fresh(r)' /\ Tables(r)' /\ PlainOnce(r)' /\ AsideOnce(r)'
        BY <1>1, <1>3, <2>1 DEF WholeOf, Fresh, Tables, PlainOnce, AsideOnce
    <2>3. MergedOnce(r)'
        <3> SUFFICES ASSUME \A b \in Aux : aux[b].alive
                     PROVE  MergedOnce(r)'
            BY <1>1 DEF MergedOnce
        <3>1. /\ answers[r].count <= 1 /\ ~answers[r].headless
              /\ answers[r].count > 0 => r \notin pending
              /\ barrier[r].open =>
                    /\ answers[r].count = 0
                    /\ Cardinality(Given(r) \cup Kept(r)) < barrier[r].expected
                    /\ Given(r) \cap Kept(r) = {}
                    /\ Primary \in barrier[r].got => r \notin pending
            BY <1>1, <1>3, <2>1 DEF WholeOf, MergedOnce
        <3>2. CASE UNCHANGED <<barrier, answers>>
            <4>1. Given(r)' = Given(r) /\ Kept(r)' = Kept(r)
                BY <1>1, <2>1, <3>2 DEF Given, Kept
            <4> QED BY <1>1, <3>1, <3>2, <4>1 DEF MergedOnce
        <3>3. CASE ~UNCHANGED <<barrier, answers>>
            <4>1. /\ barrier[r].open /\ Cardinality(barrier[r].got) >= barrier[r].expected
                  /\ Complete(r, barrier[r].got)
                BY <3>3 DEF FanEnds
            <4>2. barrier[r].got \subseteq Given(r) \cup {Primary}
                BY DEF Given
            <4>3. Primary \in barrier[r].got
                BY <3>1, <4>1, <4>2, LastIsWhole
            <4>4. Answered({r}, FALSE) /\ ~barrier'[r].open
                BY <4>1, <4>3 DEF Complete, NoBarrier
            <4>5. answers'[r].count <= 1 /\ ~answers'[r].headless
                BY <3>1, <4>1, <4>4, AnsweredOnce
            <4> QED BY <1>1, <3>1, <4>1, <4>3, <4>4, <4>5 DEF MergedOnce
        <3> QED BY <3>2, <3>3
    <2> QED BY <1>3, <2>2, <2>3 DEF WholeOf
<1> QED BY <1>2, <1>3

LEMMA PrimaryAsksWhole ==
    ASSUME Typed, Whole, NEW r \in Requests, PrimaryAsks(r), NEW s \in Requests
    PROVE  WholeOf(s)'
<1> USE TypeFacts DEF Typed
<1>1. /\ WholeOf(s) /\ req[s] \in ReqType
      /\ UNCHANGED <<alive, atPrimary, aux, client, pending, barrier>> /\ req[r] = Unsent
    BY DEF Whole, PrimaryAsks
<1>2. CASE s # r
    <2>1. req'[s] = req[s] /\ answers'[s] = answers[s]
        BY <1>2 DEF PrimaryAsks
    <2> QED BY <1>1, <1>2, <2>1, WholeKept
<1>3. CASE s = r
    <2>1. /\ answers[r].count = 0 /\ ~answers[r].headless /\ r \notin pending
          /\ \A b \in Aux : r \notin aux[b].internal /\ r \notin aux[b].stdin /\ r \notin aux[b].todo
        BY <1>1, <1>3 DEF WholeOf, Fresh, Unsent
    <2>2. CASE /\ req' = [req EXCEPT ![r] = [@ EXCEPT !.at = "sent", !.kind = "forward"]]
               /\ answers' = [answers EXCEPT ![r].count = @ + 1]
        <3>1. /\ req'[r].at = "sent" /\ req'[r].kind = "forward"
              /\ answers'[r].count = answers[r].count + 1 /\ answers'[r].headless = answers[r].headless
            BY <2>2 DEF ReqType, AnswerType
        <3>2. answers'[r].count <= 1
            BY <2>1, <3>1
        <3> QED BY <1>1, <1>3, <2>1, <3>1, <3>2
                DEF WholeOf, Fresh, Tables, PlainOnce, MergedOnce, AsideOnce
    <2>3. ASSUME NEW a \in AliveAux, UNCHANGED answers,
                 req' = [req EXCEPT ![r] = [@ EXCEPT !.at = "registering", !.kind = "forward", !.on = a]]
          PROVE  WholeOf(r)'
        <3>1. req'[r].at = "registering" /\ req'[r].kind = "forward"
            BY <2>3 DEF ReqType
        <3> QED BY <1>1, <2>1, <2>3, <3>1 DEF WholeOf, Fresh, Tables, PlainOnce, MergedOnce, AsideOnce
    <2> QED BY <1>3, <2>2, <2>3 DEF PrimaryAsks
<1> QED BY <1>2, <1>3

(* A part of an open merge, while all auxiliaries are up. *)
LEMMA PartWhole ==
    ASSUME Typed, NEW r \in Requests, NEW p \in Aux \cup {Primary}, Part(r, p), barrier[r].open,
           answers[r].count = 0, ~answers[r].headless,
           Cardinality(Given(r) \cup Kept(r)) < barrier[r].expected,
           p \in Given(r) \cup {Primary}
    PROVE  /\ answers'[r].count <= 1 /\ ~answers'[r].headless
           /\ \/ barrier'[r].open /\ answers'[r] = answers[r]
                 /\ barrier'[r].got = barrier[r].got \cup {p}
                 /\ barrier'[r].expected = barrier[r].expected
              \/ ~barrier'[r].open /\ Primary \in barrier[r].got \cup {p}
<1> USE TypeFacts DEF Typed
<1>1. CASE barrier'[r].open
    <2>1. /\ barrier'[r].expected = barrier[r].expected
          /\ barrier'[r].got = barrier[r].got \cup {p}
        BY <1>1, PartFed
    <2>2. barrier'[r] # NoBarrier
        BY <1>1 DEF NoBarrier
    <2>3. UNCHANGED answers
        BY <2>2, PartEffect
    <2> QED BY <1>1, <2>1, <2>3
<1>2. CASE ~barrier'[r].open
    <2>1. barrier'[r] # [barrier[r] EXCEPT !.got = @ \cup {p}]
        BY <1>2 DEF BarrierType
    <2>2. /\ Cardinality(barrier[r].got \cup {p}) >= barrier[r].expected
          /\ Answered({r}, Primary \notin barrier[r].got \cup {p})
        BY <2>1, PartEffect
    <2>3. barrier[r].got \cup {p} \subseteq Given(r) \cup {Primary}
        BY DEF Given
    <2>4. Primary \in barrier[r].got \cup {p}
        <3> DEFINE S == barrier[r].got \cup {p}
        <3>1. S \subseteq Given(r) \cup {Primary} /\ Cardinality(S) >= barrier[r].expected
            BY <2>2, <2>3
        <3> HIDE DEF S
        <3>2. Primary \in S
            BY <3>1, LastIsWhole
        <3> QED BY <3>2 DEF S
    <2>5. Answered({r}, FALSE)
        BY <2>2, <2>4
    <2> QED BY <1>2, <2>4, <2>5, AnsweredOnce
<1> QED BY <1>1, <1>2

LEMMA PrimaryAnswersWhole ==
    ASSUME Typed, Whole, NEW r \in Requests, PrimaryAnswers(r), NEW s \in Requests
    PROVE  WholeOf(s)'
<1> USE TypeFacts DEF Typed
<1>1. /\ WholeOf(s) /\ ShapeOf(s)
      /\ UNCHANGED <<alive, aux, client, req>>
      /\ pending' = pending \ {r}
    BY DEF Whole, Shape, PrimaryAnswers
<1>2. \/ \E err \in BOOLEAN : PrimaryPart(r, err)
      \/ ~barrier[r].open /\ r \in pending /\ Answered({r}, FALSE) /\ UNCHANGED barrier
      \/ ~barrier[r].open /\ r \notin pending /\ UNCHANGED <<barrier, answers>>
    BY DEF PrimaryAnswers
<1>3. CASE s # r
    <2>1. barrier'[s] = barrier[s] /\ answers'[s] = answers[s]
        <3>1. ASSUME NEW err \in BOOLEAN, PrimaryPart(r, err)
              PROVE  barrier'[s] = barrier[s] /\ answers'[s] = answers[s]
            BY <1>3, <3>1, PrimaryPartEffect
        <3>2. CASE Answered({r}, FALSE) /\ UNCHANGED barrier
            BY <1>3, <3>2 DEF Answered
        <3> QED BY <1>2, <3>1, <3>2
    <2> QED BY <1>1, <1>3, <2>1, WholeKept
<1>4. CASE s = r /\ ~barrier[r].open /\ r \notin pending /\ UNCHANGED <<barrier, answers>>
    BY <1>1, <1>4, WholeKept
<1>5. CASE s = r /\ ~barrier[r].open /\ r \in pending /\ Answered({r}, FALSE) /\ UNCHANGED barrier
    <2>1. req[r].at # "unsent" /\ req[r].kind \notin {"resolve", "forward"}
        BY <1>1, <1>5 DEF WholeOf, Fresh, Tables
    <2>2. (req[r].kind = "plain" \/ \A a \in Aux : aux[a].alive) =>
            answers[r].count = 0 /\ ~answers[r].headless
        <3>1. answers[r].count \in Nat
            BY GivenFinite
        <3>2. req[r].kind \in {"plain", "merged"}
            BY <2>1 DEF ReqType, Kinds
        <3>3. (req[r].kind = "plain" \/ \A a \in Aux : aux[a].alive) =>
                ~(answers[r].count > 0) /\ ~answers[r].headless
            BY <1>1, <1>5, <3>2 DEF WholeOf, PlainOnce, MergedOnce
        <3> QED BY <3>1, <3>3
    <2>3. (req[r].kind = "plain" \/ \A a \in Aux : aux[a].alive) =>
            answers'[r].count <= 1 /\ ~answers'[r].headless
        BY <1>5, <2>2, AnsweredOnce
    <2>4. r \notin pending' /\ ~barrier'[r].open
        BY <1>1, <1>5
    <2> QED BY <1>1, <1>5, <2>1, <2>3, <2>4 DEF WholeOf, Fresh, Tables, PlainOnce, MergedOnce, AsideOnce
<1>6. ASSUME NEW err \in BOOLEAN, PrimaryPart(r, err), s = r PROVE WholeOf(r)'
    <2>1. barrier[r].open /\ req[r].kind = "merged" /\ req[r].at # "unsent"
        <3>1. barrier[r].open
            BY <1>6 DEF PrimaryPart
        <3> QED BY <1>1, <1>6, <3>1 DEF ShapeOf, Unsent
    <2>2. Fresh(r)' /\ Tables(r)' /\ PlainOnce(r)' /\ AsideOnce(r)'
        BY <1>1, <1>6, <2>1 DEF WholeOf, Fresh, Tables, PlainOnce, AsideOnce
    <2>3. MergedOnce(r)'
        <3> SUFFICES ASSUME \A b \in Aux : aux[b].alive
                     PROVE  MergedOnce(r)'
            BY <1>1 DEF MergedOnce
        <3>1. /\ answers[r].count <= 1 /\ ~answers[r].headless /\ answers[r].count = 0
              /\ Cardinality(Given(r) \cup Kept(r)) < barrier[r].expected
              /\ Given(r) \cap Kept(r) = {}
            BY <1>1, <1>6, <2>1 DEF WholeOf, MergedOnce
        <3>2. r \notin pending'
            BY <1>1
        <3>3. CASE err
            <4>1. ~barrier'[r].open /\ Answered({r}, FALSE)
                <5>1. barrier' = [barrier EXCEPT ![r] = NoBarrier] /\ Answered({r}, FALSE)
                    BY <1>6, <3>3 DEF PrimaryPart
                <5> QED BY <5>1 DEF NoBarrier
            <4>2. answers'[r].count <= 1 /\ ~answers'[r].headless
                BY <3>1, <4>1, AnsweredOnce
            <4> QED BY <3>2, <4>1, <4>2 DEF MergedOnce
        <3>4. CASE ~err
            <4>1. Part(r, Primary)
                BY <1>6, <3>4 DEF PrimaryPart
            <4>2. /\ answers'[r].count <= 1 /\ ~answers'[r].headless
                  /\ \/ barrier'[r].open /\ answers'[r] = answers[r]
                        /\ barrier'[r].got = barrier[r].got \cup {Primary}
                        /\ barrier'[r].expected = barrier[r].expected
                     \/ ~barrier'[r].open
                BY <2>1, <3>1, <4>1, PartWhole
            <4>3. CASE ~barrier'[r].open
                BY <3>2, <4>2, <4>3 DEF MergedOnce
            <4>4. CASE barrier'[r].open
                <5>1. Given(r)' = Given(r) /\ Kept(r)' = Kept(r)
                    BY <1>1, <4>2, <4>4 DEF Given, Kept
                <5> QED BY <3>1, <3>2, <4>2, <4>4, <5>1 DEF MergedOnce
            <4> QED BY <4>3, <4>4
        <3> QED BY <3>3, <3>4
    <2> QED BY <2>2, <2>3 DEF WholeOf
<1> QED BY <1>2, <1>3, <1>4, <1>5, <1>6

LEMMA AuxAnswersWhole ==
    ASSUME Typed, Whole, NEW a \in Aux, NEW r \in Requests, AuxAnswers(a, r), NEW s \in Requests
    PROVE  WholeOf(s)'
<1> USE TypeFacts DEF Typed
<1>1. WholeOf(s) /\ ShapeOf(s)
    BY DEF Whole, Shape
<1>2. /\ UNCHANGED <<alive, atPrimary, client, req, pending>>
      /\ \A b \in Aux \ {a} : aux'[b] = aux[b]
      /\ aux[a].reader = "reading" /\ r \in aux[a].stdin
      /\ aux'[a].stdin = aux[a].stdin \ {r} /\ aux'[a].internal = aux[a].internal \ {r}
      /\ aux'[a].alive = aux[a].alive /\ aux'[a].todo = aux[a].todo
    BY AuxAnswersEffect
<1>3. \/ r \notin aux[a].internal /\ UNCHANGED <<barrier, answers>>
      \/ r \in aux[a].internal /\ req[r].kind = "merged" /\ Part(r, a)
      \/ r \in aux[a].internal /\ req[r].kind # "merged" /\ Answered({r}, FALSE) /\ UNCHANGED barrier
    BY DEF AuxAnswers
<1>4. \A b \in Aux : /\ aux'[b].alive = aux[b].alive
                     /\ s \in aux'[b].internal => s \in aux[b].internal
                     /\ s \in aux'[b].stdin => s \in aux[b].stdin
                     /\ aux'[b].todo = aux[b].todo
    BY <1>2
<1>5. CASE UNCHANGED <<barrier, answers>>
    BY <1>1, <1>2, <1>4, <1>5, WholeKept
<1>6. CASE s # r
    <2>1. barrier'[s] = barrier[s] /\ answers'[s] = answers[s]
        <3>1. CASE Part(r, a)
            BY <1>6, <3>1, PartEffect
        <3>2. CASE Answered({r}, FALSE) /\ UNCHANGED barrier
            BY <1>6, <3>2 DEF Answered
        <3> QED BY <1>3, <3>1, <3>2
    <2> QED BY <1>1, <1>2, <1>4, <1>6, <2>1, WholeKept
<1>7. CASE s = r /\ r \in aux[a].internal /\ req[r].kind # "merged" /\ Answered({r}, FALSE) /\ UNCHANGED barrier
    <2>1. req[r].kind # "plain" /\ req[r].at # "unsent"
        BY <1>1, <1>7 DEF WholeOf, Tables, Fresh
    <2>2. req[r].kind \in {"resolve", "forward"}
        BY <1>7, <2>1 DEF ReqType, Kinds
    <2>3. \A b \in Aux : r \notin aux'[b].internal
        BY <1>1, <1>2, <1>7, <2>2 DEF WholeOf, Tables
    <2>4. AsideOnce(r)'
        <3> SUFFICES ASSUME \A b \in Aux : aux[b].alive
                     PROVE  AsideOnce(r)'
            BY <1>2, <1>4 DEF AsideOnce
        <3>1. /\ req[r].at # "registering" /\ ~(req[r].at = "checking" /\ req[r].refused)
              /\ ~(answers[r].count > 0) /\ ~answers[r].headless
            BY <1>1, <1>2, <1>7, <2>2 DEF WholeOf, AsideOnce
        <3>2. answers[r].count = 0
            <4>1. answers[r].count \in Nat
                BY GivenFinite
            <4> QED BY <3>1, <4>1
        <3>3. answers'[r].count <= 1 /\ ~answers'[r].headless
            BY <1>7, <3>1, <3>2, AnsweredOnce
        <3> QED BY <1>2, <2>3, <3>1, <3>3 DEF AsideOnce
    <2> QED BY <1>1, <1>2, <1>4, <1>7, <2>1, <2>2, <2>3, <2>4
            DEF WholeOf, Fresh, Tables, PlainOnce, MergedOnce
<1>8. CASE s = r /\ r \in aux[a].internal /\ req[r].kind = "merged" /\ Part(r, a)
    <2>1. req[r].at # "unsent"
        BY <1>1, <1>8 DEF WholeOf, Fresh
    <2>2. Fresh(r)' /\ Tables(r)' /\ PlainOnce(r)' /\ AsideOnce(r)'
        BY <1>1, <1>2, <1>4, <1>8, <2>1 DEF WholeOf, Fresh, Tables, PlainOnce, AsideOnce
    <2>3. MergedOnce(r)'
        <3> SUFFICES ASSUME \A b \in Aux : aux[b].alive
                     PROVE  MergedOnce(r)'
            BY <1>2, <1>4 DEF MergedOnce
        <3>1. /\ answers[r].count <= 1 /\ ~answers[r].headless
              /\ answers[r].count > 0 => r \notin pending
              /\ barrier[r].open =>
                    /\ answers[r].count = 0
                    /\ Cardinality(Given(r) \cup Kept(r)) < barrier[r].expected
                    /\ Given(r) \cap Kept(r) = {}
                    /\ Primary \in barrier[r].got => r \notin pending
            BY <1>1, <1>8 DEF WholeOf, MergedOnce
        <3>2. CASE ~barrier[r].open
            <4>1. UNCHANGED <<barrier, answers>>
                BY <1>8, <3>2 DEF Part
            <4> QED BY <1>2, <3>1, <3>2, <4>1 DEF MergedOnce
        <3>3. CASE barrier[r].open
            <4>1. a \in Given(r) /\ a # Primary
                BY <1>2, LspAssumption DEF Given
            <4>2. /\ answers'[r].count <= 1 /\ ~answers'[r].headless
                  /\ \/ barrier'[r].open /\ answers'[r] = answers[r]
                        /\ barrier'[r].got = barrier[r].got \cup {a}
                        /\ barrier'[r].expected = barrier[r].expected
                     \/ ~barrier'[r].open /\ Primary \in barrier[r].got \cup {a}
                BY <1>8, <3>1, <3>3, <4>1, PartWhole
            <4>3. CASE ~barrier'[r].open
                BY <1>2, <3>1, <3>3, <4>1, <4>2, <4>3 DEF MergedOnce
            <4>4. CASE barrier'[r].open
                <5>1. Given(r)' = Given(r) /\ Kept(r)' = Kept(r)
                    BY <1>2, <4>1, <4>2, <4>4 DEF Given, Kept
                <5>2. Primary \in barrier'[r].got => Primary \in barrier[r].got
                    BY <4>1, <4>2, <4>4
                <5> QED BY <1>2, <3>1, <3>3, <4>2, <4>4, <5>1, <5>2 DEF MergedOnce
            <4> QED BY <4>3, <4>4
        <3> QED BY <3>2, <3>3
    <2> QED BY <1>8, <2>2, <2>3 DEF WholeOf
<1> QED BY <1>3, <1>5, <1>6, <1>7, <1>8

(* What is done of a dead auxiliary touches no request of the primary alone. *)
LEMMA EndsWhole ==
    ASSUME Typed, Whole, ReadersDown, NEW a \in Aux, AuxDies(a) \/ ReaderEnds(a), NEW s \in Requests
    PROVE  WholeOf(s)'
<1> USE TypeFacts DEF Typed
<1>1. WholeOf(s) /\ ShapeOf(s)
    BY DEF Whole, Shape
<1>2. CASE AuxDies(a)
    <2>1. /\ UNCHANGED <<alive, atPrimary, client, req, pending, barrier, answers>>
          /\ aux' = [aux EXCEPT ![a] = [@ EXCEPT !.alive = FALSE, !.reader = "eof", !.stdin = {}]]
        BY <1>2 DEF AuxDies
    <2>2. /\ \A b \in Aux \ {a} : aux'[b] = aux[b]
          /\ ~aux'[a].alive /\ aux'[a].stdin = {}
          /\ aux'[a].internal = aux[a].internal /\ aux'[a].todo = aux[a].todo
        BY <2>1 DEF AuxType
    <2>3. \A b \in Aux : /\ aux'[b].alive => aux[b].alive
                         /\ s \in aux'[b].internal => s \in aux[b].internal
                         /\ s \in aux'[b].stdin => s \in aux[b].stdin
                         /\ s \in aux'[b].todo => s \in aux[b].todo
        BY <2>2
    <2> QED BY <1>1, <2>1, <2>3, WholeKept
<1>3. CASE AuxDrains(a)
    <2>1. /\ UNCHANGED <<alive, atPrimary, client, req, pending, barrier>>
          /\ \A b \in Aux \ {a} : aux'[b] = aux[b]
          /\ aux[a].reader = "eof" /\ aux'[a].internal = {}
          /\ aux'[a].todo = aux[a].todo \cup (aux[a].internal \ Forwards(a))
          /\ aux'[a].alive = aux[a].alive /\ aux'[a].stdin = aux[a].stdin
          /\ \A t \in Requests : t \notin Forwards(a) => answers'[t] = answers[t]
        BY <1>3, AuxDrainsEffect, AnsweredEffect
    <2>2. ~aux'[a].alive
        BY <2>1 DEF ReadersDown
    <2>3. req[s].at = "unsent" \/ req[s].kind = "plain" => answers'[s] = answers[s]
        BY <1>1, <2>1 DEF WholeOf, Fresh, Forwards
    <2>4. \A b \in Aux : /\ s \in aux'[b].internal => s \in aux[b].internal
                         /\ s \in aux'[b].stdin => s \in aux[b].stdin
                         /\ s \in aux'[b].todo => s \in aux[b].todo \/ s \in aux[b].internal
        BY <2>1
    <2> QED BY <1>1, <2>1, <2>2, <2>3, <2>4 DEF WholeOf, Fresh, Tables, PlainOnce, MergedOnce, AsideOnce
<1>4. CASE AuxWindsUp(a)
    <2>1. PICK r \in aux[a].todo :
              /\ r \in Requests
              /\ UNCHANGED <<alive, atPrimary, client, req, pending>>
              /\ \A b \in Aux \ {a} : aux'[b] = aux[b]
              /\ aux'[a].todo = aux[a].todo \ {r}
              /\ aux'[a].alive = aux[a].alive
              /\ aux'[a].internal = aux[a].internal /\ aux'[a].stdin = aux[a].stdin
              /\ \/ req[r].kind = "merged" /\ Part(r, a)
                 \/ req[r].kind # "merged" /\ Answered({r}, FALSE) /\ UNCHANGED barrier
        BY <1>4, AuxWindsUpEffect
    <2>2. ~aux'[a].alive
        BY <2>1 DEF ReadersDown
    <2>3. req[s].at = "unsent" \/ req[s].kind = "plain" => answers'[s] = answers[s]
        <3> SUFFICES ASSUME req[s].at = "unsent" \/ req[s].kind = "plain" PROVE answers'[s] = answers[s]
            OBVIOUS
        <3>1. s # r
            BY <1>1, <2>1 DEF WholeOf, Fresh, Tables
        <3>2. CASE Part(r, a)
            BY <2>1, <3>1, <3>2, PartEffect
        <3>3. CASE Answered({r}, FALSE)
            BY <3>1, <3>3 DEF Answered
        <3> QED BY <2>1, <3>2, <3>3
    <2>4. \A b \in Aux : /\ s \in aux'[b].internal => s \in aux[b].internal
                         /\ s \in aux'[b].stdin => s \in aux[b].stdin
                         /\ s \in aux'[b].todo => s \in aux[b].todo
        BY <2>1
    <2> QED BY <1>1, <2>1, <2>2, <2>3, <2>4 DEF WholeOf, Fresh, Tables, PlainOnce, MergedOnce, AsideOnce
<1> QED BY <1>2, <1>3, <1>4 DEF ReaderEnds

LEMMA PrimaryDiesWhole ==
    ASSUME Typed, Whole, PrimaryDies, NEW s \in Requests
    PROVE  WholeOf(s)'
<1>1. \A b \in Aux : aux'[b] = [aux[b] EXCEPT !.alive = FALSE]
    BY DEF PrimaryDies
<1>2. \A b \in Aux : /\ aux'[b].alive => aux[b].alive
                     /\ aux'[b].internal = aux[b].internal /\ aux'[b].stdin = aux[b].stdin
                     /\ aux'[b].todo = aux[b].todo
    <2>1. aux \in [Aux -> AuxType]
        BY TypeFacts DEF Typed
    <2> QED BY <1>1, <2>1 DEF AuxType
<1>3. UNCHANGED <<req, pending, barrier, answers>> /\ WholeOf(s)
    BY DEF PrimaryDies, Whole
<1> QED BY <1>2, <1>3, WholeKept

LEMMA NextWhole == Typed /\ ReadersDown /\ Whole /\ [Next]_vars => Whole'
<1> SUFFICES ASSUME Typed, ReadersDown, Whole, [Next]_vars, NEW s \in Requests PROVE WholeOf(s)'
    BY DEF Whole
<1>1. CASE UNCHANGED vars
    BY <1>1, WholeKept DEF vars, Whole
<1>2. CASE \E c \in Clients : Find(c) \/ Subscribe(c) \/ Unsubscribe(c) \/ HalfUnsubscribe(c)
    BY <1>2, ClientsWhole, HalfWhole
<1>3. CASE \E r \in Requests, c \in Clients : Ask(r, c) \/ AskResolve(r, c)
    BY <1>3, AskWhole, AskResolveWhole
<1>4. CASE \E r \in Requests : PrimaryAsks(r) \/ PrimaryAnswers(r) \/ Sender(r)
    BY <1>4, PrimaryAsksWhole, PrimaryAnswersWhole, SendPrimaryWhole, FanWhole, RegisterWhole,
       CheckWhole, FanEndsWhole DEF Sender
<1>5. CASE \E a \in Aux, r \in Requests : AuxAnswers(a, r)
    BY <1>5, AuxAnswersWhole
<1>6. CASE \E a \in Aux : AuxDies(a) \/ ReaderEnds(a)
    BY <1>6, EndsWhole
<1>7. CASE PrimaryDies
    BY <1>7, PrimaryDiesWhole
<1> QED BY <1>1, <1>2, <1>3, <1>4, <1>5, <1>6, <1>7 DEF Next

(* While no auxiliary has died a request is answered at most once, and never with a *)
(* merge that lacks the primary's part; a request for the primary alone, always.    *)
THEOREM OneAnswerEach == Spec => []OneWholeAnswer
<1>1. Init => Whole /\ ReadersDown
    <2> SUFFICES ASSUME Init PROVE Whole /\ ReadersDown
        OBVIOUS
    <2>1. \A r \in Requests : req[r].kind = "plain" /\ req[r].at = "unsent"
        BY DEF Init, Unsent
    <2> QED BY <2>1 DEF Init, Whole, WholeOf, Fresh, Tables, PlainOnce, MergedOnce, AsideOnce, ReadersDown
<1>2. Typed /\ Whole => OneWholeAnswer
    <2> SUFFICES ASSUME Typed, Whole, NEW r \in Requests, req[r].kind = "plain" \/ AliveAux = Aux
                 PROVE  answers[r].count <= 1 /\ ~answers[r].headless
        BY DEF OneWholeAnswer
    <2>1. req[r].kind \in {"plain", "merged", "resolve", "forward"}
        BY TypeFacts DEF Typed, ReqType, Kinds
    <2>2. AliveAux = Aux => \A a \in Aux : aux[a].alive
        BY DEF AliveAux
    <2> QED BY <2>1, <2>2 DEF Whole, WholeOf, PlainOnce, MergedOnce, AsideOnce
<1> QED BY InitTyped, NextTyped, NextReadersDown, NextWhole, <1>1, <1>2, PTL DEF Spec

-----------------------------------------------------------------------------
(* Nobody forgotten: the state in which a request that is not answered stands. *)

\* An auxiliary has r in hand, or its reader will wind it up.
InHand(a, r) ==
    \/ r \in aux[a].todo
    \/ r \in aux[a].internal /\ (aux[a].reader = "eof" \/ r \in aux[a].stdin)

\* A request for the primary alone has its entry until the primary answers it.
PlainPursued(r) == req[r].kind = "plain" =>
    /\ r \in pending
    /\ req[r].at = "sending" \/ (req[r].at = "sent" /\ r \in atPrimary)

\* A merge has its barrier until it is answered.
MergePursued(r) == req[r].kind = "merged" => barrier[r].open /\ req[r].at # "failed"

\* A resolve is on its way to its auxiliary, about to be withdrawn with an answer, or
\* in the hands of that auxiliary.
ResolvePursued(r) == req[r].kind = "resolve" =>
    /\ req[r].on \in Aux
    /\ \/ req[r].at = "registering"
       \/ req[r].at = "checking" /\ (req[r].refused \/ ~aux[req[r].on].alive)
       \/ req[r].at \in {"checking", "sent"} /\ InHand(req[r].on, r)

Pursued(r) == PlainPursued(r) /\ MergePursued(r) /\ ResolvePursued(r)
AllPursued == \A r \in Requests : Waiting(r) => Pursued(r)

\* What has not been sent is not with the primary.
NotYet == \A r \in Requests : req[r].at \in {"unsent", "sending"} => r \notin atPrimary

LEMMA NextNotYet == Typed /\ NotYet /\ [Next]_vars => NotYet'
<1> SUFFICES ASSUME Typed, NotYet, [Next]_vars, NEW s \in Requests,
                    req'[s].at \in {"unsent", "sending"}
             PROVE  s \notin atPrimary'
    BY DEF NotYet
<1> USE TypeFacts DEF Typed, NotYet
<1>1. CASE UNCHANGED vars
    BY <1>1 DEF vars
<1>2. CASE \E c \in Clients : Find(c) \/ Subscribe(c) \/ Unsubscribe(c) \/ HalfUnsubscribe(c)
    BY <1>2 DEF Find, Subscribe, Unsubscribe, HalfUnsubscribe, ReqType
<1>3. ASSUME NEW r \in Requests, NEW c \in Clients, Ask(r, c) \/ AskResolve(r, c)
      PROVE  s \notin atPrimary'
    <2>1. req[r] = Unsent /\ UNCHANGED atPrimary /\ (s # r => req'[s] = req[s])
        BY <1>3 DEF Ask, AskResolve, MayAsk
    <2> QED BY <2>1 DEF Unsent
<1>4. ASSUME NEW r \in Requests, PrimaryAsks(r) PROVE s \notin atPrimary'
    BY <1>4 DEF PrimaryAsks, Unsent
<1>5. ASSUME NEW r \in Requests, PrimaryAnswers(r) PROVE s \notin atPrimary'
    BY <1>5 DEF PrimaryAnswers
<1>6. ASSUME NEW r \in Requests, Sender(r) PROVE s \notin atPrimary'
    <2>1. CASE SendPrimary(r)
        BY <1>6, <2>1 DEF SendPrimary, ReqType
    <2>2. CASE Fan(r)
        <3>1. PICK a, L :
                 \/ req' = [req EXCEPT ![r] = [@ EXCEPT !.at = "registering", !.on = a, !.left = L]]
                 \/ req' = [req EXCEPT ![r].left = @ \ {a}]
            BY <2>2 DEF Fan
        <3>2. req'[r].at \in {"registering", req[r].at}
            <4>1. CASE req' = [req EXCEPT ![r] = [@ EXCEPT !.at = "registering", !.on = a, !.left = L]]
                BY <4>1 DEF ReqType
            <4>2. CASE req' = [req EXCEPT ![r].left = @ \ {a}]
                BY <4>2 DEF ReqType
            <4> QED BY <3>1, <4>1, <4>2
        <3>3. s # r => req'[s] = req[s]
            BY <2>2 DEF Fan
        <3> QED BY <2>2, <3>2, <3>3 DEF Fan
    <2>3. CASE Register(r)
        BY <2>3 DEF Register, ReqType
    <2>4. CASE Check(r)
        BY <2>4 DEF Check, Checked, ReqType
    <2>5. CASE FanEnds(r)
        BY <2>5 DEF FanEnds, ReqType
    <2> QED BY <1>6, <2>1, <2>2, <2>3, <2>4, <2>5 DEF Sender
<1>7. CASE \E a \in Aux, r \in Requests : AuxAnswers(a, r)
    BY <1>7 DEF AuxAnswers
<1>8. CASE \E a \in Aux : AuxDies(a) \/ ReaderEnds(a)
    BY <1>8 DEF AuxDies, ReaderEnds, AuxDrains, AuxWindsUp
<1>9. CASE PrimaryDies
    BY <1>9 DEF PrimaryDies
<1> QED BY <1>1, <1>2, <1>3, <1>4, <1>5, <1>6, <1>7, <1>8, <1>9 DEF Next

\* Who waits is answered by whatever answers its request.
LEMMA WaitingAnswered ==
    ASSUME answers \in [Requests -> AnswerType], NEW s \in Requests, NEW R, NEW h,
           Answered(R, h), req[s].kind = "forward" \/ client[req[s].client] = "in",
           answers'[s].count = 0
    PROVE  s \notin R /\ answers'[s] = answers[s]
<1>1. answers[s].count + 1 # 0
    BY DEF AnswerType
<1>2. s \in R => answers'[s].count = answers[s].count + 1
    BY DEF Answered
<1>3. s \notin R
    BY <1>1, <1>2
<1> QED BY <1>3 DEF Answered

LEMMA StillWaiting ==
    ASSUME NEW s \in Requests, Waiting(s)', req'[s].kind = req[s].kind,
           req'[s].client = req[s].client, req[s] # Unsent, UNCHANGED <<alive, client>>,
           answers'[s] = answers[s]
    PROVE  Waiting(s)
BY DEF Waiting

\* A step that takes nothing from the tables a request stands in.
LEMMA PursuedKept ==
    ASSUME AllPursued, NEW s \in Requests, Waiting(s)', req'[s] = req[s],
           UNCHANGED <<alive, client>>, answers'[s] = answers[s],
           barrier[s].open => barrier'[s].open,
           s \in atPrimary => s \in atPrimary', s \in pending => s \in pending',
           \A a \in Aux : /\ aux'[a].alive => aux[a].alive
                          /\ req[s].kind = "resolve" /\ InHand(a, s) => InHand(a, s)'
    PROVE  Pursued(s)'
<1>1. Waiting(s)
    BY DEF Waiting
<1>2. Pursued(s)
    BY <1>1 DEF AllPursued
<1> QED BY <1>2 DEF Pursued, PlainPursued, MergePursued, ResolvePursued

LEMMA ClientsPursued ==
    ASSUME Typed, Gone, AllPursued, NEW c \in Clients, Find(c) \/ Subscribe(c) \/ Unsubscribe(c),
           NEW s \in Requests, Waiting(s)'
    PROVE  Pursued(s)'
<1> USE TypeFacts DEF Typed
<1>1. GoneOf(s) /\ ShapeOf(s)
    BY DEF Gone, Shape
<1>2. CASE Find(c) \/ Subscribe(c)
    <2>1. /\ UNCHANGED <<alive, atPrimary, aux, req, pending, barrier, answers>>
          /\ client[c] \in {"out", "found"}
          /\ \A d \in Clients \ {c} : client'[d] = client[d]
        BY <1>2 DEF Find, Subscribe
    <2>2. req[s].client \in Clients \ {c}
        BY <1>1, <2>1 DEF Waiting, GoneOf, ShapeOf
    <2>3. Waiting(s)
        BY <2>1, <2>2 DEF Waiting
    <2> QED
        BY <2>1, <2>3 DEF AllPursued, Pursued, PlainPursued, MergePursued, ResolvePursued, InHand
<1>3. CASE Unsubscribe(c)
    <2>1. /\ client'[c] = "left" /\ \A d \in Clients \ {c} : client'[d] = client[d]
          /\ pending' = pending \ Of(c) /\ UNCHANGED <<alive, atPrimary, answers>>
        BY <1>3 DEF Unsubscribe
    <2>2. req'[s].client = req[s].client /\ (req'[s] = req[s] \/ s \in Of(c))
        <3>1. req'[s] = IF s \in Of(c) /\ Busy(s) THEN [req[s] EXCEPT !.at = "failed"] ELSE req[s]
            BY <1>3 DEF Unsubscribe
        <3> QED BY <3>1 DEF ReqType
    <2>3. s \notin Of(c) /\ req'[s] = req[s]
        BY <2>1, <2>2 DEF Waiting, Of
    <2>4. req[s].client \in Clients \ {c}
        BY <1>1, <2>3 DEF Waiting, GoneOf, ShapeOf, Of
    <2>5. Waiting(s)
        BY <2>1, <2>3, <2>4 DEF Waiting
    <2>6. barrier'[s] = barrier[s]
        BY <1>3, <2>3 DEF Unsubscribe
    <2>7. \A a \in Aux : /\ aux'[a].alive = aux[a].alive /\ aux'[a].reader = aux[a].reader
                         /\ aux'[a].stdin = aux[a].stdin /\ aux'[a].todo = aux[a].todo
                         /\ aux'[a].internal = {r \in aux[a].internal : req[r].kind = "resolve" => r \notin Of(c)}
        BY <1>3 DEF Unsubscribe, AuxType
    <2>8. \A a \in Aux : aux'[a].alive = aux[a].alive /\ (InHand(a, s) => InHand(a, s)')
        BY <2>3, <2>7 DEF InHand
    <2> QED
        BY <2>1, <2>3, <2>5, <2>6, <2>8 DEF AllPursued, Pursued, PlainPursued, MergePursued, ResolvePursued
<1> QED BY <1>2, <1>3

LEMMA HalfPursued ==
    ASSUME Typed, Gone, AllPursued, NEW c \in Clients, HalfUnsubscribe(c),
           NEW s \in Requests, Waiting(s)'
    PROVE  Pursued(s)'
<1>1. GoneOf(s) /\ ShapeOf(s) /\ req[s] \in ReqType
    BY TypeFacts DEF Typed, Gone, Shape
<1>2. \/ req'[s] = req[s]
      \/ s \in Of(c) /\ req'[s] = [req[s] EXCEPT !.at = "failed"]
    BY HalfEffect
<1>3. req'[s].client = req[s].client
    BY <1>1, <1>2 DEF ReqType
<1>4. s \notin Of(c) /\ req'[s] = req[s]
    BY <1>2, <1>3, HalfEffect DEF Waiting, Of
<1>5. req[s].client \in Clients \ {c}
    BY <1>1, <1>4 DEF Waiting, GoneOf, ShapeOf, Of
<1>6. Waiting(s)
    <2>1. client'[req[s].client] = client[req[s].client] /\ UNCHANGED <<alive, answers>>
        BY <1>5, HalfEffect
    <2> QED BY <1>4, <2>1 DEF Waiting
<1>7. UNCHANGED <<atPrimary, aux, barrier>> /\ (s \in pending => s \in pending')
    BY <1>4, HalfEffect
<1> QED
    BY <1>4, <1>6, <1>7 DEF AllPursued, Pursued, PlainPursued, MergePursued, ResolvePursued, InHand

LEMMA AskPursued ==
    ASSUME Typed, AllPursued, NEW r \in Requests, NEW c \in Clients,
           Ask(r, c) \/ AskResolve(r, c), NEW s \in Requests, Waiting(s)'
    PROVE  Pursued(s)'
<1> USE TypeFacts DEF Typed
<1>1. CASE s # r
    <2>1. /\ req'[s] = req[s] /\ barrier'[s] = barrier[s] /\ answers'[s] = answers[s]
          /\ UNCHANGED <<alive, atPrimary, aux, client>> /\ pending \subseteq pending'
        BY <1>1 DEF Ask, AskResolve
    <2> QED BY <2>1, PursuedKept DEF InHand
<1>2. CASE s = r /\ Ask(r, c)
    <2>1. PICK k \in {"plain", "merged"} :
            /\ req' = [req EXCEPT ![r] = [@ EXCEPT !.at = "sending", !.kind = k, !.client = c,
                                                   !.left = IF k = "merged" THEN AliveAux ELSE {}]]
            /\ barrier' = IF k = "merged"
                          THEN [barrier EXCEPT ![r] = [open |-> TRUE, got |-> {},
                                                       expected |-> Cardinality(AliveAux) + 1]]
                          ELSE barrier
        BY <1>2 DEF Ask
    <2>2. req'[r].at = "sending" /\ req'[r].kind = k
        BY <2>1 DEF ReqType
    <2>3. r \in pending'
        BY <1>2 DEF Ask
    <2>4. k = "merged" => barrier'[r].open
        BY <2>1
    <2> QED BY <1>2, <2>2, <2>3, <2>4 DEF Pursued, PlainPursued, MergePursued, ResolvePursued
<1>3. CASE s = r /\ AskResolve(r, c)
    <2>1. PICK a \in Aux :
            /\ req' = [req EXCEPT ![r] = [@ EXCEPT !.at = IF aux[a].alive THEN "registering" ELSE "sent",
                                                   !.kind = "resolve", !.client = c, !.on = a]]
            /\ answers' = [answers EXCEPT ![r].count = IF aux[a].alive THEN @ ELSE @ + 1]
        BY <1>3 DEF AskResolve
    <2>2. req'[r].kind = "resolve" /\ req'[r].on = a
          /\ req'[r].at = IF aux[a].alive THEN "registering" ELSE "sent"
        BY <2>1 DEF ReqType
    <2>3. aux[a].alive
        <3>1. ~aux[a].alive => answers'[r].count = answers[r].count + 1
            BY <2>1 DEF AnswerType
        <3>2. answers[r].count + 1 # 0
            BY DEF AnswerType
        <3> QED BY <1>3, <3>1, <3>2 DEF Waiting
    <2> QED BY <1>3, <2>2, <2>3 DEF Pursued, PlainPursued, MergePursued, ResolvePursued
<1> QED BY <1>1, <1>2, <1>3

LEMMA PrimaryPursued ==
    ASSUME Typed, NotYet, AllPursued, NEW r \in Requests, PrimaryAsks(r) \/ PrimaryAnswers(r),
           NEW s \in Requests, Waiting(s)'
    PROVE  Pursued(s)'
<1> USE TypeFacts DEF Typed
<1>1. CASE PrimaryAsks(r)
    <2>1. UNCHANGED <<alive, atPrimary, aux, client, pending, barrier>>
        BY <1>1 DEF PrimaryAsks
    <2>2. s # r
        <3>1. PICK w, a :
                 \/ req' = [req EXCEPT ![r] = [@ EXCEPT !.at = w, !.kind = "forward"]]
                 \/ req' = [req EXCEPT ![r] = [@ EXCEPT !.at = w, !.kind = "forward", !.on = a]]
            BY <1>1 DEF PrimaryAsks
        <3>2. req'[r].kind = "forward"
            BY <3>1 DEF ReqType
        <3> QED BY <3>2 DEF Waiting
    <2>3. req'[s] = req[s] /\ answers'[s] = answers[s]
        BY <1>1, <2>2 DEF PrimaryAsks
    <2> QED BY <2>1, <2>3, PursuedKept DEF InHand
<1>2. CASE PrimaryAnswers(r)
    <2>1. /\ UNCHANGED <<alive, aux, client, req>>
          /\ atPrimary' = atPrimary \ {r} /\ pending' = pending \ {r} /\ r \in atPrimary
        BY <1>2 DEF PrimaryAnswers
    <2>2. client[req[s].client] = "in" /\ req[s].kind # "forward" /\ answers'[s].count = 0
        BY <2>1 DEF Waiting
    <2>3. CASE s # r
        <3>1. barrier'[s] = barrier[s] /\ answers'[s] = answers[s]
            <4>1. ASSUME NEW err \in BOOLEAN, PrimaryPart(r, err)
                  PROVE  barrier'[s] = barrier[s] /\ answers'[s] = answers[s]
                BY <2>3, <4>1, PrimaryPartEffect
            <4>2. ASSUME Answered({r}, FALSE) PROVE answers'[s] = answers[s]
                BY <2>2, <4>2, WaitingAnswered
            <4> QED BY <1>2, <4>1, <4>2 DEF PrimaryAnswers
        <3> QED BY <2>1, <2>3, <3>1, PursuedKept DEF InHand
    <2>4. CASE s = r
        <3>1. ~Answered({r}, FALSE)
            BY <2>2, <2>4, WaitingAnswered
        <3>2. CASE barrier[r].open
            <4>1. PICK err \in BOOLEAN : PrimaryPart(r, err)
                BY <1>2, <3>1, <3>2 DEF PrimaryAnswers
            <4>2. ~Answered({r}, Primary \notin barrier[r].got \cup {Primary})
                BY <2>2, <2>4, WaitingAnswered
            <4>3. barrier'[r] = [barrier[r] EXCEPT !.got = @ \cup {Primary}] /\ UNCHANGED answers
                BY <3>1, <4>1, <4>2, PrimaryPartEffect
            <4>4. barrier'[r].open /\ req[r].kind = "merged"
                BY <3>2, <4>3 DEF Shape, ShapeOf, BarrierType
            <4>5. Waiting(s)
                BY <2>1, <4>3 DEF Waiting
            <4> QED
                BY <2>1, <2>4, <4>4, <4>5 DEF AllPursued, Pursued, PlainPursued, MergePursued, ResolvePursued
        <3>3. CASE ~barrier[r].open
            <4>1. r \notin pending /\ UNCHANGED <<barrier, answers>>
                BY <1>2, <3>1, <3>3 DEF PrimaryAnswers, PrimaryPart
            <4>2. Waiting(s)
                BY <2>1, <4>1 DEF Waiting
            <4> QED
                BY <2>1, <2>4, <3>3, <4>1, <4>2
                DEF AllPursued, Pursued, PlainPursued, MergePursued, ResolvePursued, InHand
        <3> QED BY <3>2, <3>3
    <2> QED BY <2>3, <2>4
<1> QED BY <1>1, <1>2

LEMMA SendPursued ==
    ASSUME Typed, AllPursued, NEW r \in Requests, SendPrimary(r) \/ Fan(r) \/ FanEnds(r),
           NEW s \in Requests, Waiting(s)'
    PROVE  Pursued(s)'
<1> USE TypeFacts DEF Typed
<1>1. CASE SendPrimary(r)
    <2>1. /\ UNCHANGED <<alive, aux, client, pending, answers>> /\ alive
          /\ req[r].at = "sending"
        BY <1>1 DEF SendPrimary, Waiting
    <2>2. /\ req' = [req EXCEPT ![r].at = IF req[r].kind = "merged" THEN "fanning" ELSE "sent"]
          /\ atPrimary' = atPrimary \cup {r} /\ UNCHANGED barrier
        BY <1>1, <2>1 DEF SendPrimary
    <2>3. CASE s # r
        BY <2>1, <2>2, <2>3, PursuedKept DEF InHand
    <2>4. CASE s = r
        <3>1. /\ req'[r].at = IF req[r].kind = "merged" THEN "fanning" ELSE "sent"
              /\ req'[r].kind = req[r].kind /\ req'[r].client = req[r].client /\ req'[r].on = req[r].on
            BY <2>2 DEF ReqType
        <3>2. Waiting(s)
            BY <2>1, <2>4, <3>1, StillWaiting DEF Unsent
        <3> QED
            BY <2>1, <2>2, <2>4, <3>1, <3>2 DEF AllPursued, Pursued, PlainPursued, MergePursued, ResolvePursued
    <2> QED BY <2>3, <2>4
<1>2. CASE Fan(r)
    <2>1. UNCHANGED <<alive, atPrimary, aux, client, pending, answers>> /\ req[r].at = "fanning"
        BY <1>2 DEF Fan
    <2>2. \A t \in Requests : barrier[t].open => barrier'[t].open
        <3>1. ASSUME barrier' = Abandoned(r) PROVE \A t \in Requests : barrier[t].open => barrier'[t].open
            BY <3>1 DEF Abandoned, BarrierType
        <3> QED BY <1>2, <3>1 DEF Fan
    <2>3. CASE s # r
        <3>1. req'[s] = req[s]
            BY <1>2, <2>3 DEF Fan
        <3> QED BY <2>1, <2>2, <3>1, PursuedKept DEF InHand
    <2>4. CASE s = r
        <3>1. PICK a, L :
                 \/ req' = [req EXCEPT ![r] = [@ EXCEPT !.at = "registering", !.on = a, !.left = L]]
                 \/ req' = [req EXCEPT ![r].left = @ \ {a}]
            BY <1>2 DEF Fan
        <3>2. /\ req'[r].kind = req[r].kind /\ req'[r].client = req[r].client
              /\ req'[r].at \in {"registering", "fanning"}
            <4>1. CASE req' = [req EXCEPT ![r] = [@ EXCEPT !.at = "registering", !.on = a, !.left = L]]
                BY <2>1, <4>1 DEF ReqType
            <4>2. CASE req' = [req EXCEPT ![r].left = @ \ {a}]
                BY <2>1, <4>2 DEF ReqType
            <4> QED BY <3>1, <4>1, <4>2
        <3>3. Waiting(s) /\ req[r].kind = "merged"
            BY <2>1, <2>4, <3>2, StillWaiting DEF Unsent, Shape, ShapeOf
        <3> QED
            BY <2>2, <2>4, <3>2, <3>3 DEF AllPursued, Pursued, PlainPursued, MergePursued, ResolvePursued
    <2> QED BY <2>3, <2>4
<1>3. CASE FanEnds(r)
    <2>1. /\ UNCHANGED <<alive, atPrimary, aux, client, pending>> /\ req[r].at = "fanning"
          /\ req' = [req EXCEPT ![r].at = "sent"]
        BY <1>3 DEF FanEnds
    <2>2. req'[s].kind = req[s].kind /\ req'[s].client = req[s].client
        BY <2>1 DEF ReqType
    <2>3. client[req[s].client] = "in" /\ req[s].kind # "forward" /\ answers'[s].count = 0
        BY <2>1, <2>2 DEF Waiting
    <2>4. CASE Complete(r, barrier[r].got)
        <3>1. s # r /\ answers'[s] = answers[s]
            BY <2>3, <2>4, WaitingAnswered DEF Complete
        <3>2. barrier'[s] = barrier[s]
            BY <2>4, <3>1, CompleteEffect
        <3>3. req'[s] = req[s]
            BY <2>1, <3>1
        <3> QED BY <2>1, <3>1, <3>2, <3>3, PursuedKept DEF InHand
    <2>5. CASE UNCHANGED <<barrier, answers>>
        <3>1. CASE s # r
            BY <2>1, <2>5, <3>1, PursuedKept DEF InHand
        <3>2. CASE s = r
            <4>1. Waiting(s) /\ req[r].kind = "merged" /\ req'[r].at = "sent"
                BY <2>1, <2>2, <2>5, <3>2, StillWaiting DEF Unsent, Shape, ShapeOf, ReqType
            <4> QED
                BY <2>2, <2>5, <3>2, <4>1 DEF AllPursued, Pursued, PlainPursued, MergePursued, ResolvePursued
        <3> QED BY <3>1, <3>2
    <2> QED BY <1>3, <2>4, <2>5 DEF FanEnds
<1> QED BY <1>1, <1>2, <1>3

LEMMA RegisterPursued ==
    ASSUME Typed, ReadersDown, AllPursued, NEW r \in Requests, Register(r),
           NEW s \in Requests, Waiting(s)'
    PROVE  Pursued(s)'
<1> USE TypeFacts DEF Typed
<1> DEFINE a == req[r].on
<1>1. /\ a \in Aux /\ UNCHANGED <<alive, atPrimary, client, pending, barrier, answers>>
      /\ \A t \in Requests \ {r} : req'[t] = req[t]
      /\ \A b \in Aux \ {a} : aux'[b] = aux[b]
      /\ req'[r].at = "checking" /\ req'[r].kind = req[r].kind /\ req'[r].on = a
      /\ req'[r].client = req[r].client
      /\ aux'[a].alive = aux[a].alive /\ aux'[a].reader = aux[a].reader /\ aux'[a].todo = aux[a].todo
      /\ aux'[a].internal = aux[a].internal \cup {r}
      /\ aux'[a].stdin = IF req'[r].refused \/ aux[a].reader # "reading"
                         THEN aux[a].stdin ELSE aux[a].stdin \cup {r}
    BY RegisterEffect
<1>2. req[r].at = "registering"
    BY DEF Register
<1> HIDE DEF a
<1>3. CASE s # r
    <2>1. \A b \in Aux : aux'[b].alive = aux[b].alive /\ (InHand(b, s) => InHand(b, s)')
        BY <1>1, <1>3 DEF InHand
    <2> QED BY <1>1, <1>3, <2>1, PursuedKept
<1>4. CASE s = r
    <2>1. Waiting(s)
        BY <1>1, <1>2, <1>4, StillWaiting DEF Unsent
    <2>2. Pursued(r)
        BY <1>4, <2>1 DEF AllPursued
    <2>3. req[r].kind # "plain"
        BY <1>2, <2>2 DEF Pursued, PlainPursued
    <2>4. \A b \in Aux : b = a => req'[r].refused \/ ~aux'[b].alive \/ InHand(b, r)'
        \* an auxiliary that is up reads what it is sent
        BY <1>1 DEF ReadersDown, InHand
    <2> QED BY <1>1, <1>4, <2>2, <2>3, <2>4
        DEF Pursued, PlainPursued, MergePursued, ResolvePursued, InHand
<1> QED BY <1>3, <1>4

LEMMA CheckPursued ==
    ASSUME Typed, AllPursued, NEW r \in Requests, Check(r), NEW s \in Requests, Waiting(s)'
    PROVE  Pursued(s)'
<1> USE TypeFacts DEF Typed
<1>0. PICK a : a = req[r].on
    OBVIOUS
<1>1. /\ a \in Aux
      /\ UNCHANGED <<alive, atPrimary, client, pending>>
      /\ \A t \in Requests \ {r} : req'[t] = req[t]
      /\ req'[r].at = (IF req[r].kind = "merged" THEN "fanning" ELSE "sent")
      /\ req'[r].kind = req[r].kind /\ req'[r].on = a /\ req'[r].client = req[r].client
      /\ \/ ~CheckOut(r) /\ UNCHANGED <<aux, barrier, answers>>
         \/ /\ CheckOut(r)
            /\ \A b \in Aux \ {a} : aux'[b] = aux[b]
            /\ aux'[a].internal = aux[a].internal \ {r}
            /\ aux'[a].alive = aux[a].alive /\ aux'[a].reader = aux[a].reader
            /\ aux'[a].todo = aux[a].todo /\ aux'[a].stdin = aux[a].stdin
            /\ \/ req[r].kind = "merged" /\ barrier' = Abandoned(r) /\ UNCHANGED answers
               \/ req[r].kind # "merged" /\ Answered({r}, FALSE) /\ UNCHANGED barrier
    BY <1>0, CheckEffect
<1>2. req[r].at = "checking"
    BY DEF Check
<1>3. req'[s].kind = req[s].kind /\ req'[s].client = req[s].client
    BY <1>1
<1>4. client[req[s].client] = "in" /\ req[s].kind # "forward" /\ answers'[s].count = 0
    BY <1>1, <1>3 DEF Waiting
<1>5. Answered({r}, FALSE) => s # r /\ answers'[s] = answers[s]
    BY <1>4, WaitingAnswered
<1>6. answers'[s] = answers[s]
    BY <1>1, <1>5
<1>7. \A t \in Requests : barrier[t].open => barrier'[t].open
    BY <1>1 DEF Abandoned, BarrierType
<1>8. CASE s # r
    <2>1. \A b \in Aux : aux'[b].alive = aux[b].alive /\ (InHand(b, s) => InHand(b, s)')
        BY <1>1, <1>8 DEF InHand
    <2> QED BY <1>1, <1>6, <1>7, <1>8, <2>1, PursuedKept
<1>9. CASE s = r
    <2>1. Waiting(s)
        BY <1>1, <1>2, <1>3, <1>6, StillWaiting, <1>9 DEF Unsent
    <2>2. Pursued(r)
        BY <1>9, <2>1 DEF AllPursued
    <2>3. req[r].kind # "plain"
        BY <1>2, <2>2 DEF Pursued, PlainPursued
    <2>4. CASE req[r].kind = "merged"
        BY <1>1, <1>7, <1>9, <2>2, <2>4 DEF Pursued, PlainPursued, MergePursued, ResolvePursued
    <2>5. CASE req[r].kind = "resolve"
        \* out of the table with an answer, or still in hand
        <3>1. ~CheckOut(r) /\ UNCHANGED aux
            BY <1>1, <1>5, <1>9, <2>5
        <3>2. InHand(a, r)
            BY <1>0, <1>2, <2>2, <2>5, <3>1 DEF Pursued, ResolvePursued, CheckOut
        <3>3. InHand(a, r)'
            BY <3>1, <3>2 DEF InHand
        <3> QED BY <1>0, <1>1, <1>9, <2>5, <3>3 DEF Pursued, PlainPursued, MergePursued, ResolvePursued
    <2> QED BY <1>4, <1>9, <2>3, <2>4, <2>5 DEF ReqType, Kinds
<1> QED BY <1>8, <1>9

\* A part for a merge that is still not answered leaves its barrier open.
LEMMA PartPursued ==
    ASSUME Typed, AllPursued, NEW r \in Requests, NEW p \in Aux, Part(r, p),
           UNCHANGED <<alive, client, req, atPrimary, pending>>, req[r].kind = "merged",
           Waiting(r)'
    PROVE  Pursued(r)'
<1>1. client[req[r].client] = "in" /\ answers'[r].count = 0
    BY DEF Waiting
<1>2. ~Answered({r}, Primary \notin barrier[r].got \cup {p})
    BY <1>1, WaitingAnswered, TypeFacts DEF Typed
<1>3. UNCHANGED answers /\ barrier'[r].open = barrier[r].open
    BY <1>2, PartEffect, TypeFacts DEF Typed, BarrierType
<1>4. Waiting(r)
    BY <1>3 DEF Waiting
<1> QED BY <1>3, <1>4 DEF AllPursued, Pursued, PlainPursued, MergePursued, ResolvePursued

LEMMA AuxAnswersPursued ==
    ASSUME Typed, AllPursued, NEW a \in Aux, NEW r \in Requests, AuxAnswers(a, r),
           NEW s \in Requests, Waiting(s)'
    PROVE  Pursued(s)'
<1> USE TypeFacts DEF Typed
<1>1. /\ UNCHANGED <<alive, atPrimary, client, req, pending>>
      /\ \A b \in Aux \ {a} : aux'[b] = aux[b]
      /\ aux[a].reader = "reading"
      /\ aux'[a].stdin = aux[a].stdin \ {r} /\ aux'[a].internal = aux[a].internal \ {r}
      /\ aux'[a].alive = aux[a].alive /\ aux'[a].reader = aux[a].reader /\ aux'[a].todo = aux[a].todo
      /\ \A t \in Requests \ {r} : barrier'[t] = barrier[t] /\ answers'[t] = answers[t]
      /\ \/ r \notin aux[a].internal /\ UNCHANGED <<barrier, answers>>
         \/ r \in aux[a].internal /\ req[r].kind = "merged" /\ Part(r, a)
         \/ r \in aux[a].internal /\ req[r].kind # "merged" /\ Answered({r}, FALSE) /\ UNCHANGED barrier
    BY AuxAnswersEffect
<1>2. client[req[s].client] = "in" /\ req[s].kind # "forward" /\ answers'[s].count = 0
    BY <1>1 DEF Waiting
<1>3. CASE s # r
    <2>1. \A b \in Aux : aux'[b].alive = aux[b].alive /\ (InHand(b, s) => InHand(b, s)')
        BY <1>1, <1>3 DEF InHand
    <2> QED BY <1>1, <1>3, <2>1, PursuedKept
<1>4. CASE s = r
    <2>1. ~Answered({r}, FALSE)
        BY <1>2, <1>4, WaitingAnswered
    <2>2. CASE req[r].kind = "merged" /\ Part(r, a)
        BY <1>1, <1>4, <2>2, PartPursued
    <2>3. CASE r \notin aux[a].internal /\ UNCHANGED <<barrier, answers>>
        <3>1. \A b \in Aux : aux'[b].alive = aux[b].alive /\ (InHand(b, s) => InHand(b, s)')
            BY <1>1, <1>4, <2>3 DEF InHand
        <3> QED BY <1>1, <2>3, <3>1, PursuedKept
    <2> QED BY <1>1, <2>1, <2>2, <2>3
<1> QED BY <1>3, <1>4

LEMMA AuxEndsPursued ==
    ASSUME Typed, AllPursued, NEW a \in Aux, AuxDies(a) \/ ReaderEnds(a),
           NEW s \in Requests, Waiting(s)'
    PROVE  Pursued(s)'
<1> USE TypeFacts DEF Typed
<1>1. CASE AuxDies(a)
    <2>1. /\ UNCHANGED <<alive, atPrimary, client, req, pending, barrier, answers>>
          /\ aux' = [aux EXCEPT ![a] = [@ EXCEPT !.alive = FALSE, !.reader = "eof", !.stdin = {}]]
        BY <1>1 DEF AuxDies
    <2>2. /\ \A b \in Aux \ {a} : aux'[b] = aux[b]
          /\ ~aux'[a].alive /\ aux'[a].reader = "eof"
          /\ aux'[a].internal = aux[a].internal /\ aux'[a].todo = aux[a].todo
        BY <2>1 DEF AuxType
    <2>3. \A b \in Aux : (aux'[b].alive => aux[b].alive) /\ (InHand(b, s) => InHand(b, s)')
        BY <2>2 DEF InHand
    <2> QED BY <2>1, <2>3, PursuedKept
<1>2. CASE AuxDrains(a)
    <2>1. /\ UNCHANGED <<alive, atPrimary, client, req, pending, barrier>>
          /\ \A b \in Aux \ {a} : aux'[b] = aux[b]
          /\ aux'[a].todo = aux[a].todo \cup (aux[a].internal \ Forwards(a))
          /\ aux'[a].alive = aux[a].alive
          /\ Answered(Forwards(a), FALSE)
        BY <1>2, AuxDrainsEffect
    <2>2. client[req[s].client] = "in" /\ req[s].kind # "forward" /\ answers'[s].count = 0
        BY <2>1 DEF Waiting
    <2>3. answers'[s] = answers[s]
        BY <2>1, <2>2, WaitingAnswered
    <2>4. \A b \in Aux : (aux'[b].alive => aux[b].alive) /\ (InHand(b, s) => InHand(b, s)')
        BY <2>1, <2>2 DEF InHand, Forwards
    <2> QED BY <2>1, <2>3, <2>4, PursuedKept
<1>3. CASE AuxWindsUp(a)
    <2>1. PICK r \in aux[a].todo :
              /\ r \in Requests
              /\ UNCHANGED <<alive, atPrimary, client, req, pending>>
              /\ \A b \in Aux \ {a} : aux'[b] = aux[b]
              /\ aux'[a].todo = aux[a].todo \ {r}
              /\ aux'[a].alive = aux[a].alive /\ aux'[a].reader = aux[a].reader
              /\ aux'[a].internal = aux[a].internal /\ aux'[a].stdin = aux[a].stdin
              /\ \/ req[r].kind = "merged" /\ Part(r, a)
                 \/ req[r].kind # "merged" /\ Answered({r}, FALSE) /\ UNCHANGED barrier
        BY <1>3, AuxWindsUpEffect
    <2>2. client[req[s].client] = "in" /\ req[s].kind # "forward" /\ answers'[s].count = 0
        BY <2>1 DEF Waiting
    <2>3. CASE s # r
        <3>1. answers'[s] = answers[s] /\ barrier'[s] = barrier[s]
            <4>1. CASE Part(r, a)
                BY <2>1, <2>3, <4>1, PartEffect
            <4>2. CASE Answered({r}, FALSE) /\ UNCHANGED barrier
                BY <2>2, <4>2, WaitingAnswered
            <4> QED BY <2>1, <4>1, <4>2
        <3>2. \A b \in Aux : (aux'[b].alive => aux[b].alive) /\ (InHand(b, s) => InHand(b, s)')
            BY <2>1, <2>3 DEF InHand
        <3> QED BY <2>1, <3>1, <3>2, PursuedKept
    <2>4. CASE s = r
        <3>1. ~Answered({r}, FALSE)
            BY <2>2, <2>4, WaitingAnswered
        <3> QED BY <2>1, <2>4, <3>1, PartPursued
    <2> QED BY <2>3, <2>4
<1> QED BY <1>1, <1>2, <1>3 DEF ReaderEnds

LEMMA NextPursued ==
    Typed /\ Gone /\ ReadersDown /\ NotYet /\ AllPursued /\ [Next]_vars => AllPursued'
<1> SUFFICES ASSUME Typed, Gone, ReadersDown, NotYet, AllPursued, [Next]_vars,
                    NEW s \in Requests, Waiting(s)'
             PROVE  Pursued(s)'
    BY DEF AllPursued
<1>1. CASE UNCHANGED vars
    BY <1>1 DEF vars, Waiting, AllPursued, Pursued, PlainPursued, MergePursued, ResolvePursued, InHand
<1>2. CASE \E c \in Clients : Find(c) \/ Subscribe(c) \/ Unsubscribe(c) \/ HalfUnsubscribe(c)
    BY <1>2, ClientsPursued, HalfPursued
<1>3. CASE \E r \in Requests, c \in Clients : Ask(r, c) \/ AskResolve(r, c)
    BY <1>3, AskPursued
<1>4. CASE \E r \in Requests : PrimaryAsks(r) \/ PrimaryAnswers(r) \/ Sender(r)
    BY <1>4, PrimaryPursued, SendPursued, RegisterPursued, CheckPursued DEF Sender
<1>5. CASE \E a \in Aux, r \in Requests : AuxAnswers(a, r)
    BY <1>5, AuxAnswersPursued
<1>6. CASE \E a \in Aux : AuxDies(a) \/ ReaderEnds(a)
    BY <1>6, AuxEndsPursued
<1>7. CASE PrimaryDies
    BY <1>7 DEF PrimaryDies, Waiting
<1> QED BY <1>1, <1>2, <1>3, <1>4, <1>5, <1>6, <1>7 DEF Next

\* A request that waits, on a session that lives, is in the hands of send or has an
\* answer, or a part of one, still to come.
InGoodHands == \A r \in Requests : Waiting(r) => Busy(r) \/ Coming(r) # {}

(* "Jamais un pend": whatever dies and whenever, no request of a client that listens  *)
(* is lost between the tables of the session while it is not answered (send,          *)
(* abandon_merge_expectation, the end of the reader of an auxiliary).  It is what     *)
(* NeverStranded needs besides fairness.                                              *)
THEOREM NobodyForgotten == Spec => []InGoodHands
<1>1. Init => Fed /\ ReadersDown /\ Gone /\ NotYet /\ AllPursued
    <2>1. Init => Fed /\ ReadersDown /\ Gone
        BY DEF Init, Fed, FedOf, ReadersDown, NoBarrier, Gone, GoneOf, Unsent
    <2>2. Init => NotYet /\ AllPursued
        BY DEF Init, NotYet, AllPursued, Waiting
    <2> QED BY <2>1, <2>2
<1>2. Typed /\ Fed /\ AllPursued => InGoodHands
    <2> SUFFICES ASSUME Typed, Fed, AllPursued, NEW r \in Requests, Waiting(r), ~Busy(r)
                 PROVE  Coming(r) # {}
        BY DEF InGoodHands
    <2>1. Pursued(r) /\ ShapeOf(r) /\ req[r] \in ReqType /\ alive
        BY TypeFacts DEF Typed, Shape, AllPursued, Waiting
    <2>2. req[r].at \in {"sent", "failed"}
        BY <2>1 DEF Busy, ReqType, ShapeOf, Waiting
    <2>3. CASE req[r].kind = "plain"
        BY <2>1, <2>2, <2>3 DEF Pursued, PlainPursued, Coming
    <2>4. CASE req[r].kind = "merged"
        <3>1. barrier[r].open /\ req[r].at = "sent"
            BY <2>1, <2>2, <2>4 DEF Pursued, MergePursued
        <3>2. Cardinality(barrier[r].got) < barrier[r].expected /\ barrier[r].expected <= Cardinality(Owed(r))
            BY <2>1, <3>1 DEF Fed, FedOf
        <3>3. Owed(r) = barrier[r].got \cup Coming(r)
            BY <2>1, <3>1 DEF ShapeOf, Owed, Held, Unserved
        <3>4. Coming(r) = {} => Owed(r) = barrier[r].got
            BY <3>3
        <3>5. /\ Cardinality(barrier[r].got) \in Nat /\ barrier[r].expected \in Nat
              /\ Cardinality(Owed(r)) \in Nat
            BY OwedFinite
        <3> QED BY <3>2, <3>4, <3>5
    <2>5. CASE req[r].kind = "resolve"
        <3>1. req[r].on \in Aux /\ InHand(req[r].on, r)
            BY <2>1, <2>2, <2>5 DEF Pursued, ResolvePursued
        <3> QED BY <3>1 DEF InHand, Coming
    <2> QED BY <2>1, <2>3, <2>4, <2>5 DEF ReqType, Kinds, Waiting
<1> QED
    BY InitTyped, NextTyped, NextReadersDown, NextFed, NextGone, NextNotYet, NextPursued,
       <1>1, <1>2, PTL DEF Spec
=============================================================================
