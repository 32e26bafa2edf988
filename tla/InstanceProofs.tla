--------------------------- MODULE InstanceProofs ----------------------------
(***************************************************************************)
(* Proofs about what stands beside a running Instance: its Viewer, for any   *)
(* finite set of clients, any number of permits and of Viewers that follow   *)
(* each other; and what runs beside the calls, the serial port and the       *)
(* recording, for any sizes of the ring and the pipe.                        *)
(***************************************************************************)
EXTENDS Viewer, InstanceTasks, FiniteSetTheorems, SequenceTheorems, TLAPS

-----------------------------------------------------------------------------
\* The gate.

AnswerType == [status : {0, 101, 200, 401, 403, 404, 503}, secret : BOOLEAN]

\* The page, and a relay, are only for those who have given the credentials; a
\* relay needs a fitting origin and a free permit besides.
LEMMA AnswerAdmits ==
    ASSUME NEW r, NEW u, NEW n
    PROVE  /\ Answer(r, u, n) \in AnswerType
           /\ Answer(r, u, n).secret => IsAuthenticated(r.auth, u)
           /\ Answer(r, u, n).status = 101 =>
                 IsAuthenticated(r.auth, u) /\ OriginAllowed(r.origin) /\ n # 0
<1> DEFINE a == Answer(r, u, n)
<1>1. CASE ~IsAuthenticated(r.auth, u)
    <2>1. a = [status |-> 401, secret |-> FALSE] BY <1>1 DEF Answer, Plain
    <2> HIDE DEF a
    <2>2. a \in AnswerType /\ ~a.secret /\ a.status # 101 BY <2>1 DEF AnswerType
    <2> QED BY <2>2 DEF a
<1>2. CASE IsAuthenticated(r.auth, u) /\ r.path # "/websockify"
    <2>1. a = Routed(r.path) BY <1>2 DEF Answer
    <2> HIDE DEF a
    <2>2. CASE a = [status |-> 200, secret |-> TRUE]
        <3>1. a \in AnswerType /\ a.status # 101 BY <2>2 DEF AnswerType
        <3> QED BY <1>2, <3>1 DEF a
    <2>3. CASE \E k \in {200, 404} : a = [status |-> k, secret |-> FALSE]
        <3>1. a \in AnswerType /\ a.status # 101 BY <2>3 DEF AnswerType
        <3> QED BY <1>2, <3>1 DEF a
    <2> QED BY <2>1, <2>2, <2>3 DEF Routed, Page, Plain
<1>3. CASE IsAuthenticated(r.auth, u) /\ r.path = "/websockify"
    <2>1. a = IF ~OriginAllowed(r.origin) THEN [status |-> 403, secret |-> FALSE]
              ELSE IF n = 0 THEN [status |-> 503, secret |-> FALSE]
              ELSE [status |-> 101, secret |-> FALSE]
        BY <1>3 DEF Answer, Plain
    <2> HIDE DEF a
    <2>2. a \in AnswerType BY <2>1 DEF AnswerType
    <2>3. a.status = 101 => OriginAllowed(r.origin) /\ n # 0 BY <2>1
    <2> QED BY <1>3, <2>2, <2>3 DEF a
<1> QED BY <1>1, <1>2, <1>3

-----------------------------------------------------------------------------
\* The inductive invariant.

Busy(c) == client[c].pc \in {"granted", "relays", "stalled"}
Out(v) == {c \in Client : client[c].of = v /\ Busy(c)}

\* A Viewer that serves, and one that has a connection, is one of the Viewers.
Placed ==
    /\ viewer.serves => viewer.n \in Viewers
    /\ \A c \in Client : client[c].pc # "away" => client[c].of \in Viewers

Inv == TypeOK /\ Placed /\ PermitsBalance /\ OnlyAdmitted

\* The permits, in terms of the clients that hold one.
LEMMA Balance ==
    /\ PermitsBalance <=> \A v \in Viewers : permits[v] + Cardinality(Out(v)) = Cap
    /\ PermitsBalance' <=> \A v \in Viewers : permits'[v] + Cardinality(Out(v)') = Cap
BY DEF PermitsBalance, Out, Busy

\* Those who hold a permit are finitely many.
LEMMA OutFinite ==
    ASSUME NEW v
    PROVE  IsFiniteSet(Out(v)) /\ Cardinality(Out(v)) \in Nat
<1>1. Out(v) \subseteq Client BY DEF Out
<1>2. IsFiniteSet(Out(v)) BY <1>1, ClientAssumption, FS_Subset
<1> QED BY <1>2, FS_CardinalityType

\* No client is there, every permit is.
LEMMA InitInv == Init => Inv
<1> SUFFICES ASSUME Init PROVE Inv OBVIOUS
<1> USE CapAssumption
<1>1. TypeOK
    <2>1. client \in [Client -> [pc : {"away", "open", "granted", "relays", "stalled"},
                                 of : 0..MaxViewers, vnc : 0..MaxViewers]]
        BY DEF Init, Away
    <2>2. Untold \in [answer : AnswerType, authentic : BOOLEAN, origin : Origins]
        BY DEF Untold, Plain, AnswerType, Origins
    <2>3. viewer \in [n : 0..MaxViewers, serves : BOOLEAN] BY DEF Init
    <2> QED BY <2>1, <2>2, <2>3 DEF Init, TypeOK, AnswerType
<1>2. Placed BY DEF Init, Placed, Away
<1>3. PermitsBalance
    <2>1. \A v : Out(v) = {} BY DEF Init, Out, Busy, Away
    <2>2. Cardinality({}) = 0 BY FS_EmptySet
    <2>3. \A v \in Viewers : permits[v] = Cap BY DEF Init
    <2> QED BY <2>1, <2>2, <2>3, Balance
<1>4. OnlyAdmitted BY DEF Init, OnlyAdmitted, Untold, Plain, Away
<1> QED BY <1>1, <1>2, <1>3, <1>4 DEF Inv

\* One connection moves on and comes to hold no permit, nor gives one back.
LEMMA PermitsStay ==
    ASSUME Inv, UNCHANGED permits,
           \A c \in Client : (Busy(c)' <=> Busy(c)) /\ (Busy(c) => client'[c].of = client[c].of)
    PROVE  PermitsBalance'
<1>1. \A v : Out(v)' = Out(v) BY DEF Out
<1> QED BY <1>1, Balance DEF Inv

\* The Viewers come and go, and so do the QEMUs; the clients stay as they are.
LEMMA ViewerSteps ==
    ASSUME Inv, StartViewer \/ Stop \/ QemuGone
    PROVE  Inv'
<1> USE CapAssumption
<1>1. UNCHANGED <<user, permits, client, told>> BY DEF StartViewer, Stop, QemuGone
<1>2. /\ viewer' \in [n : 0..MaxViewers, serves : BOOLEAN] /\ qemu' \in 0..MaxViewers
      /\ viewer'.serves => viewer'.n \in Viewers
    <2>1. /\ viewer \in [n : 0..MaxViewers, serves : BOOLEAN] /\ qemu \in 0..MaxViewers
          /\ viewer.serves => viewer.n \in Viewers
        BY DEF Inv, TypeOK, Placed
    <2>2. CASE StartViewer BY <2>1, <2>2 DEF StartViewer, Viewers
    <2>3. CASE Stop BY <2>1, <2>3 DEF Stop
    <2>4. CASE QemuGone BY <2>1, <2>4 DEF QemuGone
    <2> QED BY <2>2, <2>3, <2>4
<1>3. TypeOK' BY <1>1, <1>2 DEF Inv, TypeOK
<1>4. Placed' BY <1>1, <1>2 DEF Inv, Placed
<1>5. PermitsBalance' BY <1>1, PermitsStay DEF Busy
<1>6. OnlyAdmitted' BY <1>1 DEF Inv, OnlyAdmitted
<1> QED BY <1>3, <1>4, <1>5, <1>6 DEF Inv

\* A connection is made to the Viewer that serves.
LEMMA ConnectStep ==
    ASSUME Inv, NEW c \in Client, Connect(c)
    PROVE  Inv'
<1>0. /\ client \in [Client -> [pc : {"away", "open", "granted", "relays", "stalled"},
                                of : 0..MaxViewers, vnc : 0..MaxViewers]]
      /\ viewer.n \in Viewers /\ viewer.n \in 0..MaxViewers /\ 0 \in 0..MaxViewers
    BY CapAssumption DEF Inv, TypeOK, Placed, Connect
<1>1. /\ client' = [client EXCEPT ![c] = [pc |-> "open", of |-> viewer.n, vnc |-> 0]]
      /\ told' = [told EXCEPT ![c] = Untold]
      /\ client[c].pc = "away"
      /\ UNCHANGED <<viewer, user, permits, qemu>>
    BY DEF Connect
<1>2. /\ client' \in [Client -> [pc : {"away", "open", "granted", "relays", "stalled"},
                                 of : 0..MaxViewers, vnc : 0..MaxViewers]]
      /\ client'[c].pc = "open" /\ client'[c].of = viewer.n
      /\ \A d \in Client \ {c} : client'[d] = client[d]
    BY <1>0, <1>1
<1>3. /\ told' \in [Client -> [answer : AnswerType, authentic : BOOLEAN, origin : Origins]]
      /\ told'[c] = Untold /\ ~Untold.answer.secret
      /\ \A d \in Client \ {c} : told'[d] = told[d]
    <2>1. Untold \in [answer : AnswerType, authentic : BOOLEAN, origin : Origins]
        BY DEF Untold, Plain, AnswerType, Origins
    <2>2. told \in [Client -> [answer : AnswerType, authentic : BOOLEAN, origin : Origins]]
        BY DEF Inv, TypeOK, AnswerType
    <2>3. ~Untold.answer.secret BY DEF Untold, Plain
    <2> QED BY <1>1, <2>1, <2>2, <2>3
<1>4. TypeOK' BY <1>1, <1>2, <1>3 DEF Inv, TypeOK, AnswerType
<1>5. Placed' BY <1>0, <1>1, <1>2 DEF Inv, Placed
<1>6. PermitsBalance'
    <2>1. \A d \in Client : (Busy(d)' <=> Busy(d)) /\ (Busy(d) => client'[d].of = client[d].of)
        BY <1>1, <1>2 DEF Busy
    <2> QED BY <1>1, <2>1, PermitsStay
<1>7. OnlyAdmitted' BY <1>2, <1>3 DEF Inv, OnlyAdmitted
<1> QED BY <1>4, <1>5, <1>6, <1>7 DEF Inv

\* A request is answered; one that is granted a relay takes a permit.
LEMMA AsksStep ==
    ASSUME Inv, NEW c \in Client, Asks(c)
    PROVE  Inv'
<1> USE CapAssumption
<1>0. PICK v \in Viewers : v = client[c].of
    BY DEF Inv, Placed, Asks
<1>1. PICK r \in [auth : Authorizations, path : Paths, origin : Origins] :
        LET a == Answer(r, user, permits[v])
        IN /\ told' = [told EXCEPT ![c] = [answer |-> a, origin |-> r.origin,
                                           authentic |-> IsAuthenticated(r.auth, user)]]
           /\ IF a.status = 101
              THEN /\ permits' = [permits EXCEPT ![v] = @ - 1]
                   /\ client' = [client EXCEPT ![c].pc = "granted"]
              ELSE UNCHANGED <<permits, client>>
    BY <1>0 DEF Asks
<1> DEFINE a == Answer(r, user, permits[v])
           t == [answer |-> a, origin |-> r.origin, authentic |-> IsAuthenticated(r.auth, user)]
<1>2. client[c].pc = "open" /\ UNCHANGED <<viewer, user, qemu>> BY DEF Asks
<1>3. /\ client \in [Client -> [pc : {"away", "open", "granted", "relays", "stalled"},
                                of : 0..MaxViewers, vnc : 0..MaxViewers]]
      /\ permits \in [Viewers -> 0..Cap] /\ v \in Viewers
      /\ told \in [Client -> [answer : AnswerType, authentic : BOOLEAN, origin : Origins]]
    BY <1>2 DEF Inv, TypeOK, Placed, AnswerType
<1>4. /\ a \in AnswerType
      /\ a.secret => IsAuthenticated(r.auth, user)
      /\ a.status = 101 =>
            IsAuthenticated(r.auth, user) /\ OriginAllowed(r.origin) /\ permits[v] # 0
    BY AnswerAdmits
<1>4a. told' = [told EXCEPT ![c] = t] BY <1>1
<1>4b. CASE a.status = 101
    <2>1. /\ permits' = [permits EXCEPT ![v] = @ - 1]
          /\ client' = [client EXCEPT ![c].pc = "granted"]
        BY <1>1, <1>4b
    <2> HIDE DEF a
    <2>2. /\ client' \in [Client -> [pc : {"away", "open", "granted", "relays", "stalled"},
                                     of : 0..MaxViewers, vnc : 0..MaxViewers]]
          /\ \A d \in Client : client'[d].of = client[d].of
          /\ \A d \in Client \ {c} : client'[d] = client[d]
          /\ client'[c].pc = "granted"
        BY <1>3, <2>1
    <2>3. permits' \in [Viewers -> 0..Cap] /\ permits'[v] = permits[v] - 1
          /\ \A w \in Viewers \ {v} : permits'[w] = permits[w]
        <3>1. permits[v] \in 0..Cap /\ permits[v] # 0 BY <1>3, <1>4, <1>4b
        <3>2. permits[v] - 1 \in 0..Cap BY <3>1
        <3> QED BY <1>3, <2>1, <3>2
    <2>4. PermitsBalance'
        <3>1. c \notin Out(v) /\ Out(v)' = Out(v) \cup {c} BY <1>0, <1>2, <2>2 DEF Out, Busy
        <3>2. \A w \in Viewers \ {v} : Out(w)' = Out(w) BY <1>0, <1>2, <2>2 DEF Out, Busy
        <3>3. Cardinality(Out(v)') = Cardinality(Out(v)) + 1
            BY <3>1, OutFinite, FS_AddElement
        <3>4. \A w \in Viewers : permits[w] + Cardinality(Out(w)) = Cap
            BY Balance DEF Inv
        <3>5. Cardinality(Out(v)) \in Nat /\ permits[v] \in Nat BY <1>3, OutFinite
        <3>6. permits'[v] + Cardinality(Out(v)') = Cap BY <1>3, <2>3, <3>3, <3>4, <3>5
        <3>7. \A w \in Viewers : permits'[w] + Cardinality(Out(w)') = Cap
            BY <2>3, <3>2, <3>4, <3>6
        <3> QED BY <3>7, Balance
    <2>5. Placed' BY <1>2, <2>2 DEF Inv, Placed
    <2>6. t \in [answer : AnswerType, authentic : BOOLEAN, origin : Origins]
        BY <1>4 DEF IsAuthenticated
    <2>7. t.answer.secret => t.authentic BY <1>4
    <2>8. t.authentic /\ t.origin \in {"absent", "own"} BY <1>4, <1>4b DEF OriginAllowed
    <2> HIDE DEF t
    <2>9. told' \in [Client -> [answer : AnswerType, authentic : BOOLEAN, origin : Origins]]
          /\ told'[c] = t /\ \A d \in Client \ {c} : told'[d] = told[d]
        BY <1>3, <1>4a, <2>6
    <2>10. TypeOK' BY <1>2, <2>2, <2>3, <2>9 DEF Inv, TypeOK, AnswerType
    <2>11. OnlyAdmitted' BY <2>2, <2>7, <2>8, <2>9 DEF Inv, OnlyAdmitted
    <2> QED BY <2>4, <2>5, <2>10, <2>11 DEF Inv
<1>5. CASE a.status # 101
    <2>1. UNCHANGED <<permits, client>> BY <1>1, <1>5
    <2> HIDE DEF a
    <2>2. PermitsBalance' BY <2>1, PermitsStay DEF Busy
    <2>3. Placed' BY <1>2, <2>1 DEF Inv, Placed
    <2>4. t \in [answer : AnswerType, authentic : BOOLEAN, origin : Origins]
        BY <1>4 DEF IsAuthenticated
    <2>5. t.answer.secret => t.authentic BY <1>4
    <2> HIDE DEF t
    <2>6. told' \in [Client -> [answer : AnswerType, authentic : BOOLEAN, origin : Origins]]
          /\ told'[c] = t /\ \A d \in Client \ {c} : told'[d] = told[d]
        BY <1>3, <1>4a, <2>4
    <2>7. TypeOK' BY <1>2, <2>1, <2>6 DEF Inv, TypeOK, AnswerType
    <2>8. OnlyAdmitted' BY <1>2, <2>1, <2>5, <2>6 DEF Inv, OnlyAdmitted
    <2> QED BY <2>2, <2>3, <2>7, <2>8 DEF Inv
<1> QED BY <1>4b, <1>5

\* A relay, or an upgrade, that is over gives its permit back.
LEMMA OverStep ==
    ASSUME Inv, NEW c \in Client, Busy(c), Over(c)
    PROVE  Inv'
<1> USE CapAssumption
<1>0. PICK v \in Viewers : v = client[c].of
    BY DEF Inv, Placed, Busy
<1>1. /\ client' = [client EXCEPT ![c] = Away]
      /\ permits' = [permits EXCEPT ![v] = @ + 1]
      /\ UNCHANGED <<viewer, user, told, qemu>>
    BY <1>0 DEF Over
<1>2. /\ client \in [Client -> [pc : {"away", "open", "granted", "relays", "stalled"},
                                of : 0..MaxViewers, vnc : 0..MaxViewers]]
      /\ permits \in [Viewers -> 0..Cap] /\ v \in Viewers
    BY DEF Inv, TypeOK, Placed, Busy
<1>3. /\ client' \in [Client -> [pc : {"away", "open", "granted", "relays", "stalled"},
                                 of : 0..MaxViewers, vnc : 0..MaxViewers]]
      /\ client'[c].pc = "away"
      /\ \A d \in Client \ {c} : client'[d] = client[d]
    BY <1>1, <1>2 DEF Away
<1>4. Out(v)' = Out(v) \ {c} /\ c \in Out(v) BY <1>0, <1>3 DEF Out, Busy
<1>5. \A w \in Viewers \ {v} : Out(w)' = Out(w) BY <1>0, <1>3 DEF Out, Busy
<1>6. Cardinality(Out(v)') = Cardinality(Out(v)) - 1 BY <1>4, OutFinite, FS_RemoveElement
<1>7. /\ \A w \in Viewers : permits[w] + Cardinality(Out(w)) = Cap
      /\ Cardinality(Out(v)) \in Nat /\ Cardinality(Out(v)') \in Nat
    <2>1. IsFiniteSet(Out(v)') BY <1>4, OutFinite, FS_Subset
    <2> QED BY <2>1, Balance, OutFinite, FS_CardinalityType DEF Inv
<1>8. /\ permits'[v] = permits[v] + 1 /\ permits[v] \in Nat
      /\ \A w \in Viewers \ {v} : permits'[w] = permits[w]
      /\ permits' = [w \in Viewers |-> permits'[w]]
    <2>1. permits' = [permits EXCEPT ![v] = @ + 1] /\ permits \in [Viewers -> 0..Cap]
        BY <1>1, <1>2
    <2>2. permits[v] \in 0..Cap BY <2>1
    <2>3. permits'[v] = permits[v] + 1 BY <2>1
    <2>4. \A w \in Viewers \ {v} : permits'[w] = permits[w] BY <2>1
    <2>5. permits' = [w \in Viewers |-> permits'[w]] BY <2>1
    <2> QED BY <2>2, <2>3, <2>4, <2>5
<1>9. permits'[v] \in 0..Cap BY <1>6, <1>7, <1>8, <1>2
<1>10. permits' \in [Viewers -> 0..Cap] BY <1>2, <1>8, <1>9
<1>11. PermitsBalance'
    <2>1. permits'[v] + Cardinality(Out(v)') = Cap BY <1>2, <1>6, <1>7, <1>8
    <2>2. \A w \in Viewers : permits'[w] + Cardinality(Out(w)') = Cap
        BY <1>5, <1>7, <1>8, <2>1
    <2> QED BY <2>2, Balance
<1>12. TypeOK' BY <1>1, <1>3, <1>10 DEF Inv, TypeOK
<1>13. Placed' BY <1>1, <1>3 DEF Inv, Placed
<1>14. OnlyAdmitted' BY <1>1, <1>3 DEF Inv, OnlyAdmitted
<1> QED BY <1>11, <1>12, <1>13, <1>14 DEF Inv

\* A relay goes on, in one of its states, or a connection without one is closed.
LEMMA RelaySteps ==
    ASSUME Inv, NEW c \in Client,
           \/ Dial(c) \/ Stalls(c) \/ Reads(c)
           \/ client[c].pc = "open" /\ Leaves(c)
    PROVE  Inv'
<1>0. /\ client \in [Client -> [pc : {"away", "open", "granted", "relays", "stalled"},
                                of : 0..MaxViewers, vnc : 0..MaxViewers]]
      /\ qemu \in 0..MaxViewers /\ 0 \in 0..MaxViewers
    BY CapAssumption DEF Inv, TypeOK
<1>1. UNCHANGED <<viewer, user, permits, told, qemu>>
    BY DEF Dial, Stalls, Reads, Leaves
<1>2. /\ client' \in [Client -> [pc : {"away", "open", "granted", "relays", "stalled"},
                                 of : 0..MaxViewers, vnc : 0..MaxViewers]]
      /\ \A d \in Client \ {c} : client'[d] = client[d]
      /\ Busy(c)' <=> Busy(c)
      /\ client'[c].pc # "away" => client[c].pc # "away" /\ client'[c].of = client[c].of
    <2>1. CASE Dial(c) BY <1>0, <2>1 DEF Dial, Busy
    <2>2. CASE Stalls(c) BY <1>0, <2>2 DEF Stalls, Busy
    <2>3. CASE Reads(c) BY <1>0, <2>3 DEF Reads, Busy
    <2>4. CASE client[c].pc = "open" /\ Leaves(c) BY <1>0, <2>4 DEF Leaves, Busy, Away
    <2> QED BY <2>1, <2>2, <2>3, <2>4
<1>3. \A d \in Client : (Busy(d)' <=> Busy(d)) /\ (Busy(d) => client'[d].of = client[d].of)
    BY <1>2 DEF Busy
<1>4. TypeOK' BY <1>1, <1>2 DEF Inv, TypeOK
<1>5. Placed' BY <1>1, <1>2 DEF Inv, Placed
<1>6. PermitsBalance' BY <1>1, <1>3, PermitsStay
<1>7. OnlyAdmitted' BY <1>1, <1>3 DEF Inv, OnlyAdmitted, Busy
<1> QED BY <1>4, <1>5, <1>6, <1>7 DEF Inv

-----------------------------------------------------------------------------
\* The theorems.

\* The invariant holds in every state of every behaviour.
LEMMA Invariance == Spec => []Inv
<1>1. Inv /\ [Next]_vars => Inv'
    <2> SUFFICES ASSUME Inv, [Next]_vars PROVE Inv' OBVIOUS
    <2>1. CASE UNCHANGED vars
        <3>1. UNCHANGED <<viewer, user, permits, client, told, qemu>> BY <2>1 DEF vars
        <3>2. TypeOK' BY <3>1 DEF Inv, TypeOK
        <3>3. Placed' BY <3>1 DEF Inv, Placed
        <3>4. PermitsBalance' BY <3>1, PermitsStay DEF Busy
        <3>5. OnlyAdmitted' BY <3>1 DEF Inv, OnlyAdmitted
        <3> QED BY <3>2, <3>3, <3>4, <3>5 DEF Inv
    <2>2. CASE StartViewer \/ Stop \/ QemuGone BY <2>2, ViewerSteps
    <2>3. ASSUME NEW c \in Client,
                 Connect(c) \/ Asks(c) \/ ServerStep(c) \/ Stalls(c) \/ Reads(c) \/ Leaves(c)
          PROVE  Inv'
        <3>1. CASE Connect(c) BY <3>1, ConnectStep
        <3>2. CASE Asks(c) BY <3>2, AsksStep
        <3>3. CASE Dial(c) \/ Stalls(c) \/ Reads(c) BY <3>3, RelaySteps
        <3>4. CASE DialFails(c) \/ RelaySeesEnd(c)
            <4>1. Busy(c) /\ Over(c) BY <3>4 DEF DialFails, RelaySeesEnd, Busy
            <4> QED BY <4>1, OverStep
        <3>5. CASE Leaves(c)
            <4>1. CASE client[c].pc = "open" BY <3>5, <4>1, RelaySteps
            <4>2. CASE Busy(c) /\ Over(c) BY <4>2, OverStep
            <4> QED BY <3>5, <4>1, <4>2 DEF Leaves, Busy
        <3> QED BY <2>3, <3>1, <3>2, <3>3, <3>4, <3>5 DEF ServerStep
    <2> QED BY <2>1, <2>2, <2>3 DEF Next
<1> QED BY <1>1, InitInv, PTL DEF Spec

\* Never more than Cap relays, and none of the permits is ever lost: upgrades that
\* fail, relays whose QEMU goes, clients that leave and Viewers that are stopped in
\* the middle all give theirs back (handle_ws, proxy_to_vnc).
THEOREM PermitsAreSound == Spec => []PermitsHold
<1>1. Inv => PermitsHold BY DEF Inv, PermitsHold
<1> QED BY <1>1, Invariance, PTL

\* Whoever relays, or has seen the Display's password, has authenticated and comes
\* from no foreign page, whatever paths are asked for and in whatever order the
\* Viewers stop and start (require_auth, ws_handler).
THEOREM GateIsClosed == Spec => []OnlyAdmitted
<1>1. Inv => OnlyAdmitted BY DEF Inv
<1> QED BY <1>1, Invariance, PTL

-----------------------------------------------------------------------------
(* The serial port and the recording, beside the calls.                     *)

Kinds == {"none", "create", "read", "write", "dump", "start", "stop", "teardown"}
Places == {"none", "attach", "cont", "writing", "asked", "done", "spawn", "window",
           "abort", "encoder", "frame", "bridge", "close"}

\* Every variable but the call's and the port's has its type.
Values ==
    /\ host \in Host
    /\ up \in {"none", "launched", "up", "gone", "closing"}
    /\ spec \in [serial : BOOLEAN, display : BOOLEAN]
    /\ loop \in {"none", "capture", "wait", "feed", "over"}
    /\ enc \in {"none", "runs", "exited"}
    /\ dump \in {"none", "asked", "done"}

Flags ==
    /\ slot \in BOOLEAN /\ eof \in BOOLEAN /\ frame \in BOOLEAN
    /\ late \in BOOLEAN /\ litter \in BOOLEAN

\* Where a call may be, and what it found when it took the lock.
Calls ==
    /\ op \in [kind : Kinds, pc : Places, n : 0..(Pipe + 1)]
    /\ input \in 0..Pipe
    /\ op.kind = "none" => op = Free
    /\ op.kind = "create" <=> up = "launched"
    /\ op.kind = "create" => op.pc \in {"attach", "cont"}
    /\ op.kind = "read" => op.pc \in {"asked", "done"}
    /\ op.kind = "write" => op.pc \in {"asked", "done"} \/ (op.pc = "writing" /\ op.n > 0)
    /\ op.kind = "dump" => op.pc \in {"asked", "done"}
    /\ op.kind = "start" => op.pc \in {"spawn", "window"} /\ ~slot
    /\ op.kind = "stop" => op.pc \in {"abort", "encoder", "frame"}
    /\ op.kind = "teardown" => /\ op.pc \in {"abort", "encoder", "frame", "bridge", "close"}
                               /\ up \in {"gone", "closing"}
    /\ op.kind \in {"stop", "teardown"} => ~slot
    /\ op.kind \in {"read", "write", "dump", "start", "stop"} => up \in {"up", "gone"}
    /\ up = "closing" => op.kind = "teardown"

\* What is left of a recording at each step of who owns it.
Owned ==
    /\ slot => up \in {"up", "gone"}
    /\ loop # "none" \/ dump # "none" => slot \/ op.pc = "abort"
    /\ enc # "none" => slot \/ op.pc \in {"window", "abort", "encoder"}
    /\ frame => slot \/ op.pc \in {"abort", "encoder", "frame"}

\* The port is attached before the Guest goes, and until the teardown takes it.
Attached ==
    /\ up = "none" => ~serial.on
    /\ spec.serial => /\ Is("create", "cont") => serial.on
                      /\ up = "up" => serial.on
    /\ op.pc = "close" => ~serial.on

Byte == [n : Nat, by : {"guest", "caller"}]
Command == [kind : {"read", "write"}, size : Nat \ {0}]

\* A run of bytes: the Guest's output from one position to another, in order and
\* without a gap, with what callers wrote in between.
Run(bytes, from, to) ==
    /\ bytes \in Seq(Byte) /\ from \in Nat /\ to \in Nat /\ from <= to
    /\ \A i \in 1..Len(bytes) : from <= Before(bytes[i]) /\ bytes[i].n <= to
    /\ \A i \in 1..Len(bytes) : \A j \in (i + 1)..Len(bytes) : bytes[i].n <= Before(bytes[j])
    /\ \A i \in 1..(Len(bytes) - 1) : bytes[i].n = Before(bytes[i + 1])
    /\ Len(bytes) > 0 => Before(bytes[1]) = from /\ bytes[Len(bytes)].n = to
    /\ Len(bytes) = 0 => from = to

\* The pipe, the ring, and what left it.
Output ==
    /\ serial = [out |-> serial.out, taken |-> serial.taken, ring |-> serial.ring,
                 drained |-> serial.drained, heard |-> serial.heard, lost |-> serial.lost,
                 queue |-> serial.queue, on |-> serial.on]
    /\ serial.out \in Nat /\ serial.taken <= serial.out
    /\ host.backend = "ringbuf" => serial.taken = serial.out
    /\ serial.drained \in Nat /\ serial.heard \in Nat /\ serial.heard <= serial.drained
    /\ Len(serial.ring) <= RingSize
    /\ Run(serial.ring, Start, serial.taken)
    /\ serial.drained <= Start /\ (Start = serial.drained \/ Len(serial.ring) = RingSize)

\* Commands are for QEMU's own ring, and only from there comes what callers wrote.
Queued ==
    /\ serial.queue \in Seq(Command) /\ Len(serial.queue) <= MaxQueue
    /\ host.backend = "socket" => serial.queue = <<>> /\ OnlyTheGuestSpeaks

\* The last command is the one of the call that waits.
AskedIsLast ==
    op.kind \in {"read", "write"} /\ op.pc = "asked" =>
       /\ serial.queue # <<>>
       /\ serial.queue[Len(serial.queue)].kind = op.kind

TasksInv ==
    /\ Values /\ Flags /\ Calls /\ Owned /\ Attached /\ Output
    /\ Queued /\ AskedIsLast /\ DrainedIsHeard

LEMMA TasksInvInit == TasksInit => TasksInv
<1> SUFFICES ASSUME TasksInit PROVE TasksInv OBVIOUS
<1>1. Values BY HostsAssumption DEF TasksInit, Values
<1>2. Flags BY Zenon DEF TasksInit, Flags
<1>3. Calls /\ Owned BY SizesAssumption DEF TasksInit, Calls, Owned, Free, Kinds, Places
<1>4. Attached BY DEF TasksInit, Attached, Fresh, Free, Is
<1>5. Output
    <2>1. PICK none : none = <<>> OBVIOUS
    <2>2. serial = [out |-> 0, taken |-> 0, ring |-> none, drained |-> 0,
                    heard |-> 0, lost |-> FALSE, queue |-> none, on |-> FALSE]
        BY <2>1 DEF TasksInit, Fresh
    <2>3. Run(none, 0, 0) /\ Len(none) = 0 BY <2>1 DEF Run
    <2>4. Start = 0 BY <2>1, <2>2 DEF Start
    <2>5. 0 <= RingSize BY SizesAssumption
    <2> HIDE DEF Run
    <2> QED BY <2>2, <2>3, <2>4, <2>5 DEF Output
<1>6. Queued
    BY SizesAssumption DEF TasksInit, Fresh, Queued, OnlyTheGuestSpeaks
<1>7. AskedIsLast /\ DrainedIsHeard
    BY DEF TasksInit, Fresh, Free, AskedIsLast, DrainedIsHeard
<1> QED BY <1>1, <1>2, <1>3, <1>4, <1>5, <1>6, <1>7 DEF TasksInv

LEMMA ValuesNext ==
    ASSUME Values, [TasksNext]_taskVars
    PROVE  Values'
<1> USE DEF Values, recording, LoopOnly
<1>1. CASE Create BY <1>1 DEF Create
<1>2. CASE Attach BY <1>2 DEF Attach
<1>3. CASE Cont BY <1>3 DEF Cont
<1>4. CASE GuestSays BY <1>4 DEF GuestSays
<1>5. CASE ReaderTakes BY <1>5 DEF ReaderTakes
<1>6. CASE ReadSerial BY <1>6 DEF ReadSerial
<1>7. CASE WriteBegin BY <1>7 DEF WriteBegin
<1>8. CASE WriteByte BY <1>8 DEF WriteByte
<1>9. CASE WriteEnds BY <1>9 DEF WriteEnds
<1>10. CASE GuestReads BY <1>10 DEF GuestReads
<1>11. CASE DumpBegin BY <1>11 DEF DumpBegin
<1>12. CASE QemuDumps BY <1>12 DEF QemuDumps
<1>13. CASE DumpEnds BY <1>13 DEF DumpEnds
<1>14. CASE QemuDumpsLate BY <1>14 DEF QemuDumpsLate
<1>15. CASE StartBegin BY <1>15 DEF StartBegin
<1>16. CASE StartSpawns BY <1>16 DEF StartSpawns
<1>17. CASE StartSeesExit BY <1>17 DEF StartSeesExit
<1>18. CASE StartEnds BY <1>18 DEF StartEnds
<1>19. CASE LoopAsks BY <1>19 DEF LoopAsks
<1>20. CASE QemuDumpsFrame BY <1>20 DEF QemuDumpsFrame
<1>21. CASE LoopCaptured BY <1>21 DEF LoopCaptured
<1>22. CASE LoopCaptureFails BY <1>22 DEF LoopCaptureFails
<1>23. CASE LoopFeeds BY <1>23 DEF LoopFeeds
<1>24. CASE EncoderExits BY <1>24 DEF EncoderExits
<1>25. CASE StopBegin BY <1>25 DEF StopBegin
<1>26. CASE TeardownBegin BY <1>26 DEF TeardownBegin
<1>27. CASE FinalizeAborts BY <1>27 DEF FinalizeAborts
<1>28. CASE FinalizeEncoder BY <1>28 DEF FinalizeEncoder
<1>29. CASE FinalizeCleans BY <1>29 DEF FinalizeCleans
<1>30. CASE TeardownBridge BY <1>30 DEF TeardownBridge
<1>31. CASE TeardownCloses BY <1>31 DEF TeardownCloses
<1>32. CASE QemuExits BY <1>32 DEF QemuExits
<1>33. CASE UNCHANGED taskVars BY <1>33 DEF taskVars
<1>34. CASE ReadRingbuf BY <1>34 DEF ReadRingbuf, AskRingbuf
<1>35. CASE WriteRingbuf BY <1>35 DEF WriteRingbuf, AskRingbuf
<1>36. CASE QemuPerforms BY <1>36 DEF QemuPerforms
<1>37. CASE RingbufAnswers BY <1>37 DEF RingbufAnswers
<1>38. CASE RingbufFails BY <1>38 DEF RingbufFails
<1> QED BY <1>1, <1>2, <1>3, <1>4, <1>5, <1>6, <1>7, <1>8, <1>9, <1>10, <1>11, <1>12, <1>13,
   <1>14, <1>15, <1>16, <1>17, <1>18, <1>19, <1>20, <1>21, <1>22, <1>23, <1>24, <1>25, <1>26,
   <1>27, <1>28, <1>29, <1>30, <1>31, <1>32, <1>33, <1>34,
   <1>35, <1>36, <1>37, <1>38 DEF TasksNext, CallStep

LEMMA FlagsNext ==
    ASSUME Flags, [TasksNext]_taskVars
    PROVE  Flags'
<1> USE DEF Flags, recording, LoopOnly
<1>1. CASE Create BY <1>1, Zenon DEF Create
<1>2. CASE Attach BY <1>2, Zenon DEF Attach
<1>3. CASE Cont BY <1>3, Zenon DEF Cont
<1>4. CASE GuestSays BY <1>4, Zenon DEF GuestSays
<1>5. CASE ReaderTakes BY <1>5, Zenon DEF ReaderTakes
<1>6. CASE ReadSerial BY <1>6, Zenon DEF ReadSerial
<1>7. CASE WriteBegin BY <1>7, Zenon DEF WriteBegin
<1>8. CASE WriteByte BY <1>8, Zenon DEF WriteByte
<1>9. CASE WriteEnds BY <1>9, Zenon DEF WriteEnds
<1>10. CASE GuestReads BY <1>10, Zenon DEF GuestReads
<1>11. CASE DumpBegin BY <1>11, Zenon DEF DumpBegin
<1>12. CASE QemuDumps BY <1>12, Zenon DEF QemuDumps
<1>13. CASE DumpEnds BY <1>13, Zenon DEF DumpEnds
<1>14. CASE QemuDumpsLate BY <1>14, Zenon DEF QemuDumpsLate
<1>15. CASE StartBegin BY <1>15, Zenon DEF StartBegin
<1>16. CASE StartSpawns BY <1>16, Zenon DEF StartSpawns
<1>17. CASE StartSeesExit BY <1>17, Zenon DEF StartSeesExit
<1>18. CASE StartEnds BY <1>18, Zenon DEF StartEnds
<1>19. CASE LoopAsks BY <1>19, Zenon DEF LoopAsks
<1>20. CASE QemuDumpsFrame BY <1>20, Zenon DEF QemuDumpsFrame
<1>21. CASE LoopCaptured BY <1>21, Zenon DEF LoopCaptured
<1>22. CASE LoopCaptureFails BY <1>22, Zenon DEF LoopCaptureFails
<1>23. CASE LoopFeeds BY <1>23, Zenon DEF LoopFeeds
<1>24. CASE EncoderExits BY <1>24, Zenon DEF EncoderExits
<1>25. CASE StopBegin BY <1>25, Zenon DEF StopBegin
<1>26. CASE TeardownBegin BY <1>26, Zenon DEF TeardownBegin
<1>27. CASE FinalizeAborts BY <1>27, Zenon DEF FinalizeAborts
<1>28. CASE FinalizeEncoder BY <1>28, Zenon DEF FinalizeEncoder
<1>29. CASE FinalizeCleans BY <1>29, Zenon DEF FinalizeCleans
<1>30. CASE TeardownBridge BY <1>30, Zenon DEF TeardownBridge
<1>31. CASE TeardownCloses BY <1>31, Zenon DEF TeardownCloses
<1>32. CASE QemuExits BY <1>32, Zenon DEF QemuExits
<1>33. CASE UNCHANGED taskVars BY <1>33, Zenon DEF taskVars
<1>34. CASE ReadRingbuf BY <1>34, Zenon DEF ReadRingbuf, AskRingbuf
<1>35. CASE WriteRingbuf BY <1>35, Zenon DEF WriteRingbuf, AskRingbuf
<1>36. CASE QemuPerforms BY <1>36, Zenon DEF QemuPerforms
<1>37. CASE RingbufAnswers BY <1>37, Zenon DEF RingbufAnswers
<1>38. CASE RingbufFails BY <1>38, Zenon DEF RingbufFails
<1> QED BY <1>1, <1>2, <1>3, <1>4, <1>5, <1>6, <1>7, <1>8, <1>9, <1>10, <1>11, <1>12, <1>13,
   <1>14, <1>15, <1>16, <1>17, <1>18, <1>19, <1>20, <1>21, <1>22, <1>23, <1>24, <1>25, <1>26,
   <1>27, <1>28, <1>29, <1>30, <1>31, <1>32, <1>33, <1>34,
   <1>35, <1>36, <1>37, <1>38 DEF TasksNext, CallStep

\* A call is where it was put, and nothing but its own steps moves it: the tasks,
\* QEMU and ffmpeg change what it finds, and only as far as Calls says.
LEMMA CallsNext ==
    ASSUME Values, Calls, Owned, [TasksNext]_taskVars
    PROVE  Calls'
<1> USE DEF Values, Calls, Owned, Kinds, Places, recording, Free, Op, Is, LoopOnly, Fresh
<1>1. CASE Create BY <1>1, SizesAssumption DEF Create
<1>2. CASE Attach BY <1>2, SizesAssumption DEF Attach
<1>3. CASE Cont BY <1>3, SizesAssumption DEF Cont
<1>4. CASE GuestSays BY <1>4, SizesAssumption DEF GuestSays
<1>5. CASE ReaderTakes BY <1>5, SizesAssumption DEF ReaderTakes
<1>6. CASE ReadSerial BY <1>6, SizesAssumption DEF ReadSerial
<1>7. CASE WriteBegin BY <1>7, SizesAssumption DEF WriteBegin
<1>8. CASE WriteByte BY <1>8, SizesAssumption DEF WriteByte
<1>9. CASE WriteEnds BY <1>9, SizesAssumption DEF WriteEnds
<1>10. CASE GuestReads BY <1>10, SizesAssumption DEF GuestReads
<1>11. CASE DumpBegin BY <1>11, SizesAssumption DEF DumpBegin
<1>12. CASE QemuDumps BY <1>12, SizesAssumption DEF QemuDumps
<1>13. CASE DumpEnds BY <1>13, SizesAssumption DEF DumpEnds
<1>14. CASE QemuDumpsLate BY <1>14, SizesAssumption DEF QemuDumpsLate
<1>15. CASE StartBegin BY <1>15, SizesAssumption DEF StartBegin
<1>16. CASE StartSpawns BY <1>16, SizesAssumption DEF StartSpawns
<1>17. CASE StartSeesExit BY <1>17, SizesAssumption DEF StartSeesExit
<1>18. CASE StartEnds BY <1>18, SizesAssumption DEF StartEnds
<1>19. CASE LoopAsks BY <1>19, SizesAssumption DEF LoopAsks
<1>20. CASE QemuDumpsFrame BY <1>20, SizesAssumption DEF QemuDumpsFrame
<1>21. CASE LoopCaptured BY <1>21, SizesAssumption DEF LoopCaptured
<1>22. CASE LoopCaptureFails BY <1>22, SizesAssumption DEF LoopCaptureFails
<1>23. CASE LoopFeeds BY <1>23, SizesAssumption DEF LoopFeeds
<1>24. CASE EncoderExits BY <1>24, SizesAssumption DEF EncoderExits
<1>25. CASE StopBegin BY <1>25, SizesAssumption DEF StopBegin
<1>26. CASE TeardownBegin BY <1>26, SizesAssumption DEF TeardownBegin
<1>27. CASE FinalizeAborts BY <1>27, SizesAssumption DEF FinalizeAborts
<1>28. CASE FinalizeEncoder BY <1>28, SizesAssumption DEF FinalizeEncoder
<1>29. CASE FinalizeCleans BY <1>29, SizesAssumption DEF FinalizeCleans
<1>30. CASE TeardownBridge BY <1>30, SizesAssumption DEF TeardownBridge
<1>31. CASE TeardownCloses BY <1>31, SizesAssumption DEF TeardownCloses
<1>32. CASE QemuExits BY <1>32, SizesAssumption DEF QemuExits
<1>33. CASE UNCHANGED taskVars BY <1>33, SizesAssumption DEF taskVars
<1>34. CASE ReadRingbuf BY <1>34, SizesAssumption DEF ReadRingbuf, AskRingbuf
<1>35. CASE WriteRingbuf BY <1>35, SizesAssumption DEF WriteRingbuf, AskRingbuf
<1>36. CASE QemuPerforms BY <1>36, SizesAssumption DEF QemuPerforms
<1>37. CASE RingbufAnswers BY <1>37, SizesAssumption DEF RingbufAnswers
<1>38. CASE RingbufFails BY <1>38, SizesAssumption DEF RingbufFails
<1> QED BY <1>1, <1>2, <1>3, <1>4, <1>5, <1>6, <1>7, <1>8, <1>9, <1>10, <1>11, <1>12, <1>13,
   <1>14, <1>15, <1>16, <1>17, <1>18, <1>19, <1>20, <1>21, <1>22, <1>23, <1>24, <1>25, <1>26,
   <1>27, <1>28, <1>29, <1>30, <1>31, <1>32, <1>33, <1>34,
   <1>35, <1>36, <1>37, <1>38 DEF TasksNext, CallStep

\* What a recording has is the slot's or the finalization's, step by step; the port is
\* there before the Guest goes.
LEMMA OwnedNext ==
    ASSUME Values, Calls, Owned, Attached, Output, [TasksNext]_taskVars
    PROVE  (Owned /\ Attached)'
<1>0. serial = [out |-> serial.out, taken |-> serial.taken, ring |-> serial.ring,
                drained |-> serial.drained, heard |-> serial.heard, lost |-> serial.lost,
                queue |-> serial.queue, on |-> serial.on]
    BY DEF Output
<1> USE <1>0 DEF Values, Calls, Owned, Attached, Drained, recording, Free, Op, Is,
            LoopOnly, Fresh
<1>1. CASE Create BY <1>1 DEF Create
<1>2. CASE Attach BY <1>2 DEF Attach
<1>3. CASE Cont BY <1>3 DEF Cont
<1>4. CASE GuestSays BY <1>4 DEF GuestSays
<1>5. CASE ReaderTakes BY <1>5 DEF ReaderTakes
<1>6. CASE ReadSerial BY <1>6 DEF ReadSerial
<1>7. CASE WriteBegin BY <1>7 DEF WriteBegin
<1>8. CASE WriteByte BY <1>8 DEF WriteByte
<1>9. CASE WriteEnds BY <1>9 DEF WriteEnds
<1>10. CASE GuestReads BY <1>10 DEF GuestReads
<1>11. CASE DumpBegin BY <1>11 DEF DumpBegin
<1>12. CASE QemuDumps BY <1>12 DEF QemuDumps
<1>13. CASE DumpEnds BY <1>13 DEF DumpEnds
<1>14. CASE QemuDumpsLate BY <1>14 DEF QemuDumpsLate
<1>15. CASE StartBegin BY <1>15 DEF StartBegin
<1>16. CASE StartSpawns BY <1>16 DEF StartSpawns
<1>17. CASE StartSeesExit BY <1>17 DEF StartSeesExit
<1>18. CASE StartEnds BY <1>18 DEF StartEnds
<1>19. CASE LoopAsks BY <1>19 DEF LoopAsks
<1>20. CASE QemuDumpsFrame BY <1>20 DEF QemuDumpsFrame
<1>21. CASE LoopCaptured BY <1>21 DEF LoopCaptured
<1>22. CASE LoopCaptureFails BY <1>22 DEF LoopCaptureFails
<1>23. CASE LoopFeeds BY <1>23 DEF LoopFeeds
<1>24. CASE EncoderExits BY <1>24 DEF EncoderExits
<1>25. CASE StopBegin BY <1>25 DEF StopBegin
<1>26. CASE TeardownBegin BY <1>26 DEF TeardownBegin
<1>27. CASE FinalizeAborts BY <1>27 DEF FinalizeAborts
<1>28. CASE FinalizeEncoder BY <1>28 DEF FinalizeEncoder
<1>29. CASE FinalizeCleans BY <1>29 DEF FinalizeCleans
<1>30. CASE TeardownBridge BY <1>30 DEF TeardownBridge
<1>31. CASE TeardownCloses BY <1>31 DEF TeardownCloses
<1>32. CASE QemuExits BY <1>32 DEF QemuExits
<1>33. CASE UNCHANGED taskVars BY <1>33 DEF taskVars
<1>34. CASE ReadRingbuf BY <1>34 DEF ReadRingbuf, AskRingbuf
<1>35. CASE WriteRingbuf BY <1>35 DEF WriteRingbuf, AskRingbuf
<1>36. CASE QemuPerforms BY <1>36 DEF QemuPerforms
<1>37. CASE RingbufAnswers BY <1>37 DEF RingbufAnswers
<1>38. CASE RingbufFails BY <1>38 DEF RingbufFails
<1> QED BY <1>1, <1>2, <1>3, <1>4, <1>5, <1>6, <1>7, <1>8, <1>9, <1>10, <1>11, <1>12, <1>13,
   <1>14, <1>15, <1>16, <1>17, <1>18, <1>19, <1>20, <1>21, <1>22, <1>23, <1>24, <1>25, <1>26,
   <1>27, <1>28, <1>29, <1>30, <1>31, <1>32, <1>33, <1>34,
   <1>35, <1>36, <1>37, <1>38 DEF TasksNext, CallStep

\* A byte ends where the next begins.
LEMMA ByteIs ==
    ASSUME NEW byte \in Byte
    PROVE  byte.n \in Nat /\ Before(byte) \in Int /\ Before(byte) <= byte.n
<1>1. byte.n \in Nat BY DEF Byte
<1> QED BY <1>1 DEF Before

\* What is left of a sequence without its first elements.
LEMMA RestIs ==
    ASSUME NEW S, NEW s \in Seq(S), NEW k \in 0..Len(s)
    PROVE  LET rest == SubSeq(s, k + 1, Len(s)) IN
           /\ rest \in Seq(S) /\ Len(rest) = Len(s) - k
           /\ \A i \in 1..(Len(s) - k) : rest[i] = s[k + i]
<1>1. Len(s) \in Nat /\ k \in Nat /\ k <= Len(s)
    OBVIOUS
<1>2. PICK y : y = SubSeq(s, k + 1, Len(s))
    OBVIOUS
<1>3. \A i \in (k + 1)..Len(s) : s[i] \in S
    BY <1>1
<1>4. /\ y \in Seq(S) /\ Len(y) = IF k + 1 <= Len(s) THEN Len(s) - (k + 1) + 1 ELSE 0
      /\ \A i \in 1..(Len(s) - (k + 1) + 1) : y[i] = s[(k + 1) + i - 1]
    BY <1>1, <1>2, <1>3, SubSeqProperties
<1>5. Len(y) = Len(s) - k
    BY <1>1, <1>4
<1>6. ASSUME NEW i \in 1..(Len(s) - k) PROVE y[i] = s[k + i]
    <2>1. i \in 1..(Len(s) - (k + 1) + 1) /\ (k + 1) + i - 1 = k + i
        BY <1>1
    <2> QED BY <1>4, <2>1
<1> QED BY <1>2, <1>4, <1>5, <1>6

\* A run after the one it follows is a run.
LEMMA JoinedIsRun ==
    ASSUME NEW r, NEW s, NEW a, NEW b, NEW c, Run(r, a, b), Run(s, b, c)
    PROVE  /\ Run(r \o s, a, c) /\ Len(r \o s) = Len(r) + Len(s)
<1>1. PICK all : all = r \o s OBVIOUS
<1>0. /\ r \in Seq(Byte) /\ s \in Seq(Byte) /\ Len(r) \in Nat /\ Len(s) \in Nat
      /\ a \in Nat /\ b \in Nat /\ c \in Nat /\ a <= b /\ b <= c
    BY DEF Run
<1>2. /\ all \in Seq(Byte) /\ Len(all) = Len(r) + Len(s)
      /\ \A i \in 1..(Len(r) + Len(s)) :
            all[i] = IF i <= Len(r) THEN r[i] ELSE s[i - Len(r)]
    BY <1>0, <1>1, ConcatProperties
<1>3. \A i \in 1..Len(r) : i \in 1..(Len(r) + Len(s)) /\ all[i] = r[i]
    BY <1>0, <1>2
<1>4. ASSUME NEW i \in (Len(r) + 1)..(Len(r) + Len(s))
      PROVE  i - Len(r) \in 1..Len(s) /\ all[i] = s[i - Len(r)]
    BY <1>0, <1>2
<1>p. \A i \in 1..Len(r) : Before(r[i]) \in Int /\ r[i].n \in Nat
    BY <1>0, ByteIs
<1>q. \A i \in 1..Len(s) : Before(s[i]) \in Int /\ s[i].n \in Nat
    BY <1>0, ByteIs
<1>5. ASSUME NEW i \in 1..Len(all) PROVE a <= Before(all[i]) /\ all[i].n <= c
    <2>1. CASE i <= Len(r)
        <3>1. i \in 1..Len(r) BY <1>0, <2>1
        <3>2. a <= Before(r[i]) /\ r[i].n <= b BY <3>1 DEF Run
        <3> QED BY <1>0, <1>3, <1>p, <3>1, <3>2
    <2>2. CASE i > Len(r)
        <3>1. i \in (Len(r) + 1)..(Len(r) + Len(s)) BY <1>0, <1>2, <2>2
        <3>2. b <= Before(s[i - Len(r)]) /\ s[i - Len(r)].n <= c BY <1>4, <3>1 DEF Run
        <3>3. a <= Before(s[i - Len(r)]) /\ s[i - Len(r)].n <= c
            <4>1. Before(s[i - Len(r)]) \in Int BY <1>4, <1>q, <3>1
            <4> QED BY <1>0, <3>2, <4>1
        <3>4. all[i] = s[i - Len(r)] BY <1>4, <3>1
        <3> QED BY <3>3, <3>4
    <2> QED BY <1>0, <2>1, <2>2
<1>6. ASSUME NEW i \in 1..Len(all), NEW j \in (i + 1)..Len(all)
      PROVE  all[i].n <= Before(all[j])
    <2>1. CASE j <= Len(r)
        <3>1. i \in 1..Len(r) /\ j \in (i + 1)..Len(r) /\ j \in 1..Len(r) BY <1>0, <2>1
        <3> QED BY <1>3, <3>1 DEF Run
    <2>2. CASE i > Len(r)
        <3>1. /\ i \in (Len(r) + 1)..(Len(r) + Len(s)) /\ j \in (Len(r) + 1)..(Len(r) + Len(s))
              /\ j - Len(r) \in ((i - Len(r)) + 1)..Len(s)
            BY <1>0, <1>2, <2>2
        <3>2. i - Len(r) \in 1..Len(s) /\ all[i] = s[i - Len(r)] /\ all[j] = s[j - Len(r)]
            BY <1>4, <3>1
        <3> QED BY <3>1, <3>2 DEF Run
    <2>3. CASE i <= Len(r) /\ j > Len(r)
        <3>1. i \in 1..Len(r) /\ j \in (Len(r) + 1)..(Len(r) + Len(s)) BY <1>0, <1>2, <2>3
        <3>2. all[i] = r[i] /\ r[i].n <= b BY <1>3, <3>1 DEF Run
        <3>3. j - Len(r) \in 1..Len(s) /\ all[j] = s[j - Len(r)] BY <1>4, <3>1
        <3>4. b <= Before(s[j - Len(r)]) BY <3>3 DEF Run
        <3>5. r[i].n \in Nat /\ Before(s[j - Len(r)]) \in Int /\ b \in Nat
            BY <1>0, <1>p, <1>q, <3>1, <3>3
        <3>6. r[i].n <= Before(s[j - Len(r)]) BY <3>2, <3>4, <3>5
        <3> QED BY <3>2, <3>3, <3>6
    <2> QED BY <1>0, <2>1, <2>2, <2>3
<1>7. ASSUME NEW i \in 1..(Len(all) - 1) PROVE all[i].n = Before(all[i + 1])
    <2>1. CASE i < Len(r)
        <3>1. i \in 1..(Len(r) - 1) /\ i \in 1..Len(r) /\ i + 1 \in 1..Len(r) BY <1>0, <2>1
        <3> QED BY <1>3, <3>1 DEF Run
    <2>2. CASE i > Len(r)
        <3>1. /\ i \in (Len(r) + 1)..(Len(r) + Len(s))
              /\ i + 1 \in (Len(r) + 1)..(Len(r) + Len(s))
              /\ i - Len(r) \in 1..(Len(s) - 1) /\ (i + 1) - Len(r) = (i - Len(r)) + 1
            BY <1>0, <1>2, <2>2
        <3>2. all[i] = s[i - Len(r)] /\ all[i + 1] = s[(i - Len(r)) + 1] BY <1>4, <3>1
        <3> QED BY <3>1, <3>2 DEF Run
    <2>3. CASE i = Len(r)
        <3>1. /\ i \in 1..Len(r) /\ i + 1 \in (Len(r) + 1)..(Len(r) + Len(s))
              /\ (i + 1) - Len(r) = 1 /\ Len(s) > 0 /\ Len(r) > 0
            BY <1>0, <1>2, <2>3
        <3>2. all[i] = r[Len(r)] /\ all[i + 1] = s[1] BY <1>3, <1>4, <2>3, <3>1
        <3> QED BY <3>1, <3>2 DEF Run
    <2> QED BY <1>0, <2>1, <2>2, <2>3
<1>8. Len(all) > 0 => Before(all[1]) = a /\ all[Len(all)].n = c
    <2> SUFFICES ASSUME Len(all) > 0 PROVE Before(all[1]) = a /\ all[Len(all)].n = c
        OBVIOUS
    <2>1. CASE Len(r) = 0
        <3>1. a = b /\ Len(s) > 0 /\ Len(all) = Len(s) BY <1>0, <1>2, <2>1 DEF Run
        <3>2. \A i \in 1..Len(s) : all[i] = s[i] BY <1>0, <1>2, <2>1, <3>1
        <3>3. 1 \in 1..Len(s) /\ Len(s) \in 1..Len(s) BY <1>0, <3>1
        <3> QED BY <3>1, <3>2, <3>3 DEF Run
    <2>2. CASE Len(s) = 0
        <3>1. b = c /\ Len(r) > 0 /\ Len(all) = Len(r) BY <1>0, <1>2, <2>2 DEF Run
        <3>2. 1 \in 1..Len(r) /\ Len(r) \in 1..Len(r) BY <1>0, <3>1
        <3> QED BY <1>3, <3>1, <3>2 DEF Run
    <2>3. CASE Len(r) > 0 /\ Len(s) > 0
        <3>1. /\ 1 \in 1..Len(r) /\ Len(all) \in (Len(r) + 1)..(Len(r) + Len(s))
              /\ Len(all) - Len(r) = Len(s)
            BY <1>0, <1>2, <2>3
        <3>2. all[1] = r[1] /\ all[Len(all)] = s[Len(s)] BY <1>3, <1>4, <3>1
        <3> QED BY <2>3, <3>2 DEF Run
    <2> QED BY <1>0, <2>1, <2>2, <2>3
<1>9. Len(all) = 0 => a = c
    <2> SUFFICES ASSUME Len(all) = 0 PROVE a = c OBVIOUS
    <2>1. Len(r) + Len(s) = 0 BY <1>2
    <2>2. Len(r) = 0 /\ Len(s) = 0 BY <1>0, <2>1
    <2>3. a = b BY <2>2 DEF Run
    <2>4. b = c BY <2>2 DEF Run
    <2> QED BY <2>3, <2>4
<1>10. a <= c BY <1>0
<1>11. Run(all, a, c)
    BY <1>0, <1>2, <1>5, <1>6, <1>7, <1>8, <1>9, <1>10 DEF Run
<1> QED BY <1>1, <1>2, <1>11

\* The rest of a run is one, from where its first bytes end.
LEMMA RestIsRun ==
    ASSUME NEW r, NEW a, NEW b, Run(r, a, b), NEW k \in 0..Len(r)
    PROVE  LET from == IF k = 0 THEN a ELSE r[k].n
               rest == SubSeq(r, k + 1, Len(r))
           IN Run(rest, from, b) /\ Len(rest) = Len(r) - k /\ a <= from
<1> DEFINE from == IF k = 0 THEN a ELSE r[k].n
<1>0. /\ r \in Seq(Byte) /\ Len(r) \in Nat /\ k \in Nat /\ k <= Len(r)
      /\ a \in Nat /\ b \in Nat /\ a <= b
    BY DEF Run
<1>1. PICK rest : rest = SubSeq(r, k + 1, Len(r)) OBVIOUS
<1>2. /\ rest \in Seq(Byte) /\ Len(rest) = Len(r) - k
      /\ \A i \in 1..(Len(r) - k) : rest[i] = r[k + i]
    BY <1>0, <1>1, RestIs
<1>3. \A i \in 1..Len(rest) : rest[i] = r[k + i] /\ k + i \in 1..Len(r)
    BY <1>0, <1>2
<1>p. \A i \in 1..Len(r) : Before(r[i]) \in Int /\ r[i].n \in Nat /\ Before(r[i]) <= r[i].n
    BY <1>0, ByteIs
<1>4. from \in Nat /\ a <= from /\ from <= b
    <2>1. CASE k = 0 BY <1>0, <2>1
    <2>2. CASE k # 0
        <3>1. k \in 1..Len(r) /\ from = r[k].n BY <1>0, <2>2
        <3>2. a <= Before(r[k]) /\ r[k].n <= b BY <3>1 DEF Run
        <3> HIDE DEF from
        <3> QED BY <1>0, <1>p, <3>1, <3>2
    <2> QED BY <2>1, <2>2
<1>5. ASSUME NEW i \in 1..Len(rest) PROVE from <= Before(rest[i]) /\ rest[i].n <= b
    <2>1. rest[i] = r[k + i] /\ k + i \in 1..Len(r) BY <1>3
    <2>2. a <= Before(r[k + i]) /\ r[k + i].n <= b BY <2>1 DEF Run
    <2>3. CASE k = 0 BY <2>1, <2>2, <2>3
    <2>4. CASE k # 0
        <3>1. k \in 1..Len(r) /\ k + i \in (k + 1)..Len(r) BY <1>0, <1>2, <2>1, <2>4
        <3>2. r[k].n <= Before(r[k + i]) BY <3>1 DEF Run
        <3> QED BY <2>1, <2>2, <2>4, <3>2
    <2> QED BY <2>3, <2>4
<1>6. ASSUME NEW i \in 1..Len(rest), NEW j \in (i + 1)..Len(rest)
      PROVE  rest[i].n <= Before(rest[j])
    <2>1. /\ j \in 1..Len(rest) /\ k + i \in 1..Len(r) /\ k + j \in ((k + i) + 1)..Len(r)
          /\ rest[i] = r[k + i] /\ rest[j] = r[k + j]
        BY <1>0, <1>2, <1>3
    <2> QED BY <2>1 DEF Run
<1>7. ASSUME NEW i \in 1..(Len(rest) - 1) PROVE rest[i].n = Before(rest[i + 1])
    <2>1. /\ i \in 1..Len(rest) /\ i + 1 \in 1..Len(rest) /\ k + i \in 1..(Len(r) - 1)
          /\ k + (i + 1) = (k + i) + 1
        BY <1>0, <1>2
    <2>2. rest[i] = r[k + i] /\ rest[i + 1] = r[(k + i) + 1] BY <1>3, <2>1
    <2> QED BY <2>1, <2>2 DEF Run
<1>8. Len(rest) > 0 => Before(rest[1]) = from /\ rest[Len(rest)].n = b
    <2> SUFFICES ASSUME Len(rest) > 0 PROVE Before(rest[1]) = from /\ rest[Len(rest)].n = b
        OBVIOUS
    <2>1. /\ 1 \in 1..Len(rest) /\ Len(rest) \in 1..Len(rest) /\ k + Len(rest) = Len(r)
          /\ Len(r) > 0
        BY <1>0, <1>2
    <2>2. rest[1] = r[k + 1] /\ rest[Len(rest)] = r[Len(r)] BY <1>3, <2>1
    <2>3. r[Len(r)].n = b BY <2>1 DEF Run
    <2>4. CASE k = 0 BY <2>1, <2>2, <2>3, <2>4 DEF Run
    <2>5. CASE k # 0
        <3>1. k \in 1..(Len(r) - 1) BY <1>0, <1>2, <2>1, <2>5
        <3>2. r[k].n = Before(r[k + 1]) BY <3>1 DEF Run
        <3> QED BY <2>2, <2>3, <2>5, <3>2
    <2> QED BY <2>4, <2>5
<1>9. Len(rest) = 0 => from = b
    <2> SUFFICES ASSUME Len(rest) = 0 PROVE from = b OBVIOUS
    <2>1. k = Len(r) BY <1>0, <1>2
    <2> QED BY <1>0, <2>1 DEF Run
<1> HIDE DEF from
<1>10. Run(rest, from, b)
    BY <1>0, <1>2, <1>4, <1>5, <1>6, <1>7, <1>8, <1>9 DEF Run
<1> QED BY <1>1, <1>2, <1>4, <1>10 DEF from

\* The bytes that follow are in the ring in the end, and push out only what it has no
\* room for.
LEMMA PushedIsRun ==
    ASSUME NEW ring, NEW bytes, NEW a, NEW b, NEW c, Run(ring, a, b), Run(bytes, b, c),
           Len(ring) <= RingSize
    PROVE  LET new == Pushed(ring, bytes) IN
           /\ Len(new) <= RingSize
           /\ \E from \in Nat : /\ Run(new, from, c) /\ a <= from
                                /\ from = a \/ Len(new) = RingSize
<1>0. RingSize \in Nat \ {0} BY SizesAssumption
<1>1. PICK all : all = ring \o bytes OBVIOUS
<1>2. Run(all, a, c) BY <1>1, JoinedIsRun
<1>3. Len(all) \in Nat /\ a \in Nat BY <1>2 DEF Run
<1>4. PICK over : over = IF Len(all) > RingSize THEN Len(all) - RingSize ELSE 0
    OBVIOUS
<1>5. over \in 0..Len(all) BY <1>0, <1>3, <1>4
<1>6. PICK new : new = SubSeq(all, over + 1, Len(all)) OBVIOUS
<1>7. PICK from : from = IF over = 0 THEN a ELSE all[over].n OBVIOUS
<1>8. Run(new, from, c) /\ Len(new) = Len(all) - over /\ a <= from
    BY <1>2, <1>5, <1>6, <1>7, RestIsRun
<1>9. Len(new) <= RingSize /\ (from = a \/ Len(new) = RingSize)
    BY <1>0, <1>3, <1>4, <1>5, <1>7, <1>8
<1>10. Pushed(ring, bytes) = new BY <1>1, <1>4, <1>6 DEF Pushed
<1>11. from \in Nat BY <1>8 DEF Run
<1> QED BY <1>8, <1>9, <1>10, <1>11

\* What the Guest says next is a run, and so is what a caller writes.
LEMMA FreshBytes ==
    ASSUME NEW taken \in Nat, NEW n \in Nat
    PROVE  /\ Run([i \in 1..n |-> Said(taken + i)], taken, taken + n)
           /\ Run([i \in 1..n |-> Typed(taken)], taken, taken)
<1>1. ASSUME NEW s, s = [i \in 1..n |-> Said(taken + i)] PROVE Run(s, taken, taken + n)
    <2>1. /\ \A i \in 1..n : Said(taken + i) \in Byte BY DEF Said, Byte
    <2>2. s \in Seq(Byte) /\ Len(s) = n BY <1>1, <2>1
    <2>3. \A i \in 1..n : s[i].n = taken + i /\ Before(s[i]) = taken + i - 1
        BY <1>1 DEF Said, Before
    <2>4. \A i \in 1..n : taken <= Before(s[i]) /\ s[i].n <= taken + n BY <2>3
    <2>5. \A i \in 1..n : \A j \in (i + 1)..n : s[i].n <= Before(s[j]) BY <2>3
    <2>6. \A i \in 1..(n - 1) : s[i].n = Before(s[i + 1]) BY <2>3
    <2>7. n > 0 => Before(s[1]) = taken /\ s[n].n = taken + n BY <2>3
    <2>8. taken + n \in Nat /\ taken <= taken + n /\ (n = 0 => taken = taken + n) OBVIOUS
    <2> QED BY <2>2, <2>4, <2>5, <2>6, <2>7, <2>8 DEF Run
<1>2. ASSUME NEW s, s = [i \in 1..n |-> Typed(taken)] PROVE Run(s, taken, taken)
    <2>1. Typed(taken) \in Byte BY DEF Typed, Byte
    <2>2. s \in Seq(Byte) /\ Len(s) = n BY <1>2, <2>1
    <2>3. \A i \in 1..n : s[i].n = taken /\ Before(s[i]) = taken
        BY <1>2 DEF Typed, Before
    <2>4. \A i \in 1..n : taken <= Before(s[i]) /\ s[i].n <= taken BY <2>3
    <2>5. \A i \in 1..n : \A j \in (i + 1)..n : s[i].n <= Before(s[j]) BY <2>3
    <2>6. \A i \in 1..(n - 1) : s[i].n = Before(s[i + 1]) BY <2>3
    <2>7. n > 0 => Before(s[1]) = taken /\ s[n].n = taken BY <2>3
    <2> QED BY <2>2, <2>4, <2>5, <2>6, <2>7 DEF Run
<1> QED BY <1>1, <1>2

\* Output of the next state, from its fields.
LEMMA OutputOf ==
    ASSUME NEW out \in Nat, NEW taken, NEW ring, NEW drained \in Nat, NEW heard \in Nat,
           NEW lost, NEW queue, NEW on, NEW from \in Nat,
           serial' = [out |-> out, taken |-> taken, ring |-> ring, drained |-> drained,
                      heard |-> heard, lost |-> lost, queue |-> queue, on |-> on],
           taken <= out, host'.backend = "ringbuf" => taken = out,
           heard <= drained, Len(ring) <= RingSize, Run(ring, from, taken),
           drained <= from, from = drained \/ Len(ring) = RingSize
    PROVE  Output'
<1>1. /\ serial'.out = out /\ serial'.taken = taken /\ serial'.ring = ring
      /\ serial'.drained = drained /\ serial'.heard = heard /\ serial'.lost = lost
      /\ serial'.queue = queue /\ serial'.on = on
    OBVIOUS
<1>2. ring \in Seq(Byte) /\ Len(ring) \in Nat BY DEF Run
<1>3. Start' = from
    <2>1. CASE ring = <<>>
        <3>1. Len(ring) = 0 BY <2>1
        <3> QED BY <1>1, <2>1, <3>1 DEF Start, Run
    <2>2. CASE ring # <<>>
        <3>1. Len(ring) > 0 BY <1>2, <2>2, EmptySeq
        <3> QED BY <1>1, <2>2, <3>1 DEF Start, Run, Before
    <2> QED BY <2>1, <2>2
<1>4. Run(serial.ring, Start, serial.taken)'
    BY <1>1, <1>3 DEF Run, Before
<1> HIDE DEF Run
<1> QED BY <1>1, <1>3, <1>4 DEF Output

\* What a read leaves in the ring, and up to where it took.
LEMMA DrainedIsRun ==
    ASSUME Output, NEW size \in Nat \ {0}
    PROVE  \E ring \in Seq(Byte), drained \in Nat, from \in Nat :
             /\ Drained(size) = [serial EXCEPT !.ring = ring, !.drained = drained]
             /\ Run(ring, from, serial.taken) /\ Len(ring) <= RingSize
             /\ serial.drained <= drained /\ drained <= from
             /\ from = drained \/ Len(ring) = RingSize
<1> DEFINE ring == serial.ring
           n == IF size < Len(ring) THEN size ELSE Len(ring)
           rest == SubSeq(ring, n + 1, Len(ring))
           drained == IF n = 0 THEN serial.drained ELSE ring[n].n
           from == IF n = 0 THEN Start ELSE ring[n].n
<1>1. /\ Run(ring, Start, serial.taken) /\ Len(ring) <= RingSize
      /\ serial.drained \in Nat /\ serial.drained <= Start
      /\ Start = serial.drained \/ Len(ring) = RingSize
    BY DEF Output
<1>2. Len(ring) \in Nat /\ Start \in Nat /\ RingSize \in Nat \ {0}
    BY <1>1, SizesAssumption DEF Run
<1>3. Drained(size) = [serial EXCEPT !.ring = rest, !.drained = drained]
    BY DEF Drained
<1> HIDE DEF ring
<1>4. n \in 0..Len(ring) /\ (n = 0 => Len(ring) = 0)
    BY <1>2
<1> HIDE DEF n
<1>5. Run(rest, from, serial.taken) /\ Len(rest) = Len(ring) - n /\ Start <= from
    BY <1>1, <1>4, RestIsRun
<1>6. from \in Nat BY <1>5 DEF Run
<1>7. drained \in Nat /\ serial.drained <= drained /\ drained <= from
      /\ (from = drained \/ Len(rest) = RingSize)
    <2>1. CASE n = 0 BY <1>1, <1>2, <1>4, <1>5, <2>1
    <2>2. CASE n # 0
        <3>1. drained = from BY <2>2
        <3> HIDE DEF drained, from
        <3> QED BY <1>1, <1>2, <1>5, <1>6, <3>1
    <2> QED BY <2>1, <2>2
<1>8. Len(rest) <= RingSize BY <1>1, <1>2, <1>4, <1>5
<1>9. rest \in Seq(Byte) BY <1>5 DEF Run
<1> HIDE DEF rest, drained, from, Run
<1> QED BY <1>3, <1>5, <1>6, <1>7, <1>8, <1>9

LEMMA OutputNext ==
    ASSUME Values, Attached, Output, Queued, [TasksNext]_taskVars
    PROVE  Output'
<1> DEFINE out == serial.out  taken == serial.taken  ring == serial.ring
           drained == serial.drained  heard == serial.heard  lost == serial.lost
           queue == serial.queue  on == serial.on  from == Start
<1>0. /\ serial = [out |-> out, taken |-> taken, ring |-> ring, drained |-> drained,
                   heard |-> heard, lost |-> lost, queue |-> queue, on |-> on]
      /\ out \in Nat /\ taken <= out /\ drained \in Nat /\ heard \in Nat /\ heard <= drained
      /\ host.backend = "ringbuf" => taken = out
      /\ Len(ring) <= RingSize /\ Run(ring, from, taken)
      /\ drained <= from /\ (from = drained \/ Len(ring) = RingSize)
  BY DEF Output
<1>0a. taken \in Nat /\ from \in Nat /\ Len(ring) \in Nat /\ RingSize \in Nat \ {0}
  BY <1>0, SizesAssumption DEF Run
<1>1. CASE Create \/ TeardownBridge
  <2>1. PICK none : none = <<>> OBVIOUS
  <2>2. PICK zero \in Nat : zero = 0 OBVIOUS
  <2>3. Run(none, zero, zero) /\ Len(none) = 0
    BY <2>1, <2>2 DEF Run
  <2>4. serial' = [out |-> zero, taken |-> zero, ring |-> none, drained |-> zero,
                   heard |-> zero, lost |-> FALSE, queue |-> none, on |-> FALSE]
    BY <1>1, <2>1, <2>2 DEF Create, TeardownBridge, Fresh
  <2>5. zero <= zero /\ Len(none) <= RingSize BY <1>0a, <2>3
  <2> HIDE DEF Run
  <2> QED BY <2>2, <2>3, <2>4, <2>5, OutputOf
<1>2. CASE Attach \/ ReadRingbuf \/ WriteRingbuf \/ RingbufFails
  <2>1. PICK l, q, o :
          \/ serial' = [serial EXCEPT !.on = o]
          \/ serial' = [serial EXCEPT !.queue = q]
          \/ serial' = [serial EXCEPT !.lost = l]
    BY <1>2 DEF Attach, ReadRingbuf, WriteRingbuf, AskRingbuf, RingbufFails
  <2>2. host' = host
    BY <1>2 DEF Attach, ReadRingbuf, WriteRingbuf, AskRingbuf, RingbufFails
  <2> HIDE DEF out, taken, ring, drained, heard, lost, queue, on, from
  <2>3. \E ll, qq, oo :
          serial' = [out |-> out, taken |-> taken, ring |-> ring, drained |-> drained,
                     heard |-> heard, lost |-> ll, queue |-> qq, on |-> oo]
    BY <1>0, <2>1
  <2> HIDE DEF Run
  <2> QED BY <1>0, <1>0a, <2>2, <2>3, OutputOf
<1>3. CASE RingbufAnswers
  <2>a. host' = host BY <1>3 DEF RingbufAnswers
  <2>b. op.kind = "read" => serial' = [serial EXCEPT !.heard = drained, !.lost = FALSE]
    BY <1>3 DEF RingbufAnswers
  <2>c. op.kind # "read" => serial' = serial BY <1>3 DEF RingbufAnswers
  <2> HIDE DEF out, taken, ring, drained, heard, lost, queue, on, from
  <2> HIDE DEF Run
  <2>1. CASE op.kind = "read"
    <3>1. serial' = [out |-> out, taken |-> taken, ring |-> ring, drained |-> drained,
                     heard |-> drained, lost |-> FALSE, queue |-> queue, on |-> on]
      BY <1>0, <2>b, <2>1
    <3> QED BY <1>0, <1>0a, <2>a, <3>1, OutputOf
  <2>2. CASE op.kind # "read"
    <3>1. serial' = [out |-> out, taken |-> taken, ring |-> ring, drained |-> drained,
                     heard |-> heard, lost |-> lost, queue |-> queue, on |-> on]
      BY <1>0, <2>c, <2>2
    <3> QED BY <1>0, <1>0a, <2>a, <3>1, OutputOf
  <2> QED BY <2>1, <2>2
\* Bytes into the ring: the Guest's as they come, or a caller's.
<1>4. ASSUME NEW bytes, NEW to \in Nat, NEW said \in Nat, NEW q, Run(bytes, taken, to),
             to <= said, host.backend = "ringbuf" => to = said, host' = host,
             NEW new, new = Pushed(ring, bytes),
             serial' = [out |-> said, taken |-> to, ring |-> new, drained |-> drained,
                        heard |-> heard, lost |-> lost, queue |-> q, on |-> on]
      PROVE  Output'
  <2>1. new = Pushed(ring, bytes) BY <1>4
  <2>2. PICK start \in Nat : /\ Run(new, start, to) /\ from <= start
                             /\ start = from \/ Len(new) = RingSize
    BY <1>0, <1>4, <2>1, PushedIsRun
  <2>3. Len(new) <= RingSize BY <1>0, <1>4, <2>1, PushedIsRun
  <2> HIDE DEF out, taken, ring, drained, heard, lost, queue, on, from
  <2>5. drained <= start /\ (start = drained \/ Len(new) = RingSize)
    <3>1. Len(new) \in Nat BY <2>2 DEF Run
    <3>2. CASE Len(ring) = RingSize /\ Len(new) # RingSize
      <4>1. PICK over : over = IF Len(ring \o bytes) > RingSize
                               THEN Len(ring \o bytes) - RingSize ELSE 0
        OBVIOUS
      <4>2. Len(ring \o bytes) = Len(ring) + Len(bytes) /\ Len(bytes) \in Nat
        BY <1>0, <1>4, JoinedIsRun DEF Run
      <4>3. new = SubSeq(ring \o bytes, over + 1, Len(ring \o bytes))
        BY <2>1, <4>1 DEF Pushed
      <4>4. Run(ring \o bytes, from, to) BY <1>0, <1>4, JoinedIsRun
      <4>5. over \in 0..Len(ring \o bytes) BY <1>0a, <4>1, <4>2
      <4>6. Len(new) = Len(ring \o bytes) - over BY <4>3, <4>4, <4>5, RestIsRun
      <4> QED BY <1>0a, <3>2, <4>1, <4>2, <4>6
    <3> HIDE DEF Run
    <3> QED BY <1>0, <1>0a, <2>2, <3>1, <3>2
  <2> HIDE DEF Run
  <2> QED BY <1>0, <1>0a, <1>4, <2>2, <2>3, <2>5, OutputOf
<1>5. CASE GuestSays
  <2>1. on BY <1>5 DEF GuestSays, Attached, Values
  <2>2. CASE host.backend = "ringbuf"
    <3>1. PICK bytes : bytes = <<Said(out + 1)>> OBVIOUS
    <3>2. PICK new : new = Pushed(ring, bytes) OBVIOUS
    <3>a. host' = host BY <1>5 DEF GuestSays
    <3>b. serial' = [serial EXCEPT !.out = out + 1, !.taken = out + 1, !.ring = new]
      BY <1>5, <2>2, <3>1, <3>2 DEF GuestSays
    <3>3. serial' = [out |-> out + 1, taken |-> out + 1, ring |-> new, drained |-> drained,
                     heard |-> heard, lost |-> lost, queue |-> queue, on |-> on]
      <4> HIDE DEF out, taken, ring, drained, heard, lost, queue, on, from
      <4> QED BY <1>0, <3>b
    <3>4. bytes = [i \in 1..1 |-> Said(taken + i)] BY <1>0, <2>2, <3>1
    <3>5. Run(bytes, taken, taken + 1)
      <4>1. PICK one \in Nat : one = 1 OBVIOUS
      <4>2. Run([i \in 1..one |-> Said(taken + i)], taken, taken + one) BY <1>0a, FreshBytes
      <4> HIDE DEF Run
      <4> QED BY <3>4, <4>1, <4>2
    <3> HIDE DEF Run
    <3>6. out + 1 \in Nat /\ taken + 1 = out + 1 /\ out + 1 <= out + 1 BY <1>0, <2>2
    <3>7. Run(bytes, taken, out + 1) BY <3>5, <3>6
    <3> QED BY <1>4, <3>2, <3>a, <3>3, <3>6, <3>7
  <2>3. CASE host.backend # "ringbuf"
    <3>1. serial' = [serial EXCEPT !.out = out + 1] /\ host' = host
      BY <1>5, <2>1, <2>3 DEF GuestSays
    <3> HIDE DEF out, taken, ring, drained, heard, lost, queue, on, from
    <3>2. serial' = [out |-> out + 1, taken |-> taken, ring |-> ring, drained |-> drained,
                     heard |-> heard, lost |-> lost, queue |-> queue, on |-> on]
      BY <1>0, <3>1
    <3>3. out + 1 \in Nat /\ taken <= out + 1 BY <1>0, <1>0a
    <3> HIDE DEF Run
    <3> QED BY <1>0, <1>0a, <2>3, <3>1, <3>2, <3>3, OutputOf
  <2> QED BY <2>2, <2>3
<1>6. CASE ReaderTakes
  <2>1. /\ host' = host /\ host.backend = "socket"
        /\ \E n \in 1..(out - taken) :
              serial' = [serial EXCEPT !.taken = @ + n,
                             !.ring = Pushed(@, [i \in 1..n |-> Said(serial.taken + i)])]
    BY <1>6 DEF ReaderTakes
  <2>2. PICK n \in 1..(out - taken) :
          serial' = [serial EXCEPT !.taken = taken + n,
                         !.ring = Pushed(ring, [i \in 1..n |-> Said(taken + i)])]
    BY <2>1
  <2>3. n \in Nat /\ taken + n <= out /\ taken + n \in Nat BY <1>0, <1>0a
  <2>4. PICK bytes : bytes = [i \in 1..n |-> Said(taken + i)] OBVIOUS
  <2>5. Run(bytes, taken, taken + n) BY <1>0a, <2>3, <2>4, FreshBytes
  <2>6. PICK new : new = Pushed(ring, bytes) OBVIOUS
  <2>7. serial' = [serial EXCEPT !.taken = taken + n, !.ring = new] BY <2>2, <2>4, <2>6
  <2>8. serial' = [out |-> out, taken |-> taken + n, ring |-> new, drained |-> drained,
                   heard |-> heard, lost |-> lost, queue |-> queue, on |-> on]
    <3> HIDE DEF out, taken, ring, drained, heard, lost, queue, on, from
    <3> QED BY <1>0, <2>7
  <2> HIDE DEF Run
  <2> QED BY <1>0, <1>4, <2>1, <2>3, <2>5, <2>6, <2>8
<1>7. CASE ReadSerial
  <2>1. /\ host' = host
        /\ \E size \in 1..RingSize :
             serial' = [Drained(size) EXCEPT !.heard = Drained(size).drained]
    BY <1>7 DEF ReadSerial
  <2>2. PICK size \in Nat \ {0} : serial' = [Drained(size) EXCEPT !.heard = Drained(size).drained]
    BY <2>1, SizesAssumption
  <2>3. PICK new \in Seq(Byte), d \in Nat, start \in Nat :
          /\ Drained(size) = [serial EXCEPT !.ring = new, !.drained = d]
          /\ Run(new, start, taken) /\ Len(new) <= RingSize
          /\ drained <= d /\ d <= start /\ (start = d \/ Len(new) = RingSize)
    BY DrainedIsRun
  <2> HIDE DEF out, taken, ring, drained, heard, lost, queue, on, from
  <2>4. serial' = [out |-> out, taken |-> taken, ring |-> new, drained |-> d,
                   heard |-> d, lost |-> lost, queue |-> queue, on |-> on]
    <3>1. Drained(size) = [out |-> out, taken |-> taken, ring |-> new, drained |-> d,
                   heard |-> heard, lost |-> lost, queue |-> queue, on |-> on]
      BY <1>0, <2>3
    <3> QED BY <2>2, <3>1
  <2>5. host' = host /\ d <= d BY <2>1
  <2> HIDE DEF Run
  <2> QED BY <1>0, <1>0a, <2>3, <2>4, <2>5, OutputOf
<1>8. CASE QemuPerforms
  <2> DEFINE command == Head(queue)  rest == Tail(queue)
             waits == rest = <<>> /\ op.kind \in {"read", "write"} /\ op.pc = "asked"
  <2>1. /\ host' = host /\ queue # <<>>
        /\ serial' =
             IF command.kind = "read"
             THEN [Drained(command.size) EXCEPT !.queue = rest, !.lost = @ \/ ~waits]
             ELSE [serial EXCEPT !.queue = rest,
                     !.ring = Pushed(@, [i \in 1..command.size |-> Typed(serial.taken)])]
    BY <1>8 DEF QemuPerforms
  <2>a. queue \in Seq(Command) BY DEF Queued
  <2>b. command \in Command BY <2>1, <2>a, HeadTailProperties
  <2>c. host' = host BY <2>1
  <2>2. PICK size \in Nat \ {0} : size = command.size
    BY <2>b DEF Command
  <2>3. host.backend = "ringbuf" BY <2>1 DEF Queued, Values, Host, Backends
  <2>4. CASE command.kind = "read"
    <3>1. PICK l, q : serial' = [Drained(size) EXCEPT !.queue = q, !.lost = l]
      BY <2>1, <2>2, <2>4
    <3>2. PICK new \in Seq(Byte), d \in Nat, start \in Nat :
            /\ Drained(size) = [serial EXCEPT !.ring = new, !.drained = d]
            /\ Run(new, start, taken) /\ Len(new) <= RingSize
            /\ drained <= d /\ d <= start /\ (start = d \/ Len(new) = RingSize)
      BY DrainedIsRun
    <3> HIDE DEF out, taken, ring, drained, heard, lost, queue, on, from
    <3>3. serial' = [out |-> out, taken |-> taken, ring |-> new, drained |-> d,
                     heard |-> heard, lost |-> l, queue |-> q, on |-> on]
      <4>1. Drained(size) = [out |-> out, taken |-> taken, ring |-> new, drained |-> d,
                     heard |-> heard, lost |-> lost, queue |-> queue, on |-> on]
        BY <1>0, <3>2
      <4>2. PICK r : r = Drained(size) OBVIOUS
      <4>3. serial' = [r EXCEPT !.queue = q, !.lost = l] BY <3>1, <4>2
      <4>4. r = [out |-> out, taken |-> taken, ring |-> new, drained |-> d,
                 heard |-> heard, lost |-> lost, queue |-> queue, on |-> on]
        BY <4>1, <4>2
      <4> QED BY <4>3, <4>4
    <3>4. heard <= d BY <1>0, <1>0a, <3>2
    <3> HIDE DEF Run
    <3> QED BY <1>0, <1>0a, <2>c, <3>2, <3>3, <3>4, OutputOf
  <2>5. CASE command.kind # "read"
    <3>1. PICK bytes : bytes = [i \in 1..size |-> Typed(taken)] OBVIOUS
    <3>2. Run(bytes, taken, taken) BY <1>0a, <3>1, FreshBytes
    <3>3. PICK new : new = Pushed(ring, bytes) OBVIOUS
    <3>4. PICK q : serial' = [serial EXCEPT !.queue = q, !.ring = new]
      BY <2>1, <2>2, <2>5, <3>1, <3>3
    <3>5. serial' = [out |-> out, taken |-> taken, ring |-> new, drained |-> drained,
                     heard |-> heard, lost |-> lost, queue |-> q, on |-> on]
      <4> HIDE DEF out, taken, ring, drained, heard, lost, queue, on, from
      <4> QED BY <1>0, <3>4
    <3> HIDE DEF Run
    <3> QED BY <1>0, <1>0a, <1>4, <2>c, <3>2, <3>3, <3>5
  <2> QED BY <2>4, <2>5
<1>9. CASE UNCHANGED <<host, serial>>
  BY <1>9 DEF Output, Start, Run, Before
<1>10. CASE UNCHANGED taskVars
  BY <1>9, <1>10 DEF taskVars
<1>11. ASSUME TasksNext, ~Create, ~Attach, ~TeardownBridge, ~GuestSays, ~ReaderTakes,
              ~ReadSerial, ~ReadRingbuf, ~WriteRingbuf, ~QemuPerforms, ~RingbufAnswers,
              ~RingbufFails
      PROVE  UNCHANGED <<host, serial>>
  BY <1>11 DEF TasksNext, CallStep, Cont, WriteBegin, WriteByte, WriteEnds, GuestReads,
     DumpBegin, QemuDumps, DumpEnds, QemuDumpsLate, StartBegin, StartSpawns, StartSeesExit,
     StartEnds, LoopAsks, QemuDumpsFrame, LoopCaptured, LoopCaptureFails, LoopFeeds, LoopOnly,
     EncoderExits, StopBegin, TeardownBegin, FinalizeAborts, FinalizeEncoder, FinalizeCleans,
     TeardownCloses, QemuExits
<1> QED BY <1>1, <1>2, <1>3, <1>5, <1>6, <1>7, <1>8, <1>9, <1>10, <1>11

\* Nothing is written into the ring of a socket.
LEMMA QueuedNext ==
    ASSUME Values, Output, Queued, [TasksNext]_taskVars
    PROVE  Queued'
<1>0. /\ serial = [out |-> serial.out, taken |-> serial.taken, ring |-> serial.ring,
                   drained |-> serial.drained, heard |-> serial.heard, lost |-> serial.lost,
                   queue |-> serial.queue, on |-> serial.on]
      /\ serial.ring \in Seq(Byte) /\ Len(serial.ring) \in Nat
      /\ serial.queue \in Seq(Command) /\ Len(serial.queue) <= MaxQueue /\ MaxQueue \in Nat
      /\ Len(serial.queue) \in Nat
      /\ host.backend = "socket" => serial.queue = <<>> /\ OnlyTheGuestSpeaks
    BY SizesAssumption DEF Output, Run, Queued
<1>1. CASE Create \/ TeardownBridge
    <2>1. serial' = Fresh BY <1>1 DEF Create, TeardownBridge
    <2> QED BY <1>0, <2>1 DEF Fresh, Queued, OnlyTheGuestSpeaks
<1>2. CASE ReadRingbuf \/ WriteRingbuf
    <2>1. PICK kind \in {"read", "write"}, size \in 1..RingSize :
            serial' = [serial EXCEPT !.queue = Append(@, [kind |-> kind, size |-> size])]
        BY <1>2 DEF ReadRingbuf, WriteRingbuf, AskRingbuf
    <2>2. PICK command : command = [kind |-> kind, size |-> size] OBVIOUS
    <2>3. command \in Command BY <2>2, SizesAssumption DEF Command
    <2>4. PICK queue : queue = Append(serial.queue, command) OBVIOUS
    <2>5. /\ Len(serial.queue) < MaxQueue /\ host' = host /\ host.backend = "ringbuf"
        BY <1>2 DEF ReadRingbuf, WriteRingbuf, AskRingbuf
    <2>6. queue \in Seq(Command) /\ Len(queue) <= MaxQueue
        BY <1>0, <2>3, <2>4, <2>5
    <2>7. serial'.queue = queue
        BY <1>0, <2>1, <2>2, <2>4
    <2> QED BY <2>5, <2>6, <2>7 DEF Queued
<1>3. CASE QemuPerforms
    <2>1. serial.queue # <<>> /\ host' = host BY <1>3 DEF QemuPerforms
    <2>2. host.backend = "ringbuf" BY <1>0, <2>1 DEF Values, Host, Backends
    <2>3. PICK rest : rest = Tail(serial.queue) OBVIOUS
    <2>4. rest \in Seq(Command) /\ Len(rest) <= MaxQueue
        BY <1>0, <2>1, <2>3, HeadTailProperties
    <2>5. serial'.queue = rest
        BY <1>0, <1>3, <2>3 DEF QemuPerforms, Drained
    <2> QED BY <2>1, <2>2, <2>4, <2>5 DEF Queued
<1>4. CASE GuestSays /\ host.backend = "ringbuf"
    <2>1. serial'.queue = serial.queue /\ host' = host
        BY <1>0, <1>4 DEF GuestSays
    <2> QED BY <1>0, <1>4, <2>1 DEF Queued
<1>5. CASE ReaderTakes
    <2>1. PICK n \in 1..(serial.out - serial.taken) :
            serial' = [serial EXCEPT !.taken = @ + n,
                          !.ring = Pushed(@, [i \in 1..n |-> Said(serial.taken + i)])]
        BY <1>5 DEF ReaderTakes
    <2>2. host' = host /\ host.backend = "socket" BY <1>5 DEF ReaderTakes
    <2>3. PICK bytes : bytes = [i \in 1..n |-> Said(serial.taken + i)] OBVIOUS
    <2>4. serial.out \in Nat /\ serial.taken \in Nat /\ n \in Nat BY DEF Output, Run
    <2>5. Run(bytes, serial.taken, serial.taken + n) BY <2>3, <2>4, FreshBytes
    <2>6. bytes \in Seq(Byte) /\ Len(bytes) = n BY <2>3, <2>4, <2>5 DEF Run
    <2>7. \A i \in 1..n : bytes[i].by = "guest" BY <2>3 DEF Said
    <2>8. \A i \in 1..Len(serial.ring) : serial.ring[i].by = "guest"
        BY <1>0, <2>2 DEF OnlyTheGuestSpeaks
    <2>9. PICK new : new = Pushed(serial.ring, bytes) OBVIOUS
    <2>10. \A i \in 1..Len(new) : new[i].by = "guest"
        <3>1. PICK all : all = serial.ring \o bytes OBVIOUS
        <3>2. /\ all \in Seq(Byte) /\ Len(all) = Len(serial.ring) + n
              /\ \A i \in 1..(Len(serial.ring) + n) :
                    all[i] = IF i <= Len(serial.ring) THEN serial.ring[i]
                             ELSE bytes[i - Len(serial.ring)]
            BY <1>0, <2>6, <3>1, ConcatProperties
        <3>3. ASSUME NEW i \in 1..Len(all) PROVE all[i].by = "guest"
            <4>1. CASE i <= Len(serial.ring)
                <5>1. i \in 1..Len(serial.ring) BY <1>0, <4>1
                <5> QED BY <2>4, <2>8, <3>2, <4>1, <5>1
            <4>2. CASE i > Len(serial.ring)
                <5>1. i - Len(serial.ring) \in 1..n BY <1>0, <2>4, <3>2, <4>2
                <5> QED BY <1>0, <2>4, <2>7, <3>2, <4>2, <5>1
            <4> QED BY <1>0, <4>1, <4>2
        <3>4. PICK over : over = IF Len(all) > RingSize THEN Len(all) - RingSize ELSE 0
            OBVIOUS
        <3>5. new = SubSeq(all, over + 1, Len(all)) BY <2>9, <3>1, <3>4 DEF Pushed
        <3>6. over \in 0..Len(all) BY <1>0, <2>4, <3>2, <3>4, SizesAssumption
        <3>7. /\ Len(new) = Len(all) - over
              /\ \A i \in 1..(Len(all) - over) : new[i] = all[over + i]
            BY <3>2, <3>5, <3>6, RestIs
        <3>8. ASSUME NEW i \in 1..Len(new) PROVE over + i \in 1..Len(all)
            BY <1>0, <2>4, <3>2, <3>6, <3>7
        <3> QED BY <3>3, <3>7, <3>8
    <2>11. new \in Seq(Byte)
        <3>1. \E from \in Nat : Run(new, from, serial.taken + n)
            BY <2>5, <2>9, PushedIsRun DEF Output
        <3> QED BY <3>1 DEF Run
    <2>12. serial'.ring = new /\ serial'.queue = serial.queue
        BY <1>0, <2>1, <2>3, <2>9
    <2>13. \A i \in DOMAIN new : new[i].by = "guest" BY <2>10, <2>11
    <2> QED BY <1>0, <2>2, <2>12, <2>13 DEF Queued, OnlyTheGuestSpeaks
<1>6. CASE ReadSerial
    <2>1. PICK size \in 1..RingSize :
            serial' = [Drained(size) EXCEPT !.heard = Drained(size).drained]
        BY <1>6 DEF ReadSerial
    <2>2. host' = host /\ host.backend = "socket" BY <1>6 DEF ReadSerial
    <2>3. PICK n : n = IF size < Len(serial.ring) THEN size ELSE Len(serial.ring) OBVIOUS
    <2>4. n \in 0..Len(serial.ring) BY <1>0, <2>3, SizesAssumption
    <2>5. PICK rest : rest = SubSeq(serial.ring, n + 1, Len(serial.ring)) OBVIOUS
    <2>6. serial'.ring = rest /\ serial'.queue = serial.queue
        <3>1. PICK d : Drained(size) = [serial EXCEPT !.ring = rest, !.drained = d]
            BY <2>3, <2>5 DEF Drained
        <3>2. Drained(size) = [out |-> serial.out, taken |-> serial.taken, ring |-> rest,
                   drained |-> d, heard |-> serial.heard, lost |-> serial.lost,
                   queue |-> serial.queue, on |-> serial.on]
            BY <1>0, <3>1
        <3> QED BY <2>1, <3>2
    <2>7. /\ rest \in Seq(Byte) /\ Len(rest) = Len(serial.ring) - n
          /\ \A i \in 1..(Len(serial.ring) - n) : rest[i] = serial.ring[n + i]
        BY <1>0, <2>4, <2>5, RestIs
    <2>8. ASSUME NEW i \in DOMAIN rest PROVE rest[i].by = "guest"
        <3>1. i \in 1..(Len(serial.ring) - n) /\ n + i \in 1..Len(serial.ring)
            BY <1>0, <2>4, <2>7, <2>8
        <3> QED BY <1>0, <2>2, <2>7, <3>1 DEF OnlyTheGuestSpeaks
    <2> QED BY <1>0, <2>2, <2>6, <2>8 DEF Queued, OnlyTheGuestSpeaks
<1>7. CASE /\ host' = host /\ serial'.queue = serial.queue /\ serial'.ring = serial.ring
    BY <1>0, <1>7 DEF Queued, OnlyTheGuestSpeaks
<1>8. CASE \/ Attach \/ RingbufAnswers \/ RingbufFails
           \/ GuestSays /\ host.backend # "ringbuf"
    BY <1>0, <1>7, <1>8 DEF Attach, RingbufAnswers, RingbufFails, GuestSays
<1>9. CASE UNCHANGED taskVars
    BY <1>7, <1>9 DEF taskVars
<1>10. ASSUME TasksNext, ~Create, ~Attach, ~TeardownBridge, ~GuestSays, ~ReaderTakes,
              ~ReadSerial, ~ReadRingbuf, ~WriteRingbuf, ~QemuPerforms, ~RingbufAnswers,
              ~RingbufFails
       PROVE  UNCHANGED <<host, serial>>
  BY <1>10 DEF TasksNext, CallStep, Cont, WriteBegin, WriteByte, WriteEnds, GuestReads,
     DumpBegin, QemuDumps, DumpEnds, QemuDumpsLate, StartBegin, StartSpawns, StartSeesExit,
     StartEnds, LoopAsks, QemuDumpsFrame, LoopCaptured, LoopCaptureFails, LoopFeeds, LoopOnly,
     EncoderExits, StopBegin, TeardownBegin, FinalizeAborts, FinalizeEncoder, FinalizeCleans,
     TeardownCloses, QemuExits
<1> QED BY <1>1, <1>2, <1>3, <1>4, <1>5, <1>6, <1>7, <1>8, <1>9, <1>10

\* A call that waits has asked last: the lock keeps everyone else from asking.
LEMMA AskedNext ==
    ASSUME Values, Calls, Output, Queued, AskedIsLast, [TasksNext]_taskVars
    PROVE  AskedIsLast'
<1>0. /\ serial = [out |-> serial.out, taken |-> serial.taken, ring |-> serial.ring,
                   drained |-> serial.drained, heard |-> serial.heard, lost |-> serial.lost,
                   queue |-> serial.queue, on |-> serial.on]
      /\ op = [kind |-> op.kind, pc |-> op.pc, n |-> op.n]
      /\ serial.queue \in Seq(Command) /\ Len(serial.queue) \in Nat
    BY DEF Output, Calls, Queued
<1>1. CASE Create \/ TeardownBridge
    <2>1. op'.kind \notin {"read", "write"}
        BY <1>0, <1>1 DEF Create, TeardownBridge, Is, Op
    <2> QED BY <2>1 DEF AskedIsLast
<1>2. ASSUME NEW kind, AskRingbuf(kind) PROVE AskedIsLast'
    <2>1. PICK size \in 1..RingSize :
            serial' = [serial EXCEPT !.queue = Append(@, [kind |-> kind, size |-> size])]
        BY <1>2 DEF AskRingbuf
    <2>2. PICK command : command = [kind |-> kind, size |-> size] OBVIOUS
    <2>3. PICK queue : queue = Append(serial.queue, command) OBVIOUS
    <2>4. op'.kind = kind BY <1>2 DEF AskRingbuf, Op
    <2>5. Len(queue) = Len(serial.queue) + 1 /\ queue[Len(queue)] = command /\ queue # <<>>
        BY <1>0, <2>3
    <2>6. serial'.queue = queue BY <1>0, <2>1, <2>2, <2>3
    <2>7. command.kind = kind BY <2>2
    <2> QED BY <2>4, <2>5, <2>6, <2>7 DEF AskedIsLast
<1>3. CASE QemuPerforms
    <2>1. PICK rest : rest = Tail(serial.queue) OBVIOUS
    <2>2. serial.queue # <<>> BY <1>3 DEF QemuPerforms
    <2>3. serial'.queue = rest
        BY <1>0, <1>3, <2>1 DEF QemuPerforms, Drained
    <2>4. CASE rest = <<>> /\ op.kind \in {"read", "write"} /\ op.pc = "asked"
        <3>1. op'.pc = "done" BY <1>0, <1>3, <2>1, <2>4 DEF QemuPerforms
        <3> QED BY <3>1 DEF AskedIsLast
    <2>5. CASE ~(rest = <<>> /\ op.kind \in {"read", "write"} /\ op.pc = "asked")
        <3>1. op' = op BY <1>3, <2>1, <2>5 DEF QemuPerforms
        <3>2. ASSUME op.kind \in {"read", "write"}, op.pc = "asked"
              PROVE  rest # <<>> /\ rest[Len(rest)].kind = op.kind
            <4>1. rest # <<>> BY <2>5, <3>2
            <4>2. Len(rest) = Len(serial.queue) - 1 /\ Len(rest) \in Nat /\ rest \in Seq(Command)
                BY <1>0, <2>1, <2>2, HeadTailProperties
            <4>3. Len(rest) >= 1 BY <4>1, <4>2, EmptySeq
            <4>4. rest[Len(rest)] = serial.queue[Len(rest) + 1]
                BY <1>0, <2>1, <2>2, <4>2, <4>3
            <4>5. Len(rest) + 1 = Len(serial.queue) BY <1>0, <4>2
            <4> QED BY <3>2, <4>1, <4>4, <4>5 DEF AskedIsLast
        <3> QED BY <2>3, <3>1, <3>2 DEF AskedIsLast
    <2> QED BY <2>4, <2>5
<1>4. CASE /\ serial'.queue = serial.queue
           /\ op' = op \/ op'.kind \notin {"read", "write"} \/ op'.pc # "asked"
    BY <1>4 DEF AskedIsLast
<1>5. CASE GuestSays \/ ReaderTakes
    <2>1. op' = op /\ serial'.queue = serial.queue
        BY <1>0, <1>5 DEF GuestSays, ReaderTakes
    <2> QED BY <1>4, <2>1
<1>6. CASE ReadSerial
    <2>1. PICK size : serial' = [Drained(size) EXCEPT !.heard = Drained(size).drained]
        BY <1>6 DEF ReadSerial
    <2>2. PICK ring, d : Drained(size) = [serial EXCEPT !.ring = ring, !.drained = d]
        BY DEF Drained
    <2>3. serial'.queue = serial.queue BY <1>0, <2>1, <2>2
    <2>4. op' = op BY <1>6 DEF ReadSerial
    <2> QED BY <1>4, <2>3, <2>4
<1>7. CASE Attach \/ RingbufAnswers \/ RingbufFails
    <2>1. op'.kind \notin {"read", "write"}
        BY <1>7 DEF Attach, RingbufAnswers, RingbufFails, Op, Free
    <2>2. serial'.queue = serial.queue
        BY <1>0, <1>7 DEF Attach, RingbufAnswers, RingbufFails
    <2> QED BY <1>4, <2>1, <2>2
<1>8. CASE WriteBegin \/ WriteByte \/ WriteEnds
    <2>1. serial' = serial /\ (op'.pc # "asked")
        BY <1>0, <1>8 DEF WriteBegin, WriteByte, WriteEnds, Is, Op, Free
    <2> QED BY <1>4, <2>1
<1>9. CASE UNCHANGED taskVars BY <1>4, <1>9 DEF taskVars
<1>10. ASSUME TasksNext, ~Create, ~Attach, ~TeardownBridge, ~GuestSays, ~ReaderTakes,
              ~ReadSerial, ~ReadRingbuf, ~WriteRingbuf, ~QemuPerforms, ~RingbufAnswers,
              ~RingbufFails, ~WriteBegin, ~WriteByte, ~WriteEnds
       PROVE  /\ serial' = serial
              /\ op' = op \/ op'.kind \notin {"read", "write"} \/ op'.pc # "asked"
  BY <1>0, <1>10 DEF Is, Op, Free, TasksNext, CallStep, Cont, GuestReads,
     DumpBegin, QemuDumps, DumpEnds, QemuDumpsLate, StartBegin, StartSpawns, StartSeesExit,
     StartEnds, LoopAsks, QemuDumpsFrame, LoopCaptured, LoopCaptureFails, LoopFeeds, LoopOnly,
     EncoderExits, StopBegin, TeardownBegin, FinalizeAborts, FinalizeEncoder, FinalizeCleans,
     TeardownCloses, QemuExits
<1> QED BY <1>1, <1>2, <1>3, <1>4, <1>5, <1>6, <1>7, <1>8, <1>9, <1>10
    DEF ReadRingbuf, WriteRingbuf

\* What is drained is for the read that waits, or it is marked as lost.
LEMMA HeardNext ==
    ASSUME Values, Calls, Output, Queued, AskedIsLast, DrainedIsHeard, [TasksNext]_taskVars
    PROVE  DrainedIsHeard'
<1>0. /\ serial = [out |-> serial.out, taken |-> serial.taken, ring |-> serial.ring,
                   drained |-> serial.drained, heard |-> serial.heard, lost |-> serial.lost,
                   queue |-> serial.queue, on |-> serial.on]
    BY DEF Output
<1>1. CASE Create \/ TeardownBridge
    <2>1. serial' = Fresh BY <1>1 DEF Create, TeardownBridge
    <2> QED BY <2>1 DEF Fresh, DrainedIsHeard
<1>2. CASE ReadSerial
    <2>1. PICK size \in Nat \ {0} :
            serial' = [Drained(size) EXCEPT !.heard = Drained(size).drained]
        BY <1>2, SizesAssumption DEF ReadSerial
    <2>2. PICK ring \in Seq(Byte), d \in Nat :
            Drained(size) = [serial EXCEPT !.ring = ring, !.drained = d]
        BY DrainedIsRun
    <2>3. Drained(size) = [out |-> serial.out, taken |-> serial.taken, ring |-> ring,
                   drained |-> d, heard |-> serial.heard, lost |-> serial.lost,
                   queue |-> serial.queue, on |-> serial.on]
        BY <1>0, <2>2
    <2>4. serial'.heard = serial'.drained BY <2>1, <2>3
    <2> QED BY <2>4 DEF DrainedIsHeard
<1>3. CASE RingbufAnswers
    <2>1. CASE op.kind = "read"
        <3>1. serial' = [serial EXCEPT !.heard = serial.drained, !.lost = FALSE]
            BY <1>3, <2>1 DEF RingbufAnswers
        <3>2. serial'.heard = serial'.drained BY <1>0, <3>1
        <3> QED BY <3>2 DEF DrainedIsHeard
    <2>2. CASE op.kind # "read"
        <3>1. serial' = serial /\ host' = host BY <1>3, <2>2 DEF RingbufAnswers
        <3> QED BY <2>2, <3>1 DEF DrainedIsHeard, Is
    <2> QED BY <2>1, <2>2
<1>4. CASE RingbufFails
    <2>1. serial' = [serial EXCEPT !.lost = (serial.lost \/ Is("read", "done"))] /\ host' = host
        BY <1>4 DEF RingbufFails
    <2>2. /\ serial'.heard = serial.heard /\ serial'.drained = serial.drained
          /\ serial'.lost = (serial.lost \/ Is("read", "done"))
        BY <1>0, <2>1
    <2> QED BY <2>1, <2>2 DEF DrainedIsHeard
<1>5. CASE QemuPerforms
    <2>1. host' = host /\ serial.queue # <<>> BY <1>5 DEF QemuPerforms
    <2>2. host.backend = "ringbuf" BY <2>1 DEF Queued, Values, Host, Backends
    <2>3. PICK command, rest : command = Head(serial.queue) /\ rest = Tail(serial.queue)
        OBVIOUS
    <2>4. PICK waits \in BOOLEAN :
            waits = (rest = <<>> /\ op.kind \in {"read", "write"} /\ op.pc = "asked")
        OBVIOUS
    <2>5. CASE command.kind = "read" /\ ~waits
        <3>1. serial' = [Drained(command.size) EXCEPT !.queue = rest, !.lost = (@ \/ TRUE)]
            BY <1>5, <2>3, <2>4, <2>5 DEF QemuPerforms
        <3>2. PICK ring, d : Drained(command.size) = [serial EXCEPT !.ring = ring, !.drained = d]
            BY DEF Drained
        <3>3. serial'.lost BY <1>0, <3>1, <3>2
        <3> QED BY <2>1, <2>2, <3>3 DEF DrainedIsHeard
    <2>6. CASE command.kind = "read" /\ waits
        <3>a. serial.queue \in Seq(Command) BY DEF Queued
        <3>b. Len(Tail(serial.queue)) = Len(serial.queue) - 1 /\ Len(serial.queue) \in Nat
            BY <2>1, <3>a, HeadTailProperties
        <3>e. rest = <<>> BY <2>4, <2>6
        <3>f. Len(rest) = 0 BY <3>e
        <3>d. Len(serial.queue) = 1 BY <2>3, <3>b, <3>f
        <3>1. Len(serial.queue) = 1 /\ serial.queue[1] = command
            BY <2>1, <2>3, <3>a, <3>d
        <3>2. op.kind = "read" BY <2>4, <2>6, <3>1 DEF AskedIsLast
        <3>3. op' = [op EXCEPT !.pc = "done"] BY <1>5, <2>3, <2>4, <2>6 DEF QemuPerforms
        <3>4. Is("read", "done")' BY <3>2, <3>3 DEF Calls, Is
        <3> QED BY <2>1, <2>2, <3>4 DEF DrainedIsHeard
    <2>7. CASE command.kind # "read"
        <3>1. PICK ring : serial' = [serial EXCEPT !.queue = rest, !.ring = ring]
            BY <1>5, <2>3, <2>7 DEF QemuPerforms
        <3>2. /\ serial'.drained = serial.drained /\ serial'.heard = serial.heard
              /\ serial'.lost = serial.lost
            BY <1>0, <3>1
        <3>3. op' = op \/ op.pc = "asked" BY <1>5 DEF QemuPerforms
        <3> QED BY <2>1, <2>2, <3>2, <3>3 DEF DrainedIsHeard, Is
    <2> QED BY <2>5, <2>6, <2>7
<1>6. CASE /\ host' = host
           /\ serial'.drained = serial.drained /\ serial'.heard = serial.heard
           /\ serial'.lost = serial.lost
           /\ op' = op \/ ~Is("read", "done")
    BY <1>6 DEF DrainedIsHeard, Is
<1>7. CASE GuestSays \/ ReaderTakes
    <2>1. /\ host' = host /\ op' = op
          /\ serial'.drained = serial.drained /\ serial'.heard = serial.heard
          /\ serial'.lost = serial.lost
        BY <1>0, <1>7 DEF GuestSays, ReaderTakes
    <2> QED BY <1>6, <2>1
<1>8. CASE Attach \/ ReadRingbuf \/ WriteRingbuf
    <2>1. /\ host' = host /\ ~Is("read", "done")
          /\ \E q, o : \/ serial' = [serial EXCEPT !.queue = q]
                       \/ serial' = [serial EXCEPT !.on = o]
        <3>1. CASE Attach BY <3>1 DEF Attach, Is
        <3>2. ASSUME NEW kind, AskRingbuf(kind)
              PROVE  /\ host' = host /\ op = Free
                     /\ \E q : serial' = [serial EXCEPT !.queue = q]
          BY <3>2 DEF AskRingbuf
        <3>3. op = Free => ~Is("read", "done") BY DEF Is, Free
        <3> QED BY <1>8, <3>1, <3>2, <3>3 DEF ReadRingbuf, WriteRingbuf
    <2>2. /\ serial'.drained = serial.drained /\ serial'.heard = serial.heard
          /\ serial'.lost = serial.lost
        BY <1>0, <2>1
    <2> QED BY <1>6, <2>1, <2>2
<1>9. CASE UNCHANGED taskVars BY <1>6, <1>9 DEF taskVars
<1>10. ASSUME TasksNext, ~Create, ~Attach, ~TeardownBridge, ~GuestSays, ~ReaderTakes,
              ~ReadSerial, ~ReadRingbuf, ~WriteRingbuf, ~QemuPerforms, ~RingbufAnswers,
              ~RingbufFails
       PROVE  host' = host /\ serial' = serial /\ (op' = op \/ ~Is("read", "done"))
  BY <1>10 DEF Is, Free, TasksNext, CallStep, WriteBegin, WriteByte, WriteEnds, Cont, GuestReads,
     DumpBegin, QemuDumps, DumpEnds, QemuDumpsLate, StartBegin, StartSpawns, StartSeesExit,
     StartEnds, LoopAsks, QemuDumpsFrame, LoopCaptured, LoopCaptureFails, LoopFeeds, LoopOnly,
     EncoderExits, StopBegin, TeardownBegin, FinalizeAborts, FinalizeEncoder, FinalizeCleans,
     TeardownCloses, QemuExits
<1> QED BY <1>1, <1>2, <1>3, <1>4, <1>5, <1>6, <1>7, <1>8, <1>9, <1>10

LEMMA TasksInvNext == TasksInv /\ [TasksNext]_taskVars => TasksInv'
BY ValuesNext, FlagsNext, CallsNext, OwnedNext, OutputNext, QueuedNext, AskedNext, HeardNext
   DEF TasksInv

LEMMA TasksInvAlways == TasksSpec => []TasksInv
BY TasksInvInit, TasksInvNext, PTL DEF TasksSpec

\* Whatever reads, writes, overflows and tears it down, the Serial Port keeps its bounds.
\* A reader loses nothing but what a full ring pushed out or, from QEMU's own ring, what
\* was drained for a ringbuf-read whose reply was late or lost; and the socket's ring holds
\* only what the Guest said (orchestrator.rs ring_push_bounded, read_serial, write_serial).
THEOREM SerialStaysSound == TasksSpec => []SerialHolds
<1>1. TasksInv => TasksTypeOK
  <2> SUFFICES ASSUME TasksInv PROVE TasksTypeOK OBVIOUS
  <2>1. \A b \in {slot, eof, frame, late, litter} : b \in BOOLEAN
    BY Zenon DEF TasksInv, Flags
  <2>2. /\ serial.taken \in 0..serial.out
        /\ serial.drained \in 0..serial.taken /\ serial.heard \in 0..serial.drained
        /\ Len(serial.ring) <= RingSize /\ Len(serial.queue) <= MaxQueue
    BY DEF TasksInv, Output, Queued, Run
  <2>3. /\ up \in {"none", "launched", "up", "gone", "closing"}
        /\ spec \in [serial : BOOLEAN, display : BOOLEAN]
        /\ loop \in {"none", "capture", "wait", "feed", "over"}
        /\ enc \in {"none", "runs", "exited"} /\ dump \in {"none", "asked", "done"}
    BY DEF TasksInv, Values
  <2>4. op.kind \in Kinds /\ op.n \in 0..(Pipe + 1) /\ input \in 0..Pipe
    BY DEF TasksInv, Calls
  <2> QED BY <2>1, <2>2, <2>3, <2>4 DEF TasksTypeOK, Kinds
<1>2. TasksInv => LosesOnlyOverflow
  <2> SUFFICES ASSUME TasksInv PROVE LosesOnlyOverflow OBVIOUS
  <2>1. Start = serial.drained \/ Len(serial.ring) = RingSize BY DEF TasksInv, Output
  <2>2. /\ serial.ring \in Seq(Byte) /\ Len(serial.ring) \in Nat
        /\ \A i \in 1..(Len(serial.ring) - 1) :
              serial.ring[i].n = Before(serial.ring[i + 1])
        /\ Len(serial.ring) > 0 => serial.ring[Len(serial.ring)].n = serial.taken
    BY DEF TasksInv, Output, Run
  <2>3. ASSUME NEW i \in DOMAIN serial.ring
        PROVE  serial.ring[i].n = IF i = Len(serial.ring) THEN serial.taken
                                  ELSE Before(serial.ring[i + 1])
    <3>1. i \in 1..Len(serial.ring) BY <2>2
    <3>2. CASE i = Len(serial.ring) BY <2>2, <3>1, <3>2
    <3>3. CASE i # Len(serial.ring)
      <4>1. i \in 1..(Len(serial.ring) - 1) BY <2>2, <3>1, <3>3
      <4> QED BY <2>2, <3>3, <4>1
    <3> QED BY <3>2, <3>3
  <2> QED BY <2>1, <2>3 DEF LosesOnlyOverflow
<1>3. TasksInv => DrainedIsHeard BY DEF TasksInv
<1>4. TasksInv => (host.backend = "socket" => OnlyTheGuestSpeaks) BY DEF TasksInv, Queued
<1> QED BY <1>1, <1>2, <1>3, <1>4, TasksInvAlways, PTL DEF SerialHolds

\* Whenever QEMU, ffmpeg or the Guest goes, no frame loop, encoder, frame file or serial
\* reader is left that no recording, call or Instance owns (finalize_recording).
THEOREM NothingIsLeftBehind == TasksSpec => []NothingOutlives
<1>1. TasksInv => NothingOutlives
  BY DEF TasksInv, Values, Flags, Calls, Owned, Attached, Kinds, NothingOutlives, Free
<1> QED BY <1>1, TasksInvAlways, PTL
=============================================================================
