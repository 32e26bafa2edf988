------------------------------- MODULE Viewer --------------------------------
(***************************************************************************)
(* The Rust Viewer: what it answers to a request, the permits that bound     *)
(* the websocket relays, the relays themselves, and what stop() ends.  A     *)
(* Viewer is started for each Instance with a display; the VNC address every *)
(* relay dials is the same for all of them.                                 *)
(***************************************************************************)
EXTENDS Naturals, FiniteSets

CONSTANTS
    Client,     \* browsers and other clients, one connection each
    Cap,        \* MAX_VIEWER_CONNECTIONS
    MaxViewers  \* bound: Viewers (and Instances) started

ASSUME CapAssumption == Cap \in Nat \ {0} /\ MaxViewers \in Nat \ {0}
ASSUME ClientAssumption == IsFiniteSet(Client)

Viewers == 1..MaxViewers

\* ViewerOptions: the secret asked of a client; no password, no Viewer.
Password == "secret"
Users == {"", "operator"} \* "" : viewer_user is not set

\* The Authorization header, as far as it is looked at.
None == [scheme |-> "none"]
Authorizations ==
    {None, [scheme |-> "bearer"], [scheme |-> "basic", text |-> "garbage"]} \cup
    {[scheme |-> "basic", text |-> "plain", colon |-> TRUE, user |-> u, password |-> p] :
        u \in {"", "operator"}, p \in {"secret", "wrong"}} \cup
    {[scheme |-> "basic", text |-> "plain", colon |-> FALSE, user |-> "", password |-> "secret"]}
\* The Origin header: absent, opaque, that of this Viewer's page, another.
Origins == {"absent", "opaque", "own", "foreign"}
Paths == {"/", "/websockify", "/novnc/asset", "/novnc/nothing", "/other"}

-----------------------------------------------------------------------------
\* What a request gets.

NoCredentials == <<>>

\* basic_credentials(): a text without a colon is all password.
BasicCredentials(a) ==
    IF a.scheme # "basic" \/ a.text = "garbage" THEN NoCredentials
    ELSE IF a.colon THEN <<a.user, a.password>> ELSE <<"", a.password>>

PasswordMatches(expected, provided) == expected = provided

IsAuthenticated(a, user) ==
    LET c == BasicCredentials(a) IN
    /\ c # NoCredentials
    /\ PasswordMatches(Password, c[2])
    /\ user # "" => PasswordMatches(user, c[1])

\* A client that is no browser sends no Origin.
OriginAllowed(origin) == origin \in {"absent", "own"}

Page == [status |-> 200, secret |-> TRUE]
Plain(status) == [status |-> status, secret |-> FALSE]

\* The routes; the page carries the Display's password.
Routed(path) ==
    IF path = "/" THEN Page ELSE IF path = "/novnc/asset" THEN Plain(200) ELSE Plain(404)

\* Mutation of Answer: the authentication layer does not reach the websocket.
AnswerUngatedSocket(r, user, permits) ==
    IF r.path = "/websockify"
    THEN IF ~OriginAllowed(r.origin) THEN Plain(403)
         ELSE IF permits = 0 THEN Plain(503) ELSE Plain(101)
    ELSE IF ~IsAuthenticated(r.auth, user) THEN Plain(401) ELSE Routed(r.path)

\* Authentication comes before every route.
Answer(r, user, permits) ==
    IF ~IsAuthenticated(r.auth, user) THEN Plain(401)
    ELSE IF r.path # "/websockify" THEN Routed(r.path)
    ELSE IF ~OriginAllowed(r.origin) THEN Plain(403)
    ELSE IF permits = 0 THEN Plain(503) ELSE Plain(101)

-----------------------------------------------------------------------------
VARIABLES
    viewer,  \* the current Viewer's number, and whether it serves
    user,    \* ViewerOptions.user
    permits, \* per Viewer, its semaphore
    client,  \* per client: where it is, whose, the QEMU at the other end
    told,    \* per client: the answer to its last request, was it authentic
    qemu     \* the number of the QEMU that listens on the VNC port; 0: none

vars == <<viewer, user, permits, client, told, qemu>>

Away == [pc |-> "away", of |-> 0, vnc |-> 0]
Untold == [answer |-> Plain(0), authentic |-> FALSE, origin |-> "absent"]

Init ==
    /\ viewer = [n |-> 0, serves |-> FALSE]
    /\ user \in Users
    /\ permits = [v \in Viewers |-> Cap]
    /\ client = [c \in Client |-> Away] /\ told = [c \in Client |-> Untold]
    /\ qemu = 0

\* An Instance with a display: its QEMU listens, start_viewer() binds and serves
\* (the listener of the Viewer before is closed).  A start that fails, for want
\* of a password or of the port, leaves no Viewer: RustOrchestrator has it.
StartViewer ==
    /\ ~viewer.serves /\ qemu = 0 /\ viewer.n < MaxViewers
    /\ viewer' = [n |-> viewer.n + 1, serves |-> TRUE]
    /\ qemu' = viewer.n + 1
    /\ UNCHANGED <<user, permits, client, told>>

\* stop(): the task that accepts connections is aborted, with its listener.
\* Every connection, and every relay, is a task of its own.
Stop ==
    /\ viewer.serves
    /\ viewer' = [viewer EXCEPT !.serves = FALSE]
    /\ UNCHANGED <<user, permits, client, told, qemu>>

QemuGone ==
    /\ qemu # 0
    /\ qemu' = 0
    /\ UNCHANGED <<viewer, user, permits, client, told>>

-----------------------------------------------------------------------------
\* A client and its connection.

Connect(c) ==
    /\ client[c].pc = "away" /\ viewer.serves
    /\ client' = [client EXCEPT ![c] = [pc |-> "open", of |-> viewer.n, vnc |-> 0]]
    /\ told' = [told EXCEPT ![c] = Untold]
    /\ UNCHANGED <<viewer, user, permits, qemu>>

\* A request, also one that was under way when its Viewer was stopped.
Asks(c) ==
    /\ client[c].pc = "open"
    /\ \E r \in [auth : Authorizations, path : Paths, origin : Origins] :
          LET a == Answer(r, user, permits[client[c].of])
          IN /\ told' = [told EXCEPT ![c] = [answer |-> a, origin |-> r.origin,
                                             authentic |-> IsAuthenticated(r.auth, user)]]
             /\ IF a.status = 101
                THEN /\ permits' = [permits EXCEPT ![client[c].of] = @ - 1]
                     /\ client' = [client EXCEPT ![c].pc = "granted"]
                ELSE UNCHANGED <<permits, client>>
    /\ UNCHANGED <<viewer, user, qemu>>

\* Mutation of Over: the permit is not returned.
OverKeepingPermit(c) ==
    /\ client' = [client EXCEPT ![c] = Away]
    /\ UNCHANGED <<permits, viewer, user, told, qemu>>

\* The relay's task, or the upgrade it waits for, ends: the permit is dropped.
Over(c) ==
    /\ client' = [client EXCEPT ![c] = Away]
    /\ permits' = [permits EXCEPT ![client[c].of] = @ + 1]
    /\ UNCHANGED <<viewer, user, told, qemu>>

\* proxy_to_vnc() dials whatever listens on the VNC port now.
Dial(c) ==
    /\ client[c].pc = "granted" /\ qemu # 0
    /\ client' = [client EXCEPT ![c].pc = "relays", ![c].vnc = qemu]
    /\ UNCHANGED <<viewer, user, permits, told, qemu>>

DialFails(c) ==
    /\ client[c].pc = "granted" /\ qemu = 0
    /\ Over(c)

\* A browser that does not read blocks the relay's send, until it does.
Stalls(c) ==
    /\ client[c].pc = "relays" /\ client[c].vnc = qemu
    /\ client' = [client EXCEPT ![c].pc = "stalled"]
    /\ UNCHANGED <<viewer, user, permits, told, qemu>>

Reads(c) ==
    /\ client[c].pc = "stalled"
    /\ client' = [client EXCEPT ![c].pc = "relays"]
    /\ UNCHANGED <<viewer, user, permits, told, qemu>>

\* Mutation of RelaySeesEnd: only the client's end of it is watched.
RelaySeesNothing(c) ==
    /\ FALSE
    /\ Over(c)

\* The VNC side ends: the direction that reads it ends, and with it the relay.
RelaySeesEnd(c) ==
    /\ client[c].pc = "relays" /\ client[c].vnc # qemu
    /\ Over(c)

Leaves(c) ==
    \/ client[c].pc \in {"granted", "relays", "stalled"} /\ Over(c)
    \/ /\ client[c].pc = "open"
       /\ client' = [client EXCEPT ![c] = Away]
       /\ UNCHANGED <<viewer, user, permits, told, qemu>>

-----------------------------------------------------------------------------
ServerStep(c) == Dial(c) \/ DialFails(c) \/ RelaySeesEnd(c)

Next ==
    \/ StartViewer \/ Stop \/ QemuGone
    \/ \E c \in Client :
          Connect(c) \/ Asks(c) \/ ServerStep(c) \/ Stalls(c) \/ Reads(c) \/ Leaves(c)

\* The runtime runs a relay that can go on; nothing is asked of a client.
Fairness == \A c \in Client : WF_vars(ServerStep(c))

Spec == Init /\ [][Next]_vars /\ Fairness

-----------------------------------------------------------------------------
\* The state has its types; no semaphore goes past its size.
TypeOK ==
    /\ viewer \in [n : 0..MaxViewers, serves : BOOLEAN]
    /\ user \in Users
    /\ permits \in [Viewers -> 0..Cap]
    /\ client \in [Client -> [pc : {"away", "open", "granted", "relays", "stalled"},
                              of : 0..MaxViewers, vnc : 0..MaxViewers]]
    /\ told \in [Client -> [answer : [status : {0, 101, 200, 401, 403, 404, 503}, secret : BOOLEAN],
                            authentic : BOOLEAN, origin : Origins]]
    /\ qemu \in 0..MaxViewers

\* A permit is out exactly while an upgrade or a relay of its Viewer goes on:
\* never more than Cap of them, and none is lost for the clients to come.
PermitsBalance ==
    \A v \in Viewers :
        permits[v] + Cardinality({c \in Client : client[c].of = v /\
            client[c].pc \in {"granted", "relays", "stalled"}}) = Cap

\* The Viewers' semaphores are sound, in their types and against the clients.
PermitsHold == TypeOK /\ PermitsBalance

\* Whoever drives the Guest's display, or has seen its password, gave the
\* Viewer's own; and no page of another origin drives it with a browser's.
OnlyAdmitted ==
    \A c \in Client :
        /\ told[c].answer.secret => told[c].authentic
        /\ client[c].pc \in {"granted", "relays", "stalled"} =>
              told[c].authentic /\ told[c].origin \in {"absent", "own"}

\* A relay whose QEMU is gone ends, unless its client has stopped reading.
RelayEnds ==
    \A c \in Client :
        (client[c].pc = "relays" /\ client[c].vnc # qemu) ~> client[c].pc # "relays"

\* "Drop all websocket clients": a Viewer that is stopped relays no more.
StopDropsClients ==
    \A c \in Client :
        client[c].pc \in {"relays", "stalled"} => viewer.serves /\ client[c].of = viewer.n
=============================================================================
