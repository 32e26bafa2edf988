---------------------------- MODULE TsOrchestrator ----------------------------
(***************************************************************************)
(* The TypeScript Orchestrator's lifecycle: create_instance and             *)
(* destroy_instance as chains of awaits over one set of fields, stop and    *)
(* cont whose replies set the state, the exit callback, and under them the  *)
(* driver: spawn, dial, the phases of close(), and the files of the two     *)
(* sockets that every QEMU of this server binds at the same paths.          *)
(*                                                                          *)
(* Node runs the code between two awaits without interruption: each action  *)
(* is what one continuation does.  Waits that only end later or fail (QMP   *)
(* timeouts, the dial deadline, SIGTERM's grace period) end here at any     *)
(* moment.  The Event Buffer and the recording are modelled apart.          *)
(***************************************************************************)
EXTENDS Naturals, FiniteSets

CONSTANTS
    Create,    \* create_instance calls that may overlap
    Destroy,   \* destroy_instance calls that may overlap
    Shutdown,  \* the one of them that the shutdown handler makes, if any
    Command,   \* pause_instance and resume_instance calls that may overlap
    AutoStart, \* QMP_MCP_AUTO_START
    Specs,     \* what a Hardware Spec may ask for: subsets of Companions
    MaxProc    \* bound: QEMU processes spawned in a behaviour

Companions == {"vnc", "serial"}
Path == {"qmp", "serial"}

ASSUME ShutdownAssumption == Shutdown \subseteq Destroy
ASSUME AutoStartAssumption == AutoStart \in BOOLEAN
ASSUME SpecsAssumption == Specs \subseteq SUBSET Companions
ASSUME MaxProcAssumption == MaxProc \in Nat

Proc == 1..MaxProc
None == 0               \* no process, no file, no peer, no token
Foreign == MaxProc + 1  \* a socket file this server did not make

ASSUME CreateAssumption == None \notin Create

VARIABLES
    state,   \* #state
    token,   \* #launchToken: the create call that owns the slot
    handle,  \* #process, and with it #viewer, #serialBridge, #spec, #accel
    create,  \* the create_instance calls
    destroy, \* the destroy_instance calls
    command, \* the pause_instance and resume_instance calls
    made,    \* how many QEMU processes were spawned
    alive,   \* those that run
    bound,   \* per process: the paths it listens at
    path,    \* who made the socket file at each path
    peer,    \* per process: whom its QMP session talks to
    line,    \* per process: whom its serial bridge talks to
    viewers, \* processes whose Viewer is up
    closing, \* per process: how far its handle's close() is
    watched, \* processes whose exit callback is registered and has yet to run
    unlinks  \* serial.sock removals nobody waits for

fields == <<state, token, handle>>
host == <<made, alive, bound, path>>
links == <<peer, line, viewers>>
vars == <<state, token, handle, create, destroy, command, made, alive,
          bound, path, peer, line, viewers, closing, watched, unlinks>>

Idle == [pc |-> "idle", proc |-> None]
Over == [pc |-> "over", proc |-> None]
NotCreating == [pc |-> "idle", proc |-> None, todo |-> {}]

Init ==
    /\ state = "NONE" /\ token = None /\ handle = None
    /\ create = [c \in Create |-> NotCreating]
    /\ destroy = [d \in Destroy |-> Idle]
    /\ command = [k \in Command |-> [pc |-> "idle", proc |-> None, to |-> "NONE"]]
    /\ made = 0 /\ alive = {}
    /\ bound = [p \in Proc |-> {}]
    /\ path \in [Path -> {None, Foreign}]
    /\ peer = [p \in Proc |-> None]
    /\ line = [p \in Proc |-> None]
    /\ viewers = {}
    /\ closing = [p \in Proc |-> "no"]
    /\ watched = {}
    /\ unlinks = {}

-----------------------------------------------------------------------------
\* QEMU and the host.

\* QEMU binds its sockets, in place of whatever file is there.
QemuBinds(p) ==
    /\ p \in alive
    /\ bound[p] = {}
    /\ \E c \in Create :
          /\ create[c].proc = p
          /\ bound' = [bound EXCEPT ![p] = {"qmp"} \cup (create[c].todo \cap Path)]
    /\ path' = [x \in Path |-> IF x \in bound'[p] THEN p ELSE path[x]]
    /\ UNCHANGED <<fields, create, destroy, command, made, alive, links, closing,
                   watched, unlinks>>

\* QEMU exits: told to, shut down by the Guest, crashed, or killed.  Only a
\* clean exit removes its socket files.
QemuExits(p, clean) ==
    /\ p \in alive
    /\ alive' = alive \ {p}
    /\ path' = [x \in Path |-> IF clean /\ x \in bound[p] THEN None ELSE path[x]]
    /\ UNCHANGED <<fields, create, destroy, command, made, bound, links, closing,
                   watched, unlinks>>

\* The QMP socket of a dead QEMU reports its end, after what was sent before.
SessionDrops(p) ==
    /\ peer[p] # None
    /\ peer[p] \notin alive
    /\ \A k \in Command :
          ~ (command[k].proc = p /\ command[k].pc = "answered")
    /\ peer' = [peer EXCEPT ![p] = None]
    /\ UNCHANGED <<fields, create, destroy, command, host, line, viewers, closing,
                   watched, unlinks>>

-----------------------------------------------------------------------------
\* RealInstanceProcess.close(): idempotent, in three phases.

Closing(p) == [closing EXCEPT ![p] = IF @ = "no" THEN "session" ELSE @]

\* client.close(): every outstanding request is rejected.  Then SIGTERM.
CloseSession(p) ==
    /\ closing[p] = "session"
    /\ peer' = [peer EXCEPT ![p] = None]
    /\ closing' = [closing EXCEPT ![p] = "process"]
    /\ UNCHANGED <<fields, create, destroy, command, host, line, viewers,
                   watched, unlinks>>

\* Mutation of CloseProcess: no SIGKILL after the grace period.
CloseProcessUnkilled(p) ==
    /\ closing[p] = "process"
    /\ p \in alive \/ p \notin watched
    /\ closing' = [closing EXCEPT ![p] = "file"]
    /\ UNCHANGED <<fields, create, destroy, command, host, links, watched,
                   unlinks>>

\* terminate() returns once the child is gone.  Its callback was registered on
\* the exit promise after OnProcessExit's, and is run after it.
CloseProcess(p) ==
    /\ closing[p] = "process"
    /\ p \notin alive /\ p \notin watched
    /\ closing' = [closing EXCEPT ![p] = "file"]
    /\ UNCHANGED <<fields, create, destroy, command, host, links, watched,
                   unlinks>>

\* A destroy call returns; the shutdown handler makes its own but once.
Returned(d) == IF d \in Shutdown THEN Over ELSE Idle

\* Who awaited close() goes on at once: destroy_instance's finally sets NONE, a
\* create call whose launch failed throws and releases the slot it owns.
closed(p) ==
    LET ends   == { d \in Destroy : destroy[d] = [pc |-> "closing", proc |-> p] }
        throws == { c \in Create : create[c].proc = p /\ create[c].pc = "aborting" }
        frees  == ends # {} \/ token \in throws
    IN
    /\ create' = [c \in Create |-> IF c \in throws THEN NotCreating ELSE create[c]]
    /\ destroy' = [d \in Destroy |-> IF d \in ends THEN Returned(d) ELSE destroy[d]]
    /\ state' = IF frees THEN "NONE" ELSE state
    /\ handle' = IF token \in throws THEN None ELSE handle
    /\ token' = IF token \in throws THEN None ELSE token

\* rm(qmpSocketPath, { force: true }), whoever made the file.
CloseFile(p) ==
    /\ closing[p] = "file"
    /\ path' = [path EXCEPT !["qmp"] = None]
    /\ closing' = [closing EXCEPT ![p] = "done"]
    /\ closed(p)
    /\ UNCHANGED <<command, made, alive, bound, links, watched, unlinks>>

\* The unlink of a bridge torn down by the exit callback.
UnlinkSerial(p) ==
    /\ p \in unlinks
    /\ unlinks' = unlinks \ {p}
    /\ path' = [path EXCEPT !["serial"] = None]
    /\ UNCHANGED <<fields, create, destroy, command, made, alive, bound, links, closing,
                   watched>>

-----------------------------------------------------------------------------
\* create_instance.

\* Mutation of CreateBegin: the slot is reserved only after the first await.
CreateBeginUnreserved(c) ==
    /\ create[c].pc = "idle"
    /\ state = "NONE"
    /\ token' = c
    /\ \E spec \in Specs :
          create' = [create EXCEPT ![c] =
                        [pc |-> "qmp", proc |-> None, todo |-> spec]]
    /\ UNCHANGED <<state, handle, destroy, command, host, links, closing,
                   watched, unlinks>>

\* Reserve the slot, synchronously.
CreateBegin(c) ==
    /\ create[c].pc = "idle"
    /\ state = "NONE"
    /\ state' = "STARTING"
    /\ token' = c
    /\ \E spec \in Specs :
          create' = [create EXCEPT ![c] =
                        [pc |-> "qmp", proc |-> None, todo |-> spec]]
    /\ UNCHANGED <<handle, destroy, command, host, links, closing, watched,
                   unlinks>>

\* Mutation of release: the token stays.
releaseKeepingToken(c) ==
    /\ state' = IF token = c THEN "NONE" ELSE state
    /\ handle' = IF token = c THEN None ELSE handle
    /\ UNCHANGED token

\* release(): back to NONE, but only for the call that owns the slot.
release(c) ==
    /\ state' = IF token = c THEN "NONE" ELSE state
    /\ handle' = IF token = c THEN None ELSE handle
    /\ token' = IF token = c THEN None ELSE token

\* The create call throws.
Throws(c) ==
    /\ create' = [create EXCEPT ![c] = NotCreating]
    /\ release(c)

\* The argv is refused, or the spool directory cannot be made.  (A spec that
\* does not even parse is refused before the first await: nothing changes.)
CreateRefused(c) ==
    /\ create[c].pc = "spawning"
    /\ Throws(c)
    /\ UNCHANGED <<destroy, command, host, links, closing, watched, unlinks>>

\* socketOccupied, for the QMP socket and then for the serial one.
CheckPath(c) ==
    LET x == create[c].pc IN
    /\ x \in Path
    /\ IF path[x] # None THEN Throws(c)
       ELSE /\ create' = [create EXCEPT ![c].pc =
                  IF x = "qmp" /\ "serial" \in create[c].todo THEN "serial"
                  ELSE "spawning"]
            /\ UNCHANGED fields
    /\ UNCHANGED <<destroy, command, host, links, closing, watched, unlinks>>

\* driver.launch: spawn, then dial until the socket accepts.
Spawn(c) ==
    /\ create[c].pc = "spawning"
    /\ made < MaxProc
    /\ made' = made + 1
    /\ alive' = alive \cup {made + 1}
    /\ create' = [create EXCEPT ![c].pc = "dialing", ![c].proc = made + 1]
    /\ UNCHANGED <<fields, destroy, command, bound, path, links, closing,
                   watched, unlinks>>

\* driver.launch fails: spawn error, early exit, dial deadline, handshake.  It
\* kills the child and removes the socket file before it throws (see closed).
LaunchFails(c) ==
    LET p == create[c].proc IN
    /\ create[c].pc = "dialing"
    /\ create' = [create EXCEPT ![c].pc = "aborting"]
    /\ closing' = [closing EXCEPT ![p] = "session"]
    /\ UNCHANGED <<fields, destroy, command, host, links, watched, unlinks>>

\* Superseded while it awaited: tear down what it started, touch nothing else.
Superseded(c, bridged) ==
    LET p == create[c].proc IN
    /\ closing' = Closing(p)
    /\ viewers' = viewers \ {p}
    /\ unlinks' = IF bridged THEN unlinks \cup {p} ELSE unlinks
    /\ Throws(c)
    /\ UNCHANGED watched

\* Everything is up: publish the Instance, register the exit callback, and
\* resume the Guest if AutoStart.
Publish(c) ==
    LET p == create[c].proc IN
    /\ handle' = p
    /\ state' = IF AutoStart THEN "RUNNING" ELSE "PAUSED"
    /\ token' = None
    /\ watched' = watched \cup {p}
    /\ create' = [create EXCEPT ![c].pc = IF AutoStart THEN "cont" ELSE "idle",
                                ![c].proc = IF AutoStart THEN p ELSE None,
                                ![c].todo = {}]

\* Go on with what is left to start: the Viewer, then the serial bridge.
Proceed(c, todo) ==
    /\ \/ /\ "vnc" \in todo
          /\ create' = [create EXCEPT ![c].pc = "arming", ![c].todo = todo]
          /\ UNCHANGED <<fields, watched>>
       \/ /\ "vnc" \notin todo /\ "serial" \in todo
          /\ create' = [create EXCEPT ![c].pc = "attaching", ![c].todo = todo]
          /\ UNCHANGED <<fields, watched>>
       \/ /\ todo = {}
          /\ Publish(c)
    /\ UNCHANGED <<closing, unlinks>>

ownsSlot(c) == token = c

\* The dial is accepted by the QEMU that listens at the path, and negotiated.
Launched(c) ==
    /\ create[c].pc = "dialing"
    /\ path["qmp"] \in alive
    /\ peer' = [peer EXCEPT ![create[c].proc] = path["qmp"]]
    /\ UNCHANGED line
    /\ IF ownsSlot(c) THEN Proceed(c, create[c].todo) /\ UNCHANGED viewers
       ELSE Superseded(c, FALSE)
    /\ UNCHANGED <<destroy, command, host>>

\* #armDisplay: set_password over QMP, then the Viewer.
Armed(c) ==
    LET p == create[c].proc IN
    /\ create[c].pc = "arming"
    /\ peer[p] # None
    /\ UNCHANGED <<peer, line>>
    /\ IF ownsSlot(c)
       THEN /\ viewers' = viewers \cup {p}
            /\ Proceed(c, create[c].todo \ {"vnc"})
       ELSE Superseded(c, FALSE)
    /\ UNCHANGED <<destroy, command, host>>

\* ... or it fails, and takes the launched QEMU down without waiting for it.
ArmFails(c) ==
    /\ create[c].pc = "arming"
    /\ closing' = Closing(create[c].proc)
    /\ Throws(c)
    /\ UNCHANGED <<destroy, command, host, links, watched, unlinks>>

\* attachSerialBridge: a connection to the QEMU that listens at serial.sock.
Attached(c) ==
    LET p == create[c].proc IN
    /\ create[c].pc = "attaching"
    /\ path["serial"] \in alive
    /\ UNCHANGED peer
    /\ IF ownsSlot(c)
       THEN /\ line' = [line EXCEPT ![p] = path["serial"]]
            /\ UNCHANGED viewers
            /\ Proceed(c, {})
       ELSE /\ line' = line
            /\ Superseded(c, TRUE)
    /\ UNCHANGED <<destroy, command, host>>

\* Mutation of AttachFails: the Viewer is left up.
AttachFailsKeepingViewer(c) ==
    LET p == create[c].proc IN
    /\ create[c].pc = "attaching"
    /\ closing' = Closing(p)
    /\ create' = [create EXCEPT ![c].pc = "unlinking"]
    /\ UNCHANGED <<fields, destroy, command, host, links, watched, unlinks>>

\* ... or the dial deadline passes: Viewer down, QEMU closed unawaited, ...
AttachFails(c) ==
    LET p == create[c].proc IN
    /\ create[c].pc = "attaching"
    /\ viewers' = viewers \ {p}
    /\ closing' = Closing(p)
    /\ create' = [create EXCEPT ![c].pc = "unlinking"]
    /\ UNCHANGED <<fields, destroy, command, host, peer, line, watched, unlinks>>

\* ... serial.sock removed, and only then the slot released.
AttachFailed(c) ==
    /\ create[c].pc = "unlinking"
    /\ path' = [path EXCEPT !["serial"] = None]
    /\ Throws(c)
    /\ UNCHANGED <<destroy, command, made, alive, bound, links, closing, watched,
                   unlinks>>

\* The reply to cont, or its failure: either way the slot is not touched.
ContDone(c) ==
    /\ create[c].pc = "cont"
    /\ Throws(c)
    /\ UNCHANGED <<destroy, command, host, links, closing, watched, unlinks>>

-----------------------------------------------------------------------------
\* destroy_instance, the exit callback, and the commands that set the state.

\* Claim the teardown, synchronously.
DestroyBegin(d) ==
    /\ destroy[d].pc = "idle"
    /\ state # "NONE" /\ handle # None
    /\ destroy' = [destroy EXCEPT ![d] = [pc |-> "recording", proc |-> handle]]
    /\ state' = "STOPPED" /\ token' = None /\ handle' = None
    /\ UNCHANGED <<create, command, host, links, closing, watched, unlinks>>

\* The shutdown handler, on a signal or when the transport has ended: nothing
\* in NONE; else destroy_instance, whose refusal is logged and that is all.
ShutdownBegin(d) ==
    \/ DestroyBegin(d)
    \/ /\ destroy[d].pc = "idle"
       /\ state = "NONE" \/ handle = None
       /\ destroy' = [destroy EXCEPT ![d] = Over]
       /\ UNCHANGED <<fields, create, command, host, links, closing, watched,
                      unlinks>>

\* The recording is finished: tear the bridge down, removing serial.sock.
DestroyBridge(d) ==
    LET p == destroy[d].proc IN
    /\ destroy[d].pc = "recording"
    /\ destroy' = [destroy EXCEPT ![d].pc = "viewer"]
    /\ line' = [line EXCEPT ![p] = None]
    /\ path' = IF line[p] = None THEN path ELSE [path EXCEPT !["serial"] = None]
    /\ UNCHANGED <<fields, create, command, made, alive, bound, peer, viewers,
                   closing, watched, unlinks>>

\* Mutation of DestroyViewer: an error of viewer.stop() is not caught, and goes
\* to the finally past close().
DestroyViewerThrows(d) ==
    LET p == destroy[d].proc IN
    /\ destroy[d].pc = "viewer"
    /\ viewers' = viewers \ {p}
    /\ \/ /\ destroy' = [destroy EXCEPT ![d].pc = "closing"]
          /\ closing' = Closing(p)
          /\ UNCHANGED state
       \/ /\ destroy' = [destroy EXCEPT ![d] = Returned(d)]
          /\ state' = "NONE"
          /\ UNCHANGED closing
    /\ UNCHANGED <<token, handle, create, command, host, peer, line, watched,
                   unlinks>>

\* Stop the Viewer, then start close().
DestroyViewer(d) ==
    LET p == destroy[d].proc IN
    /\ destroy[d].pc = "viewer"
    /\ destroy' = [destroy EXCEPT ![d].pc = "closing"]
    /\ viewers' = viewers \ {p}
    /\ closing' = Closing(p)
    /\ UNCHANGED <<fields, create, command, host, peer, line, watched, unlinks>>

\* Mutation of OnProcessExit: it takes every exit for an unexpected one.
OnProcessExitAlways(p) ==
    /\ p \in watched /\ p \notin alive
    /\ watched' = watched \ {p}
    /\ state' = "NONE" /\ token' = None /\ handle' = None
    /\ UNCHANGED <<create, destroy, command, host, links, closing, unlinks>>

\* #onProcessExit: a no-op in STOPPED and NONE; else drop the handle there is,
\* and close it, stop its Viewer and tear down its bridge without waiting.
OnProcessExit(p) ==
    /\ p \in watched /\ p \notin alive
    /\ watched' = watched \ {p}
    /\ IF state \in {"STOPPED", "NONE"}
       THEN UNCHANGED <<fields, links, closing, unlinks>>
       ELSE /\ state' = "NONE" /\ token' = None /\ handle' = None
            /\ IF handle = None THEN UNCHANGED <<links, closing, unlinks>>
               ELSE /\ closing' = Closing(handle)
                    /\ viewers' = viewers \ {handle}
                    /\ line' = [line EXCEPT ![handle] = None]
                    /\ unlinks' = IF line[handle] = None THEN unlinks
                                  ELSE unlinks \cup {handle}
                    /\ UNCHANGED peer
    /\ UNCHANGED <<create, destroy, command, host>>

\* pause_instance and resume_instance: send stop or cont ...
CommandBegin(k, to) ==
    /\ command[k].pc = "idle"
    /\ handle # None
    /\ peer[handle] # None
    /\ command' = [command EXCEPT ![k] =
                      [pc |-> "sent", proc |-> handle, to |-> to]]
    /\ UNCHANGED <<fields, create, destroy, host, links, closing, watched,
                   unlinks>>

\* ... QEMU answers ...
CommandAnswered(k) ==
    /\ command[k].pc = "sent"
    /\ peer[command[k].proc] \in alive
    /\ command' = [command EXCEPT ![k].pc = "answered"]
    /\ UNCHANGED <<fields, create, destroy, host, links, closing, watched,
                   unlinks>>

\* ... and the reply sets the state, whatever it is by now.
CommandReplied(k) ==
    /\ command[k].pc = "answered"
    /\ peer[command[k].proc] # None
    /\ state' = command[k].to
    /\ command' = [command EXCEPT ![k].pc = "idle", ![k].proc = None]
    /\ UNCHANGED <<token, handle, create, destroy, host, links, closing, watched,
                   unlinks>>

\* The session failed, QEMU refused, or the command timed out.
CommandRejected(k) ==
    /\ command[k].pc # "idle"
    /\ command' = [command EXCEPT ![k].pc = "idle", ![k].proc = None]
    /\ UNCHANGED <<fields, create, destroy, host, links, closing, watched,
                   unlinks>>

-----------------------------------------------------------------------------

CreateStep(c) ==
    \/ CheckPath(c) \/ CreateRefused(c) \/ Spawn(c)
    \/ Launched(c) \/ LaunchFails(c)
    \/ Armed(c) \/ ArmFails(c)
    \/ Attached(c) \/ AttachFails(c) \/ AttachFailed(c)
    \/ ContDone(c)

DestroyStep(d) == DestroyBridge(d) \/ DestroyViewer(d)

CloseStep(p) == CloseSession(p) \/ CloseProcess(p) \/ CloseFile(p)

ShuttingDown == \E d \in Shutdown : destroy[d].pc # "idle"

\* No call arrives any more when the server is shutting down.
Step ==
    \/ \E c \in Create : (~ ShuttingDown /\ CreateBegin(c)) \/ CreateStep(c)
    \/ \E d \in Destroy \ Shutdown : ~ ShuttingDown /\ DestroyBegin(d)
    \/ \E d \in Shutdown : ShutdownBegin(d)
    \/ \E d \in Destroy : DestroyStep(d)
    \/ \E p \in Proc :
          \/ QemuBinds(p) \/ SessionDrops(p) \/ OnProcessExit(p)
          \/ \E clean \in BOOLEAN : QemuExits(p, clean)
          \/ CloseStep(p) \/ UnlinkSerial(p)
    \/ \E k \in Command :
          \/ \E to \in {"RUNNING", "PAUSED"} : ~ ShuttingDown /\ CommandBegin(k, to)
          \/ CommandAnswered(k) \/ CommandRejected(k)

Next == Step \/ \E k \in Command : CommandReplied(k)

Spec == Init /\ [][Next]_vars

\* Every await ends: file operations complete, the dials have deadlines, a QMP
\* command has its timeout, a QEMU that is told to go is killed after the grace
\* period, and callbacks that are due are run.
Fairness ==
    /\ \A c \in Create : WF_vars(CreateStep(c))
    /\ \A d \in Destroy : WF_vars(DestroyStep(d))
    /\ \A p \in Proc :
          /\ WF_vars(CloseStep(p))
          /\ WF_vars(OnProcessExit(p))
          /\ WF_vars(closing[p] = "process" /\ \E clean \in BOOLEAN : QemuExits(p, clean))

FairSpec == Spec /\ Fairness

\* Without the replies that come when there is no Instance any more: those wedge the
\* slot.  (They still may come when it is another Instance that is up.)
TimelyNext == Step \/ \E k \in Command : handle # None /\ CommandReplied(k)

TimelySpec == Init /\ [][TimelyNext]_vars /\ Fairness

-----------------------------------------------------------------------------

Busy(d) == destroy[d].pc \in {"recording", "viewer", "closing"}

\* What the fields range over; a call names a QEMU that was spawned, and only
\* while it has one to care for.
TypeOK ==
    /\ state \in {"NONE", "STARTING", "RUNNING", "PAUSED", "STOPPED"}
    /\ token \in Create \cup {None}
    /\ made \in 0..MaxProc
    /\ handle \in 0..made
    /\ create \in [Create ->
          [pc : {"idle", "qmp", "serial", "spawning"}, proc : {None},
           todo : SUBSET Companions]
          \cup [pc : {"dialing", "aborting", "arming", "attaching", "unlinking", "cont"},
                proc : 1..made, todo : SUBSET Companions]]
    /\ destroy \in [Destroy ->
          {Idle, Over} \cup [pc : {"recording", "viewer", "closing"}, proc : 1..made]]
    /\ command \in [Command -> [pc : {"idle", "sent", "answered"},
                                proc : Proc \cup {None},
                                to : {"NONE", "RUNNING", "PAUSED"}]]
    /\ alive \subseteq 1..made
    /\ bound \in [Proc -> SUBSET Path]
    /\ path \in [Path -> Proc \cup {None, Foreign}]
    /\ peer \in [Proc -> Proc \cup {None}]
    /\ line \in [Proc -> Proc \cup {None}]
    /\ viewers \subseteq 1..made
    /\ closing \in [Proc -> {"no", "session", "process", "file", "done"}]
    /\ watched \subseteq 1..made
    /\ unlinks \subseteq 1..made

\* A create call that has launched p and has neither published nor dropped it.
Starting(p) ==
    \E c \in Create : create[c].proc = p /\ create[c].pc \notin {"idle", "cont"}

Stopping(p) == \E d \in Destroy : destroy[d].proc = p

\* Every QEMU that runs, every Viewer and every serial bridge is somebody's: of
\* the Instance, of a create or destroy in progress, or (QEMU) of a close() that
\* nobody waits for.  Nothing is orphaned.
NoOrphan ==
    \A p \in Proc :
        (p \in alive /\ closing[p] = "no") \/ p \in viewers \/ line[p] # None
            => handle = p \/ Starting(p) \/ Stopping(p)

\* There is never more than one QEMU that is not being taken down: overlapping
\* creates, destroys and exits cannot make two.
OneInstance ==
    \A p, q \in alive :
        closing[p] = "no" /\ closing[q] = "no" /\ ~ Stopping(p) /\ ~ Stopping(q)
            => p = q

\* A session and a bridge talk to the QEMU they were opened for, though every
\* QEMU binds the same two paths: not to a predecessor, nor to a foreign one.
OwnSession ==
    \A p \in Proc : peer[p] \in {None, p} /\ line[p] \in {None, p}

\* The Instance is the server's, whole and alone: nothing orphaned, nothing
\* doubled, and every connection to the QEMU it was opened for.
InstanceIsOurs == NoOrphan /\ OneInstance /\ OwnSession

\* The state and the fields say the same, between any two continuations.
FieldsAgree ==
    /\ state \in {"RUNNING", "PAUSED"} <=> handle # None
    /\ state = "STARTING" <=> token # None
    /\ state = "STOPPED" <=> \E d \in Destroy : Busy(d)

\* The Orchestrator's fields are sound, each by itself and against the others.
FieldsHold == TypeOK /\ FieldsAgree

\* The lifecycle the README draws.
Abstract == INSTANCE Lifecycle WITH newest <- made
ImplementsLifecycle == Abstract!Spec

\* The slot always comes back: whenever it is taken and there is no Instance to
\* destroy, it gets free again, or gets an Instance (the next request starts
\* from a clean slate).
SlotComesBack ==
    state # "NONE" /\ handle = None ~> state = "NONE" \/ handle # None

\* A shutdown that finds an Instance takes it down, and no QEMU is left.
ShutdownTakesInstance == (\E d \in Shutdown : Busy(d)) ~> alive = {}

\* "shut the server down and it tears the VM down with it, so nothing is left
\* orphaned": whenever the signal comes.
ShutdownLeavesNothing == ShuttingDown ~> alive = {}

\* Whatever QEMU a close() was started on goes away, with its session.
EveryCloseEnds ==
    \A p \in Proc :
        closing[p] # "no" ~> closing[p] = "done" /\ p \notin alive

\* Whatever is begun comes to an end: the slot, and every close().
EverythingEnds == SlotComesBack /\ EveryCloseEnds

=============================================================================
