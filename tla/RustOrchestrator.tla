--------------------------- MODULE RustOrchestrator ---------------------------
(***************************************************************************)
(* The Rust Orchestrator's lifecycle.  Every tool call locks the one mutex  *)
(* and keeps it across its awaits; beside the calls there are the exit      *)
(* watchers, tasks that wait for the end of a QMP session and then for the  *)
(* same lock, and the teardown of main() when the server shuts down.        *)
(* tokio's mutex is fair: whoever waits is served in order.                 *)
(*                                                                          *)
(* The server may be killed at any moment, leaving QEMU and its socket      *)
(* files to the next server; when it exits, the QEMU it has left is killed  *)
(* with it (kill_on_drop).  A QEMU binds its sockets some time after it was  *)
(* spawned, also when the server that spawned it is no more.                *)
(***************************************************************************)
EXTENDS Naturals, SequencesExt

CONSTANTS
    Create,    \* create_instance calls
    Destroy,   \* destroy_instance calls
    Shutdown,  \* the one of them that is the teardown of main(), if any
    Command,   \* pause_instance and resume_instance calls
    AutoStart, \* QMP_MCP_AUTO_START
    Specs,     \* what a Hardware Spec may ask for: subsets of Companions
    MaxProc,   \* bound: QEMU processes spawned in a behaviour
    MaxEnds    \* bound: times the server exits or is killed, and starts anew

Companions == {"serial", "vnc"}
Path == {"qmp", "serial"}

ASSUME ShutdownAssumption == Shutdown \subseteq Destroy
ASSUME AutoStartAssumption == AutoStart \in BOOLEAN
ASSUME SpecsAssumption == Specs \subseteq SUBSET Companions
ASSUME BoundsAssumption == MaxProc \in Nat /\ MaxEnds \in Nat

Proc == 1..MaxProc
None == 0
Foreign == MaxProc + 1  \* a socket file nobody here made
Call == Create \cup Destroy \cup Command
Task == Call \cup Proc  \* the exit watcher of p is the task p

ASSUME CallAssumption == \A p \in 0..MaxProc : p \notin Call

VARIABLES
    state,      \* Orchestrator.state
    handle,     \* Orchestrator.handle: the QEMU of the Instance
    generation, \* Orchestrator.generation: the last Instance published
    watcher,    \* Orchestrator.exit_watcher
    lock,       \* the mutex: its holder, then those who wait, in order
    task,       \* what each task is about to do, and to which QEMU
    made,       \* how many QEMU processes were spawned
    alive,      \* those that run
    argv,       \* per process: the socket paths it was told to listen at
    bound,      \* per process: those of them it has bound
    path,       \* who made the socket file at each path
    peer,       \* per process: whom its QMP session talks to
    line,       \* per process: whom its serial bridge talks to
    viewers,    \* processes whose Viewer is up
    ends,       \* how often the server has ended
    born,       \* how many QEMUs were spawned before this server started
    late        \* (history) per path: those of them that had yet to bind it then

fields == <<state, handle, generation, watcher>>
host == <<made, alive, argv, bound, path>>
links == <<peer, line, viewers>>
server == <<ends, born, late>>
vars == <<state, handle, generation, watcher, lock, task, made, alive, argv, bound, path,
          peer, line, viewers, ends, born, late>>

Idle == [pc |-> "idle", proc |-> None, todo |-> {}]

Over == [Idle EXCEPT !.pc = "over"]

Resting == [t \in Task |-> Idle]
Unlinked == [p \in Proc |-> None]
Deaf == [p \in Proc |-> {}]

Init ==
    /\ state = "NONE" /\ handle = None /\ generation = 0 /\ watcher = None
    /\ lock = <<>> /\ task = Resting
    /\ peer = Unlinked /\ line = Unlinked /\ viewers = {}
    /\ made = 0 /\ alive = {} /\ argv = Deaf /\ bound = Deaf
    /\ path \in [Path -> {None, Foreign}]
    /\ ends = 0 /\ born = 0 /\ late = [x \in Path |-> {}]

Mine == (born + 1)..made  \* the QEMUs this server spawned

Holds(t) == lock # <<>> /\ Head(lock) = t
At(t, pc) == Holds(t) /\ task[t].pc = pc

\* t goes on to pc; t returns, and the lock goes to the next.
Goes(t, pc) == task' = [task EXCEPT ![t].pc = pc] /\ UNCHANGED lock
Returns(t) ==
    /\ task' = [task EXCEPT ![t] = IF t \in Shutdown THEN Over ELSE Idle]
    /\ lock' = Tail(lock)

\* A call arrives and waits for its turn.
Request(t) ==
    /\ t \in Call
    /\ task[t].pc = "idle"
    /\ task' = [task EXCEPT ![t].pc = "queued"]
    /\ lock' = Append(lock, t)
    /\ UNCHANGED <<fields, host, links, server>>

-----------------------------------------------------------------------------
\* QEMU and the host.

\* QEMU binds a socket, in place of whatever file is there.
QemuBinds(p) ==
    /\ p \in alive
    /\ \E x \in argv[p] \ bound[p] :
          /\ path' = [path EXCEPT ![x] = p]
          /\ bound' = [bound EXCEPT ![p] = @ \cup {x}]
    /\ UNCHANGED <<fields, lock, task, made, alive, argv, links, server>>

\* QEMU exits; a clean exit unlinks its socket paths, and only a clean exit does.
QemuExits(p, clean) ==
    /\ p \in alive
    /\ alive' = alive \ {p}
    /\ path' = [x \in Path |-> IF clean /\ x \in bound[p] THEN None ELSE path[x]]
    /\ argv' = [argv EXCEPT ![p] = {}] /\ bound' = [bound EXCEPT ![p] = {}]
    /\ UNCHANGED <<fields, lock, task, made, links, server>>

\* The QMP client reads the end of its session: the exit signal.
SessionDrops(p) ==
    /\ peer[p] # None
    /\ peer[p] \notin alive
    /\ peer' = [peer EXCEPT ![p] = None]
    /\ UNCHANGED <<fields, lock, task, host, line, viewers, server>>

-----------------------------------------------------------------------------
\* create_instance.

\* Mutation of CreateBegin: whoever comes may create.
CreateBeginAnyway(c) ==
    /\ At(c, "queued")
    /\ state' = "STARTING"
    /\ \E spec \in Specs :
          task' = [task EXCEPT ![c].pc = "checking", ![c].todo = spec]
    /\ UNCHANGED <<handle, generation, watcher, lock, host, links, server>>

\* Refuse when there is an Instance, else reserve the slot.
CreateBegin(c) ==
    /\ At(c, "queued")
    /\ IF state # "NONE" THEN Returns(c) /\ UNCHANGED state
       ELSE /\ state' = "STARTING"
            /\ \E spec \in Specs :
                  task' = [task EXCEPT ![c].pc = "checking", ![c].todo = spec]
            /\ UNCHANGED lock
    /\ UNCHANGED <<handle, generation, watcher, host, links, server>>

\* Validation or launch failed: the reserved slot is freed.
Fails(c) ==
    /\ state' = "NONE"
    /\ Returns(c)
    /\ UNCHANGED <<handle, generation, watcher>>

Occupied(c) == path["qmp"] # None \/ ("serial" \in task[c].todo /\ path["serial"] # None)

\* The spec, the argv or the spool directory is refused, or spawn fails.
CreateRefused(c) ==
    /\ At(c, "checking")
    /\ Fails(c)
    /\ UNCHANGED <<host, links, server>>

\* Neither socket path is occupied (the serial one is looked at first): spawn.
Spawn(c) ==
    /\ At(c, "checking")
    /\ ~ Occupied(c)
    /\ made < MaxProc
    /\ made' = made + 1
    /\ alive' = alive \cup {made + 1}
    /\ argv' = [argv EXCEPT ![made + 1] = {"qmp"} \cup (Path \cap task[c].todo)]
    /\ task' = [task EXCEPT ![c].pc = "dialing", ![c].proc = made + 1]
    /\ UNCHANGED <<fields, lock, bound, path, links, server>>

\* spawn_exit_watcher: the field's old watcher is aborted, wherever it waits.
Watch(p, publisher, pc) ==
    /\ watcher' = p
    /\ task' = [t \in Task |->
           IF t = p THEN [Idle EXCEPT !.pc = "armed"]
           ELSE IF t = watcher THEN Idle
           ELSE IF t = publisher THEN [Idle EXCEPT !.pc = pc, !.proc = p]
           ELSE task[t]]

\* Mutation of Publish: the generation is not bumped.
PublishSameGeneration(c) ==
    LET p == task[c].proc IN
    /\ handle' = p
    /\ state' = IF AutoStart THEN "RUNNING" ELSE "PAUSED"
    /\ UNCHANGED generation
    /\ Watch(p, c, "cont")
    /\ UNCHANGED lock

\* Everything is up: publish the Instance under a new generation, watch for its
\* exit, and resume the Guest if AutoStart.
Publish(c) ==
    LET p == task[c].proc IN
    /\ handle' = p
    /\ state' = IF AutoStart THEN "RUNNING" ELSE "PAUSED"
    /\ generation' = p
    /\ Watch(p, c, "cont")
    /\ UNCHANGED lock

\* Go on with what is left to start: the serial bridge, then the Viewer.
Proceed(c, todo) ==
    \/ /\ "serial" \in todo
       /\ task' = [task EXCEPT ![c].pc = "attaching", ![c].todo = todo]
       /\ UNCHANGED <<fields, lock>>
    \/ /\ "serial" \notin todo /\ "vnc" \in todo
       /\ task' = [task EXCEPT ![c].pc = "arming", ![c].todo = todo]
       /\ UNCHANGED <<fields, lock>>
    \/ /\ todo = {}
       /\ Publish(c)

\* The dial is accepted by the QEMU that listens at the path, and negotiated.
Launched(c) ==
    /\ At(c, "dialing")
    /\ path["qmp"] \in alive
    /\ peer' = [peer EXCEPT ![task[c].proc] = path["qmp"]]
    /\ Proceed(c, task[c].todo)
    /\ UNCHANGED <<host, line, viewers, server>>

\* ... or the launch fails: early exit, dial deadline, handshake.
LaunchFails(c) ==
    /\ At(c, "dialing")
    /\ task' = [task EXCEPT ![c].pc = "aborting", ![c].todo = {}]
    /\ UNCHANGED <<fields, lock, host, links, server>>

\* attach_serial_bridge: a connection to the QEMU that listens at serial.sock.
Attached(c) ==
    /\ At(c, "attaching")
    /\ path["serial"] \in alive
    /\ line' = [line EXCEPT ![task[c].proc] = path["serial"]]
    /\ Proceed(c, task[c].todo \ {"serial"})
    /\ UNCHANGED <<host, peer, viewers, server>>

\* ... or its deadline passes: close the handle, then unlink serial.sock.
AttachFails(c) ==
    /\ At(c, "attaching")
    /\ Goes(c, "aborting")
    /\ peer' = [peer EXCEPT ![task[c].proc] = None]
    /\ UNCHANGED <<fields, host, line, viewers, server>>

\* arm_display: set_password over QMP, then the Viewer.
Armed(c) ==
    LET p == task[c].proc IN
    /\ At(c, "arming")
    /\ peer[p] # None
    /\ viewers' = viewers \cup {p}
    /\ Proceed(c, {})
    /\ UNCHANGED <<host, peer, line, server>>

\* A QEMU that is being terminated.
Told(p) ==
    \E t \in Task : task[t].proc = p /\ task[t].pc \in {"aborting", "closing"}

\* Mutation of ArmFails: the bridge is left up.
ArmFailsKeepingBridge(c) ==
    LET p == task[c].proc IN
    /\ At(c, "arming")
    /\ Goes(c, "aborting")
    /\ peer' = [peer EXCEPT ![p] = None]
    /\ UNCHANGED <<fields, host, line, viewers, server>>

\* ... or it fails: tear the bridge down, then close the handle.
ArmFails(c) ==
    LET p == task[c].proc IN
    /\ At(c, "arming")
    /\ Goes(c, "aborting")
    /\ line' = [line EXCEPT ![p] = None]
    /\ path' = IF line[p] = None THEN path ELSE [path EXCEPT !["serial"] = None]
    /\ peer' = [peer EXCEPT ![p] = None]
    /\ UNCHANGED <<fields, made, alive, argv, bound, viewers, server>>

\* The failed launch's QEMU is gone: unlink its sockets, free the slot.
Aborted(c) ==
    /\ At(c, "aborting")
    /\ task[c].proc \notin alive
    /\ path' = [x \in Path |->
           IF x = "qmp" \/ "serial" \in task[c].todo THEN None ELSE path[x]]
    /\ Fails(c)
    /\ UNCHANGED <<made, alive, argv, bound, links, server>>

\* The reply to cont or its failure; without AutoStart there is nothing to wait
\* for.  An error leaves the Instance as published.
CreateReturns(c) ==
    /\ At(c, "cont")
    /\ Returns(c)
    /\ UNCHANGED <<fields, host, links, server>>

-----------------------------------------------------------------------------
\* destroy_instance, the exit watcher, and the commands that set the state.

\* teardown_current_instance: take the handle, and finalize the recording.
Teardown(t, task0) ==
    /\ handle' = None
    /\ task' = [task0 EXCEPT ![t].pc = "recording", ![t].proc = handle]
    /\ UNCHANGED <<state, generation>>

\* A task that is aborted while it waits for the lock leaves the queue.
Leaves(t) ==
    \/ \E i \in DOMAIN lock : lock[i] = t /\ lock' = RemoveAt(lock, i)
    \/ (\A i \in DOMAIN lock : lock[i] # t) /\ UNCHANGED lock

\* Refuse when there is no Instance; else abort the exit watcher, wherever it
\* waits, and tear down.
DestroyBegin(d) ==
    /\ At(d, "queued")
    /\ IF state = "NONE" \/ handle = None
       THEN Returns(d) /\ UNCHANGED fields
       ELSE /\ watcher' = None
            /\ Leaves(watcher)
            /\ Teardown(d, [t \in Task |-> IF t = watcher THEN Idle ELSE task[t]])
    /\ UNCHANGED <<host, links, server>>

\* The watcher of p sees the exit signal, and waits for the lock.
WatcherWakes(p) ==
    /\ task[p].pc = "armed"
    /\ peer[p] = None
    /\ task' = [task EXCEPT ![p].pc = "queued"]
    /\ lock' = Append(lock, p)
    /\ UNCHANGED <<fields, host, links, server>>

\* Mutation of Reconcile: the slot is freed, the handle kept for the drop.
ReconcileKeepingHandle(p) ==
    /\ At(p, "queued")
    /\ state' = "NONE"
    /\ Returns(p)
    /\ UNCHANGED <<handle, generation, watcher, host, links, server>>

\* reconcile_unexpected_exit: nothing for another generation, or when a destroy
\* came first; else the same teardown, on the watcher's own task.
Reconcile(p) ==
    /\ At(p, "queued")
    /\ IF generation # p \/ state = "NONE" \/ handle = None
       THEN Returns(p) /\ UNCHANGED fields
       ELSE /\ watcher' = None
            /\ Teardown(p, task)
            /\ UNCHANGED lock
    /\ UNCHANGED <<host, links, server>>

\* The recording is finalized: unlink the bridge's socket; STOPPED.
TeardownBridge(t) ==
    LET p == task[t].proc IN
    /\ At(t, "recording")
    /\ Goes(t, "viewer")
    /\ state' = "STOPPED"
    /\ line' = [line EXCEPT ![p] = None]
    /\ path' = IF line[p] = None THEN path ELSE [path EXCEPT !["serial"] = None]
    /\ UNCHANGED <<handle, generation, watcher, made, alive, argv, bound, peer, viewers, server>>

\* Stop the Viewer, and close the session.
TeardownViewer(t) ==
    LET p == task[t].proc IN
    /\ At(t, "viewer")
    /\ Goes(t, "closing")
    /\ viewers' = viewers \ {p}
    /\ peer' = [peer EXCEPT ![p] = None]
    /\ UNCHANGED <<fields, host, line, server>>

\* terminate() has seen QEMU go: unlink the QMP socket; NONE.
TeardownCloses(t) ==
    /\ At(t, "closing")
    /\ task[t].proc \notin alive
    /\ path' = [path EXCEPT !["qmp"] = None]
    /\ state' = "NONE"
    /\ Returns(t)
    /\ UNCHANGED <<handle, generation, watcher, made, alive, argv, bound, links, server>>

\* pause_instance, resume_instance: refused, or sent to QEMU ...
CommandBegin(k) ==
    /\ At(k, "queued")
    /\ IF handle = None THEN Returns(k)
       ELSE /\ task' = [task EXCEPT ![k].pc = "sent", ![k].proc = handle]
            /\ UNCHANGED lock
    /\ UNCHANGED <<fields, host, links, server>>

\* ... whose reply sets the state ...
CommandReplied(k) ==
    /\ At(k, "sent")
    /\ peer[task[k].proc] # None
    /\ state' \in {"RUNNING", "PAUSED"}
    /\ Returns(k)
    /\ UNCHANGED <<handle, generation, watcher, host, links, server>>

\* ... or which fails: an error, a timeout, the end of the session.
CommandFails(k) ==
    /\ At(k, "sent")
    /\ Returns(k)
    /\ UNCHANGED <<fields, host, links, server>>

-----------------------------------------------------------------------------
\* The end of the server.

\* A new server finds what the last one left on the host: the socket files, and the
\* QEMUs that live on.
Anew(left) ==
    /\ ends < MaxEnds
    /\ ends' = ends + 1
    /\ born' = made
    /\ alive' = left
    /\ argv' = [p \in Proc |-> IF p \in left THEN argv[p] ELSE {}]
    /\ bound' = [p \in Proc |-> IF p \in left THEN bound[p] ELSE {}]
    /\ late' = [x \in Path |-> {p \in left : x \in argv[p] \ bound[p]}]
    /\ state' = "NONE" /\ handle' = None /\ generation' = 0 /\ watcher' = None
    /\ lock' = <<>> /\ task' = Resting
    /\ peer' = Unlinked /\ line' = Unlinked /\ viewers' = {}
    /\ UNCHANGED <<made, path>>

\* main() returns after its teardown; runtime and tasks are dropped wherever
\* they are, and the QEMU they hold is killed.
ServerExits(d) ==
    /\ d \in Shutdown
    /\ task[d].pc = "over"
    /\ Anew(alive \ Mine)

\* An error of the transport returns from main() before the teardown: the QEMU
\* that is held is killed by its drop alone.
ServerFails == Anew(alive \ Mine)

\* The server is killed: QEMU lives on.
ServerKilled == Anew(alive)

-----------------------------------------------------------------------------

CreateStep(c) ==
    \/ CreateBegin(c) \/ CreateRefused(c) \/ Spawn(c)
    \/ Launched(c) \/ LaunchFails(c) \/ Attached(c) \/ AttachFails(c)
    \/ Armed(c) \/ ArmFails(c) \/ Aborted(c) \/ CreateReturns(c)

TeardownStep(t) == TeardownBridge(t) \/ TeardownViewer(t) \/ TeardownCloses(t)

CommandStep(k) == CommandBegin(k) \/ CommandReplied(k) \/ CommandFails(k)

Next ==
    \/ \E t \in Call : Request(t)
    \/ \E c \in Create : CreateStep(c)
    \/ \E d \in Destroy : DestroyBegin(d) \/ TeardownStep(d)
    \/ \E k \in Command : CommandStep(k)
    \/ \E p \in Proc :
          \/ WatcherWakes(p) \/ Reconcile(p) \/ TeardownStep(p)
          \/ QemuBinds(p) \/ SessionDrops(p)
          \/ \E clean \in BOOLEAN : QemuExits(p, clean)
    \/ \E d \in Shutdown : ServerExits(d)
    \/ ServerFails \/ ServerKilled

Spec == Init /\ [][Next]_vars

\* Every await ends: the dials have deadlines, a QMP command its timeout, a QEMU
\* that is told to go is killed after the grace period, and the end of a dead
\* QEMU's session is read.
FairSpec ==
    /\ Spec
    /\ \A c \in Create : WF_vars(CreateStep(c))
    /\ \A d \in Destroy : WF_vars(DestroyBegin(d) \/ TeardownStep(d))
    /\ \A k \in Command : WF_vars(CommandStep(k))
    /\ \A p \in Proc :
          /\ WF_vars(WatcherWakes(p))
          /\ WF_vars(Reconcile(p) \/ TeardownStep(p))
          /\ WF_vars(SessionDrops(p))
          /\ WF_vars(Told(p) /\ \E clean \in BOOLEAN : QemuExits(p, clean))

-----------------------------------------------------------------------------

Steps == {"checking", "dialing", "attaching", "arming", "aborting", "cont",
          "recording", "viewer", "closing", "sent"}

\* What the fields range over; exactly who holds the lock is at a step of its
\* own, everybody else waits for it or for something to happen.
TypeOK ==
    /\ state \in {"NONE", "STARTING", "RUNNING", "PAUSED", "STOPPED"}
    /\ handle \in Mine \cup {None}
    /\ generation \in Mine \cup {None}
    /\ watcher \in Mine \cup {None}
    /\ lock \in Seq(Task)
    /\ task \in [Task -> [pc : {"idle", "armed", "queued", "over"} \cup Steps,
                         proc : Mine \cup {None}, todo : SUBSET Companions]]
    /\ \A t \in Task : task[t].pc \in Steps => Holds(t)
    /\ made \in 0..MaxProc
    /\ alive \subseteq 1..made
    /\ argv \in [Proc -> SUBSET Path]
    /\ \A p \in Proc : bound[p] \subseteq argv[p] /\ (p \notin alive => argv[p] = {})
    /\ path \in [Path -> Proc \cup {None, Foreign}]
    /\ peer \in [Proc -> Proc \cup {None}]
    /\ line \in [Proc -> Proc \cup {None}]
    /\ viewers \subseteq Mine
    /\ ends \in 0..MaxEnds
    /\ born \in 0..made
    /\ \A x \in Path : late[x] \subseteq 1..born

\* Of the QEMUs this server spawned at most one runs, and it, its Viewer and its
\* serial bridge are the Instance's, or of the call that holds the lock.
NoOrphan ==
    \A p \in Mine :
        p \in alive \/ p \in viewers \/ line[p] # None
            => handle = p \/ \E t \in Task : Holds(t) /\ task[t].proc = p

\* There is never more than one.
OneInstance == \A p, q \in alive \cap Mine : p = q

\* A session and a bridge talk to the QEMU they were opened for: not to anybody else's,
\* and not to one that a killed server left running.  The one exception is a QEMU whose
\* server was killed before it had bound that socket: while nothing is at the path the
\* next server launches its own, and its dial may be accepted by the other.
OwnSession ==
    \A p \in Proc :
        /\ peer[p] \in {None, p} \cup late["qmp"]
        /\ line[p] \in {None, p} \cup late["serial"]

\* Without the exception.  It does not hold of the code.
NeverAdopts == \A p \in Proc : peer[p] \in {None, p} /\ line[p] \in {None, p}

\* The Instance is the server's, whole and alone: nothing orphaned, nothing
\* doubled, and every connection to the QEMU it was opened for unless a QEMU of a
\* killed server has bound its socket late.
InstanceIsOurs == NoOrphan /\ OneInstance /\ OwnSession

\* Whoever gets the lock finds no state half done: the handle is present exactly
\* in RUNNING and PAUSED, the current generation is watched, and what is gone
\* has left no QMP socket behind that would block the next create.
SettledWhenUnlocked ==
    lock = <<>> =>
        /\ state \in {"NONE", "RUNNING", "PAUSED"}
        /\ state = "NONE" <=> handle = None
        /\ handle # None => /\ watcher = handle /\ generation = handle
                            /\ task[handle].pc = "armed"
        /\ path["qmp"] \in Mine => path["qmp"] = handle

\* The fields are sound, under the lock and when it is let go.
Settled == TypeOK /\ SettledWhenUnlocked

\* The lifecycle the README draws.  Between the take of the handle and STOPPED
\* nobody but the holder of the lock can see the state.
Abstract == INSTANCE Lifecycle
    WITH newest <- made,
         state <- IF handle = None /\ state \in {"RUNNING", "PAUSED"} THEN "STOPPED"
                  ELSE state
ImplementsLifecycle == Abstract!Spec

\* A QEMU that goes away on its own is noticed, and the slot freed, unless the
\* server goes first: the QEMU, that is, to which the Instance's session talks.
GoneIsNoticed ==
    \A p \in Proc : handle = p /\ peer[p] \notin alive ~> handle # p /\ state = "NONE"

\* Every call gets the lock, and returns it.
EveryCallReturns ==
    \A t \in Call : task[t].pc = "queued" ~> task[t].pc \in {"idle", "over"}

\* Nobody is left waiting: the caller for its answer, the slot for its watcher.
NobodyWaits == GoneIsNoticed /\ EveryCallReturns
=============================================================================
