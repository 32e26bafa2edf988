# A verification of qmp-mcp

qmp-mcp is an MCP server through which an agent drives one QEMU virtual machine. There are two
implementations of it, `rust/` and `typescript/`, that are meant to behave the same. This directory
models both: TLA+ modules translated from the source, TLC configurations that check them on small
instances, and TLAPS proofs for every instance. Where the two differ only in the language, the Rust
source is the one that is modelled, and PROJECT.json says so component by component.

## 1. The system

### Components, their state and their operations

| component | state | operations | talks to |
|---|---|---|---|
| Orchestrator (`instance/orchestrator.{rs,ts}`) | the lifecycle state, the handle of the one Instance, its Viewer, serial bridge and recording; TypeScript also a launch token, Rust a generation number | create, destroy, pause, resume, reset, powerdown, status, events, serial, screendump, recording, QMP execute; reconciling an unexpected exit | everything below |
| QEMU driver (`qemu/{driver,real_driver}`) | the child process, its exit, the QMP socket file | launch (spawn, dial, negotiate), close (session, SIGTERM/SIGKILL, unlink) | QEMU, QMP client |
| QMP client (`qemu/qmp_client`) | pending requests by id, the greeting, the closed flag | execute with a timeout, dispatch of replies and events, failing every request when the session ends | QEMU, Event Buffer |
| Event Buffer (`instance/event_buffer`) | a bounded ring, a sequence counter, registered waits | append, read from a cursor, wait_for, reset | fed by the QMP client, read by agents |
| Serial Port (`serial-bridge.ts`, part of `orchestrator.rs`) | the socket, a bounded ring of output | attach, read, write, teardown | QEMU |
| Display recording (`recording.ts`, part of `orchestrator.rs`) | the single recording slot, the frame loop, the encoder | start, stop, frame, finalize | QEMU, ffmpeg |
| ISO downloads (`instance/download`) | the one active download, the last outcome, the `.part` files | start, run (mirrors in order, rename onto the final name), status | the network, the ISO Store |
| Stores and catalog (`store_path`, `image_store`, `iso_store`, `catalog`) | files under a root, the list of downloads | resolve a name, create, list, look up | the file system, qemu-img |
| Command Policy (`policy`) | allow and deny lists | decide | `qmp_execute` |
| Hardware Spec (`hardware_spec`) | none | validate, translate to an argv, resolve the accelerator | create |
| Viewer (`viewer`) | listener, permits, relays | start, answer, upgrade, relay, stop | browser, QEMU's VNC |
| HTTP transport (`http`) | keys, secret, origins | guard a request | the MCP service |
| Configuration, entry points, tools (`config`, `main.rs`, `index.ts`, `server.rs`, `tools/`) | configuration | start stage by stage, dispatch a call, shut down | the Orchestrator |

### How they interact, and where it is hard

*TypeScript.* Everything runs on one thread: the code between two awaits is not interrupted, but any
number of calls are between two awaits at the same time, over the same fields. A create is a chain of
up to ten awaits (socket checks, spawn, dial, `set_password`, the Viewer, the serial dial, `cont`), a
destroy of five. The exit callback runs when QEMU goes away, whatever else is half done.

*Rust.* Every tool call locks the one `Mutex<Orchestrator>` and holds it across its awaits, so calls
do not overlap. Beside them run tasks of their own: the event feeder, the exit watcher (which waits
for the lock, and may find another Instance when it gets it), the serial reader, the recording loop,
the reader of the QMP session, the download, the Viewer and its relays, and the waits of
`wait_for_event`, which leave the Orchestrator lock before they block. The runtime has several
threads: any of these may be preempted between two statements.

*Both.* Every QEMU binds its sockets at the same two paths, and the server unlinks those paths by
name: what a predecessor leaves, or removes late, meets its successor. QEMU may exit at any moment. A
reply may come after whoever waits for it stopped caring. Rings and channels overflow.

### What makes each component correct

- Orchestrator: never two QEMUs, never an orphan, a state that says the truth, a slot that always
  comes back, a session that talks to the QEMU it was opened for.
- Event Buffer: no event is delivered twice or silently lost between two calls, a wait that listens
  sleeps through nothing, no event crosses into the next Instance, every wait ends.
- QMP client: each reply reaches the request that has its id, a request is filed exactly while its
  call waits, every call ends, the end of the session is told.
- Downloads: a file under a final name is an image from one mirror, and whole, the report of a
  download is true of the Store, the slot comes back. (Nothing in the code verifies a digest.)
- Serial, recording: output is lost to an overflow only, or with a lost reply of QEMU's; no task
  outlives what owns it; every call ends, whatever QEMU and ffmpeg do.
- Viewer: permits balance, the gate is before everything, a relay of a QEMU that is gone ends.
- Policy, stores, spec, configuration, transport: pure decisions that compose; what reaches QEMU, the
  file system and the MCP service is within what the operator said, for every input.

## 2. The plan, and where it stands

1. Event Buffer family: the abstract promise, both implementations, the proofs, for TypeScript the
   refinement too. **Done.**
2. The TypeScript lifecycle, with the driver, the sockets and the shutdown under it, as a refinement
   of the lifecycle the repository's README draws, model-checked and proved. **Done.**
3. The Rust lifecycle: the lock, the exit watcher with its generation, the end of the server; the same
   refinement, model-checked and proved. **Done.**
4. ISO downloads, both implementations, with proofs. **Done.**
5. QMP client: ids, replies, timers, the end of a session, with proofs. **Done** for Rust.
6. Serial bridge, screendump and recording, beside the calls, with proofs. **Done** for Rust.
7. Viewer: gate, permits, relays, with proofs. **Done** for Rust.
8. Policy, stores, catalog, spec, configuration, transport and the start, composed into one server.
   **Done**, with proofs.

Every safety property that a passing run checks, and every refinement, is a theorem by now; what has
none is liveness. Left: the TypeScript recording and pending table as models of their own.

## 3. The modules

### Event Buffer: `EventBuffer`, `EventFeed`, `EventBufferTs`, `EventBufferRust`

`EventBuffer` holds what both implementations share: an event, a filter, pushing into a bounded ring,
reading from a cursor, the first hit of a replay. `EventFeed` is the abstract promise: a log that only
grows, and waits that may return the first matching event after where they listen from, or time out
having missed none.

`EventBufferTs` is the TypeScript buffer: `append`, `reset`, `WaitSince`/`WaitFuture` (one `waitFor`
with and without a cursor), `Expire` (its timer), with `Emit`, `CreateInstance` and `InstanceGone` for
what feeds and resets it, and a paging agent (`GetEvents`) that keeps its cursor across Instances. A
callback is one action.

`EventBufferRust` is the Rust buffer: here the feeder's `recv` and `append` are two actions, a
broadcast channel of `ChannelCapacity` lies between QMP client and feeder and can lag, `abort()` of
the feeder takes effect later, and the wait future is split at the mutex: its last poll of the
receiver, the sleep, and the removal of the waiter under the lock.

### Lifecycle: `Lifecycle`, `TsOrchestrator`, `RustOrchestrator`

`Lifecycle` is the state machine of the repository's README with the Instances numbered.
`TsOrchestrator` is what the TypeScript server does: one action per continuation of
`createInstance` (`CreateBegin`, `CheckPath`, `CreateRefused`, `Spawn`, `Launched`, `LaunchFails`,
`Armed`, `ArmFails`, `Attached`, `AttachFails`, `AttachFailed`, `ContDone`), of `destroyInstance`
(`DestroyBegin`, `DestroyBridge`, `DestroyViewer`, and its end in `closed`), of the handle's `close()`
(`CloseSession`, `CloseProcess`, `CloseFile`), the exit callback (`OnProcessExit`), pause and resume
(`CommandBegin`, `CommandAnswered`, `CommandReplied`, `CommandRejected`) and the shutdown handler
(`ShutdownBegin`). QEMU (`QemuBinds`, `QemuExits`) and the two paths in the file system are external.
A reply to `stop` or `cont` sets the state whatever became of its Instance (`CommandReplied`).
`TimelySpec` is the specification in which there is one when it does, the same or another
(`TimelyNext`): without that condition the lifecycle is not the README's (section 6).
The fields `#process`, `#viewer`, `#serialBridge`, `#spec` and `#accel` are assigned together, and are
one variable (`handle`).

`RustOrchestrator` is what the Rust server does under the same refinement. Tokio's mutex is fair, so
the lock is the sequence of those who wait for it, its head the holder: calls queue with `Request`,
exit watchers (`Watch`, `WatcherWakes`) with the generation they were started for, and a watcher
that is aborted leaves the queue (`Leaves`). `CreateBegin` to `CreateReturns` are the awaits of a
create, `DestroyBegin`, `Teardown`, `TeardownBridge`, `TeardownViewer` and `TeardownCloses` those of
the teardown that destroy, `Reconcile` and the end of the server share, `Told` and `Aborted` the two
ends of `terminate`. The server may exit in order (`ServerExits`), fail (`ServerFails`) or be killed
(`ServerKilled`) and start again (`Anew`) over what it left: a QEMU that still runs, its sockets. A
QEMU binds each socket of its argv some time after it was spawned, whatever has become of its server
meanwhile (`QemuBinds`, with `argv` and `bound`). So one whose server was killed in between binds
after the next server has looked at the path, and that server's dial may be accepted by it; the
history variable `late` remembers for each path who was still to bind it, and `OwnSession` excepts
them. In the refinement mapping the Instance counts as STOPPED from the moment the handle is taken,
one assignment before `state` says so. Generations turn out to be a second line of defence: a
watcher that finds another Instance was aborted before, under the lock.

### Downloads: `Download`

`Download` is both downloaders; `impl` says which one runs, and the four places where they differ
name it: the timer around the request, freeing the slot in the turn that reports the end, an unheard
error of the write stream (a cause of `Die`), and the end of that stream. The TypeScript task takes
the callback of `end()` for success, and Node calls it with an error too, which the callback
ignores: a write that was still buffered and failed leaves a part of the image that is then renamed
(`EndsUnwritten`, remembered in `cut`). Rust awaits its flush, so the disk fails in `FetchFails`.
`Check`, `Refused` and `Claim` are `start`, with the wait between looking for the target and
claiming the slot; `Sweep`, `TryMirror`, `NextMirror`, `Rename`, `RenameFails`, `GiveUp`, `Complete`
and `Finish` are `run_download`; `Answers`, `Receive`, `BodyEnds`, `FetchFails` and `Stalls` the
fetcher. A call names its own task, so there is no counter to bound. A file is the sequence of its
chunks, each tagged with its call and mirror, which tells a whole image (`Image`) from a partial
(`Piece`) or a mixed one; `Fetched` is what a download that ended well leaves. Removals of files may
fail, because their errors are ignored. The transport is taken to report a body that breaks off.

### QMP client: `QmpClient`

A caller of `execute` takes its id and files its request (`Enter`, `File`), waits for the write half
(`lock`, in order) and writes (`Write`, `WriteFails`), then waits for its oneshot or its timer
(`Receive`, `TimeOut`), and may be aborted anywhere on the way (`Abort`, the recording loop's calls).
`Negotiate` and `NotGreeted` are the start of a session, `Dispatch` what the reader task does with a
line, `ReaderEnds`, `ReaderFails` and `ReaderOver` its end. `close()` is four steps (`CloseShuts`,
`CloseMarks`, `CloseFails`, `CloseAborts`), because other threads come between them. A request that is
filed after the table was failed is in the model, and so is what saves its call: the timer.

### Beside the calls: `InstanceTasks`

Serial output is numbered. With the `socket` backend it goes from the Guest through the socket and
the reader task into the server's ring (`ReaderTakes`, `ReadSerial`), and input is counted
(`WriteBegin`, `WriteByte`, `WriteEnds`). With `ringbuf` the ring is QEMU's own: `ReadRingbuf` and
`WriteRingbuf` put a command into QEMU's queue, `QemuPerforms` performs the oldest, for a caller who
still waits or for nobody, and `RingbufAnswers` and `RingbufFails` are the two ends of the call.
Both commands act on the same ring, so that what a caller has written is there for the next reader;
and a read whose reply is late or lost has drained all the same (`drained`, `heard` and `lost` tell
the three apart). `Create`, `Attach`, `Cont` order the bridge before the Guest's first instruction.
`StartBegin`, `StartSpawns`, `StartSeesExit`, `StartEnds` are `start_recording` with the window in
which ffmpeg may exit early; `LoopAsks`, `LoopCaptured`, `LoopCaptureFails` and `LoopFeeds` the
frame loop; `FinalizeAborts`, `FinalizeEncoder`, `FinalizeCleans` the finalization that stop and
teardown share. A screendump that nobody waits for any more is still performed (`QemuDumpsLate`).
One call holds the lock at a time; who queues for it is `RustOrchestrator`'s subject. The names of
the specification itself say whose it is (`TasksInit`, `TasksSpec`), so that its proofs can stand
beside the Viewer's.

### Viewer: `Viewer`

`Answer` is what a request gets, layer by layer: `BasicCredentials`, `IsAuthenticated`,
`OriginAllowed`, `Routed`, the free permit. A permit that an upgrade took comes back in `DialFails`,
`Over` and `Leaves`. `Stop` ends the accepting task and nothing else, as the code does: connections
and relays of a Viewer live on, and dial whatever listens at the VNC port. `Stalls` is a browser that
has stopped reading.

### The server: `CommandPolicy`, `Stores`, `HardwareSpec`, `Config`, `Http`, `Server`

Pure operators, composed by `Server`: a world is what a start finds (environment, files, host,
stores) and what its clients then ask. `LoadConfig` takes every variable through its own parser
(`Config`), main's stages may each refuse the start, and a served call goes through `DecideCommand`,
`ParseHardwareSpec` and `BuildArgv`, `BuildRouter`, or the stores. A token is admitted until
`Leeway`, the 60 seconds of the JWT library's default, after it has expired (`JwtOk`). Raw values,
names, credentials and specs are records of what the code tells apart in them, not text; results
that can be refused are sets of at most one value. `create_image` takes no lock, so its calls
interleave between the check of the name and the child's write.

## 4. The runs

| run | shows |
|---|---|
| `ts_events`, `rust_events` | each buffer keeps its promise: ring, waits, paging agent, Instances; every wait ends; the TypeScript one implements `EventFeed` |
| `ts_lifecycle` | calls (create, destroy, pause and resume), exits and a shutdown that overlap at every await, as long as each reply to `stop` or `cont` finds an Instance: one Instance, no orphan, own sessions, the README's lifecycle, a slot that comes back, a shutdown that takes the Instance it finds |
| `ts_replies` | the same safety with late replies to `stop` and `cont`, as long as no destroy is among them |
| `ts_wedge` (violation) | a late reply leaves RUNNING or PAUSED with no Instance, for ever |
| `rust_lifecycle` | calls and exit watchers at the one lock, exits, kills and restarts of the server, QEMUs that bind late: one Instance, no orphan, own sessions but for a QEMU that a killed server left unbound, settled fields, the README's lifecycle, every exit noticed, every call answered |
| `download` | one task, files of one mirror and true reports, whole unless a TypeScript write under `end()` failed, progress of the mirror at hand, a slot that comes back, for both implementations |
| `qmp_client` | callers, an aborted task, timeouts, a close and a QEMU that answers late or goes: the table is right, replies are right, every call ends, the end is told |
| `instance_tasks` | serial over either backend and recording, against create, destroy and exit: output lost only to an overflow or with the reply of a `ringbuf-read`, no input among the output of the socket, nothing outlives its owner, every call and every recording ends |
| `viewer` | two clients, one permit, two Viewers: permits balance, only the admitted, relays end |
| `server` | from the environment to the effect: no denied command, no uninvited caller, nothing beyond the operator's limits, nothing out of the stores |
| `image_clobber` (violation) | two `create_image` calls of one name both find no file, and the second makes the image of the first anew |

*Bounds.* Event Buffers: a ring of 2 with 3 events (Rust: 2 events and a channel of 1) makes an
eviction, a gap and a lag happen; two event names tell a filter from its absence; two Instances make
a stale event, wait or cursor possible. Calls are repeated as often as the bounds on events allow.
Lifecycle: in TypeScript two creates are what it takes for one to find the other's slot; `MaxProc`
bounds the QEMU processes of a behaviour: one leaving and one coming (2), or one leaving and two
coming (3) where two QEMUs can meet. `ts_lifecycle` gives every Instance a bridge and a Viewer, and
`ts_replies`, which checks no liveness, both those and none. In Rust the lock keeps calls apart, so
that one call of each kind is enough to queue behind each other and behind an exit watcher;
`MaxEnds` lets the server end once, so that a second one meets what the first left, and there are
two paths, of which a QEMU may have bound one; every Instance has a bridge and a Viewer (one without
takes the same steps but theirs). Downloads: two calls over two entries, one of them with two
mirrors; images of two chunks, so that there is an empty and a partial file; lengths that are
absent, right and too small; `MaxKills` lets the server die once. QMP client: two callers with two
calls each make an id of a call that is over, and a caller behind the write lock. Instance tasks: a
ring and a pipe of 2 and 5 bytes overflow the ring while a reader is behind; two commands in QEMU's
queue (`MaxQueue`) are one that nobody waits for and one that is waited for. Viewer: one permit for
two clients, two Viewers for a relay of the one that is over. Server: the HTTP worlds are the full
product of what decides an admission; the others change one variable (or the few that go together)
of a base world, and every parser sees every value it tells apart. The proofs lift the bounds of
everything they are about.

*Deadlock* is not checked where all calls may have been made and the system rests.

*Fairness.* Waits have timers, so `Expire` (TypeScript) and the settling of a wait future (Rust) are
weakly fair, as is the feeder task. In `TsOrchestrator` every await of a create, a destroy and a
close ends, because the dials have deadlines, QMP commands a timeout and a QEMU that ignores SIGTERM
is killed; the exit callback runs. (`TimelySpec` is that fairness with the steps restricted as
section 3 says; the restriction takes no fair step away, since no reply to `stop` or `cont` is asked
to come.) No fairness is given to agents, to the Guest, or to QEMU's sockets. In `RustOrchestrator`
the same awaits end, and the lock is handed on in order. In `Download` the server's own steps and
the stall timer are fair, a mirror's steps are not: a mirror may fall silent at any point, and
`SlotComesBackOnceAnswered` assumes an answer only where the Rust client has no timer. In
`QmpClient` and `InstanceTasks` the runtime runs every task that can go on and fires every timer,
and nothing is asked of QEMU, the Guest or ffmpeg; in `InstanceTasks` the watcher of a QEMU that is
gone gets the lock in the end (strong fairness, since calls take it in turn: the mutex is a queue).
In `Viewer` the server's side of each connection is fair; clients are not.

## 5. The proofs

None of the properties below is inductive alone; each module of proofs states its invariant first.

Both proof modules of the Event Buffer rest on the same lemmas about rings: the ring is the window of
the newest events of the log (`IsWindow`), so that an index of the ring and a sequence number can be
exchanged; a push slides it (`PushSlidesWindow`), a page adds up (`PageAccounts`), a replay finds the
first match (`ReplayFindsNext`, by `LeastExists`: a nonempty set of naturals has a least element, from
the well-foundedness of strict inclusion on finite sets).

`EventBufferTsProofs` proves `RingIsSound`, `WaitsStayHonest`, `PagingAccountsForAll`,
`EventsNeverBleed`, and `BufferImplementsFeed`: every step of the buffer is a step of `EventFeed` or
shows nothing of it. Its invariant says of each wait, in each of its states, what it has passed over;
`append` preserves it because a registered wait has slept through nothing (what the log said, a later
event does not change). The assumptions are on the constants: `Capacity` is a positive natural and
`AnyName` is no event name.

`EventBufferRustProofs` proves `BufferIsSound`, `FirstMatchIsSent` and `PagesAddUp` of the Rust
buffer. The invariant has three parts that are kept apart: the plumbing between QEMU and the buffer
(channels, the feeders' hands), what is under the mutex with the futures that look at it (each wait in
each of its states: what it has passed over, and what was sent to it), and the paging agent.

`DownloadProofs` proves, for every catalog, every number of calls, chunks and deaths of the server
and both implementations, `StatusIsSound`, `SlotIsExclusive`, `FinalFilesAreWhole` and
`ReportsAreTrue`. The invariant adds two things to the four properties. `Content` says what a task
knows of its `.part` file in each phase: while it streams, exactly the chunks counted, all from the
mirror at hand; when it renames, the whole image, or a first part of it if the task is in `cut`.
That a file already there is truncated, and that no other task runs (`OneDownload`), is what keeps
it. `Truth` says what the Store holds for a call in each phase: nothing before its rename, its image
after. The assumption is `DownloadAssumption`: every entry has a file name and at least one mirror,
which `parseCatalog` checks, and an image has at least one chunk.

`QmpClientProofs` proves `PendingIsSound` and `RepliesAreRight`. A reply is right because ids of calls
that go on differ (`IdsDiffer`), come from a counter that is ahead of all of them (`IdsTaken`), and
because whatever is on the wire or in the inbox is addressed to the call that goes on under its id
(`WireAddressed`, `InboxAddressed`); a late reply then finds no call. The table needs that nobody has
heard anything for a request that is not filed yet (`Unheard`).

`InstanceProofs` is about what stands beside a running Instance. Of the Viewer it proves
`PermitsAreSound` and `GateIsClosed`. Permits are counted: the cardinality of the set of clients
that hold one, step by step, for any finite set of clients. Of the tasks beside the calls it proves
`SerialStaysSound` and `NothingIsLeftBehind`, for any sizes of the ring and the pipe, any number of
bytes and any queue of ringbuf commands. `SerialHolds` needs that no byte is taken by nobody: the
port is on whenever the Guest runs (`Attached`), and QEMU's own ring takes what is said at once. A
ring is a run (`Run`, `Output`): the Guest's output from one position to another, in order and
without a gap, with what callers wrote in between. A push appends to the run and cuts it at the
front, a read takes its front. That nothing drained is unheard without being marked as lost
(`HeardNext`) needs to know which command the caller who waits has asked for: the last of the queue
(`AskedIsLast`). `NothingOutlives` needs more than it says: the loop's screendump and its frame file
have owners too, the slot is held only while QEMU is up, or gone and not yet torn down (`Owned`),
and where a call stands says what it found (`Calls`).

`TsOrchestratorProofs` proves `InstanceStaysOurs`, `FieldsStaySound` and `TsLifecycleIsImplemented`,
for any number of calls that overlap at their awaits, and of QEMU processes. There is no lock here.
What keeps the calls apart is that the slot has one owner (`Slot`): the create with the launch
token, the Instance, or the destroy in progress. For each step the owner may be at, `Phase` says
what its QEMU, its links and the two socket paths are like, and that what is not the owner's is
being closed already; `Host` says what the file system and a close() on its way may still do. The
theorems have hypotheses, because without them they are false (section 6): a reply to `stop` or
`cont` that comes after its Instance was taken overwrites the state, and with it the guard of the
next create. `InstanceStaysOurs` asks only that no such reply sets the state during a destroy
(`NoLateReply`, a condition on steps). `FieldsStaySound` and the refinement ask for more, that a
reply finds an Instance (`TimelySpec`, which `ts_lifecycle` checks too), because one after an exit
makes the state say RUNNING with no Instance. Then the state, token and handle agree both ways
(`Agree`), and the other condition holds (`FoundIsNotLate`), because a destroy has taken the handle. Pause and resume are then steps of `Lifecycle` in the order
in which their replies are handled, also a reply that finds the next Instance. The assumptions:
`CreateAssumption` (0 stands for nobody, and is no create call), `ShutdownAssumption` (a shutdown is
a destroy), and the types of the constants.

`RustOrchestratorProofs` proves `OursAlone`, `LockLeavesSettled` and `LifecycleIsImplemented`: what
`rust_lifecycle` checks, for any number of calls, processes and ends of the server. The invariant is
about the queue (`Queue`: who waits or is at a step stands in it once, who is at a step stands
first), the exit watchers (`Watchers`: that of the Instance exists, that of a QEMU that was never
published does not), and, for the one task that holds the lock, what the fields say at its step
(`Phase`) and that whatever runs, listens or has bound the QMP path is the Instance's or its own
(`Owned`); of the others, that they bind only what they were told to, and only what they had yet to
bind when their server was killed (`Sockets`), from which `OwnSession` has its exception. When the
lock is free the same holds of a task at no step, and that is `Settled`. The proof goes by what a
step does to the queue: the holder moves on (`HolderMoves`), the holder returns and the lock goes to
whoever is next (`HolderReturns`), a task arrives (`TaskArrives`), only the host moves
(`HostMoves`); publishing and a destroy touch two tasks, and are apart (`PublishMoves`,
`DestroyTears`). For the refinement each action is shown to be one of `Lifecycle`'s or to leave what
is shown alone; that a published Instance is the newest launched is `Phase`. The assumptions:
process numbers are no calls, and the constants have their types.

`ServerProofs` proves the four properties that `server` checks, for every set of worlds - any
environment, files, host, links in the stores, requests and specifications - and any number of
`create_image` calls: `DeniedIsNeverSent`, `OnlyCallersOfTheOperator`, `LaunchesStayWithin` and
`NothingEverReachesOut` (a name's file is right below the root of its store, and nothing that QEMU
parses as options splits; raw arguments, which an operator has to allow, are the caller's own); and
of the policy alone, that no override lifts the hard denylist (`HardDenialIsFinal`) and that a deny
beats every allow (`DenyBeatsAllow`). The properties are about the environment, the code is about
the Config it loaded. So the invariant has `Started` (the Config is one that this environment loads
to, the policy is the one of its lists, and nothing happens before they are there), and a part for
each effect in terms of the Config: `SentIsAllowed`, `ServedIsAdmitted`, `Launched`, `FilesSound`,
`FetchSound`, `ListedSound`. That these imply the properties is what the lemmas about the pure
functions are for: what each parser yields (`LoadedConfig` and those after it, `BooleanSaid`,
`NumberSaid`, `EnumSaid`); that a name which resolves is plain and in its store
(`ResolvedIsInStore`); that an escaped word does not split (`EscapedDoesNotSplit`,
`TokenDoesNotSplit`); and, argument by argument, that all of the argument vector is of the shapes
that this specification and these options allow (`Fits`; `BoardFits`, `DriveFits` to `NetworkFits`,
`ArgvFits`). The vector is a flattening, which the community module defines by recursion over the
parts; that its elements are those of the parts (`FlattenedElements`) is argued from the least index
where it would fail, instead of by induction. `WorldsAssumption` says what a decoder has done before
the code sees its input: a header is there once at most, a list is a list, a creation is a name and
a number.

Proving these corrected the model: the default origins are those of the port the operator chose; the
default range of host ports ends at 65535; a plain name begins with a letter or a digit, since a
leading dot or dash is refused; the comma in an operator's directory (`/a,b`) is one of its
characters, and has to be escaped.

*Only model-checked.* Liveness (it needs fairness and ENABLED, which the prover does not reach):
every `...Ends`, `...ComesBack`, `ShutdownTakesInstance`, `NobodyWaits`, `EndIsTold`,
`GoneEndsRecording`. Beyond the hypotheses above, what late replies do in TypeScript: `ts_wedge`,
and of those that find no Instance, `ts_replies`.

## 6. Where code and comment disagree

Two runs expect a violation. The others below were found the same way; to reproduce one, give the
module's MC module (or the module itself) these constants, the others as in the module's own run, and
check the property: as an INVARIANT, or as a PROPERTY where the table says (P).

| what is said | property, constants | what happens |
|---|---|---|
| a destroy that raced a create leaves one machine (`orchestrator.ts:751-753`) | `OneInstance` of `TsOrchestrator`: Create {c1, c2}, Destroy {d1}, Shutdown {}, Command {k1}, AutoStart TRUE, Specs <- Headless, MaxProc 3 | a late reply during a destroy frees the guard, and two QEMUs run |
| nothing is left orphaned at a shutdown (`README.md:34-36`, `index.ts:147-150`) | `ShutdownLeavesNothing` (P): Create {c1}, Destroy = Shutdown = {s1}, Command {}, Specs <- Headless, MaxProc 1, FairSpec | a signal during STARTING is spent before there is anything to destroy |
| nothing is missed between calls (`server.rs:562-564`) | `TimeoutMissesNothing` of `EventBufferRust`: Capacity 2, ChannelCapacity 1, Call {w1}, MaxEvents 2, MaxInst 1 | a timed-out wait may return a cursor past an event it should have matched |
| downloads are append-only (`download.rs:13-14`) | `NeverOverwritten` of `Download` (P): MaxKills 0 | a call that looked before an earlier download ended renames over its file |
| a partial download never appears as a usable ISO (`download.rs:11-12`) | `NeverPartial` of `Download`: Impl {"ts"} | an error of the last write reaches only the callback of `end()` (`download.ts:132-135`), which takes it for the end: a partial file gets the final name and is reported as completed |
| a stalled connection cannot wedge the slot (`download.rs:41-42`) | `SlotComesBack` of `Download` (P): FairSpec, Call {c1}, MaxKills 0 | a mirror that never answers the Rust client's request keeps the slot |
| the server never adopts a socket it did not create (`real_driver.rs:64`) | `NeverAdopts` of `RustOrchestrator` | a server is killed after it has spawned a QEMU; the next one finds no socket, spawns its own, and its dial is accepted by the first QEMU, which has bound meanwhile |
| a read returns the Guest's serial output, a write types into its console (`orchestrator.rs:1156`, `:1226`; `:1250-1251` concedes it) | `OnlyTheGuestSpeaks` of `InstanceTasks` | with `ringbuf` a write goes into the ring that a read drains |
| stop drops all websocket clients (`viewer.rs:160`, `779-782`) | `StopDropsClients` of `Viewer`: Client {c1}, Cap 2, MaxViewers 1 | relays of a stopped Viewer live on |
| no frame stays behind (`orchestrator.rs:1369`) | `NoFrameLingers` of `InstanceTasks`: MaxOut 1 | a screendump whose waiter was aborted is performed afterwards |

Narrower remarks. `NoBleed` does not hold of the Rust buffer, where a feeder would have to be
preempted inside `append` for as long as the next create takes. `EveryCallEnds` of `QmpClient` needs
a socket with room for the requests that are under way: the write has no timeout
(`qmp_client.rs:344`). The single boards ignore the caps on memory and processors, because they
ignore the spec's values (`hardware_spec.rs:1394`). A TMPDIR with a comma would split the `-qmp`
option (`hardware_spec.rs:1498-1502`) and is left out of the worlds. A token is served up to 60
seconds after its expiry, the JWT library's default (`http.rs:106`), where the comment says that its
expiry is validated (`http.rs:92-93`); `OnlyTheOperatorsCallers` says so. A recording whose ffmpeg
exits early removes an earlier file of the same name (`orchestrator.rs:1552`). A `ringbuf-read`
whose reply is lost has drained the output (`orchestrator.rs:1171`; `lost` in the model). A server
that closes its own Instance unlinks the paths by name, also when a late QEMU of a killed server has
bound them since. The TypeScript write stream has an error listener only while the loop waits
(`download.ts:121`). A listing names `.part` files (`store_path.rs:224`) and names the charset
refuses. A disk's interface is not held against the board's buses (`hardware_spec.rs:1466`).

## 7. Not modelled

Text: argv formatting, logging, error messages, JSON schemas. The bytes of a relay. `reset`,
`powerdown` and `send_key`, each one QMP command that changes no state of the server. The TypeScript
recording, serial reads and pending table, of which the Rust ones are a port. The fake driver (a test
double) and noVNC (vendored). A TypeScript server that is killed and started again: `TsOrchestrator`
begins with the files another may have left, but not with a QEMU that still has to bind, which would
meet it as it meets the Rust server. What QEMU, qemu-img and ffmpeg write.
