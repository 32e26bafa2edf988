---------------------------- MODULE InstanceTasks ----------------------------
(***************************************************************************)
(* What the Rust Orchestrator runs beside the calls: the reader of the      *)
(* serial socket, the frame loop of a display recording and its ffmpeg      *)
(* child.  One call at a time holds the Orchestrator's lock (`op`); the     *)
(* tasks, the Guest, QEMU and ffmpeg go on while it does.  Who queues for    *)
(* the lock, and how a launch fails, is RustOrchestrator's subject.         *)
(*                                                                          *)
(* Serial output is numbered, input into the socket counted.  A screendump, *)
(* a ringbuf-read and a ringbuf-write are asked of QEMU and performed       *)
(* later, also when nobody waits for them any more.                         *)
(*                                                                          *)
(* The specification's own names say whose it is (TasksInit, TasksNext), so *)
(* that it can stand in one module with the Viewer's.                       *)
(***************************************************************************)
EXTENDS Naturals, Sequences

Backends == {"ringbuf", "socket"} \* a spool is a file QEMU writes: no state here

\* What an operator may set: backend, write gate, ffmpeg, dir, encoder.
Host == [backend : Backends, write : BOOLEAN, ffmpeg : BOOLEAN, dir : BOOLEAN, encoder : BOOLEAN]

CONSTANTS
    Hosts,    \* the settings looked at
    RingSize, \* serial_buffer_bytes
    Pipe,     \* bytes the serial socket holds, each way
    MaxOut,   \* bound: bytes a Guest says
    MaxQueue  \* bound: ringbuf commands that QEMU has not performed yet

ASSUME HostsAssumption == Hosts \subseteq Host
ASSUME SizesAssumption == {RingSize, Pipe, MaxOut, MaxQueue} \subseteq Nat \ {0}

VARIABLES
    host,    \* operator's settings
    up,      \* handle and qemu: "none", "launched", "up", "gone", "closing"
    spec,    \* of the Instance: serial port, display device
    op,      \* the call that holds the lock
    serial,  \* what the Guest said, what left the pipe, the ring, what left the ring,
             \* what a caller got of it, and the ringbuf commands QEMU has yet to perform
    input,   \* bytes in the serial socket on their way to the Guest
    slot,    \* Orchestrator.recording is Some
    loop,    \* the frame-loop task
    enc,     \* the ffmpeg child: "none", "runs", "exited"
    eof,     \* its stdin is closed
    dump,    \* the loop's screendump: "none", "asked", "done"
    frame,   \* the loop's frame file exists
    late,    \* QEMU still has a screendump nobody waits for
    litter   \* it has performed one

recording == <<slot, loop, enc, eof, dump, frame, late, litter>>
taskVars == <<host, up, spec, op, serial, input, recording>>

Free == [kind |-> "none", pc |-> "none", n |-> 0]
Op(kind, pc, n) == [kind |-> kind, pc |-> pc, n |-> n]
Is(kind, pc) == op.kind = kind /\ op.pc = pc
Fresh == [out |-> 0, taken |-> 0, ring |-> <<>>, drained |-> 0, heard |-> 0, lost |-> FALSE,
          queue |-> <<>>, on |-> FALSE]

\* A byte in the ring: the nth the Guest said, or one a caller wrote after it.
Said(n) == [n |-> n, by |-> "guest"]
Typed(n) == [n |-> n, by |-> "caller"]

TasksInit ==
    /\ host \in Hosts
    /\ up = "none" /\ spec = [serial |-> FALSE, display |-> FALSE]
    /\ op = Free /\ serial = Fresh /\ input = 0
    /\ slot = FALSE /\ loop = "none" /\ enc = "none" /\ eof = FALSE
    /\ dump = "none" /\ frame = FALSE /\ late = FALSE /\ litter = FALSE

-----------------------------------------------------------------------------
\* create_instance: QEMU is launched with the Guest frozen, the port attached,
\* then the Guest goes.

Create ==
    /\ op = Free /\ up = "none"
    /\ \E s, d \in BOOLEAN :
          /\ spec' = [serial |-> s, display |-> d]
          /\ op' = Op("create", IF s THEN "attach" ELSE "cont", 0)
    /\ up' = "launched" /\ serial' = Fresh /\ input' = 0
    /\ UNCHANGED <<host, recording>>

\* The bridge's ring starts empty; so does QEMU's own.
Attach ==
    /\ Is("create", "attach")
    /\ serial' = [serial EXCEPT !.on = TRUE]
    /\ op' = Op("create", "cont", 0)
    /\ UNCHANGED <<host, up, spec, input, recording>>

\* Mutation of Cont: the Guest goes before the port is attached.
ContFirst ==
    /\ op.kind = "create" /\ up = "launched"
    /\ up' = "up"
    /\ op' = IF op.pc = "attach" THEN op ELSE Free
    /\ UNCHANGED <<host, spec, serial, input, recording>>

Cont ==
    /\ Is("create", "cont")
    /\ up' = IF up = "launched" THEN "up" ELSE up
    /\ op' = Free
    /\ UNCHANGED <<host, spec, serial, input, recording>>

-----------------------------------------------------------------------------
\* The Serial Port.

\* ring_push_bounded: the oldest bytes go.
Pushed(ring, bytes) ==
    LET all == ring \o bytes
        overflow == IF Len(all) > RingSize THEN Len(all) - RingSize ELSE 0
    IN SubSeq(all, overflow + 1, Len(all))

\* The Guest says a byte.  QEMU's ringbuf takes it at once; a socket nobody
\* has connected to loses it.
GuestSays ==
    /\ up = "up" /\ spec.serial
    /\ serial.out < MaxOut
    /\ serial.out - serial.taken < Pipe
    /\ LET b == serial.out + 1 IN
       serial' = IF host.backend = "ringbuf"
                 THEN [serial EXCEPT !.out = b, !.taken = b, !.ring = Pushed(@, <<Said(b)>>)]
                 ELSE IF serial.on THEN [serial EXCEPT !.out = b]
                 ELSE [serial EXCEPT !.out = b, !.taken = b]
    /\ UNCHANGED <<host, up, spec, op, input, recording>>

\* run_serial_reader: a chunk goes from the socket into the ring, whatever
\* call holds the lock.
ReaderTakes ==
    /\ host.backend = "socket" /\ serial.on
    /\ \E n \in 1..(serial.out - serial.taken) :
          serial' = [serial EXCEPT !.taken = @ + n,
                         !.ring = Pushed(@, [i \in 1..n |-> Said(serial.taken + i)])]
    /\ UNCHANGED <<host, up, spec, op, input, recording>>

\* Up to `size` bytes leave the ring, from the oldest.
Drained(size) ==
    LET n == IF size < Len(serial.ring) THEN size ELSE Len(serial.ring)
    IN [serial EXCEPT !.ring = SubSeq(@, n + 1, Len(@)),
                      !.drained = IF n = 0 THEN @ ELSE serial.ring[n].n]

\* read_serial of the socket's ring, which is the server's own.
ReadSerial ==
    /\ op = Free /\ up \in {"up", "gone"} /\ serial.on
    /\ host.backend = "socket"
    /\ \E size \in 1..RingSize :
          serial' = [Drained(size) EXCEPT !.heard = Drained(size).drained]
    /\ UNCHANGED <<host, up, spec, op, input, recording>>

\* read_serial and write_serial of QEMU's ring: the command goes to QEMU, which
\* performs its commands in order.  (Of a QEMU that is gone nothing comes.)
AskRingbuf(kind) ==
    /\ op = Free /\ up = "up" /\ serial.on
    /\ host.backend = "ringbuf"
    /\ Len(serial.queue) < MaxQueue
    /\ \E size \in 1..RingSize :
          serial' = [serial EXCEPT !.queue = Append(@, [kind |-> kind, size |-> size])]
    /\ op' = Op(kind, "asked", 0)
    /\ UNCHANGED <<host, up, spec, input, recording>>

ReadRingbuf == AskRingbuf("read")
WriteRingbuf == host.write /\ AskRingbuf("write")

\* QEMU performs the oldest command, for the call that holds the lock if it is the
\* only one, for nobody otherwise.  A read drains the ring.  A write goes into the
\* same ring, and never to the Guest.
QemuPerforms ==
    /\ up = "up" /\ serial.queue # <<>>
    /\ LET command == Head(serial.queue)
           rest == Tail(serial.queue)
           waits == rest = <<>> /\ op.kind \in {"read", "write"} /\ op.pc = "asked"
       IN /\ serial' =
               IF command.kind = "read"
               THEN [Drained(command.size) EXCEPT !.queue = rest, !.lost = @ \/ ~waits]
               ELSE [serial EXCEPT !.queue = rest,
                       !.ring = Pushed(@, [i \in 1..command.size |-> Typed(serial.taken)])]
          /\ op' = IF waits THEN [op EXCEPT !.pc = "done"] ELSE op
    /\ UNCHANGED <<host, up, spec, input, recording>>

\* The reply is there: a read hands out what was drained.
RingbufAnswers ==
    /\ op.kind \in {"read", "write"} /\ op.pc = "done"
    /\ op' = Free
    /\ serial' = IF op.kind = "read"
                 THEN [serial EXCEPT !.heard = serial.drained, !.lost = FALSE] ELSE serial
    /\ UNCHANGED <<host, up, spec, input, recording>>

\* No reply: the time is up or the session is over, before or after QEMU has
\* performed the command.
RingbufFails ==
    /\ op.kind \in {"read", "write"} /\ op.pc \in {"asked", "done"}
    /\ op' = Free
    /\ serial' = [serial EXCEPT !.lost = @ \/ Is("read", "done")]
    /\ UNCHANGED <<host, up, spec, input, recording>>

\* write_serial into the socket, refused for a closed gate, bad base64 or no bridge.
WriteBegin ==
    /\ op = Free /\ up \in {"up", "gone"} /\ serial.on
    /\ host.write /\ host.backend = "socket"
    /\ op' = Op("write", "writing", Pipe + 1)
    /\ UNCHANGED <<host, up, spec, serial, input, recording>>

\* A byte goes into the socket when it has room.
WriteByte ==
    /\ Is("write", "writing") /\ up = "up"
    /\ input < Pipe
    /\ input' = input + 1
    /\ op' = IF op.n = 1 THEN Free ELSE [op EXCEPT !.n = @ - 1]
    /\ UNCHANGED <<host, up, spec, serial, recording>>

\* Mutation of WriteEnds: the write has no time limit.
WriteEndsOnError ==
    /\ Is("write", "writing") /\ up = "gone"
    /\ op' = Free
    /\ UNCHANGED <<host, up, spec, serial, input, recording>>

\* An error, or the time limit: part of the input may have been typed.
WriteEnds ==
    /\ Is("write", "writing")
    /\ op' = Free
    /\ UNCHANGED <<host, up, spec, serial, input, recording>>

GuestReads ==
    /\ up = "up" /\ input > 0
    /\ input' = input - 1
    /\ UNCHANGED <<host, up, spec, op, serial, recording>>

-----------------------------------------------------------------------------
\* screendump, the tool: one file of its own, removed when the call ends.

DumpBegin ==
    /\ op = Free /\ up \in {"up", "gone"}
    /\ op' = Op("dump", "asked", 0)
    /\ UNCHANGED <<host, up, spec, serial, input, recording>>

QemuDumps ==
    /\ Is("dump", "asked") /\ up = "up"
    /\ op' = Op("dump", "done", 0)
    /\ UNCHANGED <<host, up, spec, serial, input, recording>>

DumpEnds ==
    /\ op.kind = "dump"
    /\ op' = Free
    /\ late' = (late \/ (op.pc = "asked" /\ up = "up"))
    /\ UNCHANGED <<host, up, spec, serial, input, slot, loop, enc, eof, dump, frame, litter>>

\* QEMU performs one its caller has given up.
QemuDumpsLate ==
    /\ late /\ up = "up"
    /\ late' = FALSE /\ litter' = TRUE
    /\ UNCHANGED <<host, up, spec, op, serial, input, slot, loop, enc, eof, dump, frame>>

-----------------------------------------------------------------------------
\* start_recording.

RecordingCapability == host.ffmpeg /\ host.dir /\ host.encoder

\* Checked in this order, for the message: an Instance, a display, the
\* capability, no recording yet, the name; then the directories are made.
StartBegin ==
    /\ op = Free /\ up \in {"up", "gone"}
    /\ spec.display /\ RecordingCapability /\ ~slot
    /\ op' = Op("start", "spawn", 0)
    /\ UNCHANGED <<host, up, spec, serial, input, recording>>

\* ffmpeg is spawned, or a directory or the spawn fails.
StartSpawns ==
    /\ Is("start", "spawn")
    /\ \/ enc' = "runs" /\ eof' = FALSE /\ op' = Op("start", "window", 0)
       \/ op' = Free /\ UNCHANGED <<enc, eof>>
    /\ UNCHANGED <<host, up, spec, serial, input, slot, loop, dump, frame, late, litter>>

\* It is seen to exit at once: the output is removed, the call fails.
StartSeesExit ==
    /\ Is("start", "window") /\ enc = "exited"
    /\ enc' = "none" /\ op' = Free
    /\ UNCHANGED <<host, up, spec, serial, input, slot, loop, eof, dump, frame, late, litter>>

\* The window is over (an exit since the last look goes unseen).
StartEnds ==
    /\ Is("start", "window")
    /\ slot' = TRUE /\ loop' = "capture"
    /\ dump' = "none" /\ frame' = FALSE
    /\ op' = Free
    /\ UNCHANGED <<host, up, spec, serial, input, enc, eof, late, litter>>

-----------------------------------------------------------------------------
\* run_recording_loop, ffmpeg.

LoopOnly == UNCHANGED <<host, up, spec, op, serial, input, slot, enc, eof, late, litter>>

LoopAsks ==
    /\ loop = "capture"
    /\ loop' = "wait" /\ dump' = "asked"
    /\ LoopOnly /\ UNCHANGED frame

QemuDumpsFrame ==
    /\ dump = "asked" /\ up = "up"
    /\ dump' = "done" /\ frame' = TRUE
    /\ LoopOnly /\ UNCHANGED loop

LoopCaptured ==
    /\ loop = "wait" /\ dump = "done"
    /\ loop' = "feed" /\ dump' = "none"
    /\ LoopOnly /\ UNCHANGED frame

\* QEMU says no, is gone, or does not answer in time: the loop is over, the
\* slot stays taken.
LoopCaptureFails ==
    /\ loop = "wait" /\ dump = "asked"
    /\ loop' = "over"
    /\ LoopOnly /\ UNCHANGED <<dump, frame>>

\* The frame goes into ffmpeg's stdin, which may be broken.
LoopFeeds ==
    /\ loop = "feed"
    /\ loop' = IF enc = "runs" THEN "capture" ELSE "over"
    /\ LoopOnly /\ UNCHANGED <<dump, frame>>

\* ffmpeg exits by itself: an error, or the end of its input.
EncoderExits ==
    /\ enc = "runs"
    /\ enc' = "exited"
    /\ UNCHANGED <<host, up, spec, op, serial, input, slot, loop, eof, dump, frame, late, litter>>

-----------------------------------------------------------------------------
\* stop_recording, destroy_instance and the exit watcher, and the
\* finalize_recording that all of them share.  op.kind says who finalizes.

StopBegin ==
    /\ op = Free /\ slot
    /\ slot' = FALSE /\ op' = Op("stop", "abort", 0)
    /\ UNCHANGED <<host, up, spec, serial, input, loop, enc, eof, dump, frame, late, litter>>

\* Mutation of TeardownBegin: only a recording whose loop still goes is one.
TeardownBeginIfLooping ==
    /\ op = Free /\ up \in {"up", "gone"}
    /\ up' = IF up = "gone" THEN "gone" ELSE "closing"
    /\ slot' = FALSE
    /\ op' = Op("teardown", IF slot /\ loop # "over" THEN "abort" ELSE "bridge", 0)
    /\ UNCHANGED <<host, spec, serial, input, loop, enc, eof, dump, frame, late, litter>>

\* A destroy, at any time, or the watcher of a QEMU that is gone.  ("closing":
\* QEMU runs, the Orchestrator has let go of the handle.)
TeardownBegin ==
    /\ op = Free /\ up \in {"up", "gone"}
    /\ up' = IF up = "gone" THEN "gone" ELSE "closing"
    /\ slot' = FALSE
    /\ op' = Op("teardown", IF slot THEN "abort" ELSE "bridge", 0)
    /\ UNCHANGED <<host, spec, serial, input, loop, enc, eof, dump, frame, late, litter>>

\* The loop is aborted where it waits and joined: its screendump may be under way.
FinalizeAborts ==
    /\ op.pc = "abort"
    /\ loop' = "none" /\ dump' = "none"
    /\ late' = (late \/ (dump = "asked" /\ up \in {"up", "closing"}))
    /\ eof' = TRUE
    /\ op' = [op EXCEPT !.pc = "encoder"]
    /\ UNCHANGED <<host, up, spec, serial, input, slot, enc, frame, litter>>

\* Mutation of FinalizeEncoder: no kill when the time is up.
FinalizeEncoderWaits ==
    /\ op.pc = "encoder" /\ enc = "exited"
    /\ enc' = "none"
    /\ op' = [op EXCEPT !.pc = "frame"]
    /\ UNCHANGED <<host, up, spec, serial, input, slot, loop, eof, dump, frame, late, litter>>

\* ffmpeg has exited, or is killed when it has not within the time.
FinalizeEncoder ==
    /\ op.pc = "encoder"
    /\ enc' = "none"
    /\ op' = [op EXCEPT !.pc = "frame"]
    /\ UNCHANGED <<host, up, spec, serial, input, slot, loop, eof, dump, frame, late, litter>>

FinalizeCleans ==
    /\ op.pc = "frame"
    /\ frame' = FALSE
    /\ op' = IF op.kind = "stop" THEN Free ELSE [op EXCEPT !.pc = "bridge"]
    /\ UNCHANGED <<host, up, spec, serial, input, slot, loop, enc, eof, dump, late, litter>>

\* The reader is stopped; the socket and the ring go with it.  Of QEMU's own ring
\* nobody can ask any more.
TeardownBridge ==
    /\ Is("teardown", "bridge")
    /\ serial' = Fresh /\ input' = 0
    /\ op' = [op EXCEPT !.pc = "close"]
    /\ UNCHANGED <<host, up, spec, recording>>

TeardownCloses ==
    /\ Is("teardown", "close")
    /\ up' = "none" /\ late' = FALSE /\ op' = Free
    /\ UNCHANGED <<host, spec, serial, input, slot, loop, enc, eof, dump, frame, litter>>

QemuExits ==
    /\ up \in {"up", "closing"}
    /\ up' = "gone" /\ late' = FALSE
    /\ UNCHANGED <<host, spec, op, serial, input, slot, loop, enc, eof, dump, frame, litter>>

-----------------------------------------------------------------------------
CallStep ==
    \/ Attach \/ Cont \/ RingbufAnswers \/ RingbufFails \/ WriteByte \/ WriteEnds \/ DumpEnds
    \/ StartSpawns \/ StartSeesExit \/ StartEnds
    \/ FinalizeAborts \/ FinalizeEncoder \/ FinalizeCleans
    \/ TeardownBridge \/ TeardownCloses

TasksNext ==
    \/ Create \/ CallStep
    \/ GuestSays \/ ReaderTakes \/ ReadSerial \/ WriteBegin \/ GuestReads
    \/ ReadRingbuf \/ WriteRingbuf \/ QemuPerforms
    \/ DumpBegin \/ QemuDumps \/ QemuDumpsLate
    \/ StartBegin \/ StopBegin \/ TeardownBegin
    \/ LoopAsks \/ QemuDumpsFrame \/ LoopCaptured \/ LoopCaptureFails \/ LoopFeeds
    \/ EncoderExits \/ QemuExits

\* The runtime runs a call that can go on, fires its timers and runs the reader;
\* the lock is fair, so the watcher of a QEMU that is gone gets it in the end.
\* Nothing is asked of the Guest, QEMU or ffmpeg.
TasksFairness ==
    /\ WF_taskVars(CallStep)
    /\ WF_taskVars(ReaderTakes)
    /\ SF_taskVars(up = "gone" /\ TeardownBegin)

TasksSpec == TasksInit /\ [][TasksNext]_taskVars /\ TasksFairness

-----------------------------------------------------------------------------
\* The state has its types: a call's place, the ring's bound, the tasks.
TasksTypeOK ==
    /\ up \in {"none", "launched", "up", "gone", "closing"}
    /\ spec \in [serial : BOOLEAN, display : BOOLEAN]
    /\ op.kind \in {"none", "create", "read", "write", "dump", "start", "stop", "teardown"}
    /\ op.n \in 0..(Pipe + 1)
    /\ serial.taken \in 0..serial.out
    /\ serial.drained \in 0..serial.taken /\ serial.heard \in 0..serial.drained
    /\ Len(serial.ring) <= RingSize /\ Len(serial.queue) <= MaxQueue
    /\ input \in 0..Pipe
    /\ loop \in {"none", "capture", "wait", "feed", "over"}
    /\ enc \in {"none", "runs", "exited"}
    /\ dump \in {"none", "asked", "done"}
    /\ \A b \in {slot, eof, frame, late, litter} : b \in BOOLEAN

\* How much of the Guest's output comes before a byte of the ring, and before the ring.
Before(byte) == IF byte.by = "guest" THEN byte.n - 1 ELSE byte.n
Start == IF serial.ring = <<>> THEN serial.taken ELSE Before(serial.ring[1])

\* The ring loses the Guest's output to nothing but an overflow: what is in it is
\* the latest output in order and without a gap, whatever callers have written in
\* between, and it follows what left it last unless the ring is full.  In
\* particular the Guest's first byte is there.
LosesOnlyOverflow ==
    LET ring == serial.ring IN
    /\ \A i \in DOMAIN ring :
          ring[i].n = IF i = Len(ring) THEN serial.taken ELSE Before(ring[i + 1])
    /\ Start = serial.drained \/ Len(ring) = RingSize

\* What left the ring was read by a caller.  The one exception: a ringbuf-read whose
\* reply came too late or not at all has drained output that nobody gets.
DrainedIsHeard ==
    \/ serial.heard = serial.drained
    \/ host.backend = "ringbuf" /\ (serial.lost \/ Is("read", "done"))

\* A reader gets what the Guest said, and nothing that a caller wrote.
OnlyTheGuestSpeaks == \A i \in DOMAIN serial.ring : serial.ring[i].by = "guest"

\* The Serial Port is sound: its types and bounds, what a reader gets, and what it
\* misses.  Through QEMU's own ring a reader also gets what callers have written
\* (OnlyTheGuestSpeaks holds of the socket alone).
SerialHolds ==
    /\ TasksTypeOK /\ LosesOnlyOverflow /\ DrainedIsHeard
    /\ host.backend = "socket" => OnlyTheGuestSpeaks

\* A task lives no longer than what owns it: ffmpeg and the frame loop are
\* those of the recording in the slot or of the call that starts or finalizes
\* one, and the reader is that of an Instance that is up.
NothingOutlives ==
    /\ enc # "none" \/ loop # "none" =>
          slot \/ op.pc \in {"window", "abort", "encoder"}
    /\ up = "none" => ~slot /\ ~serial.on /\ ~frame

\* No captured frame stays on the host's disk.
NoFrameLingers == ~litter

\* Every call ends, whatever Guest, QEMU and ffmpeg do: the lock is let go.
EveryOpEnds == op # Free ~> op = Free

\* A recording of a QEMU that is gone is finalized, and its ffmpeg ends.
GoneEndsRecording == (slot /\ up = "gone") ~> enc = "none"
=============================================================================
