------------------------------ MODULE QmpClient ------------------------------
(***************************************************************************)
(* The Rust QMP client: callers that write requests under an async lock and *)
(* wait for the reply that carries their id, a reader task that routes what *)
(* QEMU says, timeouts, and a close() that may come at any moment.  The     *)
(* runtime has several threads, so a caller that has found the connection   *)
(* open may file its request after the connection was failed.               *)
(*                                                                          *)
(* Events are routed here and no further: what becomes of them is           *)
(* EventBufferRust's subject.                                               *)
(***************************************************************************)
EXTENDS Naturals, SequencesExt

CONSTANTS
    Caller,     \* tasks that call execute()
    Negotiator, \* the one that calls negotiate() first
    Abortable,  \* those whose task may be aborted: the recording loop
    NoCall,     \* no reply yet
    MaxCalls,   \* bound: calls each caller makes
    Room,       \* requests the socket takes before a write has to wait
    MaxInbox    \* bound: lines of QEMU the client has not read yet

ASSUME NegotiatorAssumption == Negotiator \in Caller
ASSUME AbortableAssumption == Abortable \subseteq Caller \ {Negotiator}
ASSUME NoCallAssumption == NoCall \notin Caller \X Nat

Closer == <<"close">>
Message == [kind : {"greeting", "reply", "other"}, id : Nat, to : (Caller \X Nat) \cup {NoCall}]
Greeting == [kind |-> "greeting", id |-> 0, to |-> NoCall]
\* An event, a line that does not parse, a reply without an id.
Other == [kind |-> "other", id |-> 0, to |-> NoCall]
Request == [id : Nat, to : Caller \X Nat]

\* How a call ended: QEMU returned a value or an error, the connection was
\* closed, nothing came in time, or the request could not be written.
Outcome == {"none", "returned", "failed", "closed", "timeout", "unwritten"}

VARIABLES
    call,     \* per caller: where it is, its id, how many calls, its oneshot
    pending,  \* Shared.pending: <<id, caller>>
    nextId,   \* Shared.next_id
    lock,     \* who holds and who waits for Shared.write
    wire,     \* requests QEMU has not read
    inbox,    \* lines the reader has not read
    greeting, \* the oneshot negotiate() waits on
    reader,   \* the reader task
    closer,   \* the task that calls close()
    closed,   \* Shared.closed
    exited,   \* Shared.exit_tx
    shut,     \* the write half is shut down
    qemu      \* whether QEMU has greeted, and whether it is there

session == <<greeting, reader, closer, closed, exited, shut>>
vars == <<call, pending, nextId, lock, wire, inbox, greeting, reader, closer,
          closed, exited, shut, qemu>>

Init ==
    /\ call = [c \in Caller |->
           [pc |-> "idle", id |-> 0, n |-> 0, got |-> NoCall, dropped |-> FALSE, out |-> "none"]]
    /\ pending = {} /\ nextId = 1 /\ lock = <<>>
    /\ wire = <<>> /\ inbox = <<>> /\ greeting = "awaited"
    /\ reader = "runs" /\ closer = "idle"
    /\ closed = FALSE /\ exited = FALSE /\ shut = FALSE /\ qemu = "silent"

At(c, pc) == call[c].pc = pc
Holds(t) == lock # <<>> /\ Head(lock) = t
MyCall(c) == <<c, call[c].n>>
Ends(c, out) ==
    call' = [call EXCEPT ![c].pc = "idle", ![c].out = out]
Established == call[Negotiator].n > 1 \/ call[Negotiator].out = "returned"

-----------------------------------------------------------------------------
\* A caller.

\* negotiate() takes the greeting's receiver.
Negotiate ==
    /\ At(Negotiator, "idle")
    /\ call[Negotiator].n = 0 /\ call[Negotiator].out = "none"
    /\ call' = [call EXCEPT ![Negotiator].pc = "greeting"]
    /\ UNCHANGED <<pending, nextId, lock, wire, inbox, session, qemu>>

\* The greeting does not come: the reader is gone, or the time is up.
NotGreeted ==
    /\ At(Negotiator, "greeting")
    /\ greeting # "sent"
    /\ Ends(Negotiator, IF greeting = "lost" THEN "closed" ELSE "timeout")
    /\ UNCHANGED <<pending, nextId, lock, wire, inbox, session, qemu>>

\* Mutation of TakesId: the id is that of the first free slot.
TakesFreeId(c) ==
    LET free == {i \in 1..nextId : \A e \in pending : e[1] # i}
        id == CHOOSE i \in free : \A j \in free : i <= j
    IN /\ call' = [call EXCEPT ![c].pc = "entered", ![c].id = id, ![c].n = @ + 1,
                               ![c].got = NoCall, ![c].dropped = FALSE]
       /\ nextId' = nextId + 1

\* fetch_add: each call has an id of its own.
TakesId(c) ==
    /\ call' = [call EXCEPT ![c].pc = "entered", ![c].id = nextId, ![c].n = @ + 1,
                            ![c].got = NoCall, ![c].dropped = FALSE]
    /\ nextId' = nextId + 1

\* execute() refuses on a closed connection; this is its only look at it.
Enter(c) ==
    /\ IF c = Negotiator /\ call[c].n = 0
       THEN At(c, "greeting") /\ greeting = "sent"
       ELSE At(c, "idle") /\ Established
    /\ call[c].n < MaxCalls
    /\ IF closed
       THEN /\ call' = [call EXCEPT ![c].pc = "idle", ![c].n = @ + 1, ![c].out = "closed",
                                    ![c].got = NoCall]
            /\ UNCHANGED nextId
       ELSE TakesId(c)
    /\ UNCHANGED <<pending, lock, wire, inbox, session, qemu>>

\* File the request, and wait for the write half.
File(c) ==
    /\ At(c, "entered")
    /\ pending' = pending \cup {<<call[c].id, c>>}
    /\ lock' = Append(lock, c)
    /\ call' = [call EXCEPT ![c].pc = "filed"]
    /\ UNCHANGED <<nextId, wire, inbox, session, qemu>>

\* Mutation of Write: the lock stays taken until the reply has come.
WriteHoldingOn(c) ==
    /\ At(c, "filed") /\ Holds(c)
    /\ qemu # "gone" /\ ~shut /\ Len(wire) < Room
    /\ wire' = Append(wire, [id |-> call[c].id, to |-> MyCall(c)])
    /\ call' = [call EXCEPT ![c].pc = "waiting"]
    /\ UNCHANGED <<pending, nextId, lock, inbox, session, qemu>>

\* The line goes out whole, once the socket has room for it.
Write(c) ==
    /\ At(c, "filed") /\ Holds(c)
    /\ qemu # "gone" /\ ~shut /\ Len(wire) < Room
    /\ wire' = Append(wire, [id |-> call[c].id, to |-> MyCall(c)])
    /\ lock' = Tail(lock)
    /\ call' = [call EXCEPT ![c].pc = "waiting"]
    /\ UNCHANGED <<pending, nextId, inbox, session, qemu>>

\* The socket is broken: take the request back.
WriteFails(c) ==
    /\ At(c, "filed") /\ Holds(c)
    /\ qemu = "gone" \/ shut
    /\ pending' = pending \ {<<call[c].id, c>>}
    /\ lock' = Tail(lock)
    /\ Ends(c, "unwritten")
    /\ UNCHANGED <<nextId, wire, inbox, session, qemu>>

\* The oneshot has the reply, or its sender is gone.
Receive(c) ==
    /\ At(c, "waiting")
    /\ \/ call[c].got # NoCall /\ \E out \in {"returned", "failed"} : Ends(c, out)
       \/ call[c].dropped /\ Ends(c, "closed")
    /\ UNCHANGED <<pending, nextId, lock, wire, inbox, session, qemu>>

\* Mutation of TimeOut: the request stays filed.
TimeOutStillFiled(c) ==
    /\ At(c, "waiting")
    /\ call[c].got = NoCall /\ ~call[c].dropped
    /\ Ends(c, "timeout")
    /\ UNCHANGED <<pending, nextId, lock, wire, inbox, session, qemu>>

\* Nothing came in time: give up the request.
TimeOut(c) ==
    /\ At(c, "waiting")
    /\ call[c].got = NoCall /\ ~call[c].dropped
    /\ pending' = pending \ {<<call[c].id, c>>}
    /\ Ends(c, "timeout")
    /\ UNCHANGED <<nextId, lock, wire, inbox, session, qemu>>

\* The caller's task is aborted where it waits: its place in the queue for the
\* lock goes with it, its request stays filed.  (A write that was cut short in
\* the middle of a line is left out.)
Abort(c) ==
    /\ c \in Abortable
    /\ At(c, "filed") \/ At(c, "waiting")
    /\ call' = [call EXCEPT ![c].pc = "aborted"]
    /\ IF At(c, "filed")
       THEN \E i \in DOMAIN lock : lock[i] = c /\ lock' = RemoveAt(lock, i)
       ELSE UNCHANGED lock
    /\ UNCHANGED <<pending, nextId, wire, inbox, session, qemu>>

-----------------------------------------------------------------------------
\* The reader task and close().

\* A reply goes to whoever filed its id, if anyone still does.
Deliver(m) ==
    LET entries == {e \in pending : e[1] = m.id}
        owners == {e[2] : e \in entries}
    IN /\ pending' = pending \ entries
       /\ call' = [c \in Caller |->
              IF c \in owners THEN [call[c] EXCEPT !.got = m.to] ELSE call[c]]

\* dispatch(): route one line; a line nobody waits for changes nothing.
Dispatch ==
    /\ reader = "runs"
    /\ inbox # <<>>
    /\ inbox' = Tail(inbox)
    /\ greeting' = IF Head(inbox).kind = "greeting" /\ greeting = "awaited" THEN "sent" ELSE greeting
    /\ IF Head(inbox).kind = "reply" THEN Deliver(Head(inbox)) ELSE UNCHANGED <<pending, call>>
    /\ UNCHANGED <<nextId, lock, wire, reader, closer, closed, exited, shut, qemu>>

\* fail_all() of a task that is first marks the connection closed.
MarksClosed(failing, over) == IF closed THEN over ELSE failing

\* Mutation of ReaderEnds: the end of the stream alone fails nothing.
ReaderEndsQuietly ==
    /\ reader = "runs"
    /\ closer # "idle" \/ (inbox = <<>> /\ qemu = "gone")
    /\ IF closer # "idle"
       THEN closed' = TRUE /\ reader' = MarksClosed("failing", "ending")
       ELSE reader' = "ending" /\ UNCHANGED closed
    /\ UNCHANGED <<call, pending, nextId, lock, wire, inbox, greeting, closer, exited, shut, qemu>>

\* The signal of close(), the end of the stream or a read error.
ReaderEnds ==
    /\ reader = "runs"
    /\ closer # "idle" \/ (inbox = <<>> /\ qemu = "gone")
    /\ closed' = TRUE
    /\ reader' = MarksClosed("failing", "ending")
    /\ UNCHANGED <<call, pending, nextId, lock, wire, inbox, greeting, closer, exited, shut, qemu>>

\* The rest of fail_all(): drop the senders, latch the exit signal.
FailAll ==
    /\ pending' = {}
    /\ call' = [c \in Caller |->
           IF <<call[c].id, c>> \in pending THEN [call[c] EXCEPT !.dropped = TRUE] ELSE call[c]]
    /\ exited' = TRUE

ReaderFails ==
    /\ reader = "failing"
    /\ FailAll
    /\ reader' = "ending"
    /\ UNCHANGED <<nextId, lock, wire, inbox, greeting, closer, closed, shut, qemu>>

\* The task ends; an unsent greeting will not come.
ReaderOver ==
    /\ reader = "ending"
    /\ reader' = "over"
    /\ greeting' = IF greeting = "awaited" THEN "lost" ELSE greeting
    /\ UNCHANGED <<call, pending, nextId, lock, wire, inbox, closer, closed, exited, shut, qemu>>

\* close() signals the reader and waits for the write half.
Close ==
    /\ closer = "idle"
    /\ closer' = "queued"
    /\ lock' = Append(lock, Closer)
    /\ UNCHANGED <<call, pending, nextId, wire, inbox, greeting, reader, closed, exited, shut, qemu>>

\* It shuts the write half down, and marks the connection closed.
CloseShuts ==
    /\ closer = "queued" /\ Holds(Closer)
    /\ lock' = Tail(lock)
    /\ shut' = TRUE
    /\ closer' = "shut"
    /\ UNCHANGED <<call, pending, nextId, wire, inbox, greeting, reader, closed, exited, qemu>>

CloseMarks ==
    /\ closer = "shut"
    /\ closed' = TRUE
    /\ closer' = MarksClosed("failing", "aborting")
    /\ UNCHANGED <<call, pending, nextId, lock, wire, inbox, greeting, reader, exited, shut, qemu>>

CloseFails ==
    /\ closer = "failing"
    /\ FailAll
    /\ closer' = "aborting"
    /\ UNCHANGED <<nextId, lock, wire, inbox, greeting, reader, closed, shut, qemu>>

\* A reader that waits for a line is aborted there; one in fail_all() ends it.
CloseAborts ==
    /\ closer = "aborting"
    /\ closer' = "over"
    /\ reader' = IF reader = "runs" THEN "ending" ELSE reader
    /\ UNCHANGED <<call, pending, nextId, lock, wire, inbox, greeting, closed, exited, shut, qemu>>

-----------------------------------------------------------------------------
\* QEMU.

Says(m) == Len(inbox) < MaxInbox /\ inbox' = Append(inbox, m)

QemuGreets ==
    /\ qemu = "silent"
    /\ Says(Greeting)
    /\ qemu' = "greeted"
    /\ UNCHANGED <<call, pending, nextId, lock, wire, session>>

\* QEMU takes up the next request when it has answered the one before.
QemuAnswers ==
    /\ qemu = "greeted"
    /\ wire # <<>>
    /\ Says([kind |-> "reply", id |-> Head(wire).id, to |-> Head(wire).to])
    /\ wire' = Tail(wire)
    /\ UNCHANGED <<call, pending, nextId, lock, session, qemu>>

QemuSaysOther ==
    /\ qemu = "greeted"
    /\ Says(Other)
    /\ UNCHANGED <<call, pending, nextId, lock, wire, session, qemu>>

QemuGoes ==
    /\ qemu # "gone"
    /\ qemu' = "gone"
    /\ UNCHANGED <<call, pending, nextId, lock, wire, inbox, session>>

-----------------------------------------------------------------------------
CallerStep(c) ==
    Enter(c) \/ File(c) \/ Write(c) \/ WriteFails(c) \/ Receive(c) \/ TimeOut(c)
ReaderStep == Dispatch \/ ReaderEnds \/ ReaderFails \/ ReaderOver
CloseStep == CloseShuts \/ CloseMarks \/ CloseFails \/ CloseAborts
QemuStep == QemuGreets \/ QemuAnswers \/ QemuSaysOther \/ QemuGoes

Next ==
    \/ Negotiate \/ NotGreeted
    \/ \E c \in Caller : CallerStep(c)
    \/ \E c \in Abortable : Abort(c)
    \/ ReaderStep \/ Close \/ CloseStep \/ QemuStep

\* The runtime runs every task that can go on and fires every timer; nothing
\* is asked of QEMU, nor that anybody calls.
Fairness ==
    /\ WF_vars(NotGreeted)
    /\ \A c \in Caller :
          /\ WF_vars(Enter(c) /\ At(c, "greeting"))
          /\ WF_vars(File(c) \/ Write(c) \/ WriteFails(c) \/ Receive(c) \/ TimeOut(c))
    /\ WF_vars(ReaderStep)
    /\ WF_vars(CloseStep)

Spec == Init /\ [][Next]_vars /\ Fairness

-----------------------------------------------------------------------------
CallState == [pc : {"idle", "greeting", "entered", "filed", "waiting", "aborted"},
              id : Nat, n : Nat, got : (Caller \X Nat) \cup {NoCall},
              dropped : BOOLEAN, out : Outcome]

\* The state has its types: ids, replies, the tasks' places.
TypeOK ==
    /\ call \in [Caller -> CallState]
    /\ pending \subseteq Nat \X Caller
    /\ nextId \in Nat
    /\ lock \in Seq(Caller \cup {Closer})
    /\ wire \in Seq(Request) /\ inbox \in Seq(Message)
    /\ greeting \in {"awaited", "sent", "lost"}
    /\ reader \in {"runs", "failing", "ending", "over"}
    /\ closer \in {"idle", "queued", "shut", "failing", "aborting", "over"}
    /\ closed \in BOOLEAN /\ exited \in BOOLEAN /\ shut \in BOOLEAN
    /\ qemu \in {"silent", "greeted", "gone"}

\* A call that is answered has the reply to its own command: never that of a
\* call before it which timed out, nor that of another caller.
RightReply ==
    \A c \in Caller : call[c].got # NoCall => call[c].got = MyCall(c)

\* A request is filed exactly while its call still waits to hear: none is left
\* filed by a call that is over (an aborted task's alone is), and none waits
\* unfiled for a reply.
FiledWhileWaiting ==
    /\ \A e \in pending :
          /\ call[e[2]].id = e[1]
          /\ call[e[2]].pc \in {"filed", "waiting", "aborted"}
    /\ \A c \in Caller :
          call[c].pc \in {"filed", "waiting"} =>
             (<<call[c].id, c>> \in pending <=> call[c].got = NoCall /\ ~call[c].dropped)

\* The pending table is sound, in its types and against the calls.
PendingHolds == TypeOK /\ FiledWhileWaiting

\* Every call ends, whatever QEMU does: a silent one makes it fail, not hang.
EveryCallEnds ==
    \A c \in Caller : call[c].pc # "idle" ~> call[c].pc \in {"idle", "aborted"}

\* When QEMU is gone or the client is closed, those who wait for the end of
\* the Session are told, even while close() still waits for the write half.
EndIsTold == (qemu = "gone" \/ closer # "idle") ~> exited
=============================================================================
