--------------------------- MODULE EventBufferRust ---------------------------
(***************************************************************************)
(* The Rust server's Event Buffer and the code around it: the QMP session's *)
(* broadcast channel, the feeder task that drains it into the buffer, the   *)
(* long-poll futures, get_events and the resets on create and teardown.     *)
(*                                                                          *)
(* The runtime is multi-threaded.  A step is what a task does under one     *)
(* hold of the buffer's mutex, or between two points where another thread   *)
(* can come in: an aborted feeder that is being polled still finishes, and  *)
(* a future whose timer fired has yet to take the mutex.                    *)
(***************************************************************************)
EXTENDS EventBuffer

CONSTANTS
    Call,            \* long-polls that may be outstanding at once
    ChannelCapacity, \* EVENT_CHANNEL_CAPACITY of the broadcast channel
    MaxEvents,       \* bound: events emitted in a behaviour
    MaxInst          \* bound: Instances created in a behaviour

ASSUME ChannelAssumption == ChannelCapacity \in Nat \ {0}
ASSUME BoundsAssumption == MaxEvents \in Nat /\ MaxInst \in Nat

Instances == 1..MaxInst

VARIABLES
    events,  \* Inner.events
    seq,     \* Inner.seq
    waiters, \* Inner.waiters, by the call that registered them
    call,    \* the long-poll futures; see the states below
    inst,    \* the Instance whose feeder runs, 0 when there is none
    made,    \* how many Instances were created so far
    emitted, \* per Instance: how many events its QEMU emitted
    queue,   \* per Instance: what its feeder's broadcast receiver still holds
    hand,    \* per Instance: the event its feeder received and will append
    log,     \* history: every event ever appended
    pager    \* an agent that pages with get_events (as in EventBufferTs)

vars == <<events, seq, waiters, call, inst, made, emitted, queue, hand, log,
          pager>>

Feed == INSTANCE EventFeed WITH floor <- seq - Len(events)

\* A future is "waiting" while its oneshot is empty, "sent" or "closed" once the
\* event or the drop of the sender is in it, "expiring" from the poll that found
\* it empty and the timer due until it has the mutex, then "matched"/"timedOut".
Ended == {"idle", "matched", "timedOut"}

Init ==
    /\ events = <<>>
    /\ seq = 0
    /\ waiters = {}
    /\ call = [c \in Call |-> Feed!NoWait]
    /\ inst = 0
    /\ made = 0
    /\ emitted = [i \in Instances |-> 0]
    /\ queue = [i \in Instances |-> <<>>]
    /\ hand = [i \in Instances |-> <<>>]
    /\ log = <<>>
    /\ pager = [cursor |-> 0, seen |-> {}, again |-> {}, missed |-> {}]

-----------------------------------------------------------------------------
\* The event path.

\* dispatch: broadcast an event.  A receiver that lags loses its oldest.
Emit(name) ==
    LET ev == [event |-> name, from |-> inst, rank |-> emitted[inst] + 1] IN
    /\ inst # 0
    /\ emitted[inst] < MaxEvents
    /\ emitted' = [emitted EXCEPT ![inst] = @ + 1]
    /\ queue' = [queue EXCEPT ![inst] =
          Append(IF Len(@) < ChannelCapacity THEN @ ELSE Tail(@), ev)]
    /\ UNCHANGED <<events, seq, waiters, call, inst, made, hand, log, pager>>

\* The feeder's recv.  A feeder aborted in the middle of a poll goes on as long
\* as recv does not make it wait, so this is not restricted to the current one.
FeederRecv(i) ==
    /\ hand[i] = <<>>
    /\ queue[i] # <<>>
    /\ hand' = [hand EXCEPT ![i] = <<Head(queue[i])>>]
    /\ queue' = [queue EXCEPT ![i] = Tail(@)]
    /\ UNCHANGED <<events, seq, waiters, call, inst, made, emitted, log, pager>>

\* EventBuffer.append: stamp, push, evict, and wake every matching waiter.  A
\* future that no longer listens is removed all the same.
append(ev) ==
    LET woken == { c \in waiters : EventMatches(call[c].filter, ev) } IN
    /\ seq' = seq + 1
    /\ events' = Pushed(events, [seq |-> seq + 1, ev |-> ev])
    /\ waiters' = waiters \ woken
    /\ call' = [c \in Call |->
          IF c \in woken /\ call[c].pc = "waiting"
          THEN Feed!Wait("sent", call[c].filter, call[c].from, seq + 1)
          ELSE call[c]]
    /\ log' = Append(log, ev)

FeederAppend(i) ==
    /\ hand[i] # <<>>
    /\ append(Head(hand[i]))
    /\ hand' = [hand EXCEPT ![i] = <<>>]
    /\ UNCHANGED <<inst, made, emitted, queue, pager>>

\* EventBuffer.reset: every sender is dropped.
reset ==
    /\ events' = <<>>
    /\ waiters' = {}
    /\ call' = [c \in Call |->
          IF c \in waiters /\ call[c].pc = "waiting"
          THEN [call[c] EXCEPT !.pc = "closed"] ELSE call[c]]
    /\ UNCHANGED <<seq, log>>

\* create_instance, once the Instance is up: a fresh buffer, then the feeder.
CreateInstance ==
    /\ inst = 0
    /\ made < MaxInst
    /\ reset
    /\ made' = made + 1
    /\ inst' = made + 1
    /\ UNCHANGED <<emitted, queue, hand, pager>>

\* teardown_current_instance: abort the feeder, reset the buffer.  A feeder
\* parked in recv is gone; one being polled (it has an event in hand) is not,
\* and whatever its receiver holds may still follow.
TeardownInstance ==
    /\ inst # 0
    /\ reset
    /\ inst' = 0
    /\ queue' = [queue EXCEPT ![inst] = IF hand[inst] = <<>> THEN <<>> ELSE @]
    /\ UNCHANGED <<made, emitted, hand, pager>>

\* An aborted feeder stops at its next suspension.
FeederStops(i) ==
    /\ i # inst
    /\ queue[i] # <<>>
    /\ queue' = [queue EXCEPT ![i] = <<>>]
    /\ UNCHANGED <<events, seq, waiters, call, inst, made, emitted, hand, log,
                   pager>>

-----------------------------------------------------------------------------
\* The long-polls.

listenFrom(since) ==
    IF since < seq - Len(events) THEN seq - Len(events) ELSE since

\* EventBuffer.wait_for with a since_cursor: replay, else poll, else register.
WaitSince(c, filter, since, poll) ==
    LET from == listenFrom(since)
        hits == ReplayHits(events, since, filter)
    IN
    /\ inst # 0
    /\ call[c].pc \in Ended
    /\ call' = [call EXCEPT ![c] =
          IF hits # {}
          THEN Feed!Matched(filter, from, FirstHit(events, since, filter).seq)
          ELSE IF poll THEN Feed!TimedOut(filter, from, seq)
          ELSE Feed!Waiting(filter, from)]
    /\ waiters' = IF hits # {} \/ poll THEN waiters ELSE waiters \cup {c}
    /\ UNCHANGED <<events, seq, inst, made, emitted, queue, hand, log, pager>>

\* EventBuffer.wait_for without one: future events only.
WaitFuture(c, filter, poll) ==
    /\ inst # 0
    /\ call[c].pc \in Ended
    /\ call' = [call EXCEPT ![c] =
          IF poll THEN Feed!TimedOut(filter, seq, seq)
          ELSE Feed!Waiting(filter, seq)]
    /\ waiters' = IF poll THEN waiters ELSE waiters \cup {c}
    /\ UNCHANGED <<events, seq, inst, made, emitted, queue, hand, log, pager>>

\* The select: the receiver is polled first (biased), and has the event.
RecvMatched(c) ==
    /\ call[c].pc = "sent"
    /\ call' = [call EXCEPT ![c].pc = "matched"]
    /\ UNCHANGED <<events, seq, waiters, inst, made, emitted, queue, hand, log,
                   pager>>

\* The receiver finds the sender dropped, takes the mutex and reads the cursor.
RecvClosed(c) ==
    /\ call[c].pc = "closed"
    /\ call' = [call EXCEPT ![c].pc = "timedOut", ![c].cursor = seq]
    /\ UNCHANGED <<events, seq, waiters, inst, made, emitted, queue, hand, log,
                   pager>>

\* Mutation of SleepElapsed: the select has no timeout branch.
SleepElapsedNever(c) == FALSE /\ call[c].pc = "waiting" /\ UNCHANGED vars

\* The receiver is empty and the timer is due: the timeout branch is taken ...
SleepElapsed(c) ==
    /\ call[c].pc = "waiting"
    /\ call' = [call EXCEPT ![c].pc = "expiring"]
    /\ UNCHANGED <<events, seq, waiters, inst, made, emitted, queue, hand, log,
                   pager>>

\* Mutation of ExpireLocked: the waiter stays registered.
ExpireLeaking(c) ==
    /\ call[c].pc = "expiring"
    /\ call' = [call EXCEPT ![c].pc = "timedOut", ![c].cursor = seq]
    /\ UNCHANGED <<events, seq, waiters, inst, made, emitted, queue, hand, log,
                   pager>>

\* ... and, once it has the mutex, deregisters the waiter and reads the cursor.
ExpireLocked(c) ==
    /\ call[c].pc = "expiring"
    /\ waiters' = waiters \ {c}
    /\ call' = [call EXCEPT ![c].pc = "timedOut", ![c].cursor = seq]
    /\ UNCHANGED <<events, seq, inst, made, emitted, queue, hand, log, pager>>

\* get_events by the paging agent.
GetEvents ==
    LET got == { b.seq : b \in ReadSince(events, pager.cursor) } IN
    /\ inst # 0
    /\ pager' = [cursor |-> seq,
                 seen   |-> pager.seen \cup got,
                 again  |-> pager.again \cup (pager.seen \cap got),
                 missed |-> pager.missed \cup
                     { i \in (pager.cursor + 1)..seq : \A g \in got : i < g }]
    /\ UNCHANGED <<events, seq, waiters, call, inst, made, emitted, queue, hand,
                   log>>

-----------------------------------------------------------------------------

Settle(c) ==
    RecvMatched(c) \/ RecvClosed(c) \/ SleepElapsed(c) \/ ExpireLocked(c)

Next ==
    \/ \E name \in EventName : Emit(name)
    \/ \E i \in Instances : FeederRecv(i) \/ FeederAppend(i) \/ FeederStops(i)
    \/ CreateInstance
    \/ TeardownInstance
    \/ \E c \in Call, filter \in Filter, poll \in BOOLEAN :
          \/ \E since \in 0..seq : WaitSince(c, filter, since, poll)
          \/ WaitFuture(c, filter, poll)
    \/ \E c \in Call : Settle(c)
    \/ GetEvents

Spec == Init /\ [][Next]_vars

\* The runtime polls every task that is ready; the mutex is only ever held for
\* a bounded computation.
FairSpec ==
    /\ Spec
    /\ \A c \in Call : WF_vars(Settle(c))
    /\ \A i \in Instances : WF_vars(FeederRecv(i) \/ FeederAppend(i))

-----------------------------------------------------------------------------

AtMostOne(s) == Len(s) <= 1

TypeOK ==
    /\ events \in Seq(BufferedEvent)
    /\ seq \in Nat
    /\ waiters \subseteq Call
    /\ call \in [Call -> [pc : Ended \cup {"waiting", "sent", "closed", "expiring"},
                          filter : Filter, from : Nat, cursor : Nat]]
    /\ inst \in 0..MaxInst /\ made \in 0..MaxInst
    /\ emitted \in [Instances -> Nat]
    /\ queue \in [Instances -> Seq(QmpEvent)]
    /\ hand \in [Instances -> Seq(QmpEvent)]
    /\ \A i \in Instances : AtMostOne(hand[i])
    /\ log \in Seq(QmpEvent)
    /\ pager \in [cursor : Nat, seen : SUBSET Nat, again : SUBSET Nat,
                 missed : SUBSET Nat]

\* The ring is the newest part of the log: at most Capacity events, numbered
\* without a hole up to the cursor (append and its eviction loop).
RingIsWindow ==
    /\ Len(log) = seq
    /\ Len(events) <= Capacity
    /\ Len(events) <= seq
    /\ \A i \in 1..Len(events) :
          /\ events[i].seq = seq - Len(events) + i
          /\ events[i].ev = log[events[i].seq]

\* The waiter list and the futures agree: a future that sleeps is registered,
\* one that ended is not (no waiter is leaked), and a registered one has slept
\* through nothing it asked for, whatever the feeder and the resets did.
WaitersAgree ==
    /\ \A c \in Call :
          /\ call[c].pc = "waiting" => c \in waiters
          /\ c \in waiters => call[c].pc \in {"waiting", "expiring"}
    /\ \A c \in waiters : Feed!Silent(log, call[c].filter, call[c].from, seq)

\* The buffer is sound as a whole, at every point where another thread can look:
\* its types, the ring, and the waiter list against the futures.
BufferHolds == TypeOK /\ RingIsWindow /\ WaitersAgree

\* A wait that is answered gets the FIRST event it asked for, also when more of
\* them, a reset or another Instance's events come before its future is polled.
MatchIsFirst ==
    \A c \in Call :
        call[c].pc \in {"sent", "matched"} =>
            /\ call[c].cursor \in (call[c].from + 1)..seq
            /\ EventMatches(call[c].filter, log[call[c].cursor])
            /\ Feed!Silent(log, call[c].filter, call[c].from, call[c].cursor - 1)

\* An agent that pages by cursor sees no event twice, and can account for every
\* number it did not see: a gap shows as a jump of the numbers, and what it is
\* told it missed is really no longer retained (get_events).
PagerAccountsForAll ==
    /\ pager.again = {}
    /\ pager.seen \cup pager.missed = 1..pager.cursor
    /\ pager.seen \cap pager.missed = {}
    /\ \A i \in pager.missed : i <= seq - Len(events)

\* No long-poll is left dangling.
EveryWaitEnds ==
    \A c \in Call : call[c].pc = "waiting" ~> call[c].pc \in Ended

\* Claimed (server.rs, "so nothing is missed between calls"): while the Instance
\* is up, the cursor of a wait that timed out skips nothing it asked for.
TimeoutMissesNothing ==
    inst # 0 => \A c \in Call :
        call[c].pc = "timedOut" =>
            Feed!Silent(log, call[c].filter, call[c].from, call[c].cursor)

\* Claimed (event_buffer.rs, "so events never bleed across Instances"): while an
\* Instance is up, the buffer holds only events that it emitted.
NoBleed ==
    inst # 0 => \A i \in 1..Len(events) : events[i].ev.from = inst
=============================================================================
