---------------------------- MODULE EventBufferTs ----------------------------
(***************************************************************************)
(* The TypeScript server's Event Buffer and the code around it: the QMP     *)
(* session's event listener, get_events, wait_for_event and the resets on   *)
(* create, destroy and unexpected exit.                                     *)
(*                                                                          *)
(* Node runs one macrotask at a time and a resolved promise's continuation  *)
(* right after it, so each callback (socket data, tool call, timer) is one  *)
(* step.                                                                    *)
(***************************************************************************)
EXTENDS EventBuffer

CONSTANTS
    Call,      \* long-polls that may be outstanding at once
    MaxEvents, \* bound: events emitted in a behaviour
    MaxInst    \* bound: Instances created in a behaviour

ASSUME BoundsAssumption == MaxEvents \in Nat /\ MaxInst \in Nat

VARIABLES
    events,  \* #events
    seq,     \* #seq
    call,    \* the long-polls; #waiters are those whose pc is "waiting"
    inst,    \* the Instance whose session is subscribed, 0 when there is none
    made,    \* how many Instances were created so far
    emitted, \* how many events the current Instance emitted
    log,     \* history: every event ever captured
    pager    \* an agent that pages with get_events: its cursor, the numbers it
             \* saw, those it saw twice, and those it can tell it missed

vars == <<events, seq, call, inst, made, emitted, log, pager>>

Feed == INSTANCE EventFeed WITH floor <- seq - Len(events)

Waiters == { c \in Call : call[c].pc = "waiting" }

Init ==
    /\ events = <<>>
    /\ seq = 0
    /\ call = [c \in Call |-> Feed!NoWait]
    /\ inst = 0
    /\ made = 0
    /\ emitted = 0
    /\ log = <<>>
    /\ pager = [cursor |-> 0, seen |-> {}, again |-> {}, missed |-> {}]

-----------------------------------------------------------------------------

fulfill(c) == Feed!Matched(call[c].filter, call[c].from, seq + 1)

\* Mutation of expire: the cursor is one past the last event.
expirePastEnd(c) == Feed!TimedOut(call[c].filter, call[c].from, seq + 1)

expire(c) == Feed!TimedOut(call[c].filter, call[c].from, seq)

\* EventBuffer.append, called by the session's event listener.
append(ev) ==
    /\ seq' = seq + 1
    /\ events' = Pushed(events, [seq |-> seq + 1, ev |-> ev])
    /\ call' = [c \in Call |->
                  IF c \in Waiters /\ EventMatches(call[c].filter, ev)
                  THEN fulfill(c) ELSE call[c]]
    /\ log' = Append(log, ev)

\* Mutation of reset: the waits are settled, the events stay.
resetKeepingEvents ==
    /\ call' = [c \in Call |-> IF c \in Waiters THEN expire(c) ELSE call[c]]
    /\ UNCHANGED <<events, seq, log>>

\* EventBuffer.reset: every pending wait is settled as a clean timeout.
reset ==
    /\ events' = <<>>
    /\ call' = [c \in Call |-> IF c \in Waiters THEN expire(c) ELSE call[c]]
    /\ UNCHANGED <<seq, log>>

\* A chunk of socket data carries an event of the running Instance.
Emit(name) ==
    /\ inst # 0
    /\ Len(log) < MaxEvents
    /\ append([event |-> name, from |-> inst, rank |-> emitted + 1])
    /\ emitted' = emitted + 1
    /\ UNCHANGED <<inst, made, pager>>

\* createInstance, once the Instance is up: a fresh buffer, then subscribe.
CreateInstance ==
    /\ inst = 0
    /\ made < MaxInst
    /\ reset
    /\ made' = made + 1
    /\ inst' = made + 1
    /\ emitted' = 0
    /\ UNCHANGED pager

\* destroyInstance and #onProcessExit: unsubscribe, then settle the waits.
InstanceGone ==
    /\ inst # 0
    /\ reset
    /\ inst' = 0
    /\ UNCHANGED <<made, emitted, pager>>

\* A cursor the agent may hold: any it was given before, or none.
Cursors == 0..seq

\* The position a wait listens from (history): see EventFeed.
listenFrom(since) ==
    IF since < seq - Len(events) THEN seq - Len(events) ELSE since

\* Mutation of WaitSince: what is already buffered is not looked at.
WaitSinceWithoutReplay(c, filter, since, poll) ==
    LET from == listenFrom(since) IN
    /\ inst # 0
    /\ c \notin Waiters
    /\ call' = [call EXCEPT ![c] =
          IF poll THEN Feed!TimedOut(filter, from, seq)
          ELSE Feed!Waiting(filter, from)]
    /\ UNCHANGED <<events, seq, inst, made, emitted, log, pager>>

\* EventBuffer.waitFor with a sinceCursor: replay first, then poll or register.
WaitSince(c, filter, since, poll) ==
    LET from == listenFrom(since) IN
    /\ inst # 0
    /\ c \notin Waiters
    /\ call' = [call EXCEPT ![c] =
          IF ReplayHits(events, since, filter) # {}
          THEN Feed!Matched(filter, from, FirstHit(events, since, filter).seq)
          ELSE IF poll THEN Feed!TimedOut(filter, from, seq)
          ELSE Feed!Waiting(filter, from)]
    /\ UNCHANGED <<events, seq, inst, made, emitted, log, pager>>

\* EventBuffer.waitFor without one: future events only.
WaitFuture(c, filter, poll) ==
    /\ inst # 0
    /\ c \notin Waiters
    /\ call' = [call EXCEPT ![c] =
          IF poll THEN Feed!TimedOut(filter, seq, seq)
          ELSE Feed!Waiting(filter, seq)]
    /\ UNCHANGED <<events, seq, inst, made, emitted, log, pager>>

\* Mutation of Expire: the timer is never armed.
ExpireUnarmed(c) == FALSE /\ c \in Waiters /\ UNCHANGED vars

\* The waiter's setTimeout callback.
Expire(c) ==
    /\ c \in Waiters
    /\ call' = [call EXCEPT ![c] = expire(c)]
    /\ UNCHANGED <<events, seq, inst, made, emitted, log, pager>>

\* get_events by the paging agent, which passes back the last cursor it got.
\* What it can tell it missed: the numbers below the oldest event it is given,
\* or, given none, all up to the new cursor.
GetEvents ==
    LET got == { b.seq : b \in ReadSince(events, pager.cursor) } IN
    /\ inst # 0
    /\ pager' = [cursor |-> seq,
                 seen   |-> pager.seen \cup got,
                 again  |-> pager.again \cup (pager.seen \cap got),
                 missed |-> pager.missed \cup
                     { i \in (pager.cursor + 1)..seq : \A g \in got : i < g }]
    /\ UNCHANGED <<events, seq, call, inst, made, emitted, log>>

-----------------------------------------------------------------------------

Next ==
    \/ \E name \in EventName : Emit(name)
    \/ CreateInstance
    \/ InstanceGone
    \/ \E c \in Call, filter \in Filter, poll \in BOOLEAN :
          \/ \E since \in Cursors : WaitSince(c, filter, since, poll)
          \/ WaitFuture(c, filter, poll)
    \/ \E c \in Call : Expire(c)
    \/ GetEvents

Spec == Init /\ [][Next]_vars

\* A timer that is due is run: the event loop never blocks.
FairSpec == Spec /\ \A c \in Call : WF_vars(Expire(c))

-----------------------------------------------------------------------------

TypeOK ==
    /\ events \in Seq(BufferedEvent)
    /\ seq \in Nat
    /\ call \in [Call -> [pc : {"idle", "waiting", "matched", "timedOut"},
                          filter : Filter, from : Nat, cursor : Nat]]
    /\ inst \in Nat /\ made \in Nat /\ emitted \in Nat
    /\ log \in Seq(QmpEvent)
    /\ pager \in [cursor : Nat, seen : SUBSET Nat, again : SUBSET Nat,
                 missed : SUBSET Nat]

\* The ring is the newest part of the log: at most Capacity events, numbered
\* without a hole up to the cursor (append and its eviction loop).
RingIsWindow ==
    /\ Len(log) = seq
    /\ Len(events) <= Capacity
    /\ Len(events) <= seq
    /\ \A i \in 1..Len(events) :
          /\ events[i].seq = seq - Len(events) + i
          /\ events[i].ev = log[events[i].seq]

\* The buffer is sound as a whole: its types, and the ring that append keeps.
RingHolds == TypeOK /\ RingIsWindow

\* A wait that is still registered has slept through nothing it asked for, on
\* whichever path its events, its replay and its timer interleaved (waitFor).
NoSleepThrough ==
    \A c \in Call :
        call[c].pc = "waiting" =>
            /\ call[c].from <= seq
            /\ Feed!Silent(log, call[c].filter, call[c].from, seq)

\* A wait that timed out passes back a cursor that skips nothing it asked for:
\* an agent that pages on from it misses no matching event (expire, reset).
TimeoutMissesNothing ==
    \A c \in Call :
        call[c].pc = "timedOut" =>
            /\ call[c].cursor <= seq
            /\ Feed!Silent(log, call[c].filter, call[c].from, call[c].cursor)

\* A wait that was answered got the FIRST event it asked for (replay, fulfill).
MatchIsFirst ==
    \A c \in Call :
        call[c].pc = "matched" =>
            /\ call[c].cursor \in (call[c].from + 1)..seq
            /\ EventMatches(call[c].filter, log[call[c].cursor])
            /\ Feed!Silent(log, call[c].filter, call[c].from, call[c].cursor - 1)

\* A long-poll never lies, registered, timed out or answered: no event that it
\* asked for is slept through, skipped by its cursor, or passed over.
WaitsHonest == NoSleepThrough /\ TimeoutMissesNothing /\ MatchIsFirst

\* Events never bleed across Instances: what is retained comes from the
\* Instance that is up (unsubscribe, then reset; reset, then subscribe).
NoBleed == \A i \in 1..Len(events) : events[i].ev.from = inst

\* An agent that pages by cursor sees no event twice, and can account for every
\* number it did not see: a gap shows as a jump of the numbers, and what it is
\* told it missed is really no longer retained (get_events).
PagerAccountsForAll ==
    /\ pager.again = {}
    /\ pager.seen \cup pager.missed = 1..pager.cursor
    /\ pager.seen \cap pager.missed = {}
    /\ \A i \in pager.missed : i <= seq - Len(events)

\* No long-poll is left dangling.
EveryWaitEnds ==
    \A c \in Call : call[c].pc = "waiting" ~> call[c].pc # "waiting"

\* The buffer keeps the abstract promise.
ImplementsFeed == Feed!Spec

=============================================================================
