------------------------------ MODULE EventFeed ------------------------------
(***************************************************************************)
(* What the Event Buffer promises its callers, without rings, waiters or   *)
(* timers: a log of events, of which an ever longer prefix is forgotten,   *)
(* and long-polls that are answered against the log.                       *)
(*                                                                         *)
(* A wait remembers `from`: the last position it is NOT interested in (its *)
(* sinceCursor, or what was already forgotten if that is later, or, without *)
(* a cursor, the end of the log when it was made).  It ends either with    *)
(* the first matching event after `from`, or timed out with a cursor up to  *)
(* which nothing after `from` matches -- so that the agent may page on from *)
(* that cursor without having missed anything.                             *)
(***************************************************************************)
EXTENDS EventBuffer

CONSTANT Call   \* long-polls that may be outstanding at once

VARIABLES
    log,     \* every event ever captured
    floor,   \* how many of them are forgotten
    call     \* the long-polls

feedVars == <<log, floor, call>>

\* A long-poll: where it stands, its filter, the last position it is not
\* interested in and, once it ended, the cursor it gave back.
Wait(pc, filter, from, cursor) ==
    [pc |-> pc, filter |-> filter, from |-> from, cursor |-> cursor]

NoWait == Wait("idle", AnyName, 0, 0)
Waiting(filter, from) == Wait("waiting", filter, from, 0)
Matched(filter, from, i) == Wait("matched", filter, from, i)
TimedOut(filter, from, cursor) == Wait("timedOut", filter, from, cursor)

\* Nothing the wait would accept lies in log[from+1 .. to].
Silent(l, filter, from, to) ==
    \A i \in (from + 1)..to : ~ EventMatches(filter, l[i])

\* The answers a wait may get when the log is l.
Answers(l, filter, from) ==
    { Matched(filter, from, i) : i \in
        { k \in (from + 1)..Len(l) :
            EventMatches(filter, l[k]) /\ Silent(l, filter, from, k - 1) } }
    \cup
    { a \in { TimedOut(filter, from, Len(l)) } :
        Silent(l, filter, from, Len(l)) }

Init ==
    /\ log = <<>>
    /\ floor = 0
    /\ call = [c \in Call |-> NoWait]

\* What one step may do to one long-poll: nothing, answer it, or make a new
\* one (and perhaps answer it at once from the retained events).
CallStep(c) ==
    \/ call'[c] = call[c]
    \/ /\ call[c].pc = "waiting"
       /\ call'[c] \in Answers(log', call[c].filter, call[c].from)
    \/ /\ call[c].pc # "waiting"
       /\ \E filter \in Filter, from \in floor..Len(log) :
            call'[c] \in {Waiting(filter, from)} \cup Answers(log, filter, from)

\* One more event may be captured.
Captured ==
    /\ log' \in Seq(QmpEvent)
    /\ Len(log') = Len(log) + 1
    /\ \A i \in 1..Len(log) : log'[i] = log[i]

Next ==
    /\ log' = log \/ Captured
    /\ floor' \in floor..Len(log')
    /\ \A c \in Call : CallStep(c)
    /\ DOMAIN call' = Call

Spec == Init /\ [][Next]_feedVars

=============================================================================
