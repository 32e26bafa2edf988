----------------------------- MODULE EventBuffer -----------------------------
(***************************************************************************)
(* The Event Buffer's ring and its lookups, as the Rust server             *)
(* (rust/src/instance/event_buffer.rs) and the TypeScript server           *)
(* (typescript/src/instance/event-buffer.ts) both compute them.            *)
(*                                                                         *)
(* Every QMP async event gets the next sequence number; at most Capacity   *)
(* of them are retained, oldest first.  An event's name is all a filter    *)
(* looks at; its QMP payload is reduced to a tag that says which Instance  *)
(* emitted it and as its how-manieth event (no operator below reads the    *)
(* tag: it is what the properties are stated about).                       *)
(***************************************************************************)
EXTENDS Naturals, Sequences

CONSTANTS
    Capacity,   \* QMP_MCP_EVENT_BUFFER_SIZE
    EventName,  \* the QMP event names QEMU may emit
    AnyName     \* the absent filter: matches every event

ASSUME CapacityAssumption == Capacity \in Nat \ {0}
ASSUME AnyNameAssumption == AnyName \notin EventName

Filter == EventName \cup {AnyName}

\* What QEMU emits: a name, the Instance it comes from, its rank there.
QmpEvent == [event : EventName, from : Nat, rank : Nat]

BufferedEvent == [seq : Nat, ev : QmpEvent]

EventMatches(filter, ev) == filter = AnyName \/ ev.event = filter

\* Mutation of Pushed: the eviction drops the newest.
PushedEvictingNewest(ring, b) ==
    Append(IF Len(ring) < Capacity THEN ring ELSE SubSeq(ring, 1, Len(ring) - 1),
           b)

\* Stamp and append; a full ring loses its oldest event.  The code's loop
\* "while len > capacity, drop the front" runs at most once, because one event
\* is pushed onto a ring that was within its capacity.
Pushed(ring, b) ==
    Append(IF Len(ring) < Capacity THEN ring ELSE Tail(ring), b)

\* Mutation of ReadSince: the cursor itself is included.
ReadFrom(ring, since) ==
    { ring[i] : i \in { j \in 1..Len(ring) : ring[j].seq >= since } }

\* get_events: the retained events newer than the cursor.  Each carries its
\* number, so the set also says in which order they are returned.
ReadSince(ring, since) ==
    { ring[i] : i \in { j \in 1..Len(ring) : ring[j].seq > since } }

\* The positions of the retained events a cursor-based wait would accept ...
ReplayHits(ring, since, filter) ==
    { i \in 1..Len(ring) :
        ring[i].seq > since /\ EventMatches(filter, ring[i].ev) }

\* Mutation of FirstHit: the newest match instead of the oldest.
LastHit(ring, since, filter) ==
    ring[CHOOSE i \in ReplayHits(ring, since, filter) :
            \A j \in ReplayHits(ring, since, filter) : i >= j]

\* ... and the one it is answered with: the oldest.
FirstHit(ring, since, filter) ==
    ring[CHOOSE i \in ReplayHits(ring, since, filter) :
            \A j \in ReplayHits(ring, since, filter) : i <= j]

=============================================================================
