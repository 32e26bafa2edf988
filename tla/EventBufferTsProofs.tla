------------------------- MODULE EventBufferTsProofs -------------------------
(***************************************************************************)
(* Proofs about the TypeScript Event Buffer, for every capacity, every set  *)
(* of event names and any number of long-polls, events and Instances.       *)
(***************************************************************************)
EXTENDS EventBufferTs, Integers, FiniteSetTheorems, WellFoundedInduction, TLAPS

-----------------------------------------------------------------------------
(* The ring and its lookups, for every ring and every log: the ring is a     *)
(* window of the log, a push slides it, a replay finds the first match of    *)
(* the log after where the wait listens from, a page is what lies in the     *)
(* window above a cursor.                                                    *)

\* The ring is the newest part of the log l, numbered without a hole up to n.
IsWindow(ring, l, n) ==
    /\ Len(l) = n
    /\ Len(ring) <= Capacity
    /\ Len(ring) <= n
    /\ \A i \in 1..Len(ring) :
          /\ ring[i].seq = n - Len(ring) + i
          /\ ring[i].ev = l[ring[i].seq]

\* Nothing of l after `from` and up to `to` passes the filter.
Quiet(l, filter, from, to) ==
    \A i \in (from + 1)..to : ~ EventMatches(filter, l[i])

\* Where a wait with a cursor listens from: at the earliest, at the window.
ListensFrom(ring, n, since) ==
    IF since < n - Len(ring) THEN n - Len(ring) ELSE since

\* Every nonempty set of naturals has a least element: minimize the intervals
\* 0..k by strict inclusion, which is well-founded on finite sets.
LEMMA LeastExists ==
    ASSUME NEW T \in SUBSET Nat, T # {}
    PROVE  \E m \in T : \A n \in T : m <= n
<1> DEFINE F == { 0..k : k \in T }
<1>1. F \subseteq FiniteSubsetsOf(Nat)
    <2>1. \A k \in T : IsFiniteSet(0..k) BY FS_Interval
    <2>2. \A k \in T : 0..k \subseteq Nat OBVIOUS
    <2> QED BY <2>1, <2>2 DEF FiniteSubsetsOf
<1>2. F # {} OBVIOUS
<1>3. PICK x \in F : \A y \in F : ~ (<<y, x>> \in StrictSubsetOrdering(Nat))
    <2> HIDE DEF F
    <2> QED BY <1>1, <1>2, WFMin, FS_StrictSubsetOrderingWellFounded, Zenon
<1>4. PICK m \in T : x = 0..m OBVIOUS
<1>5. ASSUME NEW n \in T, n < m PROVE FALSE
    <2>1. 0..n \subseteq 0..m /\ m \in 0..m /\ m \notin 0..n BY <1>5
    <2>2. <<0..n, x>> \in StrictSubsetOrdering(Nat)
        <3>1. 0..n \in SUBSET Nat /\ 0..m \in SUBSET Nat OBVIOUS
        <3>2. 0..n # 0..m BY <2>1
        <3> QED BY <3>1, <3>2, <2>1, <1>4 DEF StrictSubsetOrdering
    <2> QED BY <1>3, <2>2
<1> QED BY <1>5

\* The oldest hit is a hit, and none is older.
LEMMA FirstHitIsOldest ==
    ASSUME NEW ring, NEW since, NEW filter,
           Len(ring) \in Nat,
           ReplayHits(ring, since, filter) # {}
    PROVE  \E i \in ReplayHits(ring, since, filter) :
              /\ FirstHit(ring, since, filter) = ring[i]
              /\ \A j \in ReplayHits(ring, since, filter) : i <= j
<1> DEFINE hits == ReplayHits(ring, since, filter)
<1>1. hits \in SUBSET Nat BY DEF ReplayHits
<1>2. \E i \in hits : \A j \in hits : i <= j BY <1>1, LeastExists
<1> QED BY <1>2 DEF FirstHit

\* Pushing keeps the newest events, in their order, and never grows past
\* Capacity.
LEMMA PushedShifts ==
    ASSUME NEW ring \in Seq(BufferedEvent), NEW b \in BufferedEvent,
           Len(ring) <= Capacity
    PROVE  LET full == Len(ring) = Capacity
               new  == Pushed(ring, b)
           IN /\ new \in Seq(BufferedEvent)
              /\ Len(new) = IF full THEN Len(ring) ELSE Len(ring) + 1
              /\ new[Len(new)] = b
              /\ \A i \in 1..(Len(new) - 1) :
                    new[i] = IF full THEN ring[i + 1] ELSE ring[i]
<1>1. CASE Len(ring) < Capacity
    BY <1>1, CapacityAssumption DEF Pushed
<1>2. CASE Len(ring) = Capacity
    BY <1>2, CapacityAssumption DEF Pushed
<1> QED BY <1>1, <1>2, CapacityAssumption

\* One more event slides the window over the log by one, and never back.
LEMMA PushSlidesWindow ==
    ASSUME NEW ring \in Seq(BufferedEvent), NEW l \in Seq(QmpEvent), NEW n \in Nat,
           IsWindow(ring, l, n), NEW b \in BufferedEvent, b.seq = n + 1,
           NEW ev \in QmpEvent, b.ev = ev
    PROVE  /\ Pushed(ring, b) \in Seq(BufferedEvent)
           /\ IsWindow(Pushed(ring, b), Append(l, ev), n + 1)
           /\ n - Len(ring) <= (n + 1) - Len(Pushed(ring, b))
<1> DEFINE next == Pushed(ring, b)
<1>3. /\ Len(l) = n /\ Len(ring) <= Capacity /\ Len(ring) <= n /\ Len(ring) \in Nat
    BY DEF IsWindow
<1>4. /\ Len(Append(l, ev)) = n + 1
      /\ Append(l, ev)[n + 1] = ev
      /\ \A i \in 1..n : Append(l, ev)[i] = l[i]
    BY <1>3
<1>5. DEFINE full == Len(ring) = Capacity
<1>6. /\ next \in Seq(BufferedEvent)
      /\ Len(next) = IF full THEN Len(ring) ELSE Len(ring) + 1
      /\ next[Len(next)] = b
      /\ \A i \in 1..(Len(next) - 1) :
            next[i] = IF full THEN ring[i + 1] ELSE ring[i]
    BY <1>3, PushedShifts
<1> HIDE DEF next
<1>7. Len(next) <= Capacity /\ Len(next) <= n + 1 /\ Len(next) \in Nat \ {0}
    BY <1>3, <1>6, CapacityAssumption
<1>8. ASSUME NEW i \in 1..Len(next)
      PROVE  /\ next[i].seq = (n + 1) - Len(next) + i
             /\ next[i].ev = Append(l, ev)[next[i].seq]
    <2>1. CASE i = Len(next)
        BY <1>3, <1>4, <1>6, <1>7, <2>1
    <2>2. CASE i # Len(next) /\ full
        <3>1. i + 1 \in 1..Len(ring) /\ next[i] = ring[i + 1]
            BY <1>6, <1>7, <2>2
        <3>2. ring[i + 1].seq = n - Len(ring) + (i + 1)
              /\ ring[i + 1].ev = l[ring[i + 1].seq]
            BY <3>1 DEF IsWindow
        <3>3. Len(next) = Len(ring)
            BY <1>6, <2>2
        <3>4. next[i].seq = (n + 1) - Len(next) + i /\ next[i].seq \in 1..n
            BY <1>3, <3>1, <3>2, <3>3
        <3> QED BY <1>4, <3>1, <3>2, <3>4
    <2>3. CASE i # Len(next) /\ ~ full
        <3>1. i \in 1..Len(ring) /\ next[i] = ring[i]
            BY <1>6, <1>7, <2>3, <1>3
        <3>2. ring[i].seq = n - Len(ring) + i
              /\ ring[i].ev = l[ring[i].seq]
            BY <3>1 DEF IsWindow
        <3> QED BY <1>3, <1>4, <1>6, <2>3, <3>1, <3>2
    <2> QED BY <2>1, <2>2, <2>3
<1>9. n - Len(ring) <= (n + 1) - Len(next)
    BY <1>3, <1>6
<1> HIDE DEF full
<1> QED BY <1>4, <1>6, <1>7, <1>8, <1>9 DEF IsWindow, next

\* A wait listens from a number that has been given out.
LEMMA ListensWithin ==
    ASSUME NEW ring \in Seq(BufferedEvent), NEW l, NEW n \in Nat,
           IsWindow(ring, l, n), NEW since \in 0..n
    PROVE  /\ ListensFrom(ring, n, since) \in 0..n
           /\ ListensFrom(ring, n, since) >= n - Len(ring)
           /\ ListensFrom(ring, n, since) >= since
           /\ n - Len(ring) \in Nat
BY DEF IsWindow, ListensFrom

\* A replayed event is the first of the log that the wait asked for.
LEMMA ReplayFindsNext ==
    ASSUME NEW ring \in Seq(BufferedEvent), NEW l, NEW n \in Nat,
           IsWindow(ring, l, n), NEW since \in 0..n, NEW filter,
           ReplayHits(ring, since, filter) # {},
           NEW from, from = ListensFrom(ring, n, since),
           NEW i, i = FirstHit(ring, since, filter).seq
    PROVE  /\ i \in (from + 1)..n
           /\ EventMatches(filter, l[i])
           /\ Quiet(l, filter, from, i - 1)
<1> DEFINE floor == n - Len(ring)
<1>1. Len(ring) \in Nat /\ floor \in Nat
    BY DEF IsWindow
<1>2. from \in 0..n /\ from >= floor /\ from >= since
    BY ListensWithin
<1>3. PICK k \in ReplayHits(ring, since, filter) :
         /\ FirstHit(ring, since, filter) = ring[k]
         /\ \A j \in ReplayHits(ring, since, filter) : k <= j
    BY <1>1, FirstHitIsOldest
<1>4. k \in 1..Len(ring) /\ ring[k].seq > since
          /\ EventMatches(filter, ring[k].ev)
    BY <1>3 DEF ReplayHits
<1>5. ring[k].seq = floor + k /\ ring[k].ev = l[floor + k]
    BY <1>4 DEF IsWindow
<1>6. floor + k \in (from + 1)..n
    <2>1. floor + k > from
        BY <1>1, <1>4, <1>5 DEF ListensFrom
    <2>2. floor + k <= n
        BY <1>1, <1>4
    <2> QED BY <1>1, <1>2, <1>4, <2>1, <2>2
<1>7. ASSUME NEW m \in (from + 1)..((floor + k) - 1),
             EventMatches(filter, l[m])
      PROVE  FALSE
    <2> DEFINE j == m - floor
    <2>1. j \in 1..Len(ring) /\ j < k
        <3>1. m \in Nat /\ m > from /\ m < floor + k BY <1>1, <1>2, <1>4
        <3> HIDE DEF floor
        <3>2. m > floor BY <1>1, <1>2, <3>1
        <3>3. j \in Nat /\ j >= 1 BY <1>1, <3>1, <3>2
        <3>4. j < k BY <1>1, <1>4, <3>1
        <3> QED BY <1>1, <1>4, <3>3, <3>4
    <2>2. ring[j].seq = m /\ ring[j].ev = l[m]
        <3>1. floor + j = m BY <1>1, <1>2
        <3> QED BY <1>1, <2>1, <3>1 DEF IsWindow
    <2>3. j \in ReplayHits(ring, since, filter)
        BY <1>2, <1>1, <1>7, <2>1, <2>2 DEF ReplayHits
    <2> QED BY <1>3, <2>1, <2>3, <1>1, <1>4
<1> HIDE DEF floor
<1>8. Quiet(l, filter, from, (floor + k) - 1)
    BY <1>7 DEF Quiet
<1>9. i = floor + k
    BY <1>3, <1>5
<1>10. EventMatches(filter, l[floor + k])
    BY <1>4, <1>5
<1> QED BY <1>6, <1>8, <1>9, <1>10

\* Where nothing is replayed, nothing retained is of interest.
LEMMA NoReplayIsQuiet ==
    ASSUME NEW ring \in Seq(BufferedEvent), NEW l, NEW n \in Nat,
           IsWindow(ring, l, n), NEW since \in 0..n, NEW filter,
           ReplayHits(ring, since, filter) = {}
    PROVE  Quiet(l, filter, ListensFrom(ring, n, since), n)
<1> DEFINE from == ListensFrom(ring, n, since)
           floor == n - Len(ring)
<1>1. Len(ring) \in Nat /\ floor \in Nat
    BY DEF IsWindow
<1>2. from \in 0..n /\ from >= floor /\ from >= since
    BY ListensWithin
<1>3. ASSUME NEW m \in (from + 1)..n, EventMatches(filter, l[m])
      PROVE  FALSE
    <2> HIDE DEF from
    <2> DEFINE j == m - floor
    <2>1. j \in 1..Len(ring)
        BY <1>1, <1>2
    <2>2. ring[j].seq = m /\ ring[j].ev = l[m]
        <3>1. n - Len(ring) + j = m
            BY <1>1, <1>2
        <3>2. /\ ring[j].seq = n - Len(ring) + j
              /\ ring[j].ev = l[ring[j].seq]
            BY <2>1 DEF IsWindow
        <3> HIDE DEF j, floor, from
        <3> QED BY <3>1, <3>2
    <2>3. j \in ReplayHits(ring, since, filter)
        BY <1>2, <1>1, <1>3, <2>1, <2>2 DEF ReplayHits
    <2> QED BY <2>3
<1> HIDE DEF from, floor
<1> QED BY <1>3 DEF from, Quiet

\* get_events returns exactly the retained numbers above the cursor.
LEMMA ReadSinceIsWindow ==
    ASSUME NEW ring \in Seq(BufferedEvent), NEW l, NEW n \in Nat,
           IsWindow(ring, l, n), NEW since \in Nat
    PROVE  { b.seq : b \in ReadSince(ring, since) } =
              { m \in Nat : m > since /\ m > n - Len(ring) /\ m <= n }
<1> DEFINE floor == n - Len(ring)
<1>1. Len(ring) \in Nat /\ floor \in Nat
    BY DEF IsWindow
<1>2. \A i \in 1..Len(ring) : ring[i].seq = floor + i
    BY DEF IsWindow
<1>3. \A m \in Nat : m > floor /\ m <= n => m - floor \in 1..Len(ring)
    BY <1>1
<1>4. ASSUME NEW m \in Nat, m > since, m > floor, m <= n
      PROVE  m \in { b.seq : b \in ReadSince(ring, since) }
    <2>1. m - floor \in 1..Len(ring) /\ ring[m - floor].seq = m
        BY <1>1, <1>2, <1>3, <1>4
    <2> QED BY <2>1, <1>4 DEF ReadSince
<1>5. ASSUME NEW m \in { b.seq : b \in ReadSince(ring, since) }
      PROVE  m \in Nat /\ m > since /\ m > floor /\ m <= n
    <2>1. PICK i \in 1..Len(ring) : m = ring[i].seq /\ m > since
        BY <1>5 DEF ReadSince
    <2> QED BY <1>1, <1>2, <2>1
<1> QED BY <1>4, <1>5

\* A later event does not change what the earlier part of the log says.
LEMMA QuietIsStable ==
    ASSUME NEW l \in Seq(QmpEvent), NEW ev \in QmpEvent, NEW filter,
           NEW from \in Nat, NEW to \in Int, to <= Len(l)
    PROVE  Quiet(Append(l, ev), filter, from, to) <=> Quiet(l, filter, from, to)
<1>1. \A i \in (from + 1)..to : Append(l, ev)[i] = l[i]
    OBVIOUS
<1> QED BY <1>1 DEF Quiet

\* What an agent has been shown and what it was told it missed are the numbers
\* up to its cursor, without overlap, and what it missed is out of reach.
Accounts(p, floor) ==
    /\ p.again = {}
    /\ p.seen \cup p.missed = 1..p.cursor
    /\ p.seen \cap p.missed = {}
    /\ \A i \in p.missed : i <= floor

\* One page moves what was seen, and what was missed, up to the cursor it
\* returns.
LEMMA PageAccounts ==
    ASSUME NEW ring \in Seq(BufferedEvent), NEW l, NEW n \in Nat,
           IsWindow(ring, l, n),
           NEW p \in [cursor : Nat, seen : SUBSET Nat, again : SUBSET Nat,
                      missed : SUBSET Nat],
           p.cursor <= n, Accounts(p, n - Len(ring)),
           NEW got, got = { b.seq : b \in ReadSince(ring, p.cursor) },
           NEW gone, gone = { i \in (p.cursor + 1)..n : \A g \in got : i < g },
           NEW q, q = [cursor |-> n, seen |-> p.seen \cup got,
                       again |-> p.again \cup (p.seen \cap got),
                       missed |-> p.missed \cup gone]
    PROVE  Accounts(q, n - Len(ring))
<1> DEFINE floor == n - Len(ring)
<1>1. /\ p.cursor \in Nat /\ floor \in Nat /\ floor <= n
      /\ p.seen \in SUBSET Nat /\ p.missed \in SUBSET Nat
    BY DEF IsWindow
<1>2. got = { m \in Nat : m > p.cursor /\ m > floor /\ m <= n }
    BY <1>1, ReadSinceIsWindow
<1>3. /\ p.again = {} /\ p.seen \cup p.missed = 1..p.cursor
      /\ p.seen \cap p.missed = {}
      /\ \A i \in p.missed : i <= floor
    BY DEF Accounts
<1> HIDE DEF floor
<1>4. gone = { m \in Nat : m > p.cursor /\ m <= floor }
    <2>1. ASSUME NEW i \in gone PROVE i \in Nat /\ i > p.cursor /\ i <= floor
        BY <1>1, <1>2, <2>1
    <2>2. ASSUME NEW i \in Nat, i > p.cursor, i <= floor PROVE i \in gone
        <3>1. i \in (p.cursor + 1)..n BY <1>1, <2>2
        <3>2. ASSUME NEW g \in got PROVE i < g
            <4>1. g \in Nat /\ g > floor BY <1>2
            <4> QED BY <1>1, <2>2, <4>1
        <3> QED BY <3>1, <3>2
    <2> QED BY <2>1, <2>2
<1>5. got \cup gone = (p.cursor + 1)..n /\ got \cap gone = {}
    BY <1>1, <1>2, <1>4
<1>6. got \cap (1..p.cursor) = {} /\ gone \cap (1..p.cursor) = {}
    BY <1>1, <1>2, <1>4
<1>7. (p.seen \cup got) \cup (p.missed \cup gone) = 1..n
    <2>1. (1..p.cursor) \cup ((p.cursor + 1)..n) = 1..n
        BY <1>1
    <2> QED BY <1>3, <1>5, <2>1
<1>8. /\ p.again \cup (p.seen \cap got) = {}
      /\ (p.seen \cup got) \cap (p.missed \cup gone) = {}
    BY <1>3, <1>5, <1>6
<1>9. \A i \in p.missed \cup gone : i <= floor
    BY <1>3, <1>4
<1>10. /\ q.cursor = n /\ q.seen = p.seen \cup got
       /\ q.again = p.again \cup (p.seen \cap got) /\ q.missed = p.missed \cup gone
    OBVIOUS
<1> QED BY <1>7, <1>8, <1>9, <1>10 DEF Accounts, floor

-----------------------------------------------------------------------------
\* The buffer's state in the terms of the lemmas about rings.

\* The invariant and the helpers of the buffer say what the lemmas speak of.
LEMMA InTermsOfTheRing ==
    /\ RingIsWindow <=> IsWindow(events, log, seq)
    /\ PagerAccountsForAll <=> Accounts(pager, seq - Len(events))
    /\ \A since : listenFrom(since) = ListensFrom(events, seq, since)
BY DEF RingIsWindow, IsWindow, PagerAccountsForAll, Accounts, listenFrom,
       ListensFrom

\* Where nothing matches, the promise's wait has slept through nothing.
LEMMA SilentIsQuiet ==
    ASSUME NEW l, NEW filter, NEW from, NEW to
    PROVE  Feed!Silent(l, filter, from, to) <=> Quiet(l, filter, from, to)
BY DEF Feed!Silent, Feed!EventMatches, Quiet, EventMatches

-----------------------------------------------------------------------------
\* Type correctness.

WaitType == [pc : {"idle", "waiting", "matched", "timedOut"},
             filter : Filter, from : Nat, cursor : Nat]

\* Every answer a wait can be given is of the type of a wait.
LEMMA WaitTypes ==
    ASSUME NEW filter \in Filter, NEW from \in Nat, NEW cursor \in Nat
    PROVE  /\ Feed!NoWait \in WaitType
           /\ Feed!Waiting(filter, from) \in WaitType
           /\ Feed!Matched(filter, from, cursor) \in WaitType
           /\ Feed!TimedOut(filter, from, cursor) \in WaitType
BY DEF WaitType, Filter, Feed!NoWait, Feed!Waiting, Feed!Matched,
       Feed!TimedOut, Feed!Wait

\* So is the wait that has not begun.
LEMMA NoWaitType == Feed!NoWait \in WaitType
BY DEF WaitType, Filter, Feed!NoWait, Feed!Wait

\* The two ways a registered long-poll is settled.
LEMMA SettledTypes ==
    ASSUME TypeOK, NEW c \in Call
    PROVE  expire(c) \in WaitType /\ fulfill(c) \in WaitType
<1>1. call[c].filter \in Filter /\ call[c].from \in Nat /\ seq \in Nat
    BY DEF TypeOK
<1> QED BY <1>1, WaitTypes DEF expire, fulfill

\* append keeps the types of the ring, of the counter and of the waits.
LEMMA AppendTypes ==
    ASSUME TypeOK, RingIsWindow, NEW ev \in QmpEvent, append(ev)
    PROVE  /\ events' \in Seq(BufferedEvent) /\ seq' \in Nat
           /\ call' \in [Call -> WaitType] /\ log' \in Seq(QmpEvent)
<1>1. [seq |-> seq + 1, ev |-> ev] \in BufferedEvent
    BY DEF TypeOK, BufferedEvent
<1>2. events' \in Seq(BufferedEvent)
    BY <1>1, PushedShifts DEF TypeOK, RingIsWindow, append
<1>3. call' \in [Call -> WaitType]
    BY SettledTypes DEF TypeOK, append, WaitType
<1> QED BY <1>2, <1>3 DEF TypeOK, append

\* One more event slides the window over the log by one.
LEMMA AppendSlidesWindow ==
    ASSUME TypeOK, RingIsWindow, NEW ev \in QmpEvent, append(ev)
    PROVE  RingIsWindow'
<1> DEFINE b == [seq |-> seq + 1, ev |-> ev]
<1>1. b \in BufferedEvent /\ b.seq = seq + 1 /\ b.ev = ev
    BY DEF TypeOK, BufferedEvent
<1>2. events' = Pushed(events, b) /\ seq' = seq + 1 /\ log' = Append(log, ev)
    BY DEF append
<1> HIDE DEF b
<1>3. IsWindow(events', log', seq')
    BY <1>1, <1>2, InTermsOfTheRing, PushSlidesWindow DEF TypeOK
<1> QED BY <1>3 DEF RingIsWindow, IsWindow

\* So does reset, with the ring and the waiters it leaves.
LEMMA ResetTypes ==
    ASSUME TypeOK, reset
    PROVE  /\ events' \in Seq(BufferedEvent) /\ seq' \in Nat
           /\ call' \in [Call -> WaitType] /\ log' \in Seq(QmpEvent)
<1>1. call' \in [Call -> WaitType]
    BY SettledTypes DEF TypeOK, reset, WaitType
<1> QED BY <1>1 DEF TypeOK, reset

\* After a reset the window is empty and the counter stays where it is.
LEMMA ResetEmptiesWindow ==
    ASSUME TypeOK, RingIsWindow, reset
    PROVE  RingIsWindow'
<1>1. Len(<<>>) = 0
    OBVIOUS
<1> QED BY <1>1, CapacityAssumption DEF TypeOK, RingIsWindow, reset

\* A replayed event is one of the log, newer than where the wait listens from.
LEMMA ReplayIsNext ==
    ASSUME TypeOK, RingIsWindow, NEW since \in Cursors, NEW filter \in Filter,
           ReplayHits(events, since, filter) # {},
           NEW from, from = listenFrom(since),
           NEW i, i = FirstHit(events, since, filter).seq
    PROVE  /\ i \in (from + 1)..seq
           /\ EventMatches(filter, log[i])
           /\ Feed!Silent(log, filter, from, i - 1)
<1>1. IsWindow(events, log, seq) /\ from = ListensFrom(events, seq, since)
    BY InTermsOfTheRing
<1>2. /\ i \in (from + 1)..seq
      /\ EventMatches(filter, log[i])
      /\ Quiet(log, filter, from, i - 1)
    BY <1>1, ReplayFindsNext DEF TypeOK, Cursors
<1> QED BY <1>2, SilentIsQuiet

\* Where nothing is replayed, nothing retained is of interest.
LEMMA NoReplayIsSilent ==
    ASSUME TypeOK, RingIsWindow, NEW since \in Cursors, NEW filter \in Filter,
           ReplayHits(events, since, filter) = {}
    PROVE  Feed!Silent(log, filter, listenFrom(since), seq)
<1>1. Quiet(log, filter, ListensFrom(events, seq, since), seq)
    BY InTermsOfTheRing, NoReplayIsQuiet DEF TypeOK, Cursors
<1> QED BY <1>1, InTermsOfTheRing, SilentIsQuiet

\* A wait listens from a number that has been given out.
LEMMA ListenFromBounds ==
    ASSUME TypeOK, RingIsWindow, NEW since \in Cursors
    PROVE  listenFrom(since) \in 0..seq
BY DEF TypeOK, RingIsWindow, Cursors, listenFrom

\* A wait that is answered from the ring, or registered, is of the type of a wait.
LEMMA WaitSinceTypes ==
    ASSUME TypeOK, RingIsWindow, NEW c \in Call, NEW filter \in Filter,
           NEW since \in Cursors, NEW poll \in BOOLEAN,
           WaitSince(c, filter, since, poll)
    PROVE  call' \in [Call -> WaitType]
<1> DEFINE from == listenFrom(since)
<1>1. from \in Nat /\ seq \in Nat
    BY ListenFromBounds DEF TypeOK
<1>2. CASE ReplayHits(events, since, filter) # {}
    <2>1. FirstHit(events, since, filter).seq \in Nat
        BY <1>1, <1>2, ReplayIsNext
    <2> QED BY <1>1, <1>2, <2>1, WaitTypes DEF WaitSince, TypeOK, WaitType
<1>3. CASE ReplayHits(events, since, filter) = {}
    BY <1>1, <1>3, WaitTypes DEF WaitSince, TypeOK, WaitType
<1> QED BY <1>2, <1>3

\* get_events returns exactly the retained numbers above the cursor.
LEMMA ReadSinceWindow ==
    ASSUME TypeOK, RingIsWindow, NEW since \in Nat
    PROVE  { b.seq : b \in ReadSince(events, since) } =
              { n \in Nat : n > since /\ n > seq - Len(events) /\ n <= seq }
<1>1. IsWindow(events, log, seq) /\ events \in Seq(BufferedEvent) /\ seq \in Nat
    BY InTermsOfTheRing DEF TypeOK
<1> QED BY <1>1, ReadSinceIsWindow

\* For every capacity and any number of waits: the ring holds exactly the newest
\* events of the log, at most Capacity of them, numbered without a hole
\* (EventBuffer.append and reset of the TypeScript server).
THEOREM TypeInvariant == Spec => [](TypeOK /\ RingIsWindow)
<1>1. Init => TypeOK /\ RingIsWindow
    <2>1. ASSUME Init PROVE call \in [Call -> WaitType]
        BY <2>1, NoWaitType DEF Init
    <2>2. <<>> \in Seq(BufferedEvent) /\ <<>> \in Seq(QmpEvent) /\ Len(<<>>) = 0
        OBVIOUS
    <2>3. ASSUME Init PROVE TypeOK
        BY <2>1, <2>2, <2>3 DEF Init, TypeOK, WaitType
    <2>4. ASSUME Init PROVE RingIsWindow
        BY <2>2, <2>4, CapacityAssumption DEF Init, RingIsWindow
    <2> QED BY <2>3, <2>4
<1>2. TypeOK /\ RingIsWindow /\ [Next]_vars => TypeOK' /\ RingIsWindow'
    <2> SUFFICES ASSUME TypeOK, RingIsWindow, [Next]_vars
                 PROVE  TypeOK' /\ RingIsWindow'
        OBVIOUS
    <2>1. ASSUME NEW name \in EventName, Emit(name)
          PROVE  TypeOK' /\ RingIsWindow'
        <3> DEFINE ev == [event |-> name, from |-> inst, rank |-> emitted + 1]
        <3>1. ev \in QmpEvent /\ append(ev)
            BY <2>1 DEF TypeOK, QmpEvent, Emit
        <3>2. TypeOK'
            BY <2>1, <3>1, AppendTypes DEF TypeOK, Emit, WaitType
        <3>3. RingIsWindow'
            BY <3>1, AppendSlidesWindow
        <3> QED BY <3>2, <3>3
    <2>2. CASE CreateInstance
        <3>1. reset
            BY <2>2 DEF CreateInstance
        <3>2. TypeOK'
            BY <2>2, <3>1, ResetTypes DEF CreateInstance, TypeOK, WaitType
        <3> QED BY <3>1, <3>2, ResetEmptiesWindow
    <2>3. CASE InstanceGone
        <3>1. reset
            BY <2>3 DEF InstanceGone
        <3>2. TypeOK'
            BY <2>3, <3>1, ResetTypes DEF InstanceGone, TypeOK, WaitType
        <3> QED BY <3>1, <3>2, ResetEmptiesWindow
    <2>4. ASSUME NEW c \in Call, NEW filter \in Filter, NEW poll \in BOOLEAN,
                 NEW since \in Cursors, WaitSince(c, filter, since, poll)
          PROVE  TypeOK' /\ RingIsWindow'
        <3>1. call' \in [Call -> WaitType]
            BY <2>4, WaitSinceTypes
        <3>2. UNCHANGED <<events, seq, inst, made, emitted, log, pager>>
            BY <2>4 DEF WaitSince
        <3> QED BY <3>1, <3>2 DEF TypeOK, RingIsWindow, WaitType
    <2>5. ASSUME NEW c \in Call, NEW filter \in Filter, NEW poll \in BOOLEAN,
                 WaitFuture(c, filter, poll)
          PROVE  TypeOK' /\ RingIsWindow'
        <3>1. call' \in [Call -> WaitType]
            BY <2>5, WaitTypes DEF WaitFuture, TypeOK, WaitType
        <3> QED BY <2>5, <3>1 DEF WaitFuture, TypeOK, RingIsWindow, WaitType
    <2>6. ASSUME NEW c \in Call, Expire(c) PROVE TypeOK' /\ RingIsWindow'
        <3>1. call' \in [Call -> WaitType]
            BY <2>6, SettledTypes DEF Expire, TypeOK, WaitType
        <3> QED BY <2>6, <3>1 DEF Expire, TypeOK, RingIsWindow, WaitType
    <2>7. CASE GetEvents
        <3>1. pager' \in [cursor : Nat, seen : SUBSET Nat, again : SUBSET Nat,
                          missed : SUBSET Nat]
            BY <2>7, ReadSinceWindow DEF GetEvents, TypeOK
        <3> QED BY <2>7, <3>1 DEF GetEvents, TypeOK, RingIsWindow
    <2>8. CASE UNCHANGED vars
        BY <2>8 DEF vars, TypeOK, RingIsWindow
    <2> QED BY <2>1, <2>2, <2>3, <2>4, <2>5, <2>6, <2>7, <2>8 DEF Next
<1> QED BY <1>1, <1>2, PTL DEF Spec

-----------------------------------------------------------------------------
\* What the long-polls are answered.

\* The three properties of one long-poll w, when the log is l and the cursor n.
Honest(w, l, n) ==
    /\ w.pc = "waiting" =>
          w.from <= n /\ Feed!Silent(l, w.filter, w.from, n)
    /\ w.pc = "timedOut" =>
          w.cursor <= n /\ Feed!Silent(l, w.filter, w.from, w.cursor)
    /\ w.pc = "matched" =>
          /\ w.cursor \in (w.from + 1)..n
          /\ EventMatches(w.filter, l[w.cursor])
          /\ Feed!Silent(l, w.filter, w.from, w.cursor - 1)

AllHonest == \A c \in Call : Honest(call[c], log, seq)

\* What is proved inductive of each wait says what the three properties say.
LEMMA HonestAnswers ==
    AllHonest => NoSleepThrough /\ TimeoutMissesNothing /\ MatchIsFirst
BY DEF AllHonest, Honest, NoSleepThrough, TimeoutMissesNothing, MatchIsFirst

\* A later event does not change what the earlier part of the log says.
LEMMA SilentIsStable ==
    ASSUME NEW l \in Seq(QmpEvent), NEW ev \in QmpEvent, NEW filter \in Filter,
           NEW from \in Nat, NEW to \in Int, to <= Len(l)
    PROVE  Feed!Silent(Append(l, ev), filter, from, to)
              <=> Feed!Silent(l, filter, from, to)
BY QuietIsStable, SilentIsQuiet

\* So an answer that was honest stays honest.
LEMMA AnswerStaysHonest ==
    ASSUME NEW l \in Seq(QmpEvent), NEW ev \in QmpEvent, NEW w \in WaitType,
           w.pc # "waiting", Honest(w, l, Len(l))
    PROVE  Honest(w, Append(l, ev), Len(l) + 1)
<1>1. /\ w.filter \in Filter /\ w.from \in Nat /\ w.cursor \in Nat
      /\ w.pc \in {"idle", "matched", "timedOut"}
    BY DEF WaitType
<1>2. CASE w.pc = "timedOut"
    <2>1. w.cursor <= Len(l) /\ Feed!Silent(l, w.filter, w.from, w.cursor)
        BY <1>2 DEF Honest
    <2>2. Feed!Silent(Append(l, ev), w.filter, w.from, w.cursor)
        BY <1>1, <2>1, SilentIsStable
    <2> QED BY <1>1, <1>2, <2>1, <2>2 DEF Honest
<1>3. CASE w.pc = "matched"
    <2>1. /\ w.cursor \in (w.from + 1)..Len(l)
          /\ EventMatches(w.filter, l[w.cursor])
          /\ Feed!Silent(l, w.filter, w.from, w.cursor - 1)
        BY <1>3 DEF Honest
    <2>2. Feed!Silent(Append(l, ev), w.filter, w.from, w.cursor - 1)
        BY <1>1, <2>1, SilentIsStable
    <2>3. Append(l, ev)[w.cursor] = l[w.cursor]
        BY <1>1, <2>1
    <2> QED BY <1>1, <1>3, <2>1, <2>2, <2>3 DEF Honest
<1> QED BY <1>1, <1>2, <1>3 DEF Honest

\* append: a matching waiter gets the first event it asked for, any other has
\* still slept through nothing.
LEMMA AppendHonest ==
    ASSUME TypeOK, RingIsWindow, AllHonest, NEW ev \in QmpEvent, append(ev)
    PROVE  AllHonest'
<1>1. /\ seq \in Nat /\ log \in Seq(QmpEvent) /\ Len(log) = seq
      /\ seq' = seq + 1 /\ log' = Append(log, ev)
    BY DEF TypeOK, RingIsWindow, append
<1>2. SUFFICES ASSUME NEW c \in Call PROVE Honest(call'[c], log', seq')
    BY DEF AllHonest
<1>3. /\ call[c] \in WaitType /\ Honest(call[c], log, seq)
      /\ call[c].filter \in Filter /\ call[c].from \in Nat
    BY DEF TypeOK, WaitType, AllHonest
<1>4. CASE c \notin Waiters
    <2>1. call'[c] = call[c] /\ call[c].pc # "waiting"
        BY <1>4 DEF append, Waiters
    <2> QED BY <1>1, <1>3, <2>1, AnswerStaysHonest
<1>5. CASE c \in Waiters
    <2>1. /\ call[c].from <= seq
          /\ Feed!Silent(log, call[c].filter, call[c].from, seq)
        BY <1>3, <1>5 DEF Honest, Waiters
    <2>2. Feed!Silent(log', call[c].filter, call[c].from, seq)
        BY <1>1, <1>3, <2>1, SilentIsStable
    <2>3. log'[seq + 1] = ev
        BY <1>1
    <2>4. CASE EventMatches(call[c].filter, ev)
        <3>1. call'[c] = Feed!Matched(call[c].filter, call[c].from, seq + 1)
            BY <1>5, <2>4 DEF append, fulfill
        <3> QED BY <1>1, <1>3, <2>1, <2>2, <2>3, <2>4, <3>1
                DEF Honest, Feed!Matched, Feed!Wait
    <2>5. CASE ~ EventMatches(call[c].filter, ev)
        <3>1. call'[c] = call[c] /\ call[c].pc = "waiting"
            BY <1>5, <2>5 DEF append, Waiters
        <3>2. Feed!Silent(log', call[c].filter, call[c].from, seq + 1)
            <4>1. ~ Feed!EventMatches(call[c].filter, log'[seq + 1])
                BY <2>3, <2>5 DEF EventMatches, Feed!EventMatches
            <4> QED BY <1>1, <1>3, <2>2, <4>1 DEF Feed!Silent
        <3> QED BY <1>1, <1>3, <2>1, <3>1, <3>2 DEF Honest
    <2> QED BY <2>4, <2>5
<1> QED BY <1>4, <1>5

\* A waiter that is settled without an event is told how far the log goes.
LEMMA ExpireHonest ==
    ASSUME TypeOK, AllHonest, NEW c \in Waiters
    PROVE  Honest(expire(c), log, seq)
<1>1. c \in Call /\ call[c].pc = "waiting" /\ seq \in Nat
    BY DEF Waiters, TypeOK
<1> QED BY <1>1 DEF AllHonest, Honest, expire, Feed!TimedOut, Feed!Wait

\* reset settles every waiter, each of them honestly.
LEMMA ResetHonest ==
    ASSUME TypeOK, AllHonest, reset
    PROVE  AllHonest'
BY ExpireHonest DEF AllHonest, reset, TypeOK

\* A wait with a cursor gets the first event after it that it asked for, or
\* listens from the cursor, having passed over nothing.
LEMMA WaitSinceHonest ==
    ASSUME TypeOK, RingIsWindow, AllHonest,
           NEW c \in Call, NEW filter \in Filter, NEW poll \in BOOLEAN,
           NEW since \in Cursors, WaitSince(c, filter, since, poll)
    PROVE  AllHonest'
<1> DEFINE from == listenFrom(since)
<1>1. from \in 0..seq /\ seq \in Nat
    BY ListenFromBounds DEF TypeOK
<1>2. seq' = seq /\ log' = log
    BY DEF WaitSince
<1>3. ASSUME NEW d \in Call, d # c PROVE Honest(call'[d], log', seq')
    BY <1>2, <1>3 DEF AllHonest, WaitSince, TypeOK
<1>4. Honest(call'[c], log', seq')
    <2>1. CASE ReplayHits(events, since, filter) # {}
        <3> DEFINE i == FirstHit(events, since, filter).seq
        <3>1. call'[c] = Feed!Matched(filter, from, i)
            BY <2>1 DEF WaitSince, TypeOK
        <3>2. /\ i \in (from + 1)..seq
              /\ EventMatches(filter, log[i])
              /\ Feed!Silent(log, filter, from, i - 1)
            BY <2>1, ReplayIsNext
        <3> HIDE DEF i, from
        <3> QED BY <1>2, <3>1, <3>2 DEF Honest, Feed!Matched, Feed!Wait
    <2>2. CASE ReplayHits(events, since, filter) = {}
        <3>1. Feed!Silent(log, filter, from, seq)
            BY <2>2, NoReplayIsSilent
        <3>2. call'[c] \in {Feed!TimedOut(filter, from, seq),
                            Feed!Waiting(filter, from)}
            BY <2>2 DEF WaitSince, TypeOK
        <3> HIDE DEF from
        <3> QED BY <1>1, <1>2, <3>1, <3>2
                DEF Honest, Feed!TimedOut, Feed!Waiting, Feed!Wait
    <2> QED BY <2>1, <2>2
<1> QED BY <1>3, <1>4 DEF AllHonest

\* A wait without a cursor listens from the newest event.
LEMMA WaitFutureHonest ==
    ASSUME TypeOK, AllHonest,
           NEW c \in Call, NEW filter \in Filter, NEW poll \in BOOLEAN,
           WaitFuture(c, filter, poll)
    PROVE  AllHonest'
<1>1. seq \in Nat /\ seq' = seq /\ log' = log
    BY DEF TypeOK, WaitFuture
<1>2. ASSUME NEW d \in Call, d # c PROVE Honest(call'[d], log', seq')
    BY <1>1, <1>2 DEF AllHonest, WaitFuture, TypeOK
<1>3. Honest(call'[c], log', seq')
    <2>1. Feed!Silent(log, filter, seq, seq)
        BY <1>1 DEF Feed!Silent
    <2>2. call'[c] \in {Feed!TimedOut(filter, seq, seq),
                        Feed!Waiting(filter, seq)}
        BY DEF WaitFuture, TypeOK
    <2> QED BY <1>1, <2>1, <2>2
            DEF Honest, Feed!TimedOut, Feed!Waiting, Feed!Wait
<1> QED BY <1>2, <1>3 DEF AllHonest

\* What is proved inductive holds, with the window it rests on.
LEMMA AllHonestHolds == Spec => [](TypeOK /\ RingIsWindow /\ AllHonest)
<1>1. Init => AllHonest
    BY DEF Init, AllHonest, Honest, Feed!NoWait, Feed!Wait
<1>2. TypeOK /\ RingIsWindow /\ AllHonest /\ [Next]_vars => AllHonest'
    <2> SUFFICES ASSUME TypeOK, RingIsWindow, AllHonest, [Next]_vars
                 PROVE  AllHonest'
        OBVIOUS
    <2>1. ASSUME NEW name \in EventName, Emit(name) PROVE AllHonest'
        <3> DEFINE ev == [event |-> name, from |-> inst, rank |-> emitted + 1]
        <3>1. ev \in QmpEvent /\ append(ev)
            BY <2>1 DEF TypeOK, QmpEvent, Emit
        <3> QED BY <3>1, AppendHonest
    <2>2. CASE CreateInstance
        BY <2>2, ResetHonest DEF CreateInstance
    <2>3. CASE InstanceGone
        BY <2>3, ResetHonest DEF InstanceGone
    <2>4. ASSUME NEW c \in Call, NEW filter \in Filter, NEW poll \in BOOLEAN,
                 NEW since \in Cursors, WaitSince(c, filter, since, poll)
          PROVE  AllHonest'
        BY <2>4, WaitSinceHonest
    <2>5. ASSUME NEW c \in Call, NEW filter \in Filter, NEW poll \in BOOLEAN,
                 WaitFuture(c, filter, poll)
          PROVE  AllHonest'
        BY <2>5, WaitFutureHonest
    <2>6. ASSUME NEW c \in Call, Expire(c) PROVE AllHonest'
        BY <2>6, ExpireHonest DEF Expire, AllHonest, TypeOK
    <2>7. CASE GetEvents
        BY <2>7 DEF GetEvents, AllHonest
    <2>8. CASE UNCHANGED vars
        BY <2>8 DEF vars, AllHonest
    <2> QED BY <2>1, <2>2, <2>3, <2>4, <2>5, <2>6, <2>7, <2>8 DEF Next
<1> QED BY <1>1, <1>2, TypeInvariant, PTL DEF Spec

\* For every capacity and any number of long-polls: a registered wait has slept
\* through nothing, a timed-out one passes back a cursor that skips nothing, an
\* answered one got the first event it asked for (EventBuffer.append, waitFor
\* and reset of the TypeScript server).
THEOREM WaitsAreHonest ==
    Spec => [](NoSleepThrough /\ TimeoutMissesNothing /\ MatchIsFirst)
<1>1. AllHonest => NoSleepThrough /\ TimeoutMissesNothing /\ MatchIsFirst
    BY HonestAnswers
<1> QED BY <1>1, AllHonestHolds, PTL

-----------------------------------------------------------------------------
\* What a paging agent sees.

\* One page of get_events moves what was seen, and what was missed, up to the
\* cursor it returns.
LEMMA GetEventsAccounts ==
    ASSUME TypeOK, RingIsWindow, PagerAccountsForAll, pager.cursor <= seq,
           GetEvents
    PROVE  PagerAccountsForAll'
<1>1. /\ pager' = [cursor |-> seq,
                    seen   |-> pager.seen \cup { b.seq : b \in ReadSince(events, pager.cursor) },
                    again  |-> pager.again \cup
                        (pager.seen \cap { b.seq : b \in ReadSince(events, pager.cursor) }),
                    missed |-> pager.missed \cup
                        { i \in (pager.cursor + 1)..seq :
                            \A g \in { b.seq : b \in ReadSince(events, pager.cursor) } : i < g }]
      /\ seq' = seq /\ events' = events
    BY DEF GetEvents
<1>2. Accounts(pager', seq - Len(events))
    BY <1>1, InTermsOfTheRing, PageAccounts DEF TypeOK
<1> QED BY <1>1, <1>2 DEF PagerAccountsForAll, Accounts

\* The floor of the window never falls, so what was missed stays out of reach.
LEMMA WindowMovesOn ==
    ASSUME TypeOK, RingIsWindow, PagerAccountsForAll, pager.cursor <= seq,
           [Next]_vars, ~ GetEvents
    PROVE  PagerAccountsForAll' /\ pager'.cursor <= seq'
<1>1. /\ seq \in Nat /\ Len(events) \in Nat /\ Len(events) <= seq
      /\ pager.cursor \in Nat /\ pager.missed \in SUBSET Nat
      /\ Len(events) <= Capacity /\ events \in Seq(BufferedEvent)
    BY DEF TypeOK, RingIsWindow
<1>2. /\ pager' = pager /\ seq' \in Nat /\ seq <= seq' /\ Len(events') \in Nat
      /\ seq - Len(events) <= seq' - Len(events')
    <2>1. ASSUME NEW name \in EventName, Emit(name) PROVE <1>2!:
        <3> DEFINE ev == [event |-> name, from |-> inst, rank |-> emitted + 1]
                   b  == [seq |-> seq + 1, ev |-> ev]
        <3>1. ev \in QmpEvent /\ b \in BufferedEvent
            BY <2>1 DEF TypeOK, QmpEvent, BufferedEvent
        <3>2. events' = Pushed(events, b) /\ seq' = seq + 1 /\ pager' = pager
            BY <2>1 DEF Emit, append
        <3> HIDE DEF b
        <3> QED BY <1>1, <3>1, <3>2, PushedShifts
    <2>2. CASE reset /\ UNCHANGED pager
        <3>1. Len(<<>>) = 0 OBVIOUS
        <3> QED BY <1>1, <2>2, <3>1 DEF reset
    <2>3. CASE UNCHANGED <<events, seq, pager>>
        BY <1>1, <2>3
    <2> QED BY <2>1, <2>2, <2>3
            DEF Next, CreateInstance, InstanceGone, WaitSince, WaitFuture,
                Expire, vars
<1>3. \A i \in pager.missed : i <= seq' - Len(events')
    BY <1>1, <1>2 DEF PagerAccountsForAll
<1> QED BY <1>1, <1>2, <1>3 DEF PagerAccountsForAll

\* For every capacity: an agent that pages by cursor sees no event twice and
\* can account for every number it did not see (get_events over the ring).
THEOREM PagingAccountsForAll == Spec => []PagerAccountsForAll
<1> DEFINE I == PagerAccountsForAll /\ pager.cursor <= seq
<1>1. Init => I
    BY DEF Init, PagerAccountsForAll
<1>2. TypeOK /\ RingIsWindow /\ I /\ [Next]_vars => I'
    <2>1. ASSUME TypeOK, RingIsWindow, I, GetEvents PROVE I'
        <3>1. pager'.cursor = seq' /\ seq' \in Nat
            BY <2>1 DEF GetEvents, TypeOK
        <3> QED BY <2>1, <3>1, GetEventsAccounts
    <2>2. ASSUME TypeOK, RingIsWindow, I, [Next]_vars, ~ GetEvents PROVE I'
        BY <2>2, WindowMovesOn
    <2> QED BY <2>1, <2>2
<1> QED BY <1>1, <1>2, TypeInvariant, PTL DEF Spec

-----------------------------------------------------------------------------
\* What one Instance leaves to the next.

\* For every capacity and any number of Instances: the ring only ever holds
\* events of the Instance that is up (the order of unsubscribe, reset and
\* subscribe in createInstance, destroyInstance and #onProcessExit).
THEOREM EventsNeverBleed == Spec => []NoBleed
<1>1. Init => NoBleed
    BY DEF Init, NoBleed
<1>2. TypeOK /\ RingIsWindow /\ NoBleed /\ [Next]_vars => NoBleed'
    <2> SUFFICES ASSUME TypeOK, RingIsWindow, NoBleed, [Next]_vars
                 PROVE  NoBleed'
        OBVIOUS
    <2>1. ASSUME NEW name \in EventName, Emit(name) PROVE NoBleed'
        <3> DEFINE ev == [event |-> name, from |-> inst, rank |-> emitted + 1]
                   b  == [seq |-> seq + 1, ev |-> ev]
        <3>1. ev \in QmpEvent /\ b \in BufferedEvent /\ b.ev.from = inst
            BY <2>1 DEF TypeOK, QmpEvent, BufferedEvent
        <3>2. events' = Pushed(events, b) /\ inst' = inst
            BY <2>1 DEF Emit, append
        <3> HIDE DEF b
        <3>3. \A i \in 1..Len(events') :
                  events'[i] = b \/ \E j \in 1..Len(events) : events'[i] = events[j]
            <4>1. events \in Seq(BufferedEvent) /\ Len(events) <= Capacity
                BY DEF TypeOK, RingIsWindow
            <4> QED BY <3>1, <3>2, <4>1, CapacityAssumption DEF Pushed
        <3> QED BY <3>1, <3>2, <3>3 DEF NoBleed
    <2>2. CASE reset
        <3>1. Len(<<>>) = 0 OBVIOUS
        <3> QED BY <2>2, <3>1 DEF reset, NoBleed
    <2>3. CASE UNCHANGED <<events, inst>>
        BY <2>3 DEF NoBleed
    <2> QED BY <2>1, <2>2, <2>3
            DEF Next, CreateInstance, InstanceGone, WaitSince, WaitFuture,
                Expire, GetEvents, vars
<1> QED BY <1>1, <1>2, TypeInvariant, PTL DEF Spec

-----------------------------------------------------------------------------
\* The properties of the runs, under the names the runs check.

\* The ring is at every moment the window of the numbered events that the code
\* means it to be, in its types and bounds (push of EventBuffer).
THEOREM RingIsSound == Spec => []RingHolds
<1>1. TypeOK /\ RingIsWindow => RingHolds BY DEF RingHolds
<1> QED BY <1>1, TypeInvariant, PTL

\* A wait of waitForEvent answers with the first match, sleeps through none and
\* times out only when there was none, with any number of callers.
THEOREM WaitsStayHonest == Spec => []WaitsHonest
<1>1. NoSleepThrough /\ TimeoutMissesNothing /\ MatchIsFirst => WaitsHonest
    BY DEF WaitsHonest
<1> QED BY <1>1, WaitsAreHonest, PTL

-----------------------------------------------------------------------------
\* The buffer keeps the abstract promise.

\* The answers the promise allows, in the words of the ring.
LEMMA AllowedAnswers ==
    ASSUME NEW l \in Seq(QmpEvent), NEW filter \in Filter, NEW from \in Nat
    PROVE  /\ Quiet(l, filter, from, Len(l)) =>
                 Feed!TimedOut(filter, from, Len(l)) \in Feed!Answers(l, filter, from)
           /\ \A i \in (from + 1)..Len(l) :
                 EventMatches(filter, l[i]) /\ Quiet(l, filter, from, i - 1) =>
                    Feed!Matched(filter, from, i) \in Feed!Answers(l, filter, from)
<1>1. ASSUME Quiet(l, filter, from, Len(l))
      PROVE  Feed!TimedOut(filter, from, Len(l)) \in Feed!Answers(l, filter, from)
    <2>1. Feed!Silent(l, filter, from, Len(l))
        BY <1>1, SilentIsQuiet
    <2> QED BY <2>1 DEF Feed!Answers
<1>2. ASSUME NEW i \in (from + 1)..Len(l), EventMatches(filter, l[i]),
             Quiet(l, filter, from, i - 1)
      PROVE  Feed!Matched(filter, from, i) \in Feed!Answers(l, filter, from)
    <2>1. Feed!Silent(l, filter, from, i - 1) /\ Feed!EventMatches(filter, l[i])
        BY <1>2, SilentIsQuiet DEF EventMatches, Feed!EventMatches
    <2> QED BY <2>1 DEF Feed!Answers
<1> QED BY <1>1, <1>2

\* A step that leaves the log may forget more of it and answer or make waits, each
\* as the promise allows.
LEMMA QuietStep ==
    ASSUME TypeOK, RingIsWindow, UNCHANGED <<log, seq>>,
           Len(events') \in Nat, Len(events') <= Len(events),
           call' \in [Call -> WaitType],
           \A c \in Call : Feed!CallStep(c)
    PROVE  Feed!Next
<1>1. /\ Len(log) = seq /\ seq \in Nat /\ Len(events) \in Nat /\ Len(events) <= seq
    BY DEF TypeOK, RingIsWindow
<1>2. seq' - Len(events') \in (seq - Len(events))..Len(log')
    BY <1>1
<1>3. DOMAIN call' = Call
    OBVIOUS
<1> QED BY <1>2, <1>3 DEF Feed!Next

\* append captures one event, and answers those it is the first match of.
LEMMA AppendIsCaptured ==
    ASSUME TypeOK, RingIsWindow, AllHonest, NEW ev \in QmpEvent, append(ev)
    PROVE  Feed!Next
<1>1. /\ seq \in Nat /\ log \in Seq(QmpEvent) /\ Len(log) = seq
      /\ seq' = seq + 1 /\ log' = Append(log, ev)
      /\ events \in Seq(BufferedEvent) /\ Len(events) \in Nat /\ Len(events) <= seq
    BY DEF TypeOK, RingIsWindow, append
<1>2. /\ log' \in Seq(QmpEvent) /\ Len(log') = seq + 1 /\ log'[seq + 1] = ev
      /\ \A i \in 1..Len(log) : log'[i] = log[i]
    BY <1>1
<1>3. Feed!Captured
    <2>1. log' \in Seq(Feed!QmpEvent)
        BY <1>2 DEF QmpEvent, Feed!QmpEvent
    <2> QED BY <1>1, <1>2, <2>1 DEF Feed!Captured
<1>4. seq' - Len(events') \in (seq - Len(events))..Len(log')
    <2> DEFINE b == [seq |-> seq + 1, ev |-> ev]
    <2>1. b \in BufferedEvent /\ b.seq = seq + 1 /\ b.ev = ev
        BY <1>1 DEF BufferedEvent
    <2>2. events' = Pushed(events, b)
        BY DEF append
    <2> HIDE DEF b
    <2>3. /\ events' \in Seq(BufferedEvent) /\ IsWindow(events', log', seq + 1)
          /\ seq - Len(events) <= (seq + 1) - Len(events')
        BY <1>1, <2>1, <2>2, InTermsOfTheRing, PushSlidesWindow
    <2>4. Len(events') \in Nat /\ Len(events') <= seq + 1
        BY <2>3 DEF IsWindow
    <2> QED BY <1>1, <1>2, <2>3, <2>4
<1>5. ASSUME NEW c \in Call PROVE Feed!CallStep(c)
    <2>1. /\ call[c] \in WaitType /\ Honest(call[c], log, seq)
          /\ call[c].filter \in Filter /\ call[c].from \in Nat
        BY DEF TypeOK, WaitType, AllHonest
    <2>2. CASE ~ (c \in Waiters /\ EventMatches(call[c].filter, ev))
        <3>1. call'[c] = call[c]
            BY <2>2 DEF append
        <3> QED BY <3>1 DEF Feed!CallStep
    <2>3. CASE c \in Waiters /\ EventMatches(call[c].filter, ev)
        <3>1. call'[c] = Feed!Matched(call[c].filter, call[c].from, seq + 1)
            BY <2>3 DEF append, fulfill
        <3>2. call[c].pc = "waiting" /\ call[c].from <= seq
              /\ Quiet(log, call[c].filter, call[c].from, seq)
            BY <2>1, <2>3, SilentIsQuiet DEF Honest, Waiters
        <3>3. Quiet(log', call[c].filter, call[c].from, seq)
            BY <1>1, <2>1, <3>2, QuietIsStable
        <3>4. /\ seq + 1 \in (call[c].from + 1)..Len(log')
              /\ (seq + 1) - 1 = seq
            BY <1>1, <1>2, <2>1, <3>2
        <3>5. Feed!Matched(call[c].filter, call[c].from, seq + 1)
                 \in Feed!Answers(log', call[c].filter, call[c].from)
            BY <1>2, <2>1, <2>3, <3>3, <3>4, AllowedAnswers
        <3> QED BY <3>1, <3>2, <3>5 DEF Feed!CallStep
    <2> QED BY <2>2, <2>3
<1>6. DOMAIN call' = Call
    BY DEF append
<1> QED BY <1>3, <1>4, <1>5, <1>6 DEF Feed!Next

\* A wait that is settled without an event ends as the promise allows.
LEMMA ExpireIsAllowed ==
    ASSUME TypeOK, RingIsWindow, AllHonest, NEW c \in Waiters, log' = log,
           call'[c] = expire(c)
    PROVE  Feed!CallStep(c)
<1>1. /\ c \in Call /\ call[c].pc = "waiting" /\ Honest(call[c], log, seq)
      /\ call[c].filter \in Filter /\ call[c].from \in Nat
      /\ Len(log) = seq /\ log \in Seq(QmpEvent)
    BY DEF Waiters, TypeOK, RingIsWindow, AllHonest
<1>2. Quiet(log, call[c].filter, call[c].from, seq)
    BY <1>1, SilentIsQuiet DEF Honest
<1>3. Feed!TimedOut(call[c].filter, call[c].from, seq)
         \in Feed!Answers(log, call[c].filter, call[c].from)
    BY <1>1, <1>2, AllowedAnswers
<1> QED BY <1>1, <1>3 DEF Feed!CallStep, expire

\* reset forgets the whole log, and every wait ends.
LEMMA ResetIsAllowed ==
    ASSUME TypeOK, RingIsWindow, AllHonest, reset
    PROVE  Feed!Next
<1>1. ASSUME NEW c \in Call PROVE Feed!CallStep(c)
    <2>1. CASE c \in Waiters
        <3>1. call'[c] = expire(c) /\ log' = log
            BY <2>1 DEF reset
        <3> QED BY <2>1, <3>1, ExpireIsAllowed
    <2>2. CASE c \notin Waiters
        <3>1. call'[c] = call[c]
            BY <2>2 DEF reset
        <3> QED BY <3>1 DEF Feed!CallStep
    <2> QED BY <2>1, <2>2
<1>2. Len(events') = 0 /\ Len(events) \in Nat /\ UNCHANGED <<log, seq>>
    <2>1. Len(<<>>) = 0
        OBVIOUS
    <2> QED BY <2>1 DEF reset, TypeOK
<1>3. call' \in [Call -> WaitType]
    BY ResetTypes
<1> QED BY <1>1, <1>2, <1>3, QuietStep

\* A step of one long-poll c is allowed if what becomes of c is.
LEMMA OneCallIsAllowed ==
    ASSUME TypeOK, RingIsWindow, NEW c \in Call, NEW w \in WaitType,
           call' = [call EXCEPT ![c] = w], UNCHANGED <<log, seq, events>>,
           Feed!CallStep(c)
    PROVE  Feed!Next
<1>1. ASSUME NEW d \in Call, d # c PROVE Feed!CallStep(d)
    <2>1. call'[d] = call[d]
        BY <1>1 DEF TypeOK
    <2> QED BY <2>1 DEF Feed!CallStep
<1>2. call' \in [Call -> WaitType] /\ Len(events') \in Nat /\ Len(events') <= Len(events)
    BY DEF TypeOK, WaitType
<1>3. \A d \in Call : Feed!CallStep(d)
    BY <1>1
<1> QED BY <1>2, <1>3, QuietStep

\* A new wait listens from a position that is not forgotten.
LEMMA NewWaitIsAllowed ==
    ASSUME TypeOK, RingIsWindow, NEW c \in Call, c \notin Waiters,
           NEW filter \in Filter, NEW from \in Nat,
           from >= seq - Len(events), from <= seq,
           call'[c] \in {Feed!Waiting(filter, from)} \cup Feed!Answers(log, filter, from)
    PROVE  Feed!CallStep(c)
<1>1. /\ Len(log) = seq /\ seq \in Nat /\ Len(events) \in Nat /\ Len(events) <= seq
    BY DEF TypeOK, RingIsWindow
<1>2. from \in (seq - Len(events))..Len(log)
    BY <1>1
<1>3. call[c].pc # "waiting"
    BY DEF Waiters
<1>4. filter \in Feed!Filter
    BY DEF Filter, Feed!Filter
<1> QED BY <1>2, <1>3, <1>4 DEF Feed!CallStep

\* A wait with a cursor.
LEMMA WaitSinceIsAllowed ==
    ASSUME TypeOK, RingIsWindow, NEW c \in Call, NEW filter \in Filter,
           NEW poll \in BOOLEAN, NEW since \in Cursors,
           WaitSince(c, filter, since, poll)
    PROVE  Feed!Next
<1>1. /\ IsWindow(events, log, seq) /\ seq \in Nat /\ events \in Seq(BufferedEvent)
      /\ since \in 0..seq /\ log \in Seq(QmpEvent) /\ Len(log) = seq
      /\ listenFrom(since) = ListensFrom(events, seq, since)
    BY InTermsOfTheRing DEF TypeOK, RingIsWindow, Cursors
<1>2. PICK from \in Nat : from = listenFrom(since)
    BY <1>1, ListensWithin
<1>3. from <= seq /\ from >= seq - Len(events)
    BY <1>1, <1>2, ListensWithin
<1>4. PICK w : w = IF ReplayHits(events, since, filter) # {}
                   THEN Feed!Matched(filter, from, FirstHit(events, since, filter).seq)
                   ELSE IF poll THEN Feed!TimedOut(filter, from, seq)
                   ELSE Feed!Waiting(filter, from)
    OBVIOUS
<1>5. /\ call' = [call EXCEPT ![c] = w] /\ UNCHANGED <<log, seq, events>>
      /\ c \notin Waiters
    BY <1>2, <1>4 DEF WaitSince
<1>6. w \in WaitType /\ w \in {Feed!Waiting(filter, from)} \cup Feed!Answers(log, filter, from)
    <2>1. CASE ReplayHits(events, since, filter) # {}
        <3>1. PICK i : i = FirstHit(events, since, filter).seq
            OBVIOUS
        <3>2. /\ i \in (from + 1)..seq
              /\ EventMatches(filter, log[i])
              /\ Quiet(log, filter, from, i - 1)
            BY <1>1, <1>2, <2>1, <3>1, ReplayFindsNext
        <3>3. w = Feed!Matched(filter, from, i)
            BY <1>4, <2>1, <3>1
        <3> QED BY <1>1, <3>2, <3>3, AllowedAnswers, WaitTypes
    <2>2. CASE ReplayHits(events, since, filter) = {}
        <3>1. Quiet(log, filter, from, seq)
            BY <1>1, <1>2, <2>2, NoReplayIsQuiet
        <3>2. w = IF poll THEN Feed!TimedOut(filter, from, seq)
                  ELSE Feed!Waiting(filter, from)
            BY <1>4, <2>2
        <3> QED BY <1>1, <3>1, <3>2, AllowedAnswers, WaitTypes
    <2> QED BY <2>1, <2>2
<1>7. call'[c] = w
    BY <1>5 DEF TypeOK
<1>8. Feed!CallStep(c)
    BY <1>3, <1>5, <1>6, <1>7, NewWaitIsAllowed
<1> QED BY <1>5, <1>6, <1>8, OneCallIsAllowed

\* A wait without one.
LEMMA WaitFutureIsAllowed ==
    ASSUME TypeOK, RingIsWindow, NEW c \in Call, NEW filter \in Filter,
           NEW poll \in BOOLEAN, WaitFuture(c, filter, poll)
    PROVE  Feed!Next
<1>1. /\ seq \in Nat /\ log \in Seq(QmpEvent) /\ Len(log) = seq
      /\ Len(events) \in Nat /\ Len(events) <= seq
    BY DEF TypeOK, RingIsWindow
<1>2. PICK w : w = IF poll THEN Feed!TimedOut(filter, seq, seq)
                   ELSE Feed!Waiting(filter, seq)
    OBVIOUS
<1>3. /\ call' = [call EXCEPT ![c] = w] /\ UNCHANGED <<log, seq, events>>
      /\ c \notin Waiters
    BY <1>2 DEF WaitFuture
<1>4. Quiet(log, filter, seq, seq)
    BY <1>1 DEF Quiet
<1>5. w \in WaitType /\ w \in {Feed!Waiting(filter, seq)} \cup Feed!Answers(log, filter, seq)
    BY <1>1, <1>2, <1>4, AllowedAnswers, WaitTypes
<1>6. call'[c] = w
    BY <1>3 DEF TypeOK
<1>7. Feed!CallStep(c)
    BY <1>1, <1>3, <1>5, <1>6, NewWaitIsAllowed
<1> QED BY <1>3, <1>5, <1>7, OneCallIsAllowed

\* The ring, the waiters and the timers together are an implementation of the feed
\* EventFeed describes, for every capacity and any number of long-polls (the whole
\* EventBuffer class of the TypeScript server).
THEOREM BufferImplementsFeed == Spec => ImplementsFeed
<1>1. Init => Feed!Init
    <2>1. Len(<<>>) = 0
        OBVIOUS
    <2>2. ASSUME Init PROVE log = <<>> /\ seq - Len(events) = 0
        <3>1. events = <<>> /\ seq = 0 /\ log = <<>>
            BY <2>2 DEF Init
        <3>2. Len(events) = 0 /\ seq \in Int
            BY <2>1, <3>1
        <3>3. seq = 0
            BY <3>1
        <3>4. seq - Len(events) = 0
            BY <3>2, <3>3
        <3> QED BY <3>1, <3>4
    <2>3. ASSUME Init PROVE call = [c \in Call |-> Feed!NoWait]
        BY <2>3 DEF Init
    <2> QED BY <2>2, <2>3 DEF Feed!Init
<1>2. TypeOK /\ RingIsWindow /\ AllHonest /\ [Next]_vars => [Feed!Next]_(Feed!feedVars)
    <2> SUFFICES ASSUME TypeOK, RingIsWindow, AllHonest, [Next]_vars
                 PROVE  Feed!Next \/ UNCHANGED Feed!feedVars
        OBVIOUS
    <2>1. ASSUME NEW name \in EventName, Emit(name) PROVE Feed!Next
        <3> DEFINE ev == [event |-> name, from |-> inst, rank |-> emitted + 1]
        <3>1. ev \in QmpEvent /\ append(ev)
            BY <2>1 DEF TypeOK, QmpEvent, Emit
        <3> QED BY <3>1, AppendIsCaptured
    <2>2. CASE CreateInstance \/ InstanceGone
        BY <2>2, ResetIsAllowed DEF CreateInstance, InstanceGone
    <2>3. ASSUME NEW c \in Call, NEW filter \in Filter, NEW poll \in BOOLEAN,
                 \/ \E since \in Cursors : WaitSince(c, filter, since, poll)
                 \/ WaitFuture(c, filter, poll)
          PROVE  Feed!Next
        BY <2>3, WaitSinceIsAllowed, WaitFutureIsAllowed
    <2>4. ASSUME NEW c \in Call, Expire(c) PROVE Feed!Next
        <3>1. /\ c \in Waiters /\ call' = [call EXCEPT ![c] = expire(c)]
              /\ UNCHANGED <<log, seq, events>>
            BY <2>4 DEF Expire
        <3>2. call'[c] = expire(c)
            BY <3>1 DEF TypeOK
        <3>3. expire(c) \in WaitType
            BY SettledTypes
        <3> QED BY <3>1, <3>2, <3>3, ExpireIsAllowed, OneCallIsAllowed
    <2>5. CASE GetEvents \/ UNCHANGED vars
        BY <2>5 DEF GetEvents, vars, Feed!feedVars
    <2> QED BY <2>1, <2>2, <2>3, <2>4, <2>5 DEF Next
<1>3. Spec => [](TypeOK /\ RingIsWindow /\ AllHonest)
    BY AllHonestHolds
<1> QED BY <1>1, <1>2, <1>3, PTL DEF Spec, ImplementsFeed, Feed!Spec

=============================================================================
