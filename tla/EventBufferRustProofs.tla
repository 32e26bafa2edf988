------------------------ MODULE EventBufferRustProofs ------------------------
(***************************************************************************)
(* Proofs about the Rust Event Buffer, for every capacity of the ring and of *)
(* the broadcast channel, any number of long-polls, events and Instances,    *)
(* and every order in which the feeders, the futures and the resets take the *)
(* mutex.                                                                    *)
(***************************************************************************)
EXTENDS EventBufferRust, Integers, FiniteSetTheorems, WellFoundedInduction, TLAPS

-----------------------------------------------------------------------------
(* The ring and its lookups, for every ring and every log: the ring is a     *)
(* window of the log, a push slides it, a replay finds the first match of    *)
(* the log after where the wait listens from, a page is what lies in the     *)
(* window above a cursor.                                                    *)

\* The ring is the newest part of the log l, numbered without a hole up to n.
IsWindow(ring, l, n) ==
    /\ Len(l) = n
    /\ Len(ring) <= Capacity
    /\ Len(ring) <= n
    /\ \A i \in 1..Len(ring) :
          /\ ring[i].seq = n - Len(ring) + i
          /\ ring[i].ev = l[ring[i].seq]

\* Nothing of l after `from` and up to `to` passes the filter.
Quiet(l, filter, from, to) ==
    \A i \in (from + 1)..to : ~ EventMatches(filter, l[i])

\* Where a wait with a cursor listens from: at the earliest, at the window.
ListensFrom(ring, n, since) ==
    IF since < n - Len(ring) THEN n - Len(ring) ELSE since

\* Every nonempty set of naturals has a least element: minimize the intervals
\* 0..k by strict inclusion, which is well-founded on finite sets.
LEMMA LeastExists ==
    ASSUME NEW T \in SUBSET Nat, T # {}
    PROVE  \E m \in T : \A n \in T : m <= n
<1> DEFINE F == { 0..k : k \in T }
<1>1. F \subseteq FiniteSubsetsOf(Nat)
    <2>1. \A k \in T : IsFiniteSet(0..k) BY FS_Interval
    <2>2. \A k \in T : 0..k \subseteq Nat OBVIOUS
    <2> QED BY <2>1, <2>2 DEF FiniteSubsetsOf
<1>2. F # {} OBVIOUS
<1>3. PICK x \in F : \A y \in F : ~ (<<y, x>> \in StrictSubsetOrdering(Nat))
    <2> HIDE DEF F
    <2> QED BY <1>1, <1>2, WFMin, FS_StrictSubsetOrderingWellFounded, Zenon
<1>4. PICK m \in T : x = 0..m OBVIOUS
<1>5. ASSUME NEW n \in T, n < m PROVE FALSE
    <2>1. 0..n \subseteq 0..m /\ m \in 0..m /\ m \notin 0..n BY <1>5
    <2>2. <<0..n, x>> \in StrictSubsetOrdering(Nat)
        <3>1. 0..n \in SUBSET Nat /\ 0..m \in SUBSET Nat OBVIOUS
        <3>2. 0..n # 0..m BY <2>1
        <3> QED BY <3>1, <3>2, <2>1, <1>4 DEF StrictSubsetOrdering
    <2> QED BY <1>3, <2>2
<1> QED BY <1>5

\* The oldest hit is a hit, and none is older.
LEMMA FirstHitIsOldest ==
    ASSUME NEW ring, NEW since, NEW filter,
           Len(ring) \in Nat,
           ReplayHits(ring, since, filter) # {}
    PROVE  \E i \in ReplayHits(ring, since, filter) :
              /\ FirstHit(ring, since, filter) = ring[i]
              /\ \A j \in ReplayHits(ring, since, filter) : i <= j
<1> DEFINE hits == ReplayHits(ring, since, filter)
<1>1. hits \in SUBSET Nat BY DEF ReplayHits
<1>2. \E i \in hits : \A j \in hits : i <= j BY <1>1, LeastExists
<1> QED BY <1>2 DEF FirstHit

\* Pushing keeps the newest events, in their order, and never grows past
\* Capacity.
LEMMA PushedShifts ==
    ASSUME NEW ring \in Seq(BufferedEvent), NEW b \in BufferedEvent,
           Len(ring) <= Capacity
    PROVE  LET full == Len(ring) = Capacity
               new  == Pushed(ring, b)
           IN /\ new \in Seq(BufferedEvent)
              /\ Len(new) = IF full THEN Len(ring) ELSE Len(ring) + 1
              /\ new[Len(new)] = b
              /\ \A i \in 1..(Len(new) - 1) :
                    new[i] = IF full THEN ring[i + 1] ELSE ring[i]
<1>1. CASE Len(ring) < Capacity
    BY <1>1, CapacityAssumption DEF Pushed
<1>2. CASE Len(ring) = Capacity
    BY <1>2, CapacityAssumption DEF Pushed
<1> QED BY <1>1, <1>2, CapacityAssumption

\* One more event slides the window over the log by one, and never back.
LEMMA PushSlidesWindow ==
    ASSUME NEW ring \in Seq(BufferedEvent), NEW l \in Seq(QmpEvent), NEW n \in Nat,
           IsWindow(ring, l, n), NEW b \in BufferedEvent, b.seq = n + 1,
           NEW ev \in QmpEvent, b.ev = ev
    PROVE  /\ Pushed(ring, b) \in Seq(BufferedEvent)
           /\ IsWindow(Pushed(ring, b), Append(l, ev), n + 1)
           /\ n - Len(ring) <= (n + 1) - Len(Pushed(ring, b))
<1> DEFINE next == Pushed(ring, b)
<1>3. /\ Len(l) = n /\ Len(ring) <= Capacity /\ Len(ring) <= n /\ Len(ring) \in Nat
    BY DEF IsWindow
<1>4. /\ Len(Append(l, ev)) = n + 1
      /\ Append(l, ev)[n + 1] = ev
      /\ \A i \in 1..n : Append(l, ev)[i] = l[i]
    BY <1>3
<1>5. DEFINE full == Len(ring) = Capacity
<1>6. /\ next \in Seq(BufferedEvent)
      /\ Len(next) = IF full THEN Len(ring) ELSE Len(ring) + 1
      /\ next[Len(next)] = b
      /\ \A i \in 1..(Len(next) - 1) :
            next[i] = IF full THEN ring[i + 1] ELSE ring[i]
    BY <1>3, PushedShifts
<1> HIDE DEF next
<1>7. Len(next) <= Capacity /\ Len(next) <= n + 1 /\ Len(next) \in Nat \ {0}
    BY <1>3, <1>6, CapacityAssumption
<1>8. ASSUME NEW i \in 1..Len(next)
      PROVE  /\ next[i].seq = (n + 1) - Len(next) + i
             /\ next[i].ev = Append(l, ev)[next[i].seq]
    <2>1. CASE i = Len(next)
        BY <1>3, <1>4, <1>6, <1>7, <2>1
    <2>2. CASE i # Len(next) /\ full
        <3>1. i + 1 \in 1..Len(ring) /\ next[i] = ring[i + 1]
            BY <1>6, <1>7, <2>2
        <3>2. ring[i + 1].seq = n - Len(ring) + (i + 1)
              /\ ring[i + 1].ev = l[ring[i + 1].seq]
            BY <3>1 DEF IsWindow
        <3>3. Len(next) = Len(ring)
            BY <1>6, <2>2
        <3>4. next[i].seq = (n + 1) - Len(next) + i /\ next[i].seq \in 1..n
            BY <1>3, <3>1, <3>2, <3>3
        <3> QED BY <1>4, <3>1, <3>2, <3>4
    <2>3. CASE i # Len(next) /\ ~ full
        <3>1. i \in 1..Len(ring) /\ next[i] = ring[i]
            BY <1>6, <1>7, <2>3, <1>3
        <3>2. ring[i].seq = n - Len(ring) + i
              /\ ring[i].ev = l[ring[i].seq]
            BY <3>1 DEF IsWindow
        <3> QED BY <1>3, <1>4, <1>6, <2>3, <3>1, <3>2
    <2> QED BY <2>1, <2>2, <2>3
<1>9. n - Len(ring) <= (n + 1) - Len(next)
    BY <1>3, <1>6
<1> HIDE DEF full
<1> QED BY <1>4, <1>6, <1>7, <1>8, <1>9 DEF IsWindow, next

\* A wait listens from a number that has been given out.
LEMMA ListensWithin ==
    ASSUME NEW ring \in Seq(BufferedEvent), NEW l, NEW n \in Nat,
           IsWindow(ring, l, n), NEW since \in 0..n
    PROVE  /\ ListensFrom(ring, n, since) \in 0..n
           /\ ListensFrom(ring, n, since) >= n - Len(ring)
           /\ ListensFrom(ring, n, since) >= since
           /\ n - Len(ring) \in Nat
BY DEF IsWindow, ListensFrom

\* A replayed event is the first of the log that the wait asked for.
LEMMA ReplayFindsNext ==
    ASSUME NEW ring \in Seq(BufferedEvent), NEW l, NEW n \in Nat,
           IsWindow(ring, l, n), NEW since \in 0..n, NEW filter,
           ReplayHits(ring, since, filter) # {},
           NEW from, from = ListensFrom(ring, n, since),
           NEW i, i = FirstHit(ring, since, filter).seq
    PROVE  /\ i \in (from + 1)..n
           /\ EventMatches(filter, l[i])
           /\ Quiet(l, filter, from, i - 1)
<1> DEFINE floor == n - Len(ring)
<1>1. Len(ring) \in Nat /\ floor \in Nat
    BY DEF IsWindow
<1>2. from \in 0..n /\ from >= floor /\ from >= since
    BY ListensWithin
<1>3. PICK k \in ReplayHits(ring, since, filter) :
         /\ FirstHit(ring, since, filter) = ring[k]
         /\ \A j \in ReplayHits(ring, since, filter) : k <= j
    BY <1>1, FirstHitIsOldest
<1>4. k \in 1..Len(ring) /\ ring[k].seq > since
          /\ EventMatches(filter, ring[k].ev)
    BY <1>3 DEF ReplayHits
<1>5. ring[k].seq = floor + k /\ ring[k].ev = l[floor + k]
    BY <1>4 DEF IsWindow
<1>6. floor + k \in (from + 1)..n
    <2>1. floor + k > from
        BY <1>1, <1>4, <1>5 DEF ListensFrom
    <2>2. floor + k <= n
        BY <1>1, <1>4
    <2> QED BY <1>1, <1>2, <1>4, <2>1, <2>2
<1>7. ASSUME NEW m \in (from + 1)..((floor + k) - 1),
             EventMatches(filter, l[m])
      PROVE  FALSE
    <2> DEFINE j == m - floor
    <2>1. j \in 1..Len(ring) /\ j < k
        <3>1. m \in Nat /\ m > from /\ m < floor + k BY <1>1, <1>2, <1>4
        <3> HIDE DEF floor
        <3>2. m > floor BY <1>1, <1>2, <3>1
        <3>3. j \in Nat /\ j >= 1 BY <1>1, <3>1, <3>2
        <3>4. j < k BY <1>1, <1>4, <3>1
        <3> QED BY <1>1, <1>4, <3>3, <3>4
    <2>2. ring[j].seq = m /\ ring[j].ev = l[m]
        <3>1. floor + j = m BY <1>1, <1>2
        <3> QED BY <1>1, <2>1, <3>1 DEF IsWindow
    <2>3. j \in ReplayHits(ring, since, filter)
        BY <1>2, <1>1, <1>7, <2>1, <2>2 DEF ReplayHits
    <2> QED BY <1>3, <2>1, <2>3, <1>1, <1>4
<1> HIDE DEF floor
<1>8. Quiet(l, filter, from, (floor + k) - 1)
    BY <1>7 DEF Quiet
<1>9. i = floor + k
    BY <1>3, <1>5
<1>10. EventMatches(filter, l[floor + k])
    BY <1>4, <1>5
<1> QED BY <1>6, <1>8, <1>9, <1>10

\* Where nothing is replayed, nothing retained is of interest.
LEMMA NoReplayIsQuiet ==
    ASSUME NEW ring \in Seq(BufferedEvent), NEW l, NEW n \in Nat,
           IsWindow(ring, l, n), NEW since \in 0..n, NEW filter,
           ReplayHits(ring, since, filter) = {}
    PROVE  Quiet(l, filter, ListensFrom(ring, n, since), n)
<1> DEFINE from == ListensFrom(ring, n, since)
           floor == n - Len(ring)
<1>1. Len(ring) \in Nat /\ floor \in Nat
    BY DEF IsWindow
<1>2. from \in 0..n /\ from >= floor /\ from >= since
    BY ListensWithin
<1>3. ASSUME NEW m \in (from + 1)..n, EventMatches(filter, l[m])
      PROVE  FALSE
    <2> HIDE DEF from
    <2> DEFINE j == m - floor
    <2>1. j \in 1..Len(ring)
        BY <1>1, <1>2
    <2>2. ring[j].seq = m /\ ring[j].ev = l[m]
        <3>1. n - Len(ring) + j = m
            BY <1>1, <1>2
        <3>2. /\ ring[j].seq = n - Len(ring) + j
              /\ ring[j].ev = l[ring[j].seq]
            BY <2>1 DEF IsWindow
        <3> HIDE DEF j, floor, from
        <3> QED BY <3>1, <3>2
    <2>3. j \in ReplayHits(ring, since, filter)
        BY <1>2, <1>1, <1>3, <2>1, <2>2 DEF ReplayHits
    <2> QED BY <2>3
<1> HIDE DEF from, floor
<1> QED BY <1>3 DEF from, Quiet

\* get_events returns exactly the retained numbers above the cursor.
LEMMA ReadSinceIsWindow ==
    ASSUME NEW ring \in Seq(BufferedEvent), NEW l, NEW n \in Nat,
           IsWindow(ring, l, n), NEW since \in Nat
    PROVE  { b.seq : b \in ReadSince(ring, since) } =
              { m \in Nat : m > since /\ m > n - Len(ring) /\ m <= n }
<1> DEFINE floor == n - Len(ring)
<1>1. Len(ring) \in Nat /\ floor \in Nat
    BY DEF IsWindow
<1>2. \A i \in 1..Len(ring) : ring[i].seq = floor + i
    BY DEF IsWindow
<1>3. \A m \in Nat : m > floor /\ m <= n => m - floor \in 1..Len(ring)
    BY <1>1
<1>4. ASSUME NEW m \in Nat, m > since, m > floor, m <= n
      PROVE  m \in { b.seq : b \in ReadSince(ring, since) }
    <2>1. m - floor \in 1..Len(ring) /\ ring[m - floor].seq = m
        BY <1>1, <1>2, <1>3, <1>4
    <2> QED BY <2>1, <1>4 DEF ReadSince
<1>5. ASSUME NEW m \in { b.seq : b \in ReadSince(ring, since) }
      PROVE  m \in Nat /\ m > since /\ m > floor /\ m <= n
    <2>1. PICK i \in 1..Len(ring) : m = ring[i].seq /\ m > since
        BY <1>5 DEF ReadSince
    <2> QED BY <1>1, <1>2, <2>1
<1> QED BY <1>4, <1>5

\* A later event does not change what the earlier part of the log says.
LEMMA QuietIsStable ==
    ASSUME NEW l \in Seq(QmpEvent), NEW ev \in QmpEvent, NEW filter,
           NEW from \in Nat, NEW to \in Int, to <= Len(l)
    PROVE  Quiet(Append(l, ev), filter, from, to) <=> Quiet(l, filter, from, to)
<1>1. \A i \in (from + 1)..to : Append(l, ev)[i] = l[i]
    OBVIOUS
<1> QED BY <1>1 DEF Quiet

\* What an agent has been shown and what it was told it missed are the numbers
\* up to its cursor, without overlap, and what it missed is out of reach.
Accounts(p, floor) ==
    /\ p.again = {}
    /\ p.seen \cup p.missed = 1..p.cursor
    /\ p.seen \cap p.missed = {}
    /\ \A i \in p.missed : i <= floor

\* One page moves what was seen, and what was missed, up to the cursor it
\* returns.
LEMMA PageAccounts ==
    ASSUME NEW ring \in Seq(BufferedEvent), NEW l, NEW n \in Nat,
           IsWindow(ring, l, n),
           NEW p \in [cursor : Nat, seen : SUBSET Nat, again : SUBSET Nat,
                      missed : SUBSET Nat],
           p.cursor <= n, Accounts(p, n - Len(ring)),
           NEW got, got = { b.seq : b \in ReadSince(ring, p.cursor) },
           NEW gone, gone = { i \in (p.cursor + 1)..n : \A g \in got : i < g },
           NEW q, q = [cursor |-> n, seen |-> p.seen \cup got,
                       again |-> p.again \cup (p.seen \cap got),
                       missed |-> p.missed \cup gone]
    PROVE  Accounts(q, n - Len(ring))
<1> DEFINE floor == n - Len(ring)
<1>1. /\ p.cursor \in Nat /\ floor \in Nat /\ floor <= n
      /\ p.seen \in SUBSET Nat /\ p.missed \in SUBSET Nat
    BY DEF IsWindow
<1>2. got = { m \in Nat : m > p.cursor /\ m > floor /\ m <= n }
    BY <1>1, ReadSinceIsWindow
<1>3. /\ p.again = {} /\ p.seen \cup p.missed = 1..p.cursor
      /\ p.seen \cap p.missed = {}
      /\ \A i \in p.missed : i <= floor
    BY DEF Accounts
<1> HIDE DEF floor
<1>4. gone = { m \in Nat : m > p.cursor /\ m <= floor }
    <2>1. ASSUME NEW i \in gone PROVE i \in Nat /\ i > p.cursor /\ i <= floor
        BY <1>1, <1>2, <2>1
    <2>2. ASSUME NEW i \in Nat, i > p.cursor, i <= floor PROVE i \in gone
        <3>1. i \in (p.cursor + 1)..n BY <1>1, <2>2
        <3>2. ASSUME NEW g \in got PROVE i < g
            <4>1. g \in Nat /\ g > floor BY <1>2
            <4> QED BY <1>1, <2>2, <4>1
        <3> QED BY <3>1, <3>2
    <2> QED BY <2>1, <2>2
<1>5. got \cup gone = (p.cursor + 1)..n /\ got \cap gone = {}
    BY <1>1, <1>2, <1>4
<1>6. got \cap (1..p.cursor) = {} /\ gone \cap (1..p.cursor) = {}
    BY <1>1, <1>2, <1>4
<1>7. (p.seen \cup got) \cup (p.missed \cup gone) = 1..n
    <2>1. (1..p.cursor) \cup ((p.cursor + 1)..n) = 1..n
        BY <1>1
    <2> QED BY <1>3, <1>5, <2>1
<1>8. /\ p.again \cup (p.seen \cap got) = {}
      /\ (p.seen \cup got) \cap (p.missed \cup gone) = {}
    BY <1>3, <1>5, <1>6
<1>9. \A i \in p.missed \cup gone : i <= floor
    BY <1>3, <1>4
<1>10. /\ q.cursor = n /\ q.seen = p.seen \cup got
       /\ q.again = p.again \cup (p.seen \cap got) /\ q.missed = p.missed \cup gone
    OBVIOUS
<1> QED BY <1>7, <1>8, <1>9, <1>10 DEF Accounts, floor

-----------------------------------------------------------------------------
\* The buffer's state in the terms of the lemmas about rings.

\* The invariants and the helper of the buffer say what the lemmas speak of.
LEMMA InTermsOfTheRing ==
    /\ RingIsWindow <=> IsWindow(events, log, seq)
    /\ PagerAccountsForAll <=> Accounts(pager, seq - Len(events))
    /\ \A since : listenFrom(since) = ListensFrom(events, seq, since)
BY DEF RingIsWindow, IsWindow, PagerAccountsForAll, Accounts, listenFrom,
       ListensFrom

\* Where nothing matches, the promise's wait has slept through nothing.
LEMMA SilentIsQuiet ==
    ASSUME NEW l, NEW filter, NEW from, NEW to
    PROVE  Feed!Silent(l, filter, from, to) <=> Quiet(l, filter, from, to)
BY DEF Feed!Silent, Feed!EventMatches, Quiet, EventMatches

WaitType == [pc : Ended \cup {"waiting", "sent", "closed", "expiring"},
             filter : Filter, from : Nat, cursor : Nat]

\* Every answer a wait can be given is of the type of a wait.
LEMMA WaitTypes ==
    ASSUME NEW filter \in Filter, NEW from \in Nat, NEW cursor \in Nat
    PROVE  /\ Feed!Waiting(filter, from) \in WaitType
           /\ Feed!Matched(filter, from, cursor) \in WaitType
           /\ Feed!TimedOut(filter, from, cursor) \in WaitType
           /\ Feed!Wait("sent", filter, from, cursor) \in WaitType
BY DEF WaitType, Ended, Filter, Feed!Waiting, Feed!Matched, Feed!TimedOut, Feed!Wait

\* So is the wait that has not begun.
LEMMA NoWaitType == Feed!NoWait \in WaitType
BY DEF WaitType, Ended, Filter, Feed!NoWait, Feed!Wait

-----------------------------------------------------------------------------
\* The kinds of steps.

\* What a task holds between QEMU and the buffer.
Plumbing ==
    /\ inst \in 0..MaxInst /\ made \in 0..MaxInst
    /\ emitted \in [Instances -> Nat]
    /\ queue \in [Instances -> Seq(QmpEvent)]
    /\ hand \in [Instances -> Seq(QmpEvent)]
    /\ \A i \in Instances : AtMostOne(hand[i])

\* What is under the mutex, and the futures that look at it.
BufferTypes ==
    /\ events \in Seq(BufferedEvent)
    /\ seq \in Nat
    /\ waiters \subseteq Call
    /\ call \in [Call -> WaitType]
    /\ log \in Seq(QmpEvent)
    /\ pager \in [cursor : Nat, seen : SUBSET Nat, again : SUBSET Nat,
                  missed : SUBSET Nat]

\* Together they are the types.
LEMMA TypesAreBoth == TypeOK <=> Plumbing /\ BufferTypes
BY DEF TypeOK, Plumbing, BufferTypes, WaitType

\* The channel and the hands of the feeders only ever hold events.
LEMMA PlumbingHolds ==
    ASSUME Plumbing, [Next]_vars
    PROVE  Plumbing'
<1> USE BoundsAssumption
<1>1. ASSUME NEW name \in EventName, Emit(name) PROVE Plumbing'
    <2> DEFINE ev == [event |-> name, from |-> inst, rank |-> emitted[inst] + 1]
    <2>1. inst \in Instances /\ emitted[inst] \in Nat /\ queue[inst] \in Seq(QmpEvent)
        BY <1>1 DEF Emit, Plumbing, Instances
    <2>2. ev \in QmpEvent
        BY <2>1 DEF QmpEvent, Instances
    <2> HIDE DEF ev
    <2> DEFINE q == Append(IF Len(queue[inst]) < ChannelCapacity THEN queue[inst]
                           ELSE Tail(queue[inst]), ev)
    <2>3. q \in Seq(QmpEvent)
        <3>1. Len(queue[inst]) # 0 => Tail(queue[inst]) \in Seq(QmpEvent)
            BY <2>1
        <3>2. Len(queue[inst]) = 0 => Len(queue[inst]) < ChannelCapacity
            BY ChannelAssumption
        <3> QED BY <2>1, <2>2, <3>1, <3>2
    <2> HIDE DEF q
    <2>4. queue' = [queue EXCEPT ![inst] = q]
        BY <1>1, <2>1 DEF Emit, q, ev, Plumbing
    <2>5. queue' \in [Instances -> Seq(QmpEvent)]
        BY <2>3, <2>4 DEF Plumbing
    <2>6. emitted' \in [Instances -> Nat] /\ UNCHANGED <<inst, made, hand>>
        BY <1>1, <2>1 DEF Emit, Plumbing
    <2> QED BY <2>5, <2>6 DEF Plumbing
<1>2. ASSUME NEW i \in Instances, FeederRecv(i) PROVE Plumbing'
    <2>1. Head(queue[i]) \in QmpEvent /\ Tail(queue[i]) \in Seq(QmpEvent)
        BY <1>2 DEF FeederRecv, Plumbing
    <2> DEFINE h == Head(queue[i])
               t == Tail(queue[i])
    <2>2. hand' = [hand EXCEPT ![i] = <<h>>] /\ queue' = [queue EXCEPT ![i] = t]
        BY <1>2 DEF FeederRecv, Plumbing
    <2> HIDE DEF h, t
    <2>3. h \in QmpEvent /\ t \in Seq(QmpEvent)
        BY <2>1 DEF h, t
    <2>4. <<h>> \in Seq(QmpEvent) /\ AtMostOne(<<h>>)
        BY <2>3 DEF AtMostOne
    <2>5. hand' \in [Instances -> Seq(QmpEvent)] /\ queue' \in [Instances -> Seq(QmpEvent)]
        BY <2>2, <2>3, <2>4 DEF Plumbing
    <2>6. \A j \in Instances : AtMostOne(hand'[j])
        BY <2>2, <2>4 DEF Plumbing
    <2> QED BY <1>2, <2>5, <2>6 DEF FeederRecv, Plumbing
<1>3. ASSUME NEW i \in Instances, FeederAppend(i) PROVE Plumbing'
    <2>1. hand' = [hand EXCEPT ![i] = <<>>] /\ UNCHANGED <<inst, made, emitted, queue>>
        BY <1>3 DEF FeederAppend
    <2>2. <<>> \in Seq(QmpEvent) /\ AtMostOne(<<>>)
        BY DEF AtMostOne
    <2> QED BY <2>1, <2>2 DEF Plumbing
<1>4. ASSUME NEW i \in Instances, FeederStops(i) PROVE Plumbing'
    BY <1>4 DEF FeederStops, Plumbing
<1>5. CASE CreateInstance
    BY <1>5 DEF CreateInstance, Plumbing
<1>6. CASE TeardownInstance
    <2>1. inst \in Instances
        BY <1>6 DEF TeardownInstance, Plumbing, Instances
    <2>2. queue' \in [Instances -> Seq(QmpEvent)]
        BY <1>6, <2>1 DEF TeardownInstance, Plumbing
    <2> QED BY <1>6, <2>2 DEF TeardownInstance, Plumbing
<1>7. CASE UNCHANGED <<inst, made, emitted, queue, hand>>
    BY <1>7 DEF Plumbing
<1> QED BY <1>1, <1>2, <1>3, <1>4, <1>5, <1>6, <1>7
        DEF Next, WaitSince, WaitFuture, Settle, RecvMatched, RecvClosed,
            SleepElapsed, ExpireLocked, GetEvents, vars

\* What a step does to the buffer and to the futures.
LEMMA StepKinds ==
    ASSUME Plumbing, [Next]_vars
    PROVE  \/ \E ev \in QmpEvent : append(ev) /\ UNCHANGED pager
           \/ reset /\ UNCHANGED pager
           \/ \E c \in Call, filter \in Filter, poll \in BOOLEAN :
                 \/ \E since \in 0..seq : WaitSince(c, filter, since, poll)
                 \/ WaitFuture(c, filter, poll)
           \/ \E c \in Call : Settle(c)
           \/ GetEvents
           \/ UNCHANGED <<events, seq, waiters, call, log, pager>>
<1>1. ASSUME NEW i \in Instances, FeederAppend(i)
      PROVE  \E ev \in QmpEvent : append(ev) /\ UNCHANGED pager
    <2>1. Head(hand[i]) \in QmpEvent
        BY <1>1 DEF FeederAppend, Plumbing
    <2> QED BY <1>1, <2>1 DEF FeederAppend
<1>2. CASE CreateInstance \/ TeardownInstance
    BY <1>2 DEF CreateInstance, TeardownInstance
<1>3. ASSUME NEW i \in Instances, FeederRecv(i) \/ FeederStops(i)
      PROVE  UNCHANGED <<events, seq, waiters, call, log, pager>>
    BY <1>3 DEF FeederRecv, FeederStops
<1>4. ASSUME NEW name \in EventName, Emit(name)
      PROVE  UNCHANGED <<events, seq, waiters, call, log, pager>>
    BY <1>4 DEF Emit
<1>5. CASE UNCHANGED vars
    BY <1>5 DEF vars
<1> QED BY <1>1, <1>2, <1>3, <1>4, <1>5 DEF Next

-----------------------------------------------------------------------------
\* What holds of one long-poll.

\* What holds of the long-poll w when the log is l and the cursor n: it listens
\* from a number that was given out; if it sleeps it is registered; if it is
\* registered it has not been told anything and nothing it asked for came; if it
\* was sent an event, that is the first it asked for.
Fine(w, l, n, registered) ==
    /\ w.from <= n
    /\ w.pc = "waiting" => registered
    /\ registered => w.pc \in {"waiting", "expiring"} /\ Quiet(l, w.filter, w.from, n)
    /\ w.pc \in {"sent", "matched"} =>
          /\ w.cursor \in (w.from + 1)..n
          /\ EventMatches(w.filter, l[w.cursor])
          /\ Quiet(l, w.filter, w.from, w.cursor - 1)

AllFine == \A c \in Call : Fine(call[c], log, seq, c \in waiters)

\* It says of all of them what the two properties say.
LEMMA FineAnswers ==
    ASSUME BufferTypes, AllFine
    PROVE  WaitersAgree /\ MatchIsFirst
BY SilentIsQuiet DEF AllFine, Fine, WaitersAgree, MatchIsFirst, BufferTypes

\* A wait that is not registered is not touched by one more event.
LEMMA AnswerStaysFine ==
    ASSUME NEW l \in Seq(QmpEvent), NEW ev \in QmpEvent, NEW w \in WaitType,
           Fine(w, l, Len(l), FALSE)
    PROVE  Fine(w, Append(l, ev), Len(l) + 1, FALSE)
<1>1. w.filter \in Filter /\ w.from \in Nat /\ w.cursor \in Nat /\ Len(l) \in Nat
    BY DEF WaitType
<1>2. w.from <= Len(l) + 1 /\ w.pc # "waiting"
    BY <1>1 DEF Fine
<1>3. ASSUME w.pc \in {"sent", "matched"}
      PROVE  /\ w.cursor \in (w.from + 1)..(Len(l) + 1)
             /\ EventMatches(w.filter, Append(l, ev)[w.cursor])
             /\ Quiet(Append(l, ev), w.filter, w.from, w.cursor - 1)
    <2>1. /\ w.cursor \in (w.from + 1)..Len(l)
          /\ EventMatches(w.filter, l[w.cursor])
          /\ Quiet(l, w.filter, w.from, w.cursor - 1)
        BY <1>3 DEF Fine
    <2>2. Quiet(Append(l, ev), w.filter, w.from, w.cursor - 1)
        BY <1>1, <2>1, QuietIsStable
    <2>3. Append(l, ev)[w.cursor] = l[w.cursor]
        BY <1>1, <2>1
    <2> QED BY <1>1, <2>1, <2>2, <2>3
<1> QED BY <1>2, <1>3 DEF Fine

-----------------------------------------------------------------------------
\* Each kind of step keeps types, window and waits.

Inv == BufferTypes /\ RingIsWindow /\ AllFine

\* append keeps the types and slides the window.
LEMMA AppendSlides ==
    ASSUME BufferTypes, RingIsWindow, NEW ev \in QmpEvent, append(ev), UNCHANGED pager
    PROVE  /\ BufferTypes' /\ RingIsWindow'
           /\ seq - Len(events) <= seq' - Len(events')
<1> DEFINE b == [seq |-> seq + 1, ev |-> ev]
<1>1. b \in BufferedEvent /\ b.seq = seq + 1 /\ b.ev = ev
    BY DEF BufferTypes, BufferedEvent
<1>2. events' = Pushed(events, b) /\ seq' = seq + 1 /\ log' = Append(log, ev)
    BY DEF append
<1> HIDE DEF b
<1>3. /\ IsWindow(events', log', seq') /\ events' \in Seq(BufferedEvent)
      /\ seq - Len(events) <= seq' - Len(events')
    BY <1>1, <1>2, InTermsOfTheRing, PushSlidesWindow DEF BufferTypes
<1>4. call' \in [Call -> WaitType]
    <2>1. \A c \in Call : Feed!Wait("sent", call[c].filter, call[c].from, seq + 1) \in WaitType
        <3>1. \A c \in Call : call[c].filter \in Filter /\ call[c].from \in Nat
            BY DEF BufferTypes, WaitType
        <3>2. seq + 1 \in Nat BY DEF BufferTypes
        <3> QED BY <3>1, <3>2, WaitTypes
    <2> QED BY <2>1 DEF append, BufferTypes
<1>5. waiters' \subseteq Call /\ seq' \in Nat /\ log' \in Seq(QmpEvent)
    BY <1>2 DEF append, BufferTypes
<1> QED BY <1>3, <1>4, <1>5 DEF BufferTypes, RingIsWindow, IsWindow

\* append: a waiter that matches is removed and sent the first event it asked
\* for, unless it has stopped listening; any other has still slept through nothing.
LEMMA AppendFine ==
    ASSUME BufferTypes, RingIsWindow, AllFine, NEW ev \in QmpEvent, append(ev)
    PROVE  AllFine'
<1>1. /\ seq \in Nat /\ log \in Seq(QmpEvent) /\ Len(log) = seq
      /\ seq' = seq + 1 /\ log' = Append(log, ev) /\ log'[seq + 1] = ev
    BY DEF BufferTypes, RingIsWindow, append
<1>2. SUFFICES ASSUME NEW c \in Call
               PROVE  Fine(call'[c], log', seq', c \in waiters')
    BY DEF AllFine
<1>3. /\ call[c] \in WaitType /\ Fine(call[c], log, seq, c \in waiters)
      /\ call[c].filter \in Filter /\ call[c].from \in Nat
    BY DEF BufferTypes, WaitType, AllFine
<1>4. CASE c \notin waiters
    <2>1. call'[c] = call[c] /\ c \notin waiters'
        BY <1>4 DEF append
    <2>2. Fine(call[c], log, Len(log), FALSE)
        BY <1>1, <1>3, <1>4 DEF Fine
    <2>3. Fine(call[c], log', seq', FALSE)
        BY <1>1, <1>3, <2>2, AnswerStaysFine
    <2> QED BY <2>1, <2>3 DEF Fine
<1>5. CASE c \in waiters
    <2>1. /\ call[c].from <= seq /\ call[c].pc \in {"waiting", "expiring"}
          /\ Quiet(log, call[c].filter, call[c].from, seq)
        BY <1>3, <1>5 DEF Fine
    <2>2. Quiet(log', call[c].filter, call[c].from, seq)
        BY <1>1, <1>3, <2>1, QuietIsStable
    <2>3. CASE EventMatches(call[c].filter, ev)
        <3>1. c \notin waiters'
            BY <1>5, <2>3 DEF append
        <3>2. CASE call[c].pc = "waiting"
            <4>1. call'[c] = Feed!Wait("sent", call[c].filter, call[c].from, seq + 1)
                BY <1>5, <2>3, <3>2 DEF append
            <4> QED BY <1>1, <1>3, <2>1, <2>2, <2>3, <3>1, <4>1 DEF Fine, Feed!Wait
        <3>3. CASE call[c].pc = "expiring"
            <4>1. call'[c] = call[c]
                BY <3>3 DEF append
            <4> QED BY <1>1, <1>3, <2>1, <3>1, <3>3, <4>1 DEF Fine
        <3> QED BY <2>1, <3>2, <3>3
    <2>4. CASE ~ EventMatches(call[c].filter, ev)
        <3>1. call'[c] = call[c] /\ c \in waiters'
            BY <1>5, <2>4 DEF append
        <3>2. Quiet(log', call[c].filter, call[c].from, seq + 1)
            BY <1>1, <1>3, <2>2, <2>4 DEF Quiet
        <3> QED BY <1>1, <1>3, <2>1, <3>1, <3>2 DEF Fine
    <2> QED BY <2>3, <2>4
<1> QED BY <1>4, <1>5

\* reset empties the window and lets no wait sleep on.
LEMMA ResetKeeps ==
    ASSUME Inv, reset, UNCHANGED pager
    PROVE  Inv' /\ seq - Len(events) <= seq' - Len(events')
<1>1. /\ events' = <<>> /\ seq' = seq /\ log' = log /\ waiters' = {} /\ pager' = pager
      /\ \A c \in Call : call'[c] =
            IF c \in waiters /\ call[c].pc = "waiting"
            THEN [call[c] EXCEPT !.pc = "closed"] ELSE call[c]
      /\ call' = [c \in Call |-> call'[c]]
    BY DEF reset
<1>2. \A c \in Call : call[c] \in WaitType
    BY DEF Inv, BufferTypes
<1>3. \A c \in Call : [call[c] EXCEPT !.pc = "closed"] \in WaitType
    BY <1>2 DEF WaitType
<1>4. BufferTypes'
    <2>1. call' \in [Call -> WaitType]
        BY <1>1, <1>2, <1>3
    <2>2. <<>> \in Seq(BufferedEvent)
        OBVIOUS
    <2> QED BY <1>1, <2>1, <2>2 DEF Inv, BufferTypes
<1>5. RingIsWindow' /\ Len(events') = 0
    <2>1. Len(<<>>) = 0
        OBVIOUS
    <2> QED BY <1>1, <2>1, CapacityAssumption DEF Inv, BufferTypes, RingIsWindow
<1>6. ASSUME NEW c \in Call PROVE Fine(call'[c], log', seq', c \in waiters')
    <2>1. Fine(call[c], log, seq, c \in waiters) /\ call[c] \in WaitType
        BY <1>2 DEF Inv, AllFine
    <2>2. CASE c \in waiters /\ call[c].pc = "waiting"
        <3>1. call'[c].pc = "closed" /\ call'[c].from = call[c].from
            BY <1>1, <2>1, <2>2 DEF WaitType
        <3> QED BY <1>1, <2>1, <3>1 DEF Fine
    <2>3. CASE ~ (c \in waiters /\ call[c].pc = "waiting")
        <3>1. call'[c] = call[c] /\ call[c].pc # "waiting"
            BY <1>1, <2>1, <2>3 DEF Fine
        <3> QED BY <1>1, <2>1, <3>1 DEF Fine
    <2> QED BY <2>2, <2>3
<1>7. seq - Len(events) <= seq' - Len(events')
    BY <1>1, <1>5 DEF Inv, BufferTypes, RingIsWindow
<1> QED BY <1>4, <1>5, <1>6, <1>7 DEF Inv, AllFine

\* A step of one long-poll c keeps what holds if it does for c.
LEMMA OneCallKeeps ==
    ASSUME Inv, NEW c \in Call, NEW w \in WaitType,
           call' = [call EXCEPT ![c] = w],
           waiters' \in {waiters, waiters \cup {c}, waiters \ {c}},
           UNCHANGED <<events, seq, log, pager>>,
           Fine(w, log, seq, c \in waiters')
    PROVE  Inv'
<1>1. BufferTypes' /\ RingIsWindow'
    BY DEF Inv, BufferTypes, RingIsWindow
<1>2. call'[c] = w
    BY DEF Inv, BufferTypes
<1>3. ASSUME NEW d \in Call, d # c PROVE Fine(call'[d], log', seq', d \in waiters')
    <2>1. call'[d] = call[d] /\ (d \in waiters' <=> d \in waiters)
        BY <1>3 DEF Inv, BufferTypes
    <2>2. Fine(call[d], log, seq, d \in waiters)
        BY DEF Inv, AllFine
    <2> QED BY <2>1, <2>2 DEF Fine
<1> QED BY <1>1, <1>2, <1>3 DEF Inv, AllFine

\* A wait with a cursor gets the first event after it that it asked for, or
\* listens from the cursor, having passed over nothing.
LEMMA WaitSinceKeeps ==
    ASSUME Inv, NEW c \in Call, NEW filter \in Filter, NEW poll \in BOOLEAN,
           NEW since \in 0..seq, WaitSince(c, filter, since, poll)
    PROVE  Inv' /\ UNCHANGED <<events, seq, pager>>
<1>1. /\ IsWindow(events, log, seq) /\ seq \in Nat /\ events \in Seq(BufferedEvent)
      /\ listenFrom(since) = ListensFrom(events, seq, since)
    BY InTermsOfTheRing DEF Inv, BufferTypes
<1>2. listenFrom(since) \in 0..seq
    BY <1>1, ListensWithin
<1>3. PICK from \in Nat : from = listenFrom(since)
    BY <1>1, <1>2
<1>4. from <= seq /\ from = ListensFrom(events, seq, since)
    BY <1>1, <1>2, <1>3
<1>5. c \notin waiters
    <2>1. call[c].pc \in Ended /\ Fine(call[c], log, seq, c \in waiters)
        BY DEF WaitSince, Inv, AllFine
    <2> QED BY <2>1 DEF Fine, Ended
<1>6. CASE ReplayHits(events, since, filter) # {}
    <2>1. PICK i : i = FirstHit(events, since, filter).seq
        OBVIOUS
    <2>2. /\ i \in (from + 1)..seq
          /\ EventMatches(filter, log[i])
          /\ Quiet(log, filter, from, i - 1)
        BY <1>1, <1>4, <1>6, <2>1, ReplayFindsNext
    <2>3. call' = [call EXCEPT ![c] = Feed!Matched(filter, from, i)] /\ waiters' = waiters
        BY <1>3, <1>6, <2>1 DEF WaitSince
    <2>4. Feed!Matched(filter, from, i) \in WaitType
        BY <1>4, <2>2, WaitTypes
    <2>5. Fine(Feed!Matched(filter, from, i), log, seq, c \in waiters')
        BY <1>1, <1>4, <1>5, <2>2, <2>3 DEF Fine, Feed!Matched, Feed!Wait
    <2>6. UNCHANGED <<events, seq, log, pager>>
        BY DEF WaitSince
    <2> QED BY <2>3, <2>4, <2>5, <2>6, OneCallKeeps
<1>7. CASE ReplayHits(events, since, filter) = {}
    <2>1. Quiet(log, filter, from, seq)
        BY <1>1, <1>4, <1>7, NoReplayIsQuiet
    <2>2. PICK w : w = IF poll THEN Feed!TimedOut(filter, from, seq)
                       ELSE Feed!Waiting(filter, from)
        OBVIOUS
    <2>3. /\ call' = [call EXCEPT ![c] = w]
          /\ waiters' = IF poll THEN waiters ELSE waiters \cup {c}
        BY <1>3, <1>7, <2>2 DEF WaitSince
    <2>4. w \in WaitType
        BY <1>1, <1>3, <2>2, WaitTypes
    <2>5. Fine(w, log, seq, c \in waiters')
        BY <1>1, <1>4, <1>5, <2>1, <2>2, <2>3
        DEF Fine, Feed!TimedOut, Feed!Waiting, Feed!Wait
    <2>6. UNCHANGED <<events, seq, log, pager>>
        BY DEF WaitSince
    <2> QED BY <2>3, <2>4, <2>5, <2>6, OneCallKeeps
<1> QED BY <1>6, <1>7 DEF WaitSince

\* A wait without a cursor listens from the newest event.
LEMMA WaitFutureKeeps ==
    ASSUME Inv, NEW c \in Call, NEW filter \in Filter, NEW poll \in BOOLEAN,
           WaitFuture(c, filter, poll)
    PROVE  Inv' /\ UNCHANGED <<events, seq, pager>>
<1>1. seq \in Nat
    BY DEF Inv, BufferTypes
<1>2. c \notin waiters
    <2>1. call[c].pc \in Ended /\ Fine(call[c], log, seq, c \in waiters)
        BY DEF WaitFuture, Inv, AllFine
    <2> QED BY <2>1 DEF Fine, Ended
<1>3. PICK w : w = IF poll THEN Feed!TimedOut(filter, seq, seq)
                   ELSE Feed!Waiting(filter, seq)
    OBVIOUS
<1>4. /\ call' = [call EXCEPT ![c] = w]
      /\ waiters' = IF poll THEN waiters ELSE waiters \cup {c}
      /\ UNCHANGED <<events, seq, log, pager>>
    BY <1>3 DEF WaitFuture
<1>5. w \in WaitType
    BY <1>1, <1>3, WaitTypes
<1>6. Quiet(log, filter, seq, seq)
    BY <1>1 DEF Quiet
<1>7. Fine(w, log, seq, c \in waiters')
    BY <1>1, <1>2, <1>3, <1>4, <1>6 DEF Fine, Feed!TimedOut, Feed!Waiting, Feed!Wait
<1> QED BY <1>4, <1>5, <1>7, OneCallKeeps

\* A future that is polled finds its event, a dropped sender or its timer, and one
\* whose timer fired leaves the list when it has the mutex.
LEMMA SettleKeeps ==
    ASSUME Inv, NEW c \in Call, Settle(c)
    PROVE  Inv' /\ UNCHANGED <<events, seq, pager>>
<1>1. /\ seq \in Nat /\ call[c] \in WaitType /\ Fine(call[c], log, seq, c \in waiters)
      /\ call[c].from \in Nat /\ call[c].cursor \in Nat
    BY DEF Inv, BufferTypes, AllFine, WaitType
<1>2. UNCHANGED <<events, seq, log, pager>>
    BY DEF Settle, RecvMatched, RecvClosed, SleepElapsed, ExpireLocked
<1>3. CASE RecvMatched(c)
    <2>1. PICK w : w = [call[c] EXCEPT !.pc = "matched"]
        OBVIOUS
    <2>2. call' = [call EXCEPT ![c] = w] /\ waiters' = waiters /\ call[c].pc = "sent"
        BY <1>3, <2>1 DEF RecvMatched
    <2>3. /\ w \in WaitType /\ w.pc = "matched" /\ w.from = call[c].from
          /\ w.cursor = call[c].cursor /\ w.filter = call[c].filter
        BY <1>1, <2>1 DEF WaitType, Ended
    <2>4. Fine(w, log, seq, c \in waiters')
        BY <1>1, <2>2, <2>3 DEF Fine
    <2> QED BY <1>2, <2>2, <2>3, <2>4, OneCallKeeps
<1>4. CASE RecvClosed(c)
    <2>1. PICK w : w = [call[c] EXCEPT !.pc = "timedOut", !.cursor = seq]
        OBVIOUS
    <2>2. call' = [call EXCEPT ![c] = w] /\ waiters' = waiters /\ call[c].pc = "closed"
        BY <1>1, <1>4, <2>1 DEF RecvClosed, WaitType, Inv, BufferTypes
    <2>3. w \in WaitType /\ w.pc = "timedOut" /\ w.from = call[c].from
        BY <1>1, <2>1 DEF WaitType, Ended
    <2>4. Fine(w, log, seq, c \in waiters')
        BY <1>1, <2>2, <2>3 DEF Fine
    <2> QED BY <1>2, <2>2, <2>3, <2>4, OneCallKeeps
<1>5. CASE SleepElapsed(c)
    <2>1. PICK w : w = [call[c] EXCEPT !.pc = "expiring"]
        OBVIOUS
    <2>2. call' = [call EXCEPT ![c] = w] /\ waiters' = waiters /\ call[c].pc = "waiting"
        BY <1>5, <2>1 DEF SleepElapsed
    <2>3. /\ w \in WaitType /\ w.pc = "expiring" /\ w.from = call[c].from
          /\ w.filter = call[c].filter
        BY <1>1, <2>1 DEF WaitType, Ended
    <2>4. Fine(w, log, seq, c \in waiters')
        BY <1>1, <2>2, <2>3 DEF Fine
    <2> QED BY <1>2, <2>2, <2>3, <2>4, OneCallKeeps
<1>6. CASE ExpireLocked(c)
    <2>1. PICK w : w = [call[c] EXCEPT !.pc = "timedOut", !.cursor = seq]
        OBVIOUS
    <2>2. call' = [call EXCEPT ![c] = w] /\ waiters' = waiters \ {c}
        BY <1>1, <1>6, <2>1 DEF ExpireLocked, WaitType, Inv, BufferTypes
    <2>3. w \in WaitType /\ w.pc = "timedOut" /\ w.from = call[c].from
        BY <1>1, <2>1 DEF WaitType, Ended
    <2>4. Fine(w, log, seq, c \in waiters')
        BY <1>1, <2>2, <2>3 DEF Fine
    <2> QED BY <1>2, <2>2, <2>3, <2>4, OneCallKeeps
<1> QED BY <1>2, <1>3, <1>4, <1>5, <1>6 DEF Settle

\* One page accounts for every number up to the cursor it returns.
LEMMA PageKeeps ==
    ASSUME Inv, PagerAccountsForAll, pager.cursor <= seq, GetEvents
    PROVE  Inv' /\ PagerAccountsForAll' /\ pager'.cursor <= seq'
<1>1. /\ seq \in Nat /\ IsWindow(events, log, seq) /\ events \in Seq(BufferedEvent)
      /\ pager \in [cursor : Nat, seen : SUBSET Nat, again : SUBSET Nat,
                    missed : SUBSET Nat]
      /\ Accounts(pager, seq - Len(events))
    BY InTermsOfTheRing DEF Inv, BufferTypes
<1>2. PICK got : got = { b.seq : b \in ReadSince(events, pager.cursor) }
    OBVIOUS
<1>3. got \subseteq Nat
    BY <1>1, <1>2, ReadSinceIsWindow
<1>4. PICK gone : gone = { i \in (pager.cursor + 1)..seq : \A g \in got : i < g }
    OBVIOUS
<1>5. gone \subseteq Nat
    BY <1>1, <1>4
<1>6. PICK q : q = [cursor |-> seq, seen |-> pager.seen \cup got,
                    again |-> pager.again \cup (pager.seen \cap got),
                    missed |-> pager.missed \cup gone]
    OBVIOUS
<1>7. pager' = q /\ UNCHANGED <<events, seq, waiters, call, log>>
    BY <1>2, <1>4, <1>6 DEF GetEvents
<1>8. Accounts(q, seq - Len(events))
    BY <1>1, <1>2, <1>4, <1>6, PageAccounts
<1>9. /\ q \in [cursor : Nat, seen : SUBSET Nat, again : SUBSET Nat, missed : SUBSET Nat]
      /\ q.cursor = seq
    BY <1>1, <1>3, <1>5, <1>6
<1>10. BufferTypes' /\ RingIsWindow' /\ AllFine'
    BY <1>7, <1>9 DEF Inv, BufferTypes, RingIsWindow, AllFine
<1>11. PagerAccountsForAll'
    BY <1>7, <1>8 DEF PagerAccountsForAll, Accounts
<1> QED BY <1>1, <1>7, <1>9, <1>10, <1>11 DEF Inv

\* Where the agent does not page, what it missed stays below the window.
LEMMA PagerKeeps ==
    ASSUME Inv, PagerAccountsForAll, pager.cursor <= seq, UNCHANGED pager,
           seq' \in Nat, seq <= seq', Len(events') \in Nat,
           seq - Len(events) <= seq' - Len(events')
    PROVE  PagerAccountsForAll' /\ pager'.cursor <= seq'
<1>1. /\ seq \in Nat /\ Len(events) \in Nat /\ pager.cursor \in Nat
      /\ pager.missed \in SUBSET Nat
    BY DEF Inv, BufferTypes
<1>2. \A i \in pager.missed : i <= seq' - Len(events')
    BY <1>1 DEF PagerAccountsForAll
<1> QED BY <1>1, <1>2 DEF PagerAccountsForAll

-----------------------------------------------------------------------------
\* The theorems.

Paging == PagerAccountsForAll /\ pager.cursor <= seq

\* Every kind of step keeps everything.
LEMMA StepsKeep ==
    ASSUME Plumbing, Inv, Paging, [Next]_vars
    PROVE  Inv' /\ Paging'
<1>1. /\ seq \in Nat /\ Len(events) \in Nat /\ PagerAccountsForAll /\ pager.cursor <= seq
      /\ BufferTypes /\ RingIsWindow /\ AllFine
    BY DEF Inv, BufferTypes, Paging
<1>2. ASSUME NEW ev \in QmpEvent, append(ev), UNCHANGED pager PROVE Inv' /\ Paging'
    <2>1. /\ BufferTypes' /\ RingIsWindow' /\ AllFine'
          /\ seq - Len(events) <= seq' - Len(events')
        BY <1>1, <1>2, AppendSlides, AppendFine
    <2>2. seq' \in Nat /\ seq <= seq' /\ Len(events') \in Nat
        BY <1>1, <1>2, <2>1 DEF append, BufferTypes
    <2> QED BY <1>1, <1>2, <2>1, <2>2, PagerKeeps DEF Inv, Paging
<1>3. ASSUME reset, UNCHANGED pager PROVE Inv' /\ Paging'
    <2>1. Inv' /\ seq - Len(events) <= seq' - Len(events')
        BY <1>3, ResetKeeps
    <2>2. seq' \in Nat /\ seq <= seq' /\ Len(events') \in Nat
        BY <1>1, <1>3, <2>1 DEF reset, Inv, BufferTypes
    <2> QED BY <1>1, <1>3, <2>1, <2>2, PagerKeeps DEF Paging
<1>4. ASSUME Inv', UNCHANGED <<events, seq, pager>> PROVE Inv' /\ Paging'
    BY <1>4 DEF Paging, PagerAccountsForAll
<1>5. ASSUME NEW c \in Call, NEW filter \in Filter, NEW poll \in BOOLEAN,
             \/ \E since \in 0..seq : WaitSince(c, filter, since, poll)
             \/ WaitFuture(c, filter, poll)
      PROVE  Inv' /\ Paging'
    BY <1>4, <1>5, WaitSinceKeeps, WaitFutureKeeps
<1>6. ASSUME NEW c \in Call, Settle(c) PROVE Inv' /\ Paging'
    BY <1>4, <1>6, SettleKeeps
<1>7. CASE GetEvents
    BY <1>1, <1>7, PageKeeps DEF Paging
<1>8. CASE UNCHANGED <<events, seq, waiters, call, log, pager>>
    <2>1. Inv'
        BY <1>8 DEF Inv, BufferTypes, RingIsWindow, AllFine
    <2> QED BY <1>4, <1>8, <2>1
<1> QED BY <1>2, <1>3, <1>5, <1>6, <1>7, <1>8, StepKinds

\* The behaviours begin so.
LEMMA StartsWell == Init => Plumbing /\ Inv /\ Paging
<1> SUFFICES ASSUME Init PROVE Plumbing /\ Inv /\ Paging
    OBVIOUS
<1>1. <<>> \in Seq(BufferedEvent) /\ <<>> \in Seq(QmpEvent) /\ Len(<<>>) = 0
    OBVIOUS
<1>2. Plumbing
    BY <1>1, BoundsAssumption DEF Init, Plumbing, AtMostOne
<1>3. BufferTypes
    BY <1>1, NoWaitType DEF Init, BufferTypes
<1>4. RingIsWindow
    BY <1>1, CapacityAssumption DEF Init, RingIsWindow
<1>5. AllFine
    BY DEF Init, AllFine, Fine, Feed!NoWait, Feed!Wait
<1>6. Paging
    BY DEF Init, Paging, PagerAccountsForAll
<1> QED BY <1>2, <1>3, <1>4, <1>5, <1>6 DEF Inv

\* The invariant of the buffer.
LEMMA InvHolds == Spec => [](Plumbing /\ Inv /\ Paging)
<1>1. Plumbing /\ Inv /\ Paging /\ [Next]_vars => Plumbing' /\ Inv' /\ Paging'
    BY PlumbingHolds, StepsKeep
<1> QED BY <1>1, StartsWell, PTL DEF Spec

\* At every point where another thread can take the mutex the buffer is sound:
\* the ring is the newest part of what was appended, gapless and within its
\* capacity, a future that sleeps is registered and has slept through nothing,
\* and one that has ended is not (append, wait_for, reset and the feeder task).
THEOREM BufferIsSound == Spec => []BufferHolds
<1>1. Plumbing /\ Inv /\ Paging => BufferHolds
    BY TypesAreBoth, FineAnswers DEF Inv, BufferHolds
<1> QED BY <1>1, InvHolds, PTL

\* A wait that is sent an event is sent the first that it asked for, and has
\* still got that one when it is polled at last (append and the select of wait_for).
THEOREM FirstMatchIsSent == Spec => []MatchIsFirst
<1>1. Plumbing /\ Inv /\ Paging => MatchIsFirst
    BY FineAnswers DEF Inv
<1> QED BY <1>1, InvHolds, PTL

\* An agent that pages by cursor sees no event twice and can account for every
\* number it did not see, across feeders, resets and Instances (read_since).
THEOREM PagesAddUp == Spec => []PagerAccountsForAll
<1>1. Plumbing /\ Inv /\ Paging => PagerAccountsForAll
    BY DEF Paging
<1> QED BY <1>1, InvHolds, PTL

=============================================================================
