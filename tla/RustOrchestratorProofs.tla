------------------------ MODULE RustOrchestratorProofs ------------------------
(***************************************************************************)
(* Proofs about the Rust Orchestrator's lifecycle, for any number of calls,  *)
(* QEMU processes and ends of the server, whatever is left at the socket     *)
(* paths, and every order in which calls and exit watchers get the lock.     *)
(***************************************************************************)
EXTENDS RustOrchestrator, Integers, SequenceTheorems, TLAPS

-----------------------------------------------------------------------------
\* The invariant.

\* A task, as a record.
Rec == [pc : {"idle", "armed", "queued", "over"} \cup Steps,
        proc : Proc \cup {None}, todo : SUBSET Companions]

\* The lock and the tasks agree: whoever waits for the lock or is at a step under
\* it stands in the queue, once, and who is at a step stands first.
Queue ==
    /\ lock \in Seq(Task)
    /\ task \in [Task -> Rec]
    /\ \A i, j \in DOMAIN lock : lock[i] = lock[j] => i = j
    /\ \A t \in Task :
          task[t].pc \in Steps \cup {"queued"} <=> \E i \in DOMAIN lock : lock[i] = t
    /\ \A t \in Task : task[t].pc \in Steps => Holds(t)
    /\ \A t \in Task : task[t].pc \notin Steps => task[t].proc = None

\* The exit watchers: that of the Instance waits for its exit or for the lock, and
\* that of a QEMU that was never published does not exist.
Watchers ==
    /\ handle # None => task[handle].pc \in {"armed", "queued"}
    /\ \A p \in Proc : p > generation => task[p].pc = "idle"

\* The types of everything else.
FieldTypes ==
    /\ state \in {"NONE", "STARTING", "RUNNING", "PAUSED", "STOPPED"}
    /\ handle \in Mine \cup {None}
    /\ generation \in Mine \cup {None}
    /\ made \in 0..MaxProc
    /\ alive \subseteq 1..made
    /\ path \in [Path -> Proc \cup {None, Foreign}]
    /\ peer \in [Proc -> Proc \cup {None}]
    /\ line \in [Proc -> Proc \cup {None}]
    /\ viewers \subseteq Mine
    /\ ends \in 0..MaxEnds
    /\ born \in 0..made

\* Who listens where: only what runs does, at no more than it was told to; and what a
\* killed server left running has yet to bind only what it had yet to bind then.
Sockets ==
    /\ argv \in [Proc -> SUBSET Path] /\ bound \in [Proc -> SUBSET Path]
    /\ \A p \in Proc : bound[p] \subseteq argv[p] /\ (p \notin alive => argv[p] = {})
    /\ \A p \in alive : p \notin Mine => \A x \in argv[p] \ bound[p] : p \in late[x]
    /\ \A x \in Path : late[x] \subseteq 1..born

\* An Instance is watched, and of the current generation.
Published ==
    /\ watcher = handle
    /\ handle # None => generation = handle /\ state \in {"RUNNING", "PAUSED"}

Launching == {"dialing", "attaching", "arming", "aborting"}
Closing == {"viewer", "closing"}

\* What the fields say while the holder of the lock is at the step r.pc, with the
\* QEMU r.proc; when it is at none (or there is no holder), nothing is half done.
Phase(r) ==
    /\ r.pc \notin Steps => r.proc = None /\ (handle = None => state = "NONE")
    /\ r.pc = "checking" => state = "STARTING" /\ handle = None /\ r.proc = None
    /\ r.pc \in Launching =>
          /\ state = "STARTING" /\ handle = None
          /\ r.proc = made /\ r.proc \in Mine
          /\ r.proc \notin viewers /\ generation < r.proc
    /\ r.pc \in {"dialing", "attaching", "aborting"} => line[r.proc] = None
    /\ r.pc = "dialing" => path["qmp"] \in {None, r.proc} \cup late["qmp"]
    /\ r.pc \in {"dialing", "attaching"} /\ "serial" \in r.todo =>
          path["serial"] \in {None, r.proc} \cup late["serial"]
    /\ r.pc = "attaching" => "serial" \in r.todo
    /\ r.pc \in {"cont", "sent"} => handle = r.proc /\ handle # None
    /\ r.pc = "recording" =>
          handle = None /\ r.proc \in Mine /\ state \in {"RUNNING", "PAUSED"}
    /\ r.pc \in Closing =>
          handle = None /\ r.proc \in Mine /\ state = "STOPPED" /\ line[r.proc] = None
    /\ r.pc = "closing" => r.proc \notin viewers

\* Whatever of this server runs, listens or is at the QMP path is the Instance's
\* or the lock holder's.
Owned(r) ==
    /\ \A p \in Proc :
          (p \in alive /\ p \in Mine) \/ p \in viewers \/ line[p] # None =>
             p \in {handle, r.proc}
    /\ path["qmp"] \in Mine => path["qmp"] \in {handle, r.proc}

Fields(r) == FieldTypes /\ Sockets /\ Published /\ Phase(r) /\ Owned(r) /\ OwnSession

Inv ==
    /\ Queue
    /\ Watchers
    /\ \A t \in Task : Holds(t) => Fields(task[t])
    /\ lock = <<>> => Fields(Idle)

-----------------------------------------------------------------------------
\* It says what the properties say.

\* None is no task, and no QEMU.
LEMMA NoneIsNobody == None \notin Task /\ None \notin Proc /\ Call \cap Proc = {}
BY CallAssumption, BoundsAssumption DEF None, Task, Proc

\* The one at the lock, if anybody is there.
LEMMA SomeHolder ==
    ASSUME Queue
    PROVE  lock = <<>> \/ \E t \in Task : Holds(t)
BY DEF Queue, Holds

\* Nothing is orphaned, nothing doubled, and nothing adopted but by a late bind.
LEMMA InvIsOurs == Inv => InstanceIsOurs
<1> SUFFICES ASSUME Inv PROVE InstanceIsOurs
    OBVIOUS
<1>1. PICK r \in Rec : /\ Fields(r)
                       /\ r.proc # None => \E t \in Task : Holds(t) /\ task[t].proc = r.proc
    <2>1. CASE lock = <<>>
        <3>1. Idle \in Rec /\ Idle.proc = None
            BY DEF Idle, Rec
        <3> QED BY <2>1, <3>1 DEF Inv
    <2>2. CASE \E t \in Task : Holds(t)
        BY <2>2 DEF Inv, Queue
    <2> QED BY <2>1, <2>2, SomeHolder DEF Inv
<1>2. \A p \in Mine : p \in Proc /\ p # None
    BY <1>1, BoundsAssumption DEF Fields, FieldTypes, Mine, Proc, None
<1>3. NoOrphan
    BY <1>1, <1>2 DEF Fields, Owned, NoOrphan
<1>4. OneInstance
    <2>1. r.proc = None \/ handle = None \/ r.proc = handle
        BY <1>1 DEF Fields, Phase, Rec, Steps, Launching, Closing
    <2> QED BY <1>1, <1>2, <2>1 DEF Fields, Owned, OneInstance
<1>5. OwnSession
    BY <1>1 DEF Fields
<1> QED BY <1>3, <1>4, <1>5 DEF InstanceIsOurs

\* The types are right, and who gets the lock finds nothing half done.
LEMMA InvIsSettled == Inv => Settled
<1> SUFFICES ASSUME Inv PROVE Settled
    OBVIOUS
<1>1. PICK r \in Rec : Fields(r)
    <2>1. Idle \in Rec
        BY DEF Idle, Rec
    <2> QED BY <2>1, SomeHolder DEF Inv, Queue
<1>2. TypeOK
    <2>1. task \in [Task -> [pc : {"idle", "armed", "queued", "over"} \cup Steps,
                             proc : Mine \cup {None}, todo : SUBSET Companions]]
        <3>1. SUFFICES ASSUME NEW t \in Task PROVE task[t].proc \in Mine \cup {None}
            BY DEF Inv, Queue, Rec
        <3>2. CASE task[t].pc \in Steps
            <4>1. Fields(task[t])
                BY <3>2 DEF Inv, Queue
            <4> QED BY <3>2, <4>1
                    DEF Fields, FieldTypes, Phase, Steps, Launching, Closing
        <3>3. CASE task[t].pc \notin Steps
            BY <3>3 DEF Inv, Queue
        <3> QED BY <3>2, <3>3
    <2>2. watcher \in Mine \cup {None}
        BY <1>1 DEF Fields, FieldTypes, Published
    <2> QED BY <1>1, <2>1, <2>2 DEF Inv, Queue, Fields, FieldTypes, Sockets, TypeOK
<1>3. ASSUME lock = <<>> PROVE SettledWhenUnlocked
    <2>1. Fields(Idle) /\ Idle.pc \notin Steps /\ Idle.proc = None
        BY <1>3 DEF Inv, Idle, Steps
    <2>2. \A t \in Task : task[t].pc # "queued"
        BY <1>3 DEF Inv, Queue
    <2>3. ASSUME handle # None PROVE task[handle].pc = "armed"
        <3>1. handle \in Task
            BY <2>1, <2>3, BoundsAssumption DEF Fields, FieldTypes, Mine, Task, Proc
        <3> QED BY <2>2, <2>3, <3>1 DEF Inv, Watchers
    <2>4. path["qmp"] \in Mine => path["qmp"] = handle
        <3>1. None \notin Mine
            BY <2>1 DEF Fields, FieldTypes, Mine, None
        <3> QED BY <2>1, <3>1 DEF Fields, Owned
    <2> QED BY <2>1, <2>3, <2>4 DEF Fields, Phase, Published, SettledWhenUnlocked
<1> QED BY <1>2, <1>3 DEF Settled, SettledWhenUnlocked

-----------------------------------------------------------------------------
\* What a step does to the queue.

\* A task at no step leaves the fields as every other task at no step.
LEMMA RestingAlike ==
    ASSUME NEW r, NEW s, r.pc \notin Steps, s.pc \notin Steps,
           r.proc = None, s.proc = None
    PROVE  Fields(r) => Fields(s)
<1>1. Phase(r) => Phase(s)
    BY DEF Phase, Steps, Launching, Closing
<1>2. Owned(r) => Owned(s)
    BY DEF Owned
<1> QED BY <1>1, <1>2 DEF Fields

\* The same of the next state.
LEMMA RestingAlikeNext ==
    ASSUME NEW r, NEW s, r.pc \notin Steps, s.pc \notin Steps,
           r.proc = None, s.proc = None
    PROVE  Fields(r)' => Fields(s)'
<1>1. Phase(r)' => Phase(s)'
    BY DEF Phase, Steps, Launching, Closing
<1>2. Owned(r)' => Owned(s)'
    BY DEF Owned
<1> QED BY <1>1, <1>2 DEF Fields

\* The holder of the lock stands in it.
LEMMA HolderStands ==
    ASSUME Queue, NEW t \in Task, Holds(t)
    PROVE  1 \in DOMAIN lock /\ lock[1] = t /\ lock # <<>> /\ Len(lock) \in Nat
BY DEF Queue, Holds

\* Generations are numbers.
LEMMA GenerationIsNumber ==
    ASSUME Inv
    PROVE  generation \in Int /\ made \in Nat /\ born \in Nat
<1>1. FieldTypes
    BY SomeHolder DEF Inv, Fields
<1> QED BY <1>1, BoundsAssumption DEF FieldTypes, Mine, None

\* The holder goes on to another step, and keeps the lock.
LEMMA HolderMoves ==
    ASSUME Inv, NEW t \in Task, Holds(t), NEW r \in Rec, r.pc \in Steps,
           task' = [task EXCEPT ![t] = r], UNCHANGED lock, Fields(r)',
           handle' # None => handle' = handle /\ handle # t /\ handle \in Task,
           generation' = generation, t \notin Proc \/ t <= generation
    PROVE  Inv'
<1>0. Queue /\ Watchers
    BY DEF Inv
<1>1. 1 \in DOMAIN lock /\ lock[1] = t /\ lock # <<>>
    BY <1>0, HolderStands
<1>2. \A u \in Task : task'[u] = IF u = t THEN r ELSE task[u]
    BY <1>0 DEF Queue
<1>3. \A u \in Task : Holds(u)' <=> Holds(u)
    BY DEF Holds
<1>4. \A u \in Task : Holds(u) => u = t
    BY DEF Holds
<1>5. Queue'
    <2>1. task' \in [Task -> Rec]
        BY <1>0 DEF Queue
    <2>2. ASSUME NEW u \in Task
          PROVE  task'[u].pc \in Steps \cup {"queued"} <=> \E i \in DOMAIN lock' : lock'[i] = u
        BY <1>0, <1>1, <1>2 DEF Queue
    <2>3. ASSUME NEW u \in Task
          PROVE  /\ task'[u].pc \in Steps => Holds(u)'
                 /\ task'[u].pc \notin Steps => task'[u].proc = None
        BY <1>0, <1>2, <1>3 DEF Queue
    <2> QED BY <1>0, <2>1, <2>2, <2>3 DEF Queue
<1>6. Watchers'
    <2>1. ASSUME NEW p \in Proc, p > generation' PROVE task'[p].pc = "idle"
        <3>1. generation \in Int
            BY GenerationIsNumber
        <3>2. p # t
            BY <2>1, <3>1, BoundsAssumption DEF Proc
        <3> QED BY <1>0, <1>2, <2>1, <3>2 DEF Watchers, Task
    <2>2. ASSUME handle' # None PROVE task'[handle'].pc \in {"armed", "queued"}
        BY <1>0, <1>2, <2>2 DEF Watchers
    <2> QED BY <1>0, <2>1, <2>2 DEF Watchers
<1>7. ASSUME NEW u \in Task, Holds(u)' PROVE Fields(task[u])'
    BY <1>2, <1>3, <1>4, <1>7
<1> QED BY <1>1, <1>5, <1>6, <1>7 DEF Inv

\* What a task is when it has returned.
LEMMA ReturnedTasks ==
    ASSUME Queue, NEW t \in Task, Holds(t), Returns(t)
    PROVE  /\ lock' = Tail(lock)
           /\ \A u \in Task \ {t} : task'[u] = task[u]
           /\ task'[t] \in Rec /\ task'[t].pc \in {"idle", "over"}
           /\ task'[t].proc = None
           /\ task' \in [Task -> Rec]
           /\ t \in Proc => task'[t].pc = "idle"
<1>1. Idle \in Rec /\ Idle.pc = "idle" /\ Idle.proc = None
    BY DEF Idle, Rec
<1>2. Over \in Rec /\ Over.pc = "over" /\ Over.proc = None
    BY DEF Over, Idle, Rec
<1>3. t \in Proc => t \notin Shutdown
    BY NoneIsNobody, ShutdownAssumption DEF Call
<1> QED BY <1>1, <1>2, <1>3 DEF Returns, Queue

\* The holder returns, and the lock goes to the next.
LEMMA HolderReturns ==
    ASSUME Inv, NEW t \in Task, Holds(t), Returns(t), Fields(Idle)',
           handle' # None => handle' = handle /\ handle # t /\ handle \in Task,
           generation' = generation
    PROVE  Inv'
<1> DEFINE n == Len(lock)
<1>0. Queue /\ Watchers
    BY DEF Inv
<1>1. 1 \in DOMAIN lock /\ lock[1] = t /\ lock # <<>> /\ n \in Nat /\ DOMAIN lock = 1..n
      /\ lock \in Seq(Task)
    BY <1>0, HolderStands DEF Queue
<1>2. /\ lock' = Tail(lock)
      /\ \A u \in Task \ {t} : task'[u] = task[u]
      /\ task'[t] \in Rec /\ task'[t].pc \in {"idle", "over"}
      /\ task'[t].proc = None
      /\ task' \in [Task -> Rec]
      /\ t \in Proc => task'[t].pc = "idle"
    BY <1>0, ReturnedTasks
<1>3. /\ lock' \in Seq(Task) /\ DOMAIN lock' = 1..(n - 1)
      /\ \A i \in 1..(n - 1) : lock'[i] = lock[i + 1] /\ i + 1 \in 1..n
    BY <1>1, <1>2
<1> HIDE DEF n
<1>4. \A u \in Task \ {t} : task[u].pc \notin Steps
    BY <1>0 DEF Queue, Holds
<1>5. \A u \in Task : task'[u].pc \notin Steps /\ task'[u].proc = None
    <2>1. task'[t].pc \notin Steps
        BY <1>2 DEF Steps
    <2> QED BY <1>0, <1>2, <1>4, <2>1 DEF Queue
<1>6. Queue'
    <2>1. ASSUME NEW i \in DOMAIN lock', NEW j \in DOMAIN lock', lock'[i] = lock'[j]
          PROVE  i = j
        <3>1. i + 1 \in DOMAIN lock /\ j + 1 \in DOMAIN lock /\ lock[i + 1] = lock[j + 1]
            BY <1>1, <1>3, <2>1
        <3>2. i + 1 = j + 1
            BY <1>0, <3>1 DEF Queue
        <3> QED BY <1>3, <3>2
    <2>2. ASSUME NEW u \in Task
          PROVE  task'[u].pc \in Steps \cup {"queued"} <=> \E i \in DOMAIN lock' : lock'[i] = u
        <3>1. CASE u = t
            <4>1. ~ \E i \in DOMAIN lock' : lock'[i] = t
                <5>1. SUFFICES ASSUME NEW i \in DOMAIN lock', lock'[i] = t PROVE FALSE
                    OBVIOUS
                <5>2. i + 1 \in DOMAIN lock /\ lock[i + 1] = lock[1]
                    BY <1>1, <1>3, <5>1
                <5>3. i + 1 = 1
                    BY <1>0, <1>1, <5>2 DEF Queue
                <5> QED BY <1>3, <5>3
            <4>2. task'[t].pc \notin Steps \cup {"queued"}
                BY <1>2 DEF Steps
            <4> QED BY <3>1, <4>1, <4>2
        <3>2. CASE u # t
            <4>1. (\E i \in DOMAIN lock' : lock'[i] = u) <=> (\E i \in DOMAIN lock : lock[i] = u)
                <5>1. ASSUME NEW i \in DOMAIN lock, lock[i] = u
                      PROVE  \E j \in DOMAIN lock' : lock'[j] = u
                    <6>1. i # 1
                        BY <1>1, <3>2, <5>1
                    <6>2. i - 1 \in 1..(n - 1) /\ (i - 1) + 1 = i
                        BY <1>1, <6>1
                    <6> QED BY <1>3, <5>1, <6>2
                <5>2. ASSUME NEW j \in DOMAIN lock', lock'[j] = u
                      PROVE  \E i \in DOMAIN lock : lock[i] = u
                    BY <1>1, <1>3, <5>2
                <5> QED BY <5>1, <5>2
            <4> QED BY <1>0, <1>2, <3>2, <4>1 DEF Queue
        <3> QED BY <3>1, <3>2
    <2> QED BY <1>0, <1>2, <1>3, <1>5, <2>1, <2>2 DEF Queue
<1>7. Watchers'
    <2>1. ASSUME NEW p \in Proc, p > generation' PROVE task'[p].pc = "idle"
        BY <1>0, <1>2, <2>1 DEF Watchers, Task
    <2>2. ASSUME handle' # None PROVE task'[handle'].pc \in {"armed", "queued"}
        BY <1>0, <1>2, <2>2 DEF Watchers
    <2> QED BY <1>0, <2>1, <2>2 DEF Watchers
<1>8. ASSUME NEW u \in Task PROVE Fields(task[u])'
    <2>1. PICK r : r = task'[u]
        OBVIOUS
    <2>2. PICK s : s = Idle
        OBVIOUS
    <2>3. s.pc \notin Steps /\ s.proc = None /\ r.pc \notin Steps /\ r.proc = None
        BY <1>5, <2>1, <2>2 DEF Idle, Steps
    <2>4. Fields(s)'
        BY <2>2
    <2>5. Fields(r)'
        BY <2>3, <2>4, RestingAlikeNext
    <2> QED BY <2>1, <2>5
<1> QED BY <1>6, <1>7, <1>8 DEF Inv

\* A task that did not stand in the queue goes to its end.
LEMMA TaskArrives ==
    ASSUME Inv, NEW t \in Task, task[t].pc \in {"idle", "armed"},
           t \in Proc => t <= generation,
           task' = [task EXCEPT ![t].pc = "queued"], lock' = Append(lock, t),
           UNCHANGED <<fields, host, links, server>>
    PROVE  Inv'
<1> DEFINE n == Len(lock)
<1>1. lock \in Seq(Task) /\ n \in Nat /\ DOMAIN lock = 1..n
    BY DEF Inv, Queue
<1>2. /\ lock' \in Seq(Task) /\ DOMAIN lock' = 1..(n + 1) /\ lock'[n + 1] = t
      /\ \A i \in 1..n : lock'[i] = lock[i]
      /\ lock' # <<>>
      /\ lock # <<>> => Head(lock') = Head(lock)
      /\ lock = <<>> => Head(lock') = t
    BY <1>1
<1>3. \A i \in 1..n : lock[i] # t
    BY <1>1 DEF Inv, Queue, Steps
<1>4. PICK r : r = [task[t] EXCEPT !.pc = "queued"]
    OBVIOUS
<1>5. /\ r \in Rec /\ r.pc = "queued" /\ r.proc = None
      /\ \A u \in Task : task'[u] = IF u = t THEN r ELSE task[u]
      /\ task' \in [Task -> Rec]
    <2>1. task[t] \in Rec /\ task[t].proc = None
        BY DEF Inv, Queue, Steps
    <2>2. r \in Rec /\ r.pc = "queued" /\ r.proc = None
        BY <1>4, <2>1 DEF Rec
    <2> QED BY <1>4, <2>2 DEF Inv, Queue
<1> HIDE DEF n
<1>6. \A u \in Task : u # t => (Holds(u)' <=> Holds(u))
    BY <1>2 DEF Holds
<1>7. \A u \in Task : Holds(u) => Holds(u)'
    BY <1>2 DEF Holds
<1>8. Queue'
    <2>1. ASSUME NEW i \in DOMAIN lock', NEW j \in DOMAIN lock', lock'[i] = lock'[j]
          PROVE  i = j
        BY <1>1, <1>2, <1>3, <2>1 DEF Inv, Queue
    <2>2. ASSUME NEW u \in Task
          PROVE  task'[u].pc \in Steps \cup {"queued"} <=> \E i \in DOMAIN lock' : lock'[i] = u
        <3>1. CASE u = t
            BY <1>1, <1>2, <1>5, <3>1
        <3>2. CASE u # t
            <4>1. (\E i \in DOMAIN lock' : lock'[i] = u) <=> (\E i \in DOMAIN lock : lock[i] = u)
                BY <1>1, <1>2, <3>2
            <4> QED BY <1>5, <3>2, <4>1 DEF Inv, Queue
        <3> QED BY <3>1, <3>2
    <2>3. ASSUME NEW u \in Task
          PROVE  /\ task'[u].pc \in Steps => Holds(u)'
                 /\ task'[u].pc \notin Steps => task'[u].proc = None
        BY <1>5, <1>7 DEF Inv, Queue, Steps
    <2> QED BY <1>2, <1>5, <2>1, <2>2, <2>3 DEF Queue
<1>9. Watchers'
    <2>1. ASSUME NEW p \in Proc, p > generation' PROVE task'[p].pc = "idle"
        <3>1. p \in Task /\ generation' = generation /\ generation \in Int
            BY GenerationIsNumber DEF Task, fields
        <3>2. p # t
            BY <2>1, <3>1, BoundsAssumption DEF Proc
        <3> QED BY <1>5, <2>1, <3>1, <3>2 DEF Inv, Watchers
    <2>2. ASSUME handle' # None PROVE task'[handle'].pc \in {"armed", "queued"}
        <3>1. handle' = handle
            BY DEF fields
        <3>2. handle \in Task
            <4>1. handle \in Mine \cup {None} /\ made \in 0..MaxProc /\ born \in 0..made
                BY SomeHolder DEF Inv, Fields, FieldTypes
            <4> QED BY <2>2, <3>1, <4>1, BoundsAssumption DEF Mine, Task, Proc
        <3> QED BY <1>5, <2>2, <3>1, <3>2 DEF Inv, Watchers
    <2> QED BY <2>1, <2>2 DEF Watchers
<1>10. \A s : Fields(s) => Fields(s)'
    BY DEF Fields, FieldTypes, Sockets, Published, Phase, Owned, OwnSession, Mine,
           fields, host, links, server
<1>11. ASSUME NEW u \in Task, Holds(u)' PROVE Fields(task[u])'
    <2>1. CASE lock = <<>>
        <3>1. u = t /\ task'[u] = r
            BY <1>2, <1>5, <1>11, <2>1 DEF Holds
        <3>2. PICK s : s = Idle
            OBVIOUS
        <3>3. Fields(s) /\ s.pc \notin Steps /\ s.proc = None
            BY <2>1, <3>2 DEF Inv, Idle, Steps
        <3>4. Fields(r)
            <4>1. r.pc \notin Steps
                BY <1>5 DEF Steps
            <4> QED BY <1>5, <3>3, <4>1, RestingAlike
        <3>5. Fields(r)'
            BY <1>10, <3>4
        <3> QED BY <3>1, <3>5
    <2>2. CASE lock # <<>>
        <3>1. Holds(u)
            BY <1>2, <1>11, <2>2 DEF Holds
        <3>2. u # t
            BY <1>1, <1>3, <3>1, HolderStands DEF Inv
        <3>3. PICK s : s = task[u]
            OBVIOUS
        <3>4. task'[u] = s
            BY <1>5, <3>2, <3>3
        <3>5. Fields(s)'
            BY <1>10, <3>1, <3>3 DEF Inv
        <3> QED BY <3>4, <3>5
    <2> QED BY <2>1, <2>2
<1> QED BY <1>2, <1>8, <1>9, <1>11 DEF Inv

\* The host moves, and nobody does a step.
LEMMA HostMoves ==
    ASSUME Inv, UNCHANGED <<task, lock, handle, generation>>,
           \A s \in Rec : Fields(s) /\ (\A u \in Task : Holds(u) => s = task[u])
                             => Fields(s)'
    PROVE  Inv'
<1>1. Queue' /\ Watchers'
    BY DEF Inv, Queue, Watchers, Holds
<1>2. ASSUME NEW u \in Task, Holds(u)' PROVE Fields(task[u])'
    <2>1. Holds(u) /\ task[u] \in Rec /\ \A v \in Task : Holds(v) => v = u
        BY <1>2 DEF Holds, Inv, Queue
    <2>2. PICK s \in Rec : s = task[u]
        BY <2>1
    <2>3. Fields(s)' /\ task'[u] = s
        BY <2>1, <2>2 DEF Inv
    <2> QED BY <2>3
<1>3. ASSUME lock' = <<>> PROVE Fields(Idle)'
    <2>1. PICK s \in Rec : s = Idle
        BY DEF Idle, Rec
    <2>2. Fields(s)'
        BY <1>3, <2>1 DEF Inv, Holds
    <2> QED BY <2>1, <2>2
<1> QED BY <1>1, <1>2, <1>3 DEF Inv

\* Whoever holds the lock knows what the fields say.
LEMMA HolderKnows ==
    ASSUME Inv, NEW t \in Task, Holds(t)
    PROVE  task[t] \in Rec /\ Fields(task[t]) /\ task \in [Task -> Rec]
BY DEF Inv, Queue

\* The Instance's QEMU is no call.
LEMMA HandleIsNoCall ==
    ASSUME Inv
    PROVE  /\ handle \in Mine \cup {None} /\ Mine \subseteq Proc /\ None \notin Mine
           /\ \A t \in Call : t # handle /\ t \notin Proc /\ t \in Task
           /\ \A p \in Mine : p \in Task
<1>1. FieldTypes
    BY SomeHolder DEF Inv, Fields
<1>2. handle \in Mine \cup {None} /\ Mine \subseteq Proc /\ None \notin Mine
    BY <1>1, BoundsAssumption DEF FieldTypes, Mine, Proc, None
<1>3. \A t \in Call : t # None
    BY NoneIsNobody DEF Task
<1> QED BY <1>2, <1>3, NoneIsNobody DEF Task

-----------------------------------------------------------------------------
\* QEMU and the host.

\* QEMU binds a socket: the launch's, the Instance's, or a late one.
LEMMA QemuBindsStep ==
    ASSUME Inv, NEW p \in Proc, QemuBinds(p)
    PROVE  Inv'
<1>1. PICK y \in argv[p] \ bound[p] : /\ path' = [path EXCEPT ![y] = p]
                                      /\ bound' = [bound EXCEPT ![p] = @ \cup {y}]
    BY DEF QemuBinds
<1>2. /\ p \in alive
      /\ UNCHANGED <<fields, lock, task, made, alive, argv, links, server>>
    BY DEF QemuBinds
<1>3. ASSUME NEW s \in Rec, Fields(s) PROVE Fields(s)'
    <2> USE <1>1, <1>2, <1>3 DEF Fields
    <2>1. y \in Path /\ None \notin Mine
        BY HandleIsNoCall DEF Sockets
    <2>2. (p \in Mine /\ p \in {handle, s.proc}) \/ (p \notin Mine /\ p \in late[y])
        BY DEF Owned, Sockets
    <2>3. path' \in [Path -> Proc \cup {None, Foreign}]
        BY <2>1 DEF FieldTypes
    <2>4. FieldTypes' /\ Published' /\ OwnSession'
        BY <2>3 DEF FieldTypes, Published, OwnSession, Mine, fields, links, server
    <2>5. Sockets'
        BY <2>1 DEF Sockets, Mine, server
    <2>6. \A x \in Path : path'[x] \in {path[x]} \cup (IF x = y THEN {p} ELSE {})
        BY <2>3 DEF FieldTypes
    <2>7. Phase(s)'
        <3>1. s.pc \in {"dialing", "attaching"} => p \in {s.proc} \cup late[y]
            BY <2>1, <2>2 DEF Phase, Launching
        <3>2. s.pc = "dialing" => path'["qmp"] \in {None, s.proc} \cup late["qmp"]
            BY <2>6, <3>1 DEF Phase, Path
        <3>3. s.pc \in {"dialing", "attaching"} /\ "serial" \in s.todo =>
                  path'["serial"] \in {None, s.proc} \cup late["serial"]
            BY <2>6, <3>1 DEF Phase, Path
        <3> QED BY <3>2, <3>3 DEF Phase, Mine, fields, links, server
    <2>8. Owned(s)'
        <3>1. path'["qmp"] \in Mine => path'["qmp"] \in {handle, s.proc}
            BY <2>2, <2>6 DEF Owned, Path
        <3> QED BY <3>1 DEF Owned, Mine, fields, links, server
    <2> QED BY <2>4, <2>5, <2>7, <2>8
<1> QED BY <1>2, <1>3, HostMoves DEF fields

\* QEMU exits, and may remove the socket files it has bound.
LEMMA QemuExitsStep ==
    ASSUME Inv, NEW p \in Proc, NEW clean \in BOOLEAN, QemuExits(p, clean)
    PROVE  Inv'
<1>1. /\ UNCHANGED <<fields, lock, task, made, links, server>>
      /\ alive' = alive \ {p}
      /\ path' = [x \in Path |-> IF clean /\ x \in bound[p] THEN None ELSE path[x]]
      /\ argv' = [argv EXCEPT ![p] = {}] /\ bound' = [bound EXCEPT ![p] = {}]
    BY DEF QemuExits
<1>2. ASSUME NEW s \in Rec, Fields(s) PROVE Fields(s)'
    <2>1. \A x \in Path : path'[x] \in {None, path[x]}
        BY <1>1
    <2>2. path' \in [Path -> Proc \cup {None, Foreign}]
        BY <1>1, <1>2 DEF Fields, FieldTypes
    <2>3. FieldTypes' /\ Published' /\ OwnSession'
        BY <1>1, <1>2, <2>2 DEF Fields, FieldTypes, Published, OwnSession, Mine,
                                fields, links, server
    <2>4. Sockets'
        BY <1>1, <1>2 DEF Fields, Sockets, Mine, server
    <2>5. Phase(s)'
        BY <1>1, <1>2, <2>1 DEF Fields, Phase, Path, Mine, fields, links, server
    <2>6. Owned(s)'
        <3>1. None \notin Mine
            BY HandleIsNoCall
        <3> QED BY <1>1, <1>2, <2>1, <3>1 DEF Fields, Owned, Path, Mine, fields, links, server
    <2> QED BY <2>3, <2>4, <2>5, <2>6 DEF Fields
<1> QED BY <1>1, <1>2, HostMoves DEF fields

\* A session ends.
LEMMA SessionDropsStep ==
    ASSUME Inv, NEW p \in Proc, SessionDrops(p)
    PROVE  Inv'
<1>1. /\ UNCHANGED <<fields, lock, task, host, line, viewers, server>>
      /\ peer' = [peer EXCEPT ![p] = None]
    BY DEF SessionDrops
<1>2. ASSUME NEW s \in Rec, Fields(s) PROVE Fields(s)'
    <2>1. peer' \in [Proc -> Proc \cup {None}] /\ OwnSession'
        BY <1>1, <1>2 DEF Fields, FieldTypes, OwnSession, server
    <2> QED BY <1>1, <1>2, <2>1 DEF Fields, FieldTypes, Sockets, Published, Phase, Owned, Mine,
                                    fields, host, server
<1> QED BY <1>1, <1>2, HostMoves DEF fields

-----------------------------------------------------------------------------
\* Arrivals.

\* A call arrives.
LEMMA RequestStep ==
    ASSUME Inv, NEW t \in Call, Request(t)
    PROVE  Inv'
BY HandleIsNoCall, TaskArrives DEF Request

\* A watcher wakes.
LEMMA WatcherWakesStep ==
    ASSUME Inv, NEW p \in Proc, WatcherWakes(p)
    PROVE  Inv'
<1>1. p \in Task /\ task[p].pc = "armed"
    BY DEF Task, WatcherWakes
<1>2. p <= generation
    <2>1. ~ (p > generation)
        BY <1>1 DEF Inv, Watchers
    <2>2. p \in Int /\ generation \in Int
        BY GenerationIsNumber, BoundsAssumption DEF Proc
    <2> QED BY <2>1, <2>2
<1> QED BY <1>1, <1>2, TaskArrives DEF WatcherWakes

-----------------------------------------------------------------------------
\* Steps under the lock.

\* A create reserves the slot.
LEMMA ChecksStep ==
    ASSUME Inv, NEW c \in Create, NEW spec \in Specs, CreateBegin(c), state = "NONE",
           task' = [task EXCEPT ![c].pc = "checking", ![c].todo = spec],
           UNCHANGED lock, state' = "STARTING"
    PROVE  Inv'
<1> USE HandleIsNoCall, NoneIsNobody, BoundsAssumption
<1>1. c \in Task /\ Holds(c) /\ task[c].pc = "queued"
    BY DEF CreateBegin, At, Task, Call
<1>2. PICK s \in Rec : s = task[c] /\ Fields(s) /\ s.pc = "queued"
    BY <1>1, HolderKnows
<1>3. PICK r : r = [s EXCEPT !.pc = "checking", !.todo = spec]
    OBVIOUS
<1>4. /\ task' = [task EXCEPT ![c] = r] /\ UNCHANGED lock
      /\ state = "NONE" /\ state' = "STARTING"
      /\ UNCHANGED <<handle, generation, watcher, host, links, server>>
    BY <1>1, <1>2, <1>3, HolderKnows DEF CreateBegin, At, Goes, fields, host, links, server
<1>5. /\ r \in Rec /\ r.pc \in Steps
      /\ r.pc = "checking" /\ r.proc = s.proc
    BY <1>2, <1>3, SpecsAssumption DEF Rec, Steps, Companions, Fields, FieldTypes, Mine, Proc
<1>6. Fields(r)'
    <2> USE <1>2, <1>4, <1>5 DEF Fields, Mine, fields, host, links, server
    <2>1. FieldTypes'
        BY DEF FieldTypes
    <2>2. Published'
        BY DEF Published
    <2>3. Phase(r)'
        BY DEF Phase, Published, Steps, Launching, Closing
    <2>4. Owned(r)'
        BY DEF Owned
    <2>5. OwnSession' /\ Sockets'
        BY DEF OwnSession, Sockets
    <2> QED BY <2>1, <2>2, <2>3, <2>4, <2>5
<1>7. handle' # None => handle' = handle /\ handle # c /\ handle \in Task
    BY <1>2, <1>4 DEF Fields, FieldTypes, Phase, Call, fields, Steps, Launching, Closing
<1> QED BY <1>1, <1>4, <1>5, <1>6, <1>7, HolderMoves DEF Call, fields

\* A create is refused while there is an Instance, or one on its way.
LEMMA CreateOccupied ==
    ASSUME Inv, NEW c \in Create, CreateBegin(c), Returns(c), UNCHANGED state
    PROVE  Inv'
<1> USE HandleIsNoCall, NoneIsNobody, BoundsAssumption
<1>1. c \in Task /\ Holds(c) /\ task[c].pc = "queued"
    BY DEF CreateBegin, At, Task, Call
<1>2. PICK s \in Rec : s = task[c] /\ Fields(s) /\ s.pc = "queued"
    BY <1>1, HolderKnows
<1>3. /\ Returns(c)
      /\ UNCHANGED <<fields, host, links, server>>
    BY <1>2 DEF CreateBegin, At, fields, host, links, server
<1>4. PICK r : r = Idle
    OBVIOUS
<1>5. r.pc = "idle" /\ r.proc = None
    BY <1>4 DEF Idle
<1>6. Fields(r)'
    <2> USE <1>2, <1>3, <1>5 DEF Fields, Mine, fields, host, links, server
    <2>1. FieldTypes'
        BY DEF FieldTypes
    <2>2. Published'
        BY DEF Published
    <2>3. Phase(r)'
        BY DEF Phase, Steps, Launching, Closing
    <2>4. Owned(r)'
        BY DEF Owned, Phase, Steps
    <2>5. OwnSession' /\ Sockets'
        BY DEF OwnSession, Sockets
    <2> QED BY <2>1, <2>2, <2>3, <2>4, <2>5
<1>7. handle' # None => handle' = handle /\ handle # c /\ handle \in Task
    BY <1>2, <1>3 DEF Fields, FieldTypes, Call, fields, Phase, Steps, Launching, Closing
<1>8. Fields(Idle)'
    BY <1>4, <1>6
<1> QED BY <1>1, <1>3, <1>7, <1>8, HolderReturns DEF Call, fields

\* A create fails before anything is spawned.
LEMMA CreateRefusedStep ==
    ASSUME Inv, NEW c \in Create, CreateRefused(c)
    PROVE  Inv'
<1> USE HandleIsNoCall, NoneIsNobody, BoundsAssumption
<1>1. c \in Task /\ Holds(c) /\ task[c].pc = "checking"
    BY DEF CreateRefused, Fails, At, Task, Call
<1>2. PICK s \in Rec : s = task[c] /\ Fields(s) /\ s.pc = "checking"
    BY <1>1, HolderKnows
<1>3. /\ Returns(c)
      /\ state' = "NONE"
      /\ UNCHANGED <<handle, generation, watcher, host, links, server>>
    BY <1>2 DEF CreateRefused, Fails, At, fields, host, links, server
<1>4. PICK r : r = Idle
    OBVIOUS
<1>5. r.pc = "idle" /\ r.proc = None
    BY <1>4 DEF Idle
<1>6. Fields(r)'
    <2> USE <1>2, <1>3, <1>5 DEF Fields, Mine, fields, host, links, server
    <2>1. FieldTypes'
        BY DEF FieldTypes
    <2>2. Published'
        BY DEF Published, Phase, Steps
    <2>3. Phase(r)'
        BY DEF Phase, Steps, Launching, Closing
    <2>4. Owned(r)'
        BY DEF Owned, Phase
    <2>5. OwnSession' /\ Sockets'
        BY DEF OwnSession, Sockets
    <2> QED BY <2>1, <2>2, <2>3, <2>4, <2>5
<1>7. handle' # None => handle' = handle /\ handle # c /\ handle \in Task
    BY <1>2, <1>3 DEF Fields, FieldTypes, Call, fields, Phase, Steps, Launching, Closing
<1>8. Fields(Idle)'
    BY <1>4, <1>6
<1> QED BY <1>1, <1>3, <1>7, <1>8, HolderReturns DEF Call, fields

\* A QEMU is spawned, over paths nobody is at.
LEMMA SpawnStep ==
    ASSUME Inv, NEW c \in Create, Spawn(c)
    PROVE  Inv'
<1> USE HandleIsNoCall, NoneIsNobody, BoundsAssumption
<1>1. c \in Task /\ Holds(c) /\ task[c].pc = "checking"
    BY DEF Spawn, Occupied, At, Task, Call
<1>2. PICK s \in Rec : s = task[c] /\ Fields(s) /\ s.pc = "checking"
    BY <1>1, HolderKnows
<1>3. PICK r : r = [s EXCEPT !.pc = "dialing", !.proc = made + 1]
    OBVIOUS
<1>4. /\ task' = [task EXCEPT ![c] = r] /\ UNCHANGED lock
      /\ path["qmp"] = None /\ ("serial" \in s.todo => path["serial"] = None)
      /\ made' = made + 1 /\ made + 1 \in Proc /\ alive' = alive \cup {made + 1}
      /\ argv' = [argv EXCEPT ![made + 1] = {"qmp"} \cup (Path \cap s.todo)]
      /\ made < MaxProc /\ made \in Nat /\ born \in Nat /\ generation \in Int
      /\ UNCHANGED <<fields, bound, path, links, server>>
    <2>1. made < MaxProc /\ made \in Nat /\ born \in Nat /\ generation \in Int
        BY GenerationIsNumber DEF Spawn
    <2>2. made + 1 \in Proc
        BY <2>1 DEF Proc
    <2>3. task' = [task EXCEPT ![c] = r]
        BY <1>1, <1>2, <1>3, HolderKnows DEF Spawn
    <2>4. path["qmp"] = None /\ ("serial" \in s.todo => path["serial"] = None)
        BY <1>2 DEF Spawn, Occupied
    <2> QED BY <1>2, <2>1, <2>2, <2>3, <2>4 DEF Spawn
<1>5. /\ r \in Rec /\ r.pc \in Steps
      /\ r.pc = "dialing" /\ r.proc = made + 1 /\ r.todo = s.todo
    BY <1>2, <1>3, <1>4 DEF Rec, Steps, Companions, Fields, FieldTypes, Mine, Proc
<1>6. Fields(r)'
    <2> USE <1>2, <1>4, <1>5 DEF Fields, Mine, fields, host, links, server
    <2>1. FieldTypes'
        <3>1. FieldTypes
            BY <1>2 DEF Fields
        <3>2. made' \in 0..MaxProc /\ born' \in 0..made' /\ \A p \in 1..made : p \in 1..made'
            BY <1>4, <3>1 DEF FieldTypes, server, Proc
        <3>3. \A p \in Mine : p \in Mine'
            BY <1>4 DEF Mine, server
        <3>4. alive' \subseteq 1..made'
            BY <1>4, <3>1, <3>2 DEF FieldTypes
        <3> QED BY <1>4, <3>1, <3>2, <3>3, <3>4 DEF FieldTypes, fields, links, server
    <2>2. Published'
        BY DEF Published
    <2>3. Phase(r)'
        <3>1. state = "STARTING" /\ handle = None /\ s.proc = None
            BY <1>2 DEF Fields, Phase, Steps
        <3>2. made + 1 \in Mine' /\ \A p \in Mine \cup {None} : p < made + 1
            BY <1>4, <1>2 DEF Mine, None, server, Fields, FieldTypes
        <3>3. made + 1 \notin viewers /\ generation < made + 1
            BY <1>2, <1>4, <3>2 DEF Fields, FieldTypes
        <3>4. line[made + 1] = None
            BY <1>2, <1>4, <3>1 DEF Fields, Owned
        <3> QED BY <1>4, <1>5, <3>1, <3>2, <3>3, <3>4
                DEF Phase, Steps, Launching, Closing, fields, links
    <2>4. Owned(r)'
        BY DEF Owned, Phase
    <2>5. OwnSession' /\ Sockets'
        <3>1. made + 1 \in Mine' /\ \A p \in alive : p \in Mine' => p \in Mine
            BY DEF FieldTypes
        <3>2. bound[made + 1] = {} /\ \A p \in Proc \ {made + 1} : argv'[p] = argv[p]
            BY DEF Sockets, FieldTypes
        <3>3. \A p \in alive : p # made + 1
            BY DEF FieldTypes
        <3>4. argv' \in [Proc -> SUBSET Path] /\ argv'[made + 1] \subseteq Path
            BY DEF Sockets, Path
        <3>5. ASSUME NEW p \in Proc
              PROVE  bound'[p] \subseteq argv'[p] /\ (p \notin alive' => argv'[p] = {})
            BY <3>2 DEF Sockets
        <3>6. ASSUME NEW p \in alive', p \notin Mine', NEW x \in argv'[p] \ bound'[p]
              PROVE  p \in late'[x]
            <4>1. p \in alive /\ p # made + 1
                BY <3>1, <3>6
            <4>2. p \in Proc /\ p \notin Mine
                BY <3>6, <4>1 DEF FieldTypes, Proc
            <4> QED BY <3>2, <3>6, <4>1, <4>2 DEF Sockets
        <3> QED BY <3>4, <3>5, <3>6 DEF OwnSession, Sockets
    <2> QED BY <2>1, <2>2, <2>3, <2>4, <2>5
<1>7. handle' # None => handle' = handle /\ handle # c /\ handle \in Task
    BY <1>2, <1>4 DEF Fields, FieldTypes, Phase, Call, fields, Steps, Launching, Closing
<1> QED BY <1>1, <1>4, <1>5, <1>6, <1>7, HolderMoves DEF Call, fields

\* A launch fails.
LEMMA LaunchFailsStep ==
    ASSUME Inv, NEW c \in Create, LaunchFails(c)
    PROVE  Inv'
<1> USE HandleIsNoCall, NoneIsNobody, BoundsAssumption
<1>1. c \in Task /\ Holds(c) /\ task[c].pc = "dialing"
    BY DEF LaunchFails, At, Task, Call
<1>2. PICK s \in Rec : s = task[c] /\ Fields(s) /\ s.pc = "dialing"
    BY <1>1, HolderKnows
<1>3. PICK r : r = [s EXCEPT !.pc = "aborting", !.todo = {}]
    OBVIOUS
<1>4. /\ task' = [task EXCEPT ![c] = r] /\ UNCHANGED lock
      /\ UNCHANGED <<fields, host, links, server>>
    BY <1>1, <1>2, <1>3, HolderKnows DEF LaunchFails, At, Goes, fields, host, links, server
<1>5. /\ r \in Rec /\ r.pc \in Steps
      /\ r.pc = "aborting" /\ r.proc = s.proc
    BY <1>2, <1>3 DEF Rec, Steps, Companions, Fields, FieldTypes, Mine, Proc
<1>6. Fields(r)'
    <2> USE <1>2, <1>4, <1>5 DEF Fields, Mine, fields, host, links, server
    <2>1. FieldTypes'
        BY DEF FieldTypes
    <2>2. Published'
        BY DEF Published
    <2>3. Phase(r)'
        BY DEF Phase, Steps, Launching, Closing
    <2>4. Owned(r)'
        BY DEF Owned
    <2>5. OwnSession' /\ Sockets'
        BY DEF OwnSession, Sockets
    <2> QED BY <2>1, <2>2, <2>3, <2>4, <2>5
<1>7. handle' # None => handle' = handle /\ handle # c /\ handle \in Task
    BY <1>2, <1>4 DEF Fields, FieldTypes, Phase, Call, fields, Steps, Launching, Closing
<1> QED BY <1>1, <1>4, <1>5, <1>6, <1>7, HolderMoves DEF Call, fields

\* The serial bridge is not attached.
LEMMA AttachFailsStep ==
    ASSUME Inv, NEW c \in Create, AttachFails(c)
    PROVE  Inv'
<1> USE HandleIsNoCall, NoneIsNobody, BoundsAssumption
<1>1. c \in Task /\ Holds(c) /\ task[c].pc = "attaching"
    BY DEF AttachFails, At, Task, Call
<1>2. PICK s \in Rec : s = task[c] /\ Fields(s) /\ s.pc = "attaching"
    BY <1>1, HolderKnows
<1>3. PICK r : r = [s EXCEPT !.pc = "aborting"]
    OBVIOUS
<1>4. /\ task' = [task EXCEPT ![c] = r] /\ UNCHANGED lock
      /\ peer' = [peer EXCEPT ![s.proc] = None]
      /\ UNCHANGED <<fields, host, line, viewers, server>>
    BY <1>1, <1>2, <1>3, HolderKnows DEF AttachFails, At, Goes, fields, host, links, server
<1>5. /\ r \in Rec /\ r.pc \in Steps
      /\ r.pc = "aborting" /\ r.proc = s.proc
    BY <1>2, <1>3 DEF Rec, Steps, Companions, Fields, FieldTypes, Mine, Proc
<1>6. Fields(r)'
    <2> USE <1>2, <1>4, <1>5 DEF Fields, Mine, fields, host, links, server
    <2>1. FieldTypes'
        BY DEF FieldTypes
    <2>2. Published'
        BY DEF Published
    <2>3. Phase(r)'
        BY DEF Phase, Steps, Launching, Closing
    <2>4. Owned(r)'
        BY DEF Owned
    <2>5. OwnSession' /\ Sockets'
        BY DEF OwnSession, Sockets
    <2> QED BY <2>1, <2>2, <2>3, <2>4, <2>5
<1>7. handle' # None => handle' = handle /\ handle # c /\ handle \in Task
    BY <1>2, <1>4 DEF Fields, FieldTypes, Phase, Call, fields, Steps, Launching, Closing
<1> QED BY <1>1, <1>4, <1>5, <1>6, <1>7, HolderMoves DEF Call, fields

\* The display is not armed.
LEMMA ArmFailsStep ==
    ASSUME Inv, NEW c \in Create, ArmFails(c)
    PROVE  Inv'
<1> USE HandleIsNoCall, NoneIsNobody, BoundsAssumption
<1>1. c \in Task /\ Holds(c) /\ task[c].pc = "arming"
    BY DEF ArmFails, At, Task, Call
<1>2. PICK s \in Rec : s = task[c] /\ Fields(s) /\ s.pc = "arming"
    BY <1>1, HolderKnows
<1>3. PICK r : r = [s EXCEPT !.pc = "aborting"]
    OBVIOUS
<1>4. /\ task' = [task EXCEPT ![c] = r] /\ UNCHANGED lock
      /\ peer' = [peer EXCEPT ![s.proc] = None]
      /\ line' = [line EXCEPT ![s.proc] = None]
      /\ path' = IF line[s.proc] = None THEN path ELSE [path EXCEPT !["serial"] = None]
      /\ UNCHANGED <<fields, made, alive, argv, bound, viewers, server>>
    BY <1>1, <1>2, <1>3, HolderKnows DEF ArmFails, At, Goes, fields, host, links, server
<1>5. /\ r \in Rec /\ r.pc \in Steps
      /\ r.pc = "aborting" /\ r.proc = s.proc
    BY <1>2, <1>3 DEF Rec, Steps, Companions, Fields, FieldTypes, Mine, Proc
<1>6. Fields(r)'
    <2> USE <1>2, <1>4, <1>5 DEF Fields, Mine, fields, host, links, server
    <2>1. FieldTypes'
        BY DEF FieldTypes
    <2>2. Published'
        BY DEF Published
    <2>3. Phase(r)'
        BY DEF Phase, FieldTypes, Steps, Launching, Closing
    <2>4. Owned(r)'
        BY DEF Owned
    <2>5. OwnSession' /\ Sockets'
        BY DEF OwnSession, Sockets
    <2> QED BY <2>1, <2>2, <2>3, <2>4, <2>5
<1>7. handle' # None => handle' = handle /\ handle # c /\ handle \in Task
    BY <1>2, <1>4 DEF Fields, FieldTypes, Phase, Call, fields, Steps, Launching, Closing
<1> QED BY <1>1, <1>4, <1>5, <1>6, <1>7, HolderMoves DEF Call, fields

\* A failed launch has ended.
LEMMA AbortedStep ==
    ASSUME Inv, NEW c \in Create, Aborted(c)
    PROVE  Inv'
<1> USE HandleIsNoCall, NoneIsNobody, BoundsAssumption
<1>1. c \in Task /\ Holds(c) /\ task[c].pc = "aborting"
    BY DEF Aborted, Fails, At, Task, Call
<1>2. PICK s \in Rec : s = task[c] /\ Fields(s) /\ s.pc = "aborting"
    BY <1>1, HolderKnows
<1>3. /\ Returns(c)
      /\ state' = "NONE" /\ s.proc \notin alive
      /\ path' = [x \in Path |->
             IF x = "qmp" \/ "serial" \in s.todo THEN None ELSE path[x]]
      /\ UNCHANGED <<handle, generation, watcher, made, alive, argv, bound, links, server>>
    BY <1>2 DEF Aborted, Fails, At, fields, host, links, server
<1>4. PICK r : r = Idle
    OBVIOUS
<1>5. r.pc = "idle" /\ r.proc = None
    BY <1>4 DEF Idle
<1>6. Fields(r)'
    <2> USE <1>2, <1>3, <1>5 DEF Fields, Mine, fields, host, links, server
    <2>1. FieldTypes'
        BY DEF FieldTypes
    <2>2. Published'
        BY DEF Published, Phase, Launching
    <2>3. Phase(r)'
        BY DEF Phase, Steps, Launching, Closing
    <2>4. Owned(r)'
        BY DEF Owned, Phase, Launching, Path
    <2>5. OwnSession' /\ Sockets'
        BY DEF OwnSession, Sockets
    <2> QED BY <2>1, <2>2, <2>3, <2>4, <2>5
<1>7. handle' # None => handle' = handle /\ handle # c /\ handle \in Task
    BY <1>2, <1>3 DEF Fields, FieldTypes, Call, fields, Phase, Steps, Launching, Closing
<1>8. Fields(Idle)'
    BY <1>4, <1>6
<1> QED BY <1>1, <1>3, <1>7, <1>8, HolderReturns DEF Call, fields

\* A create returns with its Instance.
LEMMA CreateReturnsStep ==
    ASSUME Inv, NEW c \in Create, CreateReturns(c)
    PROVE  Inv'
<1> USE HandleIsNoCall, NoneIsNobody, BoundsAssumption
<1>1. c \in Task /\ Holds(c) /\ task[c].pc = "cont"
    BY DEF CreateReturns, At, Task, Call
<1>2. PICK s \in Rec : s = task[c] /\ Fields(s) /\ s.pc = "cont"
    BY <1>1, HolderKnows
<1>3. /\ Returns(c)
      /\ UNCHANGED <<fields, host, links, server>>
    BY <1>2 DEF CreateReturns, At, fields, host, links, server
<1>4. PICK r : r = Idle
    OBVIOUS
<1>5. r.pc = "idle" /\ r.proc = None
    BY <1>4 DEF Idle
<1>6. Fields(r)'
    <2> USE <1>2, <1>3, <1>5 DEF Fields, Mine, fields, host, links, server
    <2>1. FieldTypes'
        BY DEF FieldTypes
    <2>2. Published'
        BY DEF Published
    <2>3. Phase(r)'
        BY DEF Phase, Steps, Launching, Closing
    <2>4. Owned(r)'
        BY DEF Owned, Phase
    <2>5. OwnSession' /\ Sockets'
        BY DEF OwnSession, Sockets
    <2> QED BY <2>1, <2>2, <2>3, <2>4, <2>5
<1>7. handle' # None => handle' = handle /\ handle # c /\ handle \in Task
    BY <1>2, <1>3 DEF Fields, FieldTypes, Call, fields, Phase, Steps, Launching, Closing
<1>8. Fields(Idle)'
    BY <1>4, <1>6
<1> QED BY <1>1, <1>3, <1>7, <1>8, HolderReturns DEF Call, fields

\* A teardown drops the bridge.
LEMMA TeardownBridgeStep ==
    ASSUME Inv, NEW t \in Task, t \notin Proc \/ t <= generation, TeardownBridge(t)
    PROVE  Inv'
<1> USE HandleIsNoCall, NoneIsNobody, BoundsAssumption
<1>1. t \in Task /\ Holds(t) /\ task[t].pc = "recording"
    BY DEF TeardownBridge, At, Task, Call
<1>2. PICK s \in Rec : s = task[t] /\ Fields(s) /\ s.pc = "recording"
    BY <1>1, HolderKnows
<1>3. PICK r : r = [s EXCEPT !.pc = "viewer"]
    OBVIOUS
<1>4. /\ task' = [task EXCEPT ![t] = r] /\ UNCHANGED lock
      /\ state' = "STOPPED"
      /\ line' = [line EXCEPT ![s.proc] = None]
      /\ path' = IF line[s.proc] = None THEN path ELSE [path EXCEPT !["serial"] = None]
      /\ UNCHANGED <<handle, generation, watcher, made, alive, argv, bound, peer, viewers,
                     server>>
    BY <1>1, <1>2, <1>3, HolderKnows DEF TeardownBridge, At, Goes, fields, host, links, server
<1>5. /\ r \in Rec /\ r.pc \in Steps
      /\ r.pc = "viewer" /\ r.proc = s.proc
    BY <1>2, <1>3 DEF Rec, Steps, Companions, Fields, FieldTypes, Mine, Proc
<1>6. Fields(r)'
    <2> USE <1>2, <1>4, <1>5 DEF Fields, Mine, fields, host, links, server
    <2>1. FieldTypes'
        BY DEF FieldTypes
    <2>2. Published'
        BY DEF Published, Phase, Steps
    <2>3. Phase(r)'
        BY DEF Phase, FieldTypes, Steps, Launching, Closing
    <2>4. Owned(r)'
        BY DEF Owned
    <2>5. OwnSession' /\ Sockets'
        BY DEF OwnSession, Sockets
    <2> QED BY <2>1, <2>2, <2>3, <2>4, <2>5
<1>7. handle' # None => handle' = handle /\ handle # t /\ handle \in Task
    BY <1>2, <1>4 DEF Fields, FieldTypes, Phase, Call, fields, Steps, Launching, Closing
<1> QED BY <1>1, <1>4, <1>5, <1>6, <1>7, HolderMoves DEF Call, fields

\* ... stops the Viewer and closes the session.
LEMMA TeardownViewerStep ==
    ASSUME Inv, NEW t \in Task, t \notin Proc \/ t <= generation, TeardownViewer(t)
    PROVE  Inv'
<1> USE HandleIsNoCall, NoneIsNobody, BoundsAssumption
<1>1. t \in Task /\ Holds(t) /\ task[t].pc = "viewer"
    BY DEF TeardownViewer, At, Task, Call
<1>2. PICK s \in Rec : s = task[t] /\ Fields(s) /\ s.pc = "viewer"
    BY <1>1, HolderKnows
<1>3. PICK r : r = [s EXCEPT !.pc = "closing"]
    OBVIOUS
<1>4. /\ task' = [task EXCEPT ![t] = r] /\ UNCHANGED lock
      /\ viewers' = viewers \ {s.proc}
      /\ peer' = [peer EXCEPT ![s.proc] = None]
      /\ UNCHANGED <<fields, host, line, server>>
    BY <1>1, <1>2, <1>3, HolderKnows DEF TeardownViewer, At, Goes, fields, host, links, server
<1>5. /\ r \in Rec /\ r.pc \in Steps
      /\ r.pc = "closing" /\ r.proc = s.proc
    BY <1>2, <1>3 DEF Rec, Steps, Companions, Fields, FieldTypes, Mine, Proc
<1>6. Fields(r)'
    <2> USE <1>2, <1>4, <1>5 DEF Fields, Mine, fields, host, links, server
    <2>1. FieldTypes'
        BY DEF FieldTypes
    <2>2. Published'
        BY DEF Published
    <2>3. Phase(r)'
        BY DEF Phase, Steps, Launching, Closing
    <2>4. Owned(r)'
        BY DEF Owned
    <2>5. OwnSession' /\ Sockets'
        BY DEF OwnSession, Sockets
    <2> QED BY <2>1, <2>2, <2>3, <2>4, <2>5
<1>7. handle' # None => handle' = handle /\ handle # t /\ handle \in Task
    BY <1>2, <1>4 DEF Fields, FieldTypes, Phase, Call, fields, Steps, Launching, Closing
<1> QED BY <1>1, <1>4, <1>5, <1>6, <1>7, HolderMoves DEF Call, fields

\* ... and ends when QEMU is gone.
LEMMA TeardownClosesStep ==
    ASSUME Inv, NEW t \in Task, TeardownCloses(t)
    PROVE  Inv'
<1> USE HandleIsNoCall, NoneIsNobody, BoundsAssumption
<1>1. t \in Task /\ Holds(t) /\ task[t].pc = "closing"
    BY DEF TeardownCloses, At, Task, Call
<1>2. PICK s \in Rec : s = task[t] /\ Fields(s) /\ s.pc = "closing"
    BY <1>1, HolderKnows
<1>3. /\ Returns(t)
      /\ state' = "NONE" /\ s.proc \notin alive
      /\ path' = [path EXCEPT !["qmp"] = None]
      /\ UNCHANGED <<handle, generation, watcher, made, alive, argv, bound, links, server>>
    BY <1>2 DEF TeardownCloses, At, fields, host, links, server
<1>4. PICK r : r = Idle
    OBVIOUS
<1>5. r.pc = "idle" /\ r.proc = None
    BY <1>4 DEF Idle
<1>6. Fields(r)'
    <2> USE <1>2, <1>3, <1>5 DEF Fields, Mine, fields, host, links, server
    <2>1. FieldTypes'
        BY DEF FieldTypes
    <2>2. Published'
        BY DEF Published, Phase, Closing
    <2>3. Phase(r)'
        BY DEF Phase, Steps, Launching, Closing
    <2>4. Owned(r)'
        BY DEF Owned, FieldTypes, Phase, Published, Steps, Launching, Closing, Path
    <2>5. OwnSession' /\ Sockets'
        BY DEF OwnSession, Sockets
    <2> QED BY <2>1, <2>2, <2>3, <2>4, <2>5
<1>7. handle' # None => handle' = handle /\ handle # t /\ handle \in Task
    BY <1>2, <1>3 DEF Fields, FieldTypes, Call, fields, Phase, Steps, Launching, Closing
<1>8. Fields(Idle)'
    BY <1>4, <1>6
<1> QED BY <1>1, <1>3, <1>7, <1>8, HolderReturns DEF Call, fields

\* A command is sent to the Instance.
LEMMA CommandSent ==
    ASSUME Inv, NEW k \in Command, CommandBegin(k), handle # None
    PROVE  Inv'
<1> USE HandleIsNoCall, NoneIsNobody, BoundsAssumption
<1>1. k \in Task /\ Holds(k) /\ task[k].pc = "queued"
    BY DEF CommandBegin, At, Task, Call
<1>2. PICK s \in Rec : s = task[k] /\ Fields(s) /\ s.pc = "queued"
    BY <1>1, HolderKnows
<1>3. PICK r : r = [s EXCEPT !.pc = "sent", !.proc = handle]
    OBVIOUS
<1>4. /\ task' = [task EXCEPT ![k] = r] /\ UNCHANGED lock
      /\ UNCHANGED <<fields, host, links, server>>
    BY <1>1, <1>2, <1>3, HolderKnows DEF CommandBegin, At, Goes, fields, host, links, server
<1>5. /\ r \in Rec /\ r.pc \in Steps
      /\ r.pc = "sent" /\ r.proc = handle
    BY <1>2, <1>3 DEF Rec, Steps, Companions, Fields, FieldTypes, Mine, Proc
<1>6. Fields(r)'
    <2> USE <1>2, <1>4, <1>5 DEF Fields, Mine, fields, host, links, server
    <2>1. FieldTypes'
        BY DEF FieldTypes
    <2>2. Published'
        BY DEF Published
    <2>3. Phase(r)'
        BY DEF Phase, Steps, Launching, Closing
    <2>4. Owned(r)'
        BY DEF Owned, Phase, Steps
    <2>5. OwnSession' /\ Sockets'
        BY DEF OwnSession, Sockets
    <2> QED BY <2>1, <2>2, <2>3, <2>4, <2>5
<1>7. handle' # None => handle' = handle /\ handle # k /\ handle \in Task
    BY <1>2, <1>4 DEF Fields, FieldTypes, Phase, Call, fields, Steps, Launching, Closing
<1> QED BY <1>1, <1>4, <1>5, <1>6, <1>7, HolderMoves DEF Call, fields

\* ... or refused.
LEMMA CommandRefused ==
    ASSUME Inv, NEW k \in Command, CommandBegin(k), handle = None
    PROVE  Inv'
<1> USE HandleIsNoCall, NoneIsNobody, BoundsAssumption
<1>1. k \in Task /\ Holds(k) /\ task[k].pc = "queued"
    BY DEF CommandBegin, At, Task, Call
<1>2. PICK s \in Rec : s = task[k] /\ Fields(s) /\ s.pc = "queued"
    BY <1>1, HolderKnows
<1>3. /\ Returns(k)
      /\ UNCHANGED <<fields, host, links, server>>
    BY <1>2 DEF CommandBegin, At, fields, host, links, server
<1>4. PICK r : r = Idle
    OBVIOUS
<1>5. r.pc = "idle" /\ r.proc = None
    BY <1>4 DEF Idle
<1>6. Fields(r)'
    <2> USE <1>2, <1>3, <1>5 DEF Fields, Mine, fields, host, links, server
    <2>1. FieldTypes'
        BY DEF FieldTypes
    <2>2. Published'
        BY DEF Published
    <2>3. Phase(r)'
        BY DEF Phase, Steps, Launching, Closing
    <2>4. Owned(r)'
        BY DEF Owned, Phase, Steps
    <2>5. OwnSession' /\ Sockets'
        BY DEF OwnSession, Sockets
    <2> QED BY <2>1, <2>2, <2>3, <2>4, <2>5
<1>7. handle' # None => handle' = handle /\ handle # k /\ handle \in Task
    BY <1>2, <1>3 DEF Fields, FieldTypes, Call, fields, Phase, Steps, Launching, Closing
<1>8. Fields(Idle)'
    BY <1>4, <1>6
<1> QED BY <1>1, <1>3, <1>7, <1>8, HolderReturns DEF Call, fields

\* ... and its reply sets the state.
LEMMA CommandRepliedStep ==
    ASSUME Inv, NEW k \in Command, CommandReplied(k)
    PROVE  Inv'
<1> USE HandleIsNoCall, NoneIsNobody, BoundsAssumption
<1>1. k \in Task /\ Holds(k) /\ task[k].pc = "sent"
    BY DEF CommandReplied, At, Task, Call
<1>2. PICK s \in Rec : s = task[k] /\ Fields(s) /\ s.pc = "sent"
    BY <1>1, HolderKnows
<1>3. /\ Returns(k)
      /\ state' \in {"RUNNING", "PAUSED"}
      /\ UNCHANGED <<handle, generation, watcher, host, links, server>>
    BY <1>2 DEF CommandReplied, At, fields, host, links, server
<1>4. PICK r : r = Idle
    OBVIOUS
<1>5. r.pc = "idle" /\ r.proc = None
    BY <1>4 DEF Idle
<1>6. Fields(r)'
    <2> USE <1>2, <1>3, <1>5 DEF Fields, Mine, fields, host, links, server
    <2>1. FieldTypes'
        BY DEF FieldTypes
    <2>2. Published'
        BY DEF Published
    <2>3. Phase(r)'
        BY DEF Phase, Steps, Launching, Closing
    <2>4. Owned(r)'
        BY DEF Owned, Phase
    <2>5. OwnSession' /\ Sockets'
        BY DEF OwnSession, Sockets
    <2> QED BY <2>1, <2>2, <2>3, <2>4, <2>5
<1>7. handle' # None => handle' = handle /\ handle # k /\ handle \in Task
    BY <1>2, <1>3 DEF Fields, FieldTypes, Call, fields, Phase, Steps, Launching, Closing
<1>8. Fields(Idle)'
    BY <1>4, <1>6
<1> QED BY <1>1, <1>3, <1>7, <1>8, HolderReturns DEF Call, fields

\* ... or it fails.
LEMMA CommandFailsStep ==
    ASSUME Inv, NEW k \in Command, CommandFails(k)
    PROVE  Inv'
<1> USE HandleIsNoCall, NoneIsNobody, BoundsAssumption
<1>1. k \in Task /\ Holds(k) /\ task[k].pc = "sent"
    BY DEF CommandFails, At, Task, Call
<1>2. PICK s \in Rec : s = task[k] /\ Fields(s) /\ s.pc = "sent"
    BY <1>1, HolderKnows
<1>3. /\ Returns(k)
      /\ UNCHANGED <<fields, host, links, server>>
    BY <1>2 DEF CommandFails, At, fields, host, links, server
<1>4. PICK r : r = Idle
    OBVIOUS
<1>5. r.pc = "idle" /\ r.proc = None
    BY <1>4 DEF Idle
<1>6. Fields(r)'
    <2> USE <1>2, <1>3, <1>5 DEF Fields, Mine, fields, host, links, server
    <2>1. FieldTypes'
        BY DEF FieldTypes
    <2>2. Published'
        BY DEF Published
    <2>3. Phase(r)'
        BY DEF Phase, Steps, Launching, Closing
    <2>4. Owned(r)'
        BY DEF Owned, Phase
    <2>5. OwnSession' /\ Sockets'
        BY DEF OwnSession, Sockets
    <2> QED BY <2>1, <2>2, <2>3, <2>4, <2>5
<1>7. handle' # None => handle' = handle /\ handle # k /\ handle \in Task
    BY <1>2, <1>3 DEF Fields, FieldTypes, Call, fields, Phase, Steps, Launching, Closing
<1>8. Fields(Idle)'
    BY <1>4, <1>6
<1> QED BY <1>1, <1>3, <1>7, <1>8, HolderReturns DEF Call, fields

\* The watcher of the Instance takes it down.
LEMMA ReconcileTears ==
    ASSUME Inv, NEW p \in Proc, Reconcile(p),
           ~ (generation # p \/ state = "NONE" \/ handle = None)
    PROVE  Inv'
<1> USE HandleIsNoCall, NoneIsNobody, BoundsAssumption
<1>1. p \in Task /\ Holds(p) /\ task[p].pc = "queued"
    BY DEF Reconcile, Teardown, At, Task, Call
<1>2. PICK s \in Rec : s = task[p] /\ Fields(s) /\ s.pc = "queued"
    BY <1>1, HolderKnows
<1>3. PICK r : r = [s EXCEPT !.pc = "recording", !.proc = handle]
    OBVIOUS
<1>4. /\ task' = [task EXCEPT ![p] = r] /\ UNCHANGED lock
      /\ handle' = None /\ watcher' = None /\ p = generation
      /\ UNCHANGED <<state, generation, host, links, server>>
    BY <1>1, <1>2, <1>3, HolderKnows DEF Reconcile, Teardown, At, Goes, fields, host, links, server
<1>5. /\ r \in Rec /\ r.pc \in Steps
      /\ r.pc = "recording" /\ r.proc = handle
    BY <1>2, <1>3 DEF Rec, Steps, Companions, Fields, FieldTypes, Mine, Proc
<1>6. Fields(r)'
    <2> USE <1>2, <1>4, <1>5 DEF Fields, Mine, fields, host, links, server
    <2>1. FieldTypes'
        BY DEF FieldTypes
    <2>2. Published'
        BY DEF Published
    <2>3. Phase(r)'
        BY DEF Phase, Published, Steps, Launching, Closing
    <2>4. Owned(r)'
        BY DEF Owned, Phase, Steps
    <2>5. OwnSession' /\ Sockets'
        BY DEF OwnSession, Sockets
    <2> QED BY <2>1, <2>2, <2>3, <2>4, <2>5
<1>7. handle' # None => handle' = handle /\ handle # p /\ handle \in Task
    BY <1>2, <1>4 DEF Fields, FieldTypes, Phase, Call, fields, Steps, Launching, Closing
<1>8. p <= generation
    BY <1>4, GenerationIsNumber
<1> QED BY <1>1, <1>4, <1>5, <1>6, <1>7, <1>8, HolderMoves

\* Another watcher finds nothing to do.
LEMMA ReconcileReturns ==
    ASSUME Inv, NEW p \in Proc, Reconcile(p),
           generation # p \/ state = "NONE" \/ handle = None
    PROVE  Inv'
<1> USE HandleIsNoCall, NoneIsNobody, BoundsAssumption
<1>1. p \in Task /\ Holds(p) /\ task[p].pc = "queued"
    BY DEF Reconcile, At, Task, Call
<1>2. PICK s \in Rec : s = task[p] /\ Fields(s) /\ s.pc = "queued"
    BY <1>1, HolderKnows
<1>3. /\ Returns(p)
      /\ UNCHANGED <<fields, host, links, server>>
      /\ generation # p \/ state = "NONE" \/ handle = None
    BY <1>2 DEF Reconcile, At, fields, host, links, server
<1>4. PICK r : r = Idle
    OBVIOUS
<1>5. r.pc = "idle" /\ r.proc = None
    BY <1>4 DEF Idle
<1>6. Fields(r)'
    <2> USE <1>2, <1>3, <1>5 DEF Fields, Mine, fields, host, links, server
    <2>1. FieldTypes'
        BY DEF FieldTypes
    <2>2. Published'
        BY DEF Published
    <2>3. Phase(r)'
        BY DEF Phase, Steps, Launching, Closing
    <2>4. Owned(r)'
        BY DEF Owned, Phase, Steps
    <2>5. OwnSession' /\ Sockets'
        BY DEF OwnSession, Sockets
    <2> QED BY <2>1, <2>2, <2>3, <2>4, <2>5
<1>7. handle' # None => handle' = handle /\ handle # p /\ handle \in Task
    <2>1. handle' = handle
        BY <1>3 DEF fields
    <2>2. ASSUME handle # None PROVE handle # p /\ handle \in Task
        <3>1. generation = handle /\ state # "NONE"
            BY <1>2, <2>2 DEF Fields, Published
        <3> QED BY <1>3, <2>2, <3>1
    <2> QED BY <2>1, <2>2
<1>8. Fields(Idle)'
    BY <1>4, <1>6
<1> QED BY <1>1, <1>3, <1>7, <1>8, HolderReturns DEF Call, fields

\* A destroy is refused where there is no Instance.
LEMMA DestroyRefused ==
    ASSUME Inv, NEW d \in Destroy, DestroyBegin(d), state = "NONE" \/ handle = None
    PROVE  Inv'
<1> USE HandleIsNoCall, NoneIsNobody, BoundsAssumption
<1>1. d \in Task /\ Holds(d) /\ task[d].pc = "queued"
    BY DEF DestroyBegin, At, Task, Call
<1>2. PICK s \in Rec : s = task[d] /\ Fields(s) /\ s.pc = "queued"
    BY <1>1, HolderKnows
<1>3. /\ Returns(d)
      /\ UNCHANGED <<fields, host, links, server>>
    BY <1>2 DEF DestroyBegin, At, fields, host, links, server
<1>4. PICK r : r = Idle
    OBVIOUS
<1>5. r.pc = "idle" /\ r.proc = None
    BY <1>4 DEF Idle
<1>6. Fields(r)'
    <2> USE <1>2, <1>3, <1>5 DEF Fields, Mine, fields, host, links, server
    <2>1. FieldTypes'
        BY DEF FieldTypes
    <2>2. Published'
        BY DEF Published
    <2>3. Phase(r)'
        BY DEF Phase, Steps, Launching, Closing
    <2>4. Owned(r)'
        BY DEF Owned, Phase, Steps
    <2>5. OwnSession' /\ Sockets'
        BY DEF OwnSession, Sockets
    <2> QED BY <2>1, <2>2, <2>3, <2>4, <2>5
<1>7. handle' # None => handle' = handle /\ handle # d /\ handle \in Task
    BY <1>2, <1>3 DEF Fields, FieldTypes, Call, fields, Phase, Steps, Launching, Closing
<1>8. Fields(Idle)'
    BY <1>4, <1>6
<1> QED BY <1>1, <1>3, <1>7, <1>8, HolderReturns DEF Call, fields

-----------------------------------------------------------------------------
\* The Instance is published, and taken down by a destroy: two tasks at once.

\* No watcher of a QEMU that is not published.
LEMMA WatchersArePublished ==
    ASSUME Inv, NEW t \in Task, task[t].pc # "idle"
    PROVE  t \in Proc => t <= generation
<1>1. t \in Proc => ~ (t > generation)
    BY DEF Inv, Watchers
<1>2. t \in Proc => t \in Int
    BY BoundsAssumption DEF Proc
<1> QED BY <1>1, <1>2, GenerationIsNumber

\* The call publishes, and arms a watcher that was not there.
LEMMA PublishMoves ==
    ASSUME Inv, NEW c \in Call, Holds(c), NEW p \in Proc, p = task[c].proc,
           handle = None, generation < p, Publish(c),
           NEW r \in Rec, r = [Idle EXCEPT !.pc = "cont", !.proc = p], r.pc = "cont",
           Fields(r)'
    PROVE  Inv'
<1> USE NoneIsNobody
<1>0. Queue /\ Watchers /\ c \in Task /\ p \in Task /\ c # p /\ generation \in Int
    BY GenerationIsNumber, HandleIsNoCall DEF Inv, Task
<1>1. watcher = None
    BY HolderKnows, <1>0 DEF Fields, Published
<1>2. PICK a : a = [Idle EXCEPT !.pc = "armed"]
    OBVIOUS
<1>3. a \in Rec /\ a.pc = "armed" /\ a.proc = None
    BY <1>2 DEF Idle, Rec
<1>4. r = [Idle EXCEPT !.pc = "cont", !.proc = p]
    OBVIOUS
<1>5. /\ lock' = lock /\ generation' = p /\ handle' = p
      /\ task' = [t \in Task |-> IF t = p THEN a ELSE IF t = c THEN r ELSE task[t]]
    <2>1. Watch(p, c, "cont") /\ lock' = lock /\ generation' = p /\ handle' = p
        BY DEF Publish
    <2>2. task' = [t \in Task |-> IF t = p THEN a ELSE IF t = watcher THEN Idle
                                  ELSE IF t = c THEN r ELSE task[t]]
        BY <1>2, <1>4, <2>1 DEF Watch
    <2> QED BY <1>1, <2>1, <2>2
<1>6. task[p].pc = "idle" /\ \A i \in DOMAIN lock : lock[i] # p
    <2>1. task[p].pc = "idle"
        BY <1>0 DEF Watchers
    <2>2. task[p].pc \notin Steps \cup {"queued"}
        BY <2>1 DEF Steps
    <2> QED BY <1>0, <2>1, <2>2 DEF Queue
<1>7. task' \in [Task -> Rec]
    BY <1>0, <1>3, <1>5 DEF Queue
<1>8. 1 \in DOMAIN lock /\ lock[1] = c /\ lock # <<>>
    BY <1>0, HolderStands
<1>9. \A t \in Task : /\ task'[t] = IF t = p THEN a ELSE IF t = c THEN r ELSE task[t]
                      /\ Holds(t)' <=> t = c
    BY <1>5 DEF Holds
<1>10. r.pc \in Steps /\ a.pc \notin Steps \cup {"queued"}
    BY <1>3 DEF Steps
<1>11. Queue'
    <2>1. ASSUME NEW t \in Task
          PROVE  /\ task'[t].pc \in Steps \cup {"queued"} <=> \E i \in DOMAIN lock' : lock'[i] = t
                 /\ task'[t].pc \in Steps => Holds(t)'
                 /\ task'[t].pc \notin Steps => task'[t].proc = None
        <3>1. CASE t = p
            BY <1>0, <1>3, <1>5, <1>6, <1>9, <1>10, <3>1
        <3>2. CASE t = c
            BY <1>0, <1>5, <1>8, <1>9, <1>10, <3>2
        <3>3. CASE t # p /\ t # c
            <4>1. task'[t] = task[t] /\ ~ Holds(t)
                BY <1>9, <3>3 DEF Holds
            <4> QED BY <1>0, <1>5, <4>1 DEF Queue
        <3> QED BY <3>1, <3>2, <3>3
    <2> QED BY <1>0, <1>5, <1>7, <2>1 DEF Queue
<1>12. Watchers'
    <2>1. ASSUME NEW q \in Proc, q > generation' PROVE task'[q].pc = "idle"
        <3>1. q > generation /\ q # p
            BY <1>0, <1>5, <2>1, BoundsAssumption DEF Proc
        <3>2. q # c /\ q \in Task
            BY DEF Task
        <3> QED BY <1>0, <1>9, <3>1, <3>2 DEF Watchers
    <2>2. task'[handle'].pc = "armed"
        BY <1>0, <1>3, <1>5, <1>9
    <2> QED BY <2>1, <2>2 DEF Watchers
<1>13. ASSUME NEW t \in Task, Holds(t)' PROVE Fields(task[t])'
    <2>1. task'[t] = r
        BY <1>0, <1>9, <1>13
    <2> QED BY <2>1
<1> QED BY <1>5, <1>8, <1>11, <1>12, <1>13 DEF Inv

\* What is left of a sequence.
LEMMA RemovedAt ==
    ASSUME NEW S, NEW s \in Seq(S), NEW k \in 1..Len(s)
    PROVE  /\ RemoveAt(s, k) \in Seq(S)
           /\ Len(RemoveAt(s, k)) = Len(s) - 1
           /\ \A i \in 1..(Len(s) - 1) :
                 RemoveAt(s, k)[i] = IF i < k THEN s[i] ELSE s[i + 1]
<1>1. Len(s) \in Nat /\ k \in Int /\ 1 <= k /\ k <= Len(s)
    OBVIOUS
<1>2. PICK x : x = SubSeq(s, 1, k - 1)
    OBVIOUS
<1>3. PICK y : y = SubSeq(s, k + 1, Len(s))
    OBVIOUS
<1>4. x \in Seq(S) /\ Len(x) = k - 1 /\ \A i \in 1..(k - 1) : x[i] = s[i]
    <2>1. \A i \in 1..(k - 1) : s[i] \in S
        BY <1>1
    <2>2. /\ x \in Seq(S) /\ Len(x) = IF 1 <= k - 1 THEN (k - 1) - 1 + 1 ELSE 0
          /\ \A i \in 1..((k - 1) - 1 + 1) : x[i] = s[1 + i - 1]
        BY <1>1, <1>2, <2>1, SubSeqProperties
    <2>3. Len(x) = k - 1
        BY <1>1, <2>2
    <2>4. ASSUME NEW i \in 1..(k - 1) PROVE x[i] = s[i]
        <3>1. i \in 1..((k - 1) - 1 + 1) /\ 1 + i - 1 = i
            BY <1>1
        <3> QED BY <2>2, <3>1
    <2> QED BY <2>2, <2>3, <2>4
<1>5. y \in Seq(S) /\ Len(y) = Len(s) - k /\ \A i \in 1..(Len(s) - k) : y[i] = s[k + i]
    <2>1. \A i \in (k + 1)..Len(s) : s[i] \in S
        BY <1>1
    <2>2. /\ y \in Seq(S) /\ Len(y) = IF k + 1 <= Len(s) THEN Len(s) - (k + 1) + 1 ELSE 0
          /\ \A i \in 1..(Len(s) - (k + 1) + 1) : y[i] = s[(k + 1) + i - 1]
        BY <1>1, <1>3, <2>1, SubSeqProperties
    <2>3. Len(y) = Len(s) - k
        BY <1>1, <2>2
    <2>4. ASSUME NEW i \in 1..(Len(s) - k) PROVE y[i] = s[k + i]
        <3>1. i \in 1..(Len(s) - (k + 1) + 1) /\ (k + 1) + i - 1 = k + i
            BY <1>1
        <3> QED BY <2>2, <3>1
    <2> QED BY <2>2, <2>3, <2>4
<1>6. RemoveAt(s, k) = x \o y
    BY <1>2, <1>3 DEF RemoveAt
<1>7. PICK z : z = x \o y
    OBVIOUS
<1>8. /\ z \in Seq(S) /\ Len(z) = Len(x) + Len(y)
      /\ \A i \in 1..(Len(x) + Len(y)) :
            z[i] = IF i <= Len(x) THEN x[i] ELSE y[i - Len(x)]
    BY <1>4, <1>5, <1>7, ConcatProperties
<1>9. Len(x) + Len(y) = Len(s) - 1
    BY <1>1, <1>4, <1>5
<1>10. ASSUME NEW i \in 1..(Len(s) - 1)
       PROVE  z[i] = IF i < k THEN s[i] ELSE s[i + 1]
    <2>1. CASE i < k
        <3>1. i \in 1..(k - 1) /\ i <= Len(x)
            BY <1>1, <1>4, <2>1
        <3> QED BY <1>4, <1>8, <1>9, <2>1, <3>1
    <2>2. CASE ~ (i < k)
        <3>1. i - Len(x) \in 1..(Len(s) - k) /\ k + (i - Len(x)) = i + 1 /\ ~ (i <= Len(x))
            BY <1>1, <1>4, <2>2
        <3> QED BY <1>5, <1>8, <1>9, <2>2, <3>1
    <2> QED BY <2>1, <2>2
<1> QED BY <1>6, <1>7, <1>8, <1>9, <1>10

\* The lock without one who waited behind the holder.
LEMMA QueueWithout ==
    ASSUME Queue, NEW t \in Task, Holds(t), NEW p \in Task, p # t,
           lock' = lock \/ \E i \in DOMAIN lock : lock[i] = p /\ lock' = RemoveAt(lock, i),
           lock' = lock => \A i \in DOMAIN lock : lock[i] # p
    PROVE  /\ lock' \in Seq(Task) /\ lock' # <<>> /\ Head(lock') = t
           /\ \A i, j \in DOMAIN lock' : lock'[i] = lock'[j] => i = j
           /\ \A u \in Task : (\E i \in DOMAIN lock' : lock'[i] = u) <=>
                                 u # p /\ \E i \in DOMAIN lock : lock[i] = u
<1> DEFINE n == Len(lock)
<1>1. lock \in Seq(Task) /\ n \in Nat /\ DOMAIN lock = 1..n /\ lock # <<>> /\ n > 0
      /\ lock[1] = t /\ Head(lock) = t
    BY HolderStands DEF Queue, Holds
<1>2. CASE \A i \in DOMAIN lock : lock[i] # p
    <2>1. lock' = lock
        BY <1>2
    <2> QED BY <1>1, <1>2, <2>1 DEF Queue
<1>3. CASE \E i \in DOMAIN lock : lock[i] = p
    <2>1. PICK k \in 1..n : lock[k] = p /\ lock' = RemoveAt(lock, k)
        BY <1>1, <1>3
    <2>2. k # 1 /\ k - 1 \in 1..(n - 1)
        BY <1>1, <2>1
    <2>6. /\ lock' \in Seq(Task) /\ DOMAIN lock' = 1..(n - 1)
          /\ \A i \in 1..(n - 1) : lock'[i] = IF i < k THEN lock[i] ELSE lock[i + 1]
        <3>1. /\ lock' \in Seq(Task) /\ Len(lock') = n - 1
              /\ \A i \in 1..(n - 1) : lock'[i] = IF i < k THEN lock[i] ELSE lock[i + 1]
            BY <1>1, <2>1, RemovedAt
        <3> QED BY <3>1
    <2> HIDE DEF n
    <2>7. 1 \in 1..(n - 1) /\ lock'[1] = t
        BY <1>1, <2>1, <2>2, <2>6
    <2>8. lock' # <<>> /\ Head(lock') = t
        <3>1. lock' \in Seq(Task) /\ 1 \in DOMAIN lock'
            BY <2>6, <2>7
        <3>2. lock' # <<>>
            BY <3>1
        <3> QED BY <2>7, <3>1, <3>2
    <2>9. ASSUME NEW i \in DOMAIN lock', NEW j \in DOMAIN lock', lock'[i] = lock'[j]
          PROVE  i = j
        <3>1. PICK i1 \in 1..n : lock'[i] = lock[i1] /\ i1 = IF i < k THEN i ELSE i + 1
            BY <1>1, <2>6
        <3>2. PICK j1 \in 1..n : lock'[j] = lock[j1] /\ j1 = IF j < k THEN j ELSE j + 1
            BY <1>1, <2>6
        <3>3. i1 = j1
            <4>1. i1 \in DOMAIN lock /\ j1 \in DOMAIN lock /\ lock[i1] = lock[j1]
                BY <1>1, <2>9, <3>1, <3>2
            <4> QED BY <4>1 DEF Queue
        <3> QED BY <1>1, <2>1, <2>6, <3>1, <3>2, <3>3
    <2>10. ASSUME NEW u \in Task
           PROVE  (\E i \in DOMAIN lock' : lock'[i] = u) <=>
                      u # p /\ \E i \in DOMAIN lock : lock[i] = u
        <3>1. ASSUME NEW i \in DOMAIN lock', lock'[i] = u
              PROVE  u # p /\ \E j \in DOMAIN lock : lock[j] = u
            <4>1. PICK i1 \in 1..n : lock'[i] = lock[i1] /\ i1 = IF i < k THEN i ELSE i + 1
                BY <1>1, <2>6
            <4>2. i1 # k
                BY <1>1, <2>1, <2>6, <4>1
            <4> QED BY <1>1, <2>1, <3>1, <4>1, <4>2 DEF Queue
        <3>2. ASSUME NEW j \in DOMAIN lock, lock[j] = u, u # p
              PROVE  \E i \in DOMAIN lock' : lock'[i] = u
            <4>1. j # k
                BY <2>1, <3>2
            <4>2. CASE j < k
                BY <1>1, <2>1, <2>6, <3>2, <4>2
            <4>3. CASE j > k
                <5>1. j - 1 \in 1..(n - 1) /\ ~ (j - 1 < k) /\ (j - 1) + 1 = j
                    BY <1>1, <2>1, <4>3
                <5> QED BY <2>6, <3>2, <5>1
            <4> QED BY <1>1, <2>1, <4>1, <4>2, <4>3
        <3> QED BY <3>1, <3>2
    <2> QED BY <2>6, <2>8, <2>9, <2>10
<1> QED BY <1>2, <1>3

\* A destroy takes the Instance, and aborts its watcher.
LEMMA DestroyTears ==
    ASSUME Inv, NEW d \in Destroy, DestroyBegin(d), ~ (state = "NONE" \/ handle = None)
    PROVE  Inv'
<1> USE NoneIsNobody
<1>1. d \in Task /\ d \in Call /\ Holds(d) /\ task[d].pc = "queued" /\ Queue /\ Watchers
    BY DEF DestroyBegin, At, Task, Call, Inv
<1>2. PICK s \in Rec : s = task[d] /\ Fields(s) /\ s.pc = "queued"
    BY <1>1, HolderKnows
<1>3. PICK p \in Mine : p = handle /\ p = watcher /\ p = generation
                        /\ state \in {"RUNNING", "PAUSED"}
    BY <1>2 DEF Fields, FieldTypes, Published
<1>4. p \in Task /\ p \in Proc /\ p # d /\ None \notin Mine
    BY <1>1, HandleIsNoCall
<1>5. PICK r : r = [s EXCEPT !.pc = "recording", !.proc = p]
    OBVIOUS
<1>6. r \in Rec /\ r.pc = "recording" /\ r.proc = p /\ r.pc \in Steps
    BY <1>2, <1>4, <1>5 DEF Rec, Steps
<1>7. PICK i : i = Idle
    OBVIOUS
<1>8. i \in Rec /\ i.pc = "idle" /\ i.proc = None /\ i.pc \notin Steps \cup {"queued"}
    BY <1>7 DEF Idle, Rec, Steps
<1>9. /\ handle' = None /\ watcher' = None /\ Leaves(p)
      /\ UNCHANGED <<state, generation, host, links, server>>
    BY <1>3 DEF DestroyBegin, Teardown
<1>10. /\ task' \in [Task -> Rec]
       /\ \A t \in Task : task'[t] = IF t = d THEN r ELSE IF t = p THEN i ELSE task[t]
    <2>1. PICK f : f = [t \in Task |-> IF t = p THEN i ELSE task[t]]
        OBVIOUS
    <2>2. f \in [Task -> Rec] /\ f[d] = s /\ \A t \in Task : t # p => f[t] = task[t]
        BY <1>1, <1>2, <1>4, <1>8, <2>1 DEF Queue
    <2>3. task' = [f EXCEPT ![d].pc = "recording", ![d].proc = p]
        BY <1>3, <1>7, <2>1 DEF DestroyBegin, Teardown
    <2>4. task' = [f EXCEPT ![d] = r]
        BY <1>1, <1>5, <2>2, <2>3
    <2> QED BY <1>1, <1>4, <1>6, <2>1, <2>2, <2>4
<1>11. /\ lock' \in Seq(Task) /\ lock' # <<>> /\ Head(lock') = d
       /\ \A j, k \in DOMAIN lock' : lock'[j] = lock'[k] => j = k
       /\ \A u \in Task : (\E j \in DOMAIN lock' : lock'[j] = u) <=>
                             u # p /\ \E j \in DOMAIN lock : lock[j] = u
    <2>1. \/ \E j \in DOMAIN lock : lock[j] = p /\ lock' = RemoveAt(lock, j)
          \/ (\A j \in DOMAIN lock : lock[j] # p) /\ lock' = lock
        BY <1>9 DEF Leaves
    <2>2. lock' = lock => \A j \in DOMAIN lock : lock[j] # p
        <3>1. ASSUME NEW j \in DOMAIN lock, lock[j] = p, lock' = RemoveAt(lock, j)
              PROVE  lock' # lock
            <4>1. lock \in Seq(Task) /\ j \in 1..Len(lock)
                BY <1>1, <3>1 DEF Queue
            <4>2. Len(lock') = Len(lock) - 1
                BY <3>1, <4>1, RemovedAt
            <4> QED BY <4>1, <4>2
        <3> QED BY <2>1, <3>1
    <2> QED BY <1>1, <1>4, <2>1, <2>2, QueueWithout
<1>12. \A t \in Task : (Holds(t) <=> t = d) /\ (Holds(t)' <=> t = d)
    BY <1>1, <1>11 DEF Holds
<1>13. Queue'
    <2>1. ASSUME NEW t \in Task
          PROVE  /\ task'[t].pc \in Steps \cup {"queued"} <=> \E j \in DOMAIN lock' : lock'[j] = t
                 /\ task'[t].pc \in Steps => Holds(t)'
                 /\ task'[t].pc \notin Steps => task'[t].proc = None
        <3>1. CASE t = d
            BY <1>1, <1>4, <1>6, <1>10, <1>11, <1>12, <3>1 DEF Queue
        <3>2. CASE t = p
            BY <1>4, <1>8, <1>10, <1>11, <3>2
        <3>3. CASE t # d /\ t # p
            <4>1. task'[t] = task[t] /\ ~ Holds(t)
                BY <1>10, <1>12, <3>3
            <4> QED BY <1>1, <1>11, <3>3, <4>1 DEF Queue
        <3> QED BY <3>1, <3>2, <3>3
    <2> QED BY <1>10, <1>11, <2>1 DEF Queue
<1>14. Watchers'
    <2>1. ASSUME NEW q \in Proc, q > generation' PROVE task'[q].pc = "idle"
        <3>1. q > generation /\ q # d /\ q \in Task
            BY <1>1, <1>9, <2>1 DEF Task
        <3> QED BY <1>1, <1>8, <1>10, <3>1 DEF Watchers
    <2> QED BY <1>9, <2>1 DEF Watchers
<1>15. Fields(r)'
    <2> USE <1>2, <1>3, <1>4, <1>6, <1>9 DEF Fields, Mine, host, links, server
    <2>1. FieldTypes'
        BY DEF FieldTypes
    <2>2. Published'
        BY DEF Published
    <2>3. Phase(r)'
        BY DEF Phase, Steps, Launching, Closing
    <2>4. Owned(r)'
        BY DEF Owned, Phase, Steps
    <2>5. OwnSession' /\ Sockets'
        BY DEF OwnSession, Sockets
    <2> QED BY <2>1, <2>2, <2>3, <2>4, <2>5
<1>16. ASSUME NEW t \in Task, Holds(t)' PROVE Fields(task[t])'
    <2>1. task'[t] = r
        BY <1>1, <1>10, <1>12, <1>16
    <2> QED BY <1>15, <2>1
<1> QED BY <1>11, <1>13, <1>14, <1>16 DEF Inv

-----------------------------------------------------------------------------
\* What a launch does next.

\* The next thing to start, or the Instance is published.
LEMMA ProceedStep ==
    ASSUME Inv, NEW c \in Create, Holds(c), NEW s \in Rec, s = task[c], Fields(s),
           s.pc \in {"dialing", "attaching", "arming"},
           NEW todo \in SUBSET Companions, todo \subseteq s.todo, Proceed(c, todo),
           peer' \in [Proc -> Proc \cup {None}], line' \in [Proc -> Proc \cup {None}],
           OwnSession', UNCHANGED <<host, server>>,
           viewers' \in SUBSET (viewers \cup {s.proc}), todo # {} => viewers' = viewers,
           \A q \in Proc : q # s.proc => line'[q] = line[q],
           "serial" \in todo => s.pc = "dialing" /\ line' = line
    PROVE  Inv'
<1> USE HandleIsNoCall, NoneIsNobody, BoundsAssumption
<1>1. c \in Task /\ c \in Call
    BY DEF Task, Call
<1>2. PICK p \in Mine : /\ p = s.proc /\ p = made /\ p \in Proc /\ p \notin viewers
                        /\ generation < p
                        /\ state = "STARTING" /\ handle = None /\ watcher = None
    BY DEF Fields, Phase, Published, Launching
<1>3. p \in Mine' /\ Mine' = Mine /\ viewers' \subseteq Mine
    <2>1. Mine' = Mine BY DEF Mine, server, host
    <2>2. viewers \subseteq Mine BY DEF Fields, FieldTypes
    <2>3. viewers' \subseteq Mine BY <1>2, <2>2
    <2> QED BY <2>1, <2>3
<1>4. ASSUME NEW r \in Rec, r.proc = p, handle' \in {None, p}, generation' \in {generation, p},
             state' \in {"STARTING", "RUNNING", "PAUSED"}
      PROVE  FieldTypes' /\ Owned(r)' /\ Sockets'
    <2>1. FieldTypes'
        BY <1>2, <1>3, <1>4 DEF Fields, FieldTypes, host, server
    <2>2. Owned(r)'
        BY <1>2, <1>3, <1>4 DEF Fields, Owned, host
    <2>3. Sockets'
        BY <1>3 DEF Fields, Sockets, host, server
    <2> QED BY <2>1, <2>2, <2>3
<1>5. CASE todo # {}
    <2>1. PICK r : /\ task' = [task EXCEPT ![c] = r] /\ r.todo = todo /\ r.proc = p
                   /\ r \in Rec
                   /\ r.pc = IF "serial" \in todo THEN "attaching" ELSE "arming"
        <3>1. PICK r : r = [s EXCEPT !.pc = IF "serial" \in todo THEN "attaching" ELSE "arming",
                                     !.todo = todo]
            OBVIOUS
        <3>2. /\ r.todo = todo /\ r.proc = p /\ r \in Rec
              /\ r.pc = IF "serial" \in todo THEN "attaching" ELSE "arming"
            BY <1>2, <3>1 DEF Rec, Steps
        <3>3. task' = [task EXCEPT ![c] = r]
            BY <1>1, <1>5, <3>1, HolderKnows DEF Proceed
        <3> QED BY <3>2, <3>3
    <2>2. UNCHANGED <<fields, lock>>
        BY <1>5 DEF Proceed
    <2>3. r.pc \in Steps
        BY <2>1 DEF Steps
    <2>4. Fields(r)'
        <3>1. FieldTypes' /\ Owned(r)' /\ Sockets'
            BY <1>2, <1>4, <2>1, <2>2 DEF fields
        <3>2. Published'
            BY <1>2, <2>2 DEF Published, fields
        <3>3. Phase(r)'
            BY <1>2, <1>3, <1>5, <2>1, <2>2
               DEF Phase, Steps, Launching, Closing, Fields, fields, host, server, Path
        <3> QED BY <3>1, <3>2, <3>3 DEF Fields
    <2> QED BY <1>1, <1>2, <2>1, <2>2, <2>3, <2>4, HolderMoves DEF fields
<1>6. CASE todo = {}
    <2>1. Publish(c)
        BY <1>6 DEF Proceed
    <2>2. /\ handle' = p /\ generation' = p /\ watcher' = p
          /\ state' \in {"RUNNING", "PAUSED"}
        BY <1>2, <2>1 DEF Publish, Watch
    <2>3. PICK r : r = [Idle EXCEPT !.pc = "cont", !.proc = p]
        OBVIOUS
    <2>4. r \in Rec /\ r.pc = "cont" /\ r.proc = p
        BY <1>2, <2>3 DEF Idle, Rec, Steps
    <2>5. Fields(r)'
        <3>1. FieldTypes' /\ Owned(r)' /\ Sockets'
            BY <1>4, <2>2, <2>4
        <3>2. Published'
            BY <2>2 DEF Published
        <3>3. Phase(r)'
            BY <1>2, <2>2, <2>4 DEF Phase, Steps, Launching, Closing
        <3> QED BY <3>1, <3>2, <3>3 DEF Fields
    <2> QED BY <1>1, <1>2, <2>1, <2>3, <2>4, <2>5, PublishMoves
<1> QED BY <1>5, <1>6

\* The dial is accepted, by this QEMU or by a late one.
LEMMA LaunchedStep ==
    ASSUME Inv, NEW c \in Create, Launched(c)
    PROVE  Inv'
<1>1. c \in Task /\ Holds(c) /\ task[c].pc = "dialing"
    BY DEF Launched, At, Task, Call
<1>2. PICK s \in Rec : s = task[c] /\ Fields(s) /\ s.pc = "dialing"
    BY <1>1, HolderKnows
<1>3. s.proc \in Proc /\ path["qmp"] \in Proc /\ path["qmp"] \in {s.proc} \cup late["qmp"]
    <2>1. s.proc \in Mine /\ path["qmp"] \in {None, s.proc} \cup late["qmp"]
        BY <1>2 DEF Fields, Phase, Launching
    <2>2. path["qmp"] \in alive /\ alive \subseteq Proc
        BY <1>2, BoundsAssumption DEF Launched, Fields, FieldTypes, Proc
    <2>3. None \notin Proc
        BY NoneIsNobody
    <2> QED BY <2>1, <2>2, <2>3, HandleIsNoCall
<1>4. /\ peer' = [peer EXCEPT ![s.proc] = path["qmp"]]
      /\ UNCHANGED <<host, line, viewers, server>>
    BY <1>2, <1>3 DEF Launched
<1>5. peer' \in [Proc -> Proc \cup {None}] /\ line' \in [Proc -> Proc \cup {None}] /\ OwnSession'
    BY <1>2, <1>3, <1>4 DEF Fields, FieldTypes, OwnSession, server
<1>6. s.todo \in SUBSET Companions /\ Proceed(c, s.todo)
    BY <1>2 DEF Rec, Launched
<1> QED BY <1>1, <1>2, <1>4, <1>5, <1>6, ProceedStep

\* The bridge is attached, to this QEMU or to a late one.
LEMMA AttachedStep ==
    ASSUME Inv, NEW c \in Create, Attached(c)
    PROVE  Inv'
<1>1. c \in Task /\ Holds(c) /\ task[c].pc = "attaching"
    BY DEF Attached, At, Task, Call
<1>2. PICK s \in Rec : s = task[c] /\ Fields(s) /\ s.pc = "attaching"
    BY <1>1, HolderKnows
<1>3. s.proc \in Proc /\ path["serial"] \in Proc /\ path["serial"] \in {s.proc} \cup late["serial"]
    <2>1. s.proc \in Mine /\ path["serial"] \in {None, s.proc} \cup late["serial"]
        BY <1>2 DEF Fields, Phase, Launching
    <2>2. path["serial"] \in alive /\ alive \subseteq Proc
        BY <1>2, BoundsAssumption DEF Attached, Fields, FieldTypes, Proc
    <2>3. None \notin Proc
        BY NoneIsNobody
    <2> QED BY <2>1, <2>2, <2>3, HandleIsNoCall
<1>4. /\ line' = [line EXCEPT ![s.proc] = path["serial"]]
      /\ UNCHANGED <<host, peer, viewers, server>>
    BY <1>2, <1>3 DEF Attached
<1>5. /\ peer' \in [Proc -> Proc \cup {None}] /\ line' \in [Proc -> Proc \cup {None}] /\ OwnSession'
      /\ \A q \in Proc : q # s.proc => line'[q] = line[q]
    BY <1>2, <1>3, <1>4 DEF Fields, FieldTypes, OwnSession, server
<1>6. PICK todo \in SUBSET Companions :
          Proceed(c, todo) /\ todo \subseteq s.todo /\ "serial" \notin todo
    BY <1>2 DEF Rec, Attached
<1> QED BY <1>1, <1>2, <1>4, <1>5, <1>6, ProceedStep

\* The display is armed.
LEMMA ArmedStep ==
    ASSUME Inv, NEW c \in Create, Armed(c)
    PROVE  Inv'
<1>1. c \in Task /\ Holds(c) /\ task[c].pc = "arming"
    BY DEF Armed, At, Task, Call
<1>2. PICK s \in Rec : s = task[c] /\ Fields(s) /\ s.pc = "arming"
    BY <1>1, HolderKnows
<1>3. viewers' = viewers \cup {s.proc} /\ UNCHANGED <<host, peer, line, server>>
    BY <1>2 DEF Armed
<1>4. peer' \in [Proc -> Proc \cup {None}] /\ line' \in [Proc -> Proc \cup {None}] /\ OwnSession'
    BY <1>2, <1>3 DEF Fields, FieldTypes, OwnSession, server
<1>5. Proceed(c, {})
    BY DEF Armed
<1> QED BY <1>1, <1>2, <1>3, <1>4, <1>5, ProceedStep

-----------------------------------------------------------------------------
\* The invariant.

\* With no task at work, no Instance and nothing that is this server's.
Fresh ==
    /\ state = "NONE" /\ handle = None /\ generation = 0 /\ watcher = None
    /\ lock = <<>> /\ task = Resting /\ peer = Unlinked /\ line = Unlinked /\ viewers = {}
    /\ made \in 0..MaxProc /\ alive \subseteq 1..made /\ born = made
    /\ path \in [Path -> Proc \cup {None, Foreign}] /\ ends \in 0..MaxEnds /\ Sockets

\* ... the invariant holds.
LEMMA FreshIsInv == Fresh => Inv
<1> SUFFICES ASSUME Fresh PROVE Inv
    OBVIOUS
<1> USE DEF Fresh
<1>1. PICK i \in Rec : i = Idle /\ i.pc = "idle" /\ i.proc = None
    <2>1. Idle \in Rec /\ Idle.pc = "idle" /\ Idle.proc = None
        BY DEF Idle, Rec
    <2> QED BY <2>1
<1>2. Queue /\ Watchers
    <2>1. task \in [Task -> Rec] /\ \A t \in Task : task[t] = i
        BY <1>1 DEF Resting
    <2>2. lock \in Seq(Task) /\ DOMAIN lock = {}
        OBVIOUS
    <2>3. i.pc \notin Steps \cup {"queued"}
        BY <1>1 DEF Steps
    <2> QED BY <1>1, <2>1, <2>2, <2>3 DEF Queue, Watchers, Task
<1>3. Mine = {}
    BY DEF Mine
<1>4. FieldTypes
    BY <1>3, BoundsAssumption DEF FieldTypes, Unlinked, None
<1>5. Published /\ OwnSession
    BY DEF Published, OwnSession, Unlinked
<1>6. Phase(i)
    BY <1>1 DEF Phase, Steps, Launching, Closing
<1>7. Owned(i)
    BY <1>3 DEF Owned, Unlinked
<1> QED BY <1>1, <1>2, <1>4, <1>5, <1>6, <1>7 DEF Inv, Fields, Holds

\* A server starts with nothing.
LEMMA InitIsInv == Init => Inv
<1> SUFFICES ASSUME Init PROVE Inv
    OBVIOUS
<1>1. made \in 0..MaxProc /\ alive \subseteq 1..made /\ born = made /\ ends \in 0..MaxEnds
    BY BoundsAssumption DEF Init
<1>2. path \in [Path -> Proc \cup {None, Foreign}]
    BY DEF Init
<1>3. Sockets
    BY DEF Init, Sockets, Deaf
<1>4. Fresh
    BY <1>1, <1>2, <1>3 DEF Init, Fresh
<1> QED BY <1>4, FreshIsInv

\* ... and starts anew with nothing, whatever the last one left.
LEMMA AnewStep ==
    ASSUME Inv, NEW left \in SUBSET alive, Anew(left)
    PROVE  Inv'
<1>1. FieldTypes /\ Sockets
    BY SomeHolder DEF Inv, Fields
<1>2. /\ made' \in 0..MaxProc /\ alive' = left /\ left \subseteq 1..made /\ born' = made'
      /\ made' = made /\ path' \in [Path -> Proc \cup {None, Foreign}] /\ ends' \in 0..MaxEnds
    BY <1>1, BoundsAssumption DEF Anew, FieldTypes
<1>3. /\ state' = "NONE" /\ handle' = None /\ generation' = 0 /\ watcher' = None
      /\ lock' = <<>> /\ task' = Resting /\ peer' = Unlinked /\ line' = Unlinked
      /\ viewers' = {}
    BY DEF Anew
<1>4. Sockets'
    <2>1. /\ argv' = [p \in Proc |-> IF p \in left THEN argv[p] ELSE {}]
          /\ bound' = [p \in Proc |-> IF p \in left THEN bound[p] ELSE {}]
          /\ late' = [x \in Path |-> {p \in left : x \in argv[p] \ bound[p]}]
        BY DEF Anew
    <2>2. argv' \in [Proc -> SUBSET Path] /\ bound' \in [Proc -> SUBSET Path]
        BY <1>1, <2>1 DEF Sockets
    <2>3. ASSUME NEW p \in Proc
          PROVE  bound'[p] \subseteq argv'[p] /\ (p \notin alive' => argv'[p] = {})
        BY <1>1, <1>2, <2>1 DEF Sockets
    <2>4. ASSUME NEW p \in alive', NEW x \in argv'[p] \ bound'[p] PROVE p \in late'[x]
        <3>1. p \in left /\ p \in Proc
            BY <1>1, <1>2, BoundsAssumption DEF FieldTypes, Proc
        <3>2. x \in Path
            BY <2>2, <3>1
        <3> QED BY <2>1, <3>1, <3>2
    <2>5. ASSUME NEW x \in Path PROVE late'[x] \subseteq 1..born'
        BY <1>2, <2>1
    <2> QED BY <2>2, <2>3, <2>4, <2>5 DEF Sockets
<1>5. Fresh'
    BY <1>2, <1>3, <1>4 DEF Fresh, Resting, Unlinked
<1>6. Fresh' => Inv'
    BY FreshIsInv, PTL
<1> QED BY <1>5, <1>6

\* One step of create_instance.
LEMMA CreateKeepsInv ==
    ASSUME Inv, NEW c \in Create, CreateStep(c)
    PROVE  Inv'
<1>1. CASE CreateBegin(c)
    <2>1. CASE state # "NONE"
        <3>1. Returns(c) /\ UNCHANGED state
            BY <1>1, <2>1 DEF CreateBegin
        <3> QED BY <1>1, <3>1, CreateOccupied
    <2>2. CASE state = "NONE"
        <3>1. PICK spec \in Specs :
                  task' = [task EXCEPT ![c].pc = "checking", ![c].todo = spec]
            BY <1>1, <2>2 DEF CreateBegin
        <3>2. UNCHANGED lock /\ state' = "STARTING"
            BY <1>1, <2>2 DEF CreateBegin
        <3> QED BY <1>1, <2>2, <3>1, <3>2, ChecksStep
    <2> QED BY <2>1, <2>2
<1>2. CASE CreateRefused(c) \/ Spawn(c)
    BY <1>2, CreateRefusedStep, SpawnStep
<1>3. CASE Launched(c) \/ LaunchFails(c) \/ Attached(c) \/ AttachFails(c)
    BY <1>3, LaunchedStep, LaunchFailsStep, AttachedStep, AttachFailsStep
<1>4. CASE Armed(c) \/ ArmFails(c) \/ Aborted(c) \/ CreateReturns(c)
    BY <1>4, ArmedStep, ArmFailsStep, AbortedStep, CreateReturnsStep
<1> QED BY <1>1, <1>2, <1>3, <1>4 DEF CreateStep

\* One step of a teardown.
LEMMA TeardownKeepsInv ==
    ASSUME Inv, NEW t \in Task, TeardownStep(t)
    PROVE  Inv'
<1>1. task[t].pc # "idle"
    BY DEF TeardownStep, TeardownBridge, TeardownViewer, TeardownCloses, At
<1>2. t \notin Proc \/ t <= generation
    BY <1>1, WatchersArePublished
<1> QED BY <1>2, TeardownBridgeStep, TeardownViewerStep, TeardownClosesStep DEF TeardownStep

\* One step of a command.
LEMMA CommandKeepsInv ==
    ASSUME Inv, NEW k \in Command, CommandStep(k)
    PROVE  Inv'
<1>1. CASE CommandBegin(k)
    BY <1>1, CommandSent, CommandRefused
<1>2. CASE CommandReplied(k) \/ CommandFails(k)
    BY <1>2, CommandRepliedStep, CommandFailsStep
<1> QED BY <1>1, <1>2 DEF CommandStep

\* Every step keeps the invariant.
LEMMA NextKeepsInv == Inv /\ [Next]_vars => Inv'
<1> SUFFICES ASSUME Inv, [Next]_vars PROVE Inv'
    OBVIOUS
<1>1. CASE UNCHANGED vars
    <2>1. UNCHANGED <<task, lock, handle, generation>>
        BY <1>1 DEF vars
    <2>2. ASSUME NEW s \in Rec, Fields(s) PROVE Fields(s)'
        BY <1>1, <2>2 DEF vars, Fields, FieldTypes, Sockets, Published, Phase, Owned,
                          OwnSession, Mine
    <2> QED BY <2>1, <2>2, HostMoves
<1>2. ASSUME NEW t \in Call, Request(t) PROVE Inv'
    BY <1>2, RequestStep
<1>3. ASSUME NEW c \in Create, CreateStep(c) PROVE Inv'
    BY <1>3, CreateKeepsInv
<1>4. ASSUME NEW d \in Destroy, DestroyBegin(d) \/ TeardownStep(d) PROVE Inv'
    <2>1. d \in Task
        BY DEF Task, Call
    <2>2. CASE DestroyBegin(d)
        BY <2>2, DestroyTears, DestroyRefused
    <2> QED BY <1>4, <2>1, <2>2, TeardownKeepsInv
<1>5. ASSUME NEW k \in Command, CommandStep(k) PROVE Inv'
    BY <1>5, CommandKeepsInv
<1>6. ASSUME NEW p \in Proc,
             \/ WatcherWakes(p) \/ Reconcile(p) \/ TeardownStep(p)
             \/ QemuBinds(p) \/ SessionDrops(p)
             \/ \E clean \in BOOLEAN : QemuExits(p, clean)
      PROVE  Inv'
    <2>1. p \in Task
        BY DEF Task
    <2>2. CASE Reconcile(p)
        BY <2>2, ReconcileTears, ReconcileReturns
    <2>3. CASE WatcherWakes(p) \/ TeardownStep(p)
        BY <2>1, <2>3, WatcherWakesStep, TeardownKeepsInv
    <2>4. CASE QemuBinds(p) \/ SessionDrops(p) \/ \E clean \in BOOLEAN : QemuExits(p, clean)
        BY <2>4, QemuBindsStep, SessionDropsStep, QemuExitsStep
    <2> QED BY <1>6, <2>2, <2>3, <2>4
<1>7. ASSUME (\E d \in Shutdown : ServerExits(d)) \/ ServerFails \/ ServerKilled PROVE Inv'
    <2>1. PICK left \in SUBSET alive : Anew(left)
        BY <1>7 DEF ServerExits, ServerFails, ServerKilled
    <2> QED BY <2>1, AnewStep
<1> QED BY <1>1, <1>2, <1>3, <1>4, <1>5, <1>6, <1>7 DEF Next

\* The server is never without its invariant.
LEMMA AlwaysInv == Spec => []Inv
BY InitIsInv, NextKeepsInv, PTL DEF Spec

\* Whatever the order of calls and watchers, a QEMU that runs, its Viewer and its
\* bridge are the Instance's or the lock holder's, there is at most one, and its
\* connections go to it, or to a QEMU of a killed server that had yet to bind that socket
\* when its server ended.
THEOREM OursAlone == Spec => []InstanceIsOurs
BY AlwaysInv, InvIsOurs, PTL

\* The types are right, and who gets the lock finds nothing half done.
THEOREM LockLeavesSettled == Spec => []Settled
BY AlwaysInv, InvIsSettled, PTL

-----------------------------------------------------------------------------
\* The lifecycle is the promised one.

\* The state as anybody sees it who waits for the lock.
Shown == IF handle = None /\ state \in {"RUNNING", "PAUSED"} THEN "STOPPED" ELSE state

\* An Instance is up; without one the state is nobody's but the holder's.
LEMMA InstanceIsUp ==
    ASSUME Inv
    PROVE  /\ handle # None => state \in {"RUNNING", "PAUSED"} /\ generation = handle
           /\ state \in {"NONE", "STARTING", "RUNNING", "PAUSED", "STOPPED"}
BY SomeHolder DEF Inv, Fields, Published, FieldTypes

\* What the holder of the lock may rely on.
LEMMA HolderSees ==
    ASSUME Inv, NEW t \in Task, Holds(t)
    PROVE  /\ task[t].pc \in {"checking"} \cup Launching => state = "STARTING" /\ handle = None
           /\ task[t].pc \in Launching => task[t].proc = made
           /\ task[t].pc = "recording" => state \in {"RUNNING", "PAUSED"} /\ handle = None
           /\ task[t].pc \in Closing => state = "STOPPED" /\ handle = None
           /\ task[t].pc = "sent" => handle # None
<1>1. PICK s \in Rec : s = task[t] /\ Fields(s)
    BY HolderKnows
<1>2. /\ s.pc \in {"checking"} \cup Launching => state = "STARTING" /\ handle = None
      /\ s.pc \in Launching => s.proc = made
      /\ s.pc = "recording" => state \in {"RUNNING", "PAUSED"} /\ handle = None
      /\ s.pc \in Closing => state = "STOPPED" /\ handle = None
      /\ s.pc = "sent" => handle # None
    BY <1>1 DEF Fields, Phase
<1> QED BY <1>1, <1>2

Steady == UNCHANGED <<Shown, handle, made>>
Promised == Abstract!Next \/ Steady

\* A launch goes on, or publishes what it launched.
LEMMA ProceedIsPromised ==
    ASSUME Inv, NEW c \in Create, Holds(c), task[c].pc \in Launching,
           NEW todo, Proceed(c, todo), UNCHANGED <<host>>
    PROVE  Promised
<1>1. state = "STARTING" /\ handle = None /\ task[c].proc = made /\ made' = made
    BY HolderSees DEF Task, Call, host
<1>2. CASE UNCHANGED fields
    BY <1>1, <1>2 DEF fields, Promised, Steady, Shown
<1>3. CASE Publish(c)
    <2>1. handle' = made /\ state' \in {"RUNNING", "PAUSED"}
        BY <1>1, <1>3 DEF Publish
    <2>2. made # None
        <3>1. PICK s \in Rec : s = task[c] /\ Fields(s)
            BY HolderKnows DEF Task, Call
        <3>2. s.proc \in Mine
            BY <3>1 DEF Fields, Phase
        <3> QED BY <1>1, <3>1, <3>2, HandleIsNoCall
    <2>3. Shown = "STARTING" /\ Shown' = state'
        BY <1>1, <2>1, <2>2 DEF Shown
    <2>4. Abstract!Publish
        BY <1>1, <2>1, <2>3 DEF Abstract!Publish, Abstract!Up, Shown
    <2> QED BY <2>4 DEF Promised, Abstract!Next
<1> QED BY <1>2, <1>3 DEF Proceed

\* A create claims the slot, launches, publishes, or gives the slot back.
LEMMA CreateIsPromised ==
    ASSUME Inv, NEW c \in Create, CreateStep(c)
    PROVE  Promised
<1>1. c \in Task
    BY DEF Task, Call
<1>2. CASE CreateBegin(c)
    <2>1. CASE state # "NONE"
        BY <1>2, <2>1 DEF CreateBegin, host, Promised, Steady, Shown
    <2>2. CASE state = "NONE"
        <3>1. handle = None /\ state' = "STARTING" /\ UNCHANGED <<handle, made>>
            BY <1>2, <2>2, InstanceIsUp DEF CreateBegin, host
        <3>2. Abstract!Start
            BY <2>2, <3>1 DEF Abstract!Start, Shown
        <3> QED BY <3>2 DEF Promised, Abstract!Next
    <2> QED BY <2>1, <2>2
<1>3. CASE CreateRefused(c) \/ Aborted(c)
    <2>1. state = "STARTING" /\ handle = None
        BY <1>1, <1>3, HolderSees DEF CreateRefused, Aborted, At, Launching
    <2>2. state' = "NONE" /\ UNCHANGED <<handle, made>>
        BY <1>3 DEF CreateRefused, Aborted, Fails, host
    <2>3. Abstract!Fail
        BY <2>1, <2>2 DEF Abstract!Fail, Shown
    <2> QED BY <2>3 DEF Promised, Abstract!Next
<1>4. CASE Spawn(c)
    <2>1. state = "STARTING" /\ handle = None
        BY <1>1, <1>4, HolderSees DEF Spawn, At
    <2>2. UNCHANGED <<state, handle>> /\ made' = made + 1
        BY <1>4 DEF Spawn, fields
    <2>3. Abstract!Launch
        BY <2>1, <2>2 DEF Abstract!Launch, Shown
    <2> QED BY <2>3 DEF Promised, Abstract!Next
<1>5. CASE Launched(c) \/ Attached(c) \/ Armed(c)
    <2>1. PICK todo : Proceed(c, todo)
        BY <1>5 DEF Launched, Attached, Armed
    <2>2. Holds(c) /\ task[c].pc \in Launching /\ UNCHANGED host
        BY <1>5 DEF Launched, Attached, Armed, At, Launching
    <2> QED BY <2>1, <2>2, ProceedIsPromised
<1>6. CASE LaunchFails(c) \/ AttachFails(c) \/ ArmFails(c) \/ CreateReturns(c)
    <2>1. UNCHANGED <<state, handle, made>>
        BY <1>6 DEF LaunchFails, AttachFails, ArmFails, CreateReturns, fields, host
    <2> QED BY <2>1 DEF Promised, Steady, Shown
<1> QED BY <1>2, <1>3, <1>4, <1>5, <1>6 DEF CreateStep

\* Whoever takes the handle stops the Instance.
LEMMA TakeIsPromised ==
    ASSUME Inv, handle # None, handle' = None, UNCHANGED <<state, made>>
    PROVE  Promised
<1>1. state \in {"RUNNING", "PAUSED"}
    BY InstanceIsUp
<1>2. Abstract!Stop
    BY <1>1 DEF Abstract!Stop, Abstract!Up, Shown, None
<1> QED BY <1>2 DEF Promised, Abstract!Next

\* A teardown ends with the slot free.
LEMMA TeardownIsPromised ==
    ASSUME Inv, NEW t \in Task, TeardownStep(t)
    PROVE  Promised
<1>1. CASE TeardownBridge(t)
    <2>1. state \in {"RUNNING", "PAUSED"} /\ handle = None
        BY <1>1, HolderSees DEF TeardownBridge, At
    <2>2. state' = "STOPPED" /\ UNCHANGED <<handle, made>>
        BY <1>1 DEF TeardownBridge
    <2> QED BY <2>1, <2>2 DEF Promised, Steady, Shown
<1>2. CASE TeardownViewer(t)
    BY <1>2 DEF TeardownViewer, fields, host, Promised, Steady, Shown
<1>3. CASE TeardownCloses(t)
    <2>1. state = "STOPPED" /\ handle = None
        BY <1>3, HolderSees DEF TeardownCloses, At, Closing
    <2>2. state' = "NONE" /\ UNCHANGED <<handle, made>>
        BY <1>3 DEF TeardownCloses
    <2>3. Abstract!Stopped
        BY <2>1, <2>2 DEF Abstract!Stopped, Shown
    <2> QED BY <2>3 DEF Promised, Abstract!Next
<1> QED BY <1>1, <1>2, <1>3 DEF TeardownStep

\* A command is about the Instance there is.
LEMMA CommandIsPromised ==
    ASSUME Inv, NEW k \in Command, CommandStep(k)
    PROVE  Promised
<1>1. CASE CommandBegin(k) \/ CommandFails(k)
    BY <1>1 DEF CommandBegin, CommandFails, fields, host, Promised, Steady, Shown
<1>2. CASE CommandReplied(k)
    <2>1. handle # None /\ state \in {"RUNNING", "PAUSED"}
        BY <1>2, HolderSees, InstanceIsUp DEF CommandReplied, At, Task, Call
    <2>2. state' \in {"RUNNING", "PAUSED"} /\ UNCHANGED <<handle, made>>
        BY <1>2 DEF CommandReplied, host
    <2>3. Abstract!PauseOrResume
        BY <2>1, <2>2 DEF Abstract!PauseOrResume, Abstract!Up, Shown
    <2> QED BY <2>3 DEF Promised, Abstract!Next
<1> QED BY <1>1, <1>2 DEF CommandStep

\* The end of the server frees the slot.
LEMMA AnewIsPromised ==
    ASSUME Inv, NEW left, Anew(left)
    PROVE  Promised
<1>1. state' = "NONE" /\ handle' = None /\ made' = made
    BY DEF Anew
<1>2. Shown' = "NONE"
    BY <1>1 DEF Shown
<1>3. CASE handle # None
    <2>1. Shown \in {"RUNNING", "PAUSED"}
        BY <1>3, InstanceIsUp DEF Shown
    <2>2. Abstract!Gone
        BY <1>1, <1>2, <2>1 DEF Abstract!Gone, Abstract!Up, Shown, None
    <2> QED BY <2>2 DEF Promised, Abstract!Next
<1>4. CASE handle = None
    <2>1. Shown \in {"NONE", "STARTING", "STOPPED"}
        BY <1>4, InstanceIsUp DEF Shown
    <2>2. Shown = "NONE" => Steady
        BY <1>1, <1>2, <1>4 DEF Steady
    <2>3. Shown = "STARTING" => Abstract!Fail
        BY <1>1, <1>2, <1>4 DEF Abstract!Fail, Shown
    <2>4. Shown = "STOPPED" => Abstract!Stopped
        BY <1>1, <1>2, <1>4 DEF Abstract!Stopped, Shown
    <2> QED BY <2>1, <2>2, <2>3, <2>4 DEF Promised, Abstract!Next
<1> QED BY <1>3, <1>4

\* Every step is one of the promised lifecycle, or shows nothing.
LEMMA NextIsPromised ==
    ASSUME Inv, [Next]_vars
    PROVE  Promised
<1>1. CASE UNCHANGED vars
    BY <1>1 DEF vars, Promised, Steady, Shown
<1>2. ASSUME NEW t \in Call, Request(t) PROVE Promised
    BY <1>2 DEF Request, fields, host, Promised, Steady, Shown
<1>3. ASSUME NEW d \in Destroy, DestroyBegin(d) \/ TeardownStep(d) PROVE Promised
    <2>1. d \in Task
        BY DEF Task, Call
    <2>2. CASE DestroyBegin(d) /\ (state = "NONE" \/ handle = None)
        BY <2>2 DEF DestroyBegin, fields, host, Promised, Steady, Shown
    <2>3. CASE DestroyBegin(d) /\ ~ (state = "NONE" \/ handle = None)
        <3>1. handle' = None /\ UNCHANGED <<state, made>>
            BY <2>3 DEF DestroyBegin, Teardown, host
        <3> QED BY <2>3, <3>1, TakeIsPromised
    <2> QED BY <1>3, <2>1, <2>2, <2>3, TeardownIsPromised
<1>4. ASSUME NEW p \in Proc,
             \/ WatcherWakes(p) \/ Reconcile(p) \/ TeardownStep(p)
             \/ QemuBinds(p) \/ SessionDrops(p)
             \/ \E clean \in BOOLEAN : QemuExits(p, clean)
      PROVE  Promised
    <2>1. p \in Task
        BY DEF Task
    <2>2. CASE Reconcile(p) /\ (generation # p \/ state = "NONE" \/ handle = None)
        BY <2>2 DEF Reconcile, fields, host, Promised, Steady, Shown
    <2>3. CASE Reconcile(p) /\ ~ (generation # p \/ state = "NONE" \/ handle = None)
        <3>1. handle' = None /\ UNCHANGED <<state, made>>
            BY <2>3 DEF Reconcile, Teardown, host
        <3> QED BY <2>3, <3>1, TakeIsPromised
    <2>4. CASE WatcherWakes(p) \/ QemuBinds(p) \/ SessionDrops(p)
               \/ \E clean \in BOOLEAN : QemuExits(p, clean)
        <3>1. UNCHANGED <<state, handle, made>>
            BY <2>4 DEF WatcherWakes, QemuBinds, SessionDrops, QemuExits, fields, host
        <3> QED BY <3>1 DEF Promised, Steady, Shown
    <2> QED BY <1>4, <2>1, <2>2, <2>3, <2>4, TeardownIsPromised
<1>5. ASSUME (\E d \in Shutdown : ServerExits(d)) \/ ServerFails \/ ServerKilled PROVE Promised
    BY <1>5, AnewIsPromised DEF ServerExits, ServerFails, ServerKilled
<1> QED BY <1>1, <1>2, <1>3, <1>4, <1>5, CreateIsPromised, CommandIsPromised DEF Next

\* The mutex, the generations and the order of the awaits implement the lifecycle
\* that the README draws, across every end of the server.
THEOREM LifecycleIsImplemented == Spec => ImplementsLifecycle
<1>1. Init => Abstract!Init
    BY DEF Init, Abstract!Init, None
<1>2. Inv /\ [Next]_vars => [Abstract!Next]_<<Shown, handle, made>>
    BY NextIsPromised DEF Promised, Steady
<1> QED BY <1>1, <1>2, AlwaysInv, PTL DEF Spec, ImplementsLifecycle, Abstract!Spec, Shown

=============================================================================
