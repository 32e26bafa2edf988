------------------------- MODULE TsOrchestratorProofs -------------------------
(***************************************************************************)
(* Proofs about the TypeScript Orchestrator's lifecycle, for any number of  *)
(* calls that overlap and of QEMU processes: the runs of TsOrchestrator      *)
(* check two or three of each.                                              *)
(*                                                                          *)
(* The argument: the slot has one owner at a time - the create call with    *)
(* the launch token, the Instance, or the destroy in progress - and Phase   *)
(* says, for each step the owner may be at, what its QEMU, its links and    *)
(* the two socket paths are like.  All that is not the owner's is already   *)
(* being closed.                                                            *)
(***************************************************************************)
EXTENDS TsOrchestrator, Integers, TLAPS
-----------------------------------------------------------------------------
\* The invariant.

\* A create call that owns the slot: before it spawns, and from then on.
Checking == {"qmp", "serial", "spawning"}
Launching == {"dialing", "aborting", "arming", "attaching", "unlinking"}

\* No reply to stop or cont sets the state while a destroy is under way.
NoLateReply == \A k \in Command : CommandReplied(k) => \A d \in Destroy : ~ Busy(d)

\* The types; a call names a QEMU that was spawned, and only while it has one.
Types ==
    /\ state \in {"NONE", "STARTING", "RUNNING", "PAUSED", "STOPPED"}
    /\ token \in Create \cup {None}
    /\ made \in 0..MaxProc
    /\ handle \in 0..made
    /\ create \in [Create -> [pc : {"idle", "cont"} \cup Checking \cup Launching,
                              proc : 0..made, todo : SUBSET Companions]]
    /\ \A c \in Create :
          create[c].proc = None <=> create[c].pc \in {"idle"} \cup Checking
    /\ destroy \in [Destroy -> [pc : {"idle", "over", "recording", "viewer", "closing"},
                                proc : 0..made]]
    /\ \A d \in Destroy : destroy[d].proc # None <=> Busy(d)
    /\ command \in [Command -> [pc : {"idle", "sent", "answered"},
                                proc : Proc \cup {None},
                                to : {"NONE", "RUNNING", "PAUSED"}]]
    /\ \A k \in Command : command[k].pc # "idle" => command[k].to # "NONE"
    /\ alive \subseteq 1..made
    /\ bound \in [Proc -> SUBSET Path]
    /\ path \in [Path -> Proc \cup {None, Foreign}]
    /\ peer \in [Proc -> Proc \cup {None}]
    /\ line \in [Proc -> Proc \cup {None}]
    /\ viewers \subseteq 1..made
    /\ closing \in [Proc -> {"no", "session", "process", "file", "done"}]
    /\ watched \subseteq 1..made
    /\ unlinks \subseteq 1..made

\* The slot has one owner at most: the create call that holds the token, the
\* Instance, or the destroy in progress; and the state says which.
Slot ==
    /\ \A c \in Create : create[c].pc \in Checking \cup Launching <=> token = c
    /\ token # None => handle = None
    /\ \A d \in Destroy : Busy(d) => token = None /\ handle = None
    /\ \A d, e \in Destroy : Busy(d) /\ Busy(e) => d = e
    /\ state = "STOPPED" <=> \E d \in Destroy : Busy(d)
    /\ state = "NONE" => token = None /\ handle = None
    /\ state = "STARTING" => token # None

\* ... and the converse, which a reply that comes when there is no Instance breaks.
Agree ==
    /\ token # None => state = "STARTING"
    /\ state \in {"RUNNING", "PAUSED"} => handle # None

Free == token = None /\ handle = None /\ \A d \in Destroy : ~ Busy(d)

\* What is at a path was bound there; a QEMU's socket file goes after the QEMU and
\* its exit callback.
Host ==
    /\ \A x \in Path : path[x] \in Proc => x \in bound[path[x]]
    /\ \A p \in Proc : p > made => closing[p] = "no"
    /\ \A p \in Proc : closing[p] \in {"file", "done"} => p \notin alive /\ p \notin watched

\* What holds while the owner of the slot is r: r.pc is its step, r.proc its QEMU.
\* Only the owner's QEMU is not being closed, has a Viewer, a bridge or an exit
\* callback, or has yet to bind its sockets; and a create finds at the paths it is
\* about to dial nothing, or its own QEMU.
Phase(r) ==
    /\ \A p \in Proc :
          (closing[p] = "no" /\ p <= made) \/ p \in viewers \/ line[p] # None \/ p \in watched
              => p = r.proc
    /\ \A p \in alive : bound[p] = {} => p = r.proc /\ r.pc \in {"dialing", "aborting"}
    /\ r.pc \in Launching =>
          /\ r.proc = made /\ r.proc \notin watched /\ line[r.proc] = None
          /\ r.pc # "attaching" => r.proc \notin viewers
    /\ r.pc = "up" => r.proc \in watched
    /\ r.pc \in {"dialing", "arming", "attaching", "up", "recording", "viewer"} =>
          closing[r.proc] = "no"
    /\ r.pc \in {"aborting", "closing"} =>
          closing[r.proc] \in {"session", "process", "file"}
    /\ r.pc = "unlinking" => closing[r.proc] # "no"
    /\ r.pc \in {"viewer", "closing"} => line[r.proc] = None
    /\ r.pc = "closing" => r.proc \notin viewers
    /\ r.pc \in {"serial", "spawning", "dialing"} => path["qmp"] \in {None, r.proc}
    /\ r.pc \in {"spawning", "dialing", "arming", "attaching"} /\ "serial" \in r.todo =>
          path["serial"] \in {None, r.proc}
    /\ r.pc = "attaching" => "serial" \in r.todo

Instance(p) == [pc |-> "up", proc |-> p]

\* That, of whoever owns the slot.
Phases ==
    /\ \A c \in Create : token = c => Phase(create[c])
    /\ handle # None => Phase(Instance(handle))
    /\ \A d \in Destroy : Busy(d) => Phase(destroy[d])
    /\ Free => Phase(Idle)

Inv == Types /\ Slot /\ Host /\ Phases /\ OwnSession

-----------------------------------------------------------------------------
\* It says what the properties say.

LEMMA NoneIsNobody == None \notin Create /\ None \notin Proc /\ MaxProc \in Nat
BY CreateAssumption, MaxProcAssumption DEF None, Proc

LEMMA InvIsOurs == Inv => InstanceIsOurs
<1> SUFFICES ASSUME Inv PROVE InstanceIsOurs
    OBVIOUS
<1> DEFINE Owner(r) ==
        \/ token \in Create /\ r = create[token]
        \/ handle # None /\ r = Instance(handle)
        \/ \E d \in Destroy : Busy(d) /\ r = destroy[d]
        \/ Free /\ r = Idle
<1>1. PICK r : Owner(r) /\ Phase(r)
    BY DEF Inv, Phases, Types, Free
<1>2. r.proc \in Proc => handle = r.proc \/ Starting(r.proc) \/ Stopping(r.proc)
    BY <1>1, NoneIsNobody
    DEF Inv, Types, Slot, Free, Instance, Idle, Starting, Stopping, Checking, Launching
<1>3. NoOrphan
    BY <1>1, <1>2, MaxProcAssumption DEF Phase, NoOrphan, Inv, Types, Proc
<1>4. OneInstance
    BY <1>1, MaxProcAssumption DEF Phase, OneInstance, Inv, Types, Proc
<1> QED BY <1>3, <1>4 DEF InstanceIsOurs, Inv

LEMMA InvIsFields ==
    ASSUME Inv, Agree
    PROVE  FieldsHold
<1>1. TypeOK
    <2>1. create \in [Create ->
              [pc : {"idle", "qmp", "serial", "spawning"}, proc : {None},
               todo : SUBSET Companions]
              \cup [pc : {"dialing", "aborting", "arming", "attaching", "unlinking", "cont"},
                    proc : 1..made, todo : SUBSET Companions]]
        <3> SUFFICES ASSUME NEW c \in Create
                     PROVE  \/ create[c] \in [pc : {"idle", "qmp", "serial", "spawning"},
                                              proc : {None}, todo : SUBSET Companions]
                            \/ create[c] \in [pc : {"dialing", "aborting", "arming", "attaching",
                                                    "unlinking", "cont"},
                                              proc : 1..made, todo : SUBSET Companions]
            BY DEF Inv, Types
        <3>1. create[c].proc # None => create[c].proc \in 1..made
            BY DEF Inv, Types, None
        <3> QED BY <3>1 DEF Inv, Types, Checking, Launching
    <2>2. destroy \in [Destroy ->
              {Idle, Over} \cup [pc : {"recording", "viewer", "closing"}, proc : 1..made]]
        <3> SUFFICES ASSUME NEW d \in Destroy
                     PROVE  \/ destroy[d] \in {Idle, Over}
                            \/ destroy[d] \in [pc : {"recording", "viewer", "closing"},
                                               proc : 1..made]
            BY DEF Inv, Types
        <3>1. destroy[d].proc # None => destroy[d].proc \in 1..made
            BY DEF Inv, Types, None
        <3> QED BY <3>1 DEF Inv, Types, Busy, Idle, Over
    <2> QED BY <2>1, <2>2 DEF Inv, Types, TypeOK
<1>2. FieldsAgree
    BY <1>1 DEF Inv, Types, Slot, Agree, FieldsAgree
<1> QED BY <1>1, <1>2 DEF FieldsHold

LEMMA InitInv == Init => Inv
<1> SUFFICES ASSUME Init PROVE Inv
    OBVIOUS
<1>1. Types
    BY NoneIsNobody DEF Init, Types, NotCreating, Idle, Busy, Checking, None, Proc, Path, Foreign
<1>2. Slot
    BY NoneIsNobody DEF Init, Slot, NotCreating, Idle, Busy, Checking, Launching
<1>3. Host
    BY MaxProcAssumption DEF Init, Host, Proc, None, Foreign
<1>4. Phases
    BY NoneIsNobody DEF Init, Phases, Phase, Idle, Busy, Proc, None, Launching
<1> QED BY <1>1, <1>2, <1>3, <1>4 DEF Inv, Init, OwnSession

-----------------------------------------------------------------------------
\* What a step does to the slot.

\* The create call that owns it goes on to another step.
LEMMA CreateMoves ==
    ASSUME Inv, NEW c \in Create, token = c, NEW r, create' = [create EXCEPT ![c] = r],
           r.pc \in Checking \cup Launching, UNCHANGED <<fields, destroy>>, Phase(r)'
    PROVE  Slot' /\ Phases'
<1>1. \A e \in Create : create'[e] = IF e = c THEN r ELSE create[e]
    BY DEF Inv, Types
<1>2. handle = None /\ token # None /\ \A d \in Destroy : ~ Busy(d)
    BY NoneIsNobody DEF Inv, Slot
<1>3. Slot'
    BY <1>1, <1>2 DEF Inv, Slot, fields, Busy
<1>4. Phases'
    BY <1>1, <1>2 DEF Phases, fields, Busy, Free
<1> QED BY <1>3, <1>4

\* It gives the slot back.
LEMMA CreateGivesUp ==
    ASSUME Inv, NEW c \in Create, token = c, Throws(c), UNCHANGED destroy, Phase(Idle)'
    PROVE  Slot' /\ Phases'
<1>1. \A e \in Create : create'[e] = IF e = c THEN NotCreating ELSE create[e]
    BY DEF Inv, Types, Throws
<1>2. handle = None /\ token # None /\ \A d \in Destroy : ~ Busy(d)
    BY NoneIsNobody DEF Inv, Slot
<1>3. state' = "NONE" /\ handle' = None /\ token' = None /\ destroy' = destroy
    BY DEF Throws, release
<1>4. Slot'
    BY <1>1, <1>2, <1>3, NoneIsNobody DEF Inv, Slot, NotCreating, Busy, Checking, Launching
<1>5. Phases'
    BY <1>2, <1>3, NoneIsNobody DEF Phases, Busy, Free
<1> QED BY <1>4, <1>5

\* Its QEMU is published.
LEMMA CreatePublishes ==
    ASSUME Inv, NEW c \in Create, token = c, create[c].pc \in Launching, Publish(c),
           UNCHANGED destroy, NEW p, p = create[c].proc, Phase(Instance(p))'
    PROVE  Slot' /\ Phases'
<1>1. /\ \A e \in Create \ {c} : create'[e] = create[e]
      /\ create'[c].pc \in {"idle", "cont"}
    BY AutoStartAssumption DEF Inv, Types, Publish
<1>2. handle = None /\ token # None /\ \A d \in Destroy : ~ Busy(d)
    BY NoneIsNobody DEF Inv, Slot
<1>3. /\ state' \in {"RUNNING", "PAUSED"} /\ token' = None
      /\ handle' = p /\ p # None
    BY DEF Publish, Inv, Types, Launching, Checking
<1>4. Slot'
    BY <1>1, <1>2, <1>3, NoneIsNobody DEF Inv, Slot, Busy, Checking, Launching
<1>5. Phases'
    BY <1>2, <1>3, NoneIsNobody DEF Phases, Busy, Free
<1> QED BY <1>4, <1>5

\* The destroy in progress goes on.
LEMMA DestroyMoves ==
    ASSUME Inv, NEW d \in Destroy, Busy(d), NEW r, destroy' = [destroy EXCEPT ![d] = r],
           r.pc \in {"recording", "viewer", "closing"}, UNCHANGED <<fields, create>>, Phase(r)'
    PROVE  Slot' /\ Phases'
<1>1. \A e \in Destroy : destroy'[e] = IF e = d THEN r ELSE destroy[e]
    BY DEF Inv, Types
<1>2. \A e \in Destroy : Busy(e)' <=> Busy(e)
    BY <1>1 DEF Busy
<1>3. token = None /\ handle = None /\ \A e \in Destroy : Busy(e) => e = d
    BY DEF Inv, Slot
<1>4. Slot'
    BY <1>2, <1>3 DEF Inv, Slot, fields
<1>5. Phases'
    BY <1>1, <1>2, <1>3, NoneIsNobody DEF Phases, fields, Free
<1> QED BY <1>4, <1>5

\* Nobody's call goes on: only QEMU and the host do.
LEMMA HostMoves ==
    ASSUME Inv, UNCHANGED <<fields, create, destroy>>, \A r : Phase(r) => Phase(r)'
    PROVE  Slot' /\ Phases'
<1>1. Slot'
    BY DEF Inv, Slot, fields, Busy
<1>2. Phases'
    BY DEF Inv, Phases, fields, Busy, Free
<1> QED BY <1>1, <1>2

-----------------------------------------------------------------------------
\* QEMU and the host.

\* What the invariant says of the processes, of use in every step.
LEMMA Numbers ==
    ASSUME Inv
    PROVE  /\ made \in Nat /\ MaxProc \in Nat /\ made <= MaxProc
           /\ \A p \in Proc : p \in Nat /\ p # None
           /\ alive \subseteq Proc /\ 1..made \subseteq Proc
           /\ None \notin alive /\ Foreign \notin Proc /\ Foreign # None
BY MaxProcAssumption DEF Inv, Types, Proc, None, Foreign

LEMMA QemuBindsInv ==
    ASSUME Inv, NEW p \in Proc, QemuBinds(p)
    PROVE  Inv'
<1>1. PICK on \in SUBSET Path :
          /\ "qmp" \in on
          /\ bound' = [bound EXCEPT ![p] = on]
          /\ path' = [x \in Path |-> IF x \in on THEN p ELSE path[x]]
    <2>1. PICK c \in Create : bound' = [bound EXCEPT ![p] = {"qmp"} \cup (create[c].todo \cap Path)]
        BY DEF QemuBinds
    <2>2. bound'[p] = {"qmp"} \cup (create[c].todo \cap Path)
        BY <2>1 DEF Inv, Types
    <2> QED BY <2>1, <2>2 DEF QemuBinds, Path
<1>2. Types'
    BY <1>1 DEF QemuBinds, Inv, Types, fields, links, Busy
<1>3. Host'
    BY <1>1 DEF QemuBinds, Inv, Types, Host
<1>4. \A r : Phase(r) => Phase(r)'
    <2> SUFFICES ASSUME NEW r, Phase(r) PROVE Phase(r)'
        OBVIOUS
    <2>1. p = r.proc
        BY DEF QemuBinds, Phase
    <2> QED BY <1>1, <2>1 DEF QemuBinds, Inv, Types, Phase, links, Path
<1>5. Slot' /\ Phases'
    BY <1>4, HostMoves DEF QemuBinds
<1> QED BY <1>2, <1>3, <1>5 DEF Inv, QemuBinds, links, OwnSession

LEMMA QemuExitsInv ==
    ASSUME Inv, NEW p \in Proc, NEW clean \in BOOLEAN, QemuExits(p, clean)
    PROVE  Inv'
<1>1. Types'
    BY DEF QemuExits, Inv, Types, fields, links, Busy
<1>2. Host'
    BY Numbers DEF QemuExits, Inv, Types, Host
<1>3. \A r : Phase(r) => Phase(r)'
    <2>1. alive' \subseteq alive /\ \A x \in Path : path'[x] \in {None, path[x]}
        BY DEF QemuExits
    <2> QED BY <2>1 DEF QemuExits, Phase, links, Path
<1>4. Slot' /\ Phases'
    BY <1>3, HostMoves DEF QemuExits
<1> QED BY <1>1, <1>2, <1>4 DEF Inv, QemuExits, links, OwnSession

LEMMA SessionDropsInv ==
    ASSUME Inv, NEW p \in Proc, SessionDrops(p)
    PROVE  Inv'
<1>1. Types'
    BY DEF SessionDrops, Inv, Types, fields, host, Busy
<1>2. Host'
    BY DEF SessionDrops, Inv, Host, host
<1>3. \A r : Phase(r) => Phase(r)'
    BY DEF SessionDrops, Phase, host
<1>4. Slot' /\ Phases'
    BY <1>3, HostMoves DEF SessionDrops
<1>5. OwnSession'
    BY DEF SessionDrops, Inv, Types, OwnSession
<1> QED BY <1>1, <1>2, <1>4, <1>5 DEF Inv

-----------------------------------------------------------------------------
\* close() and the unlinks.

LEMMA CloseSessionInv ==
    ASSUME Inv, NEW p \in Proc, CloseSession(p)
    PROVE  Inv'
<1>1. Types'
    BY DEF CloseSession, Inv, Types, fields, host, Busy
<1>2. Host'
    BY DEF CloseSession, Inv, Types, Host, host
<1>3. \A r : Phase(r) => Phase(r)'
    BY DEF CloseSession, Inv, Types, Phase, host
<1>4. Slot' /\ Phases'
    BY <1>3, HostMoves DEF CloseSession
<1>5. OwnSession'
    BY DEF CloseSession, Inv, Types, OwnSession
<1> QED BY <1>1, <1>2, <1>4, <1>5 DEF Inv

LEMMA CloseProcessInv ==
    ASSUME Inv, NEW p \in Proc, CloseProcess(p)
    PROVE  Inv'
<1>1. Types'
    BY DEF CloseProcess, Inv, Types, fields, host, links, Busy
<1>2. Host'
    BY DEF CloseProcess, Inv, Types, Host, host
<1>3. \A r : Phase(r) => Phase(r)'
    BY DEF CloseProcess, Inv, Types, Phase, host, links
<1>4. Slot' /\ Phases'
    BY <1>3, HostMoves DEF CloseProcess
<1> QED BY <1>1, <1>2, <1>4 DEF Inv, CloseProcess, links, OwnSession

LEMMA UnlinkSerialInv ==
    ASSUME Inv, NEW p \in Proc, UnlinkSerial(p)
    PROVE  Inv'
<1>1. Types'
    BY DEF UnlinkSerial, Inv, Types, fields, links, Busy, Path
<1>2. Host'
    BY Numbers DEF UnlinkSerial, Inv, Types, Host
<1>3. \A r : Phase(r) => Phase(r)'
    BY DEF UnlinkSerial, Inv, Types, Phase, links, Path
<1>4. Slot' /\ Phases'
    BY <1>3, HostMoves DEF UnlinkSerial
<1> QED BY <1>1, <1>2, <1>4 DEF Inv, UnlinkSerial, links, OwnSession

-----------------------------------------------------------------------------
\* create_instance.

\* A call at one of its steps owns the slot.
LEMMA Owns ==
    ASSUME Inv, NEW c \in Create, create[c].pc \in Checking \cup Launching
    PROVE  /\ token = c /\ token # None /\ handle = None
           /\ Phase(create[c])
           /\ create[c].pc \in Launching =>
                 create[c].proc = made /\ create[c].proc \in Proc
           /\ create[c].pc \in Checking => create[c].proc = None
           /\ create[c].todo \subseteq Companions
<1>1. token = c /\ token # None /\ handle = None
    BY NoneIsNobody DEF Inv, Slot
<1>2. Phase(create[c])
    BY <1>1 DEF Inv, Phases
<1>3. create[c].pc \in Launching => create[c].proc = made
    BY <1>2 DEF Phase
<1>4. create[c].pc \in Launching => create[c].proc # None
    BY DEF Inv, Types, Launching, Checking
<1>5. create[c].pc \in Launching => create[c].proc \in Proc
    BY <1>3, <1>4, Numbers DEF Proc, None
<1> QED BY <1>1, <1>2, <1>3, <1>5 DEF Inv, Types

LEMMA CreateBeginInv ==
    ASSUME Inv, NEW c \in Create, CreateBegin(c)
    PROVE  Inv'
<1>1. Free
    BY DEF CreateBegin, Inv, Slot, Free
<1>2. PICK spec \in Specs :
          create' = [create EXCEPT ![c] = [pc |-> "qmp", proc |-> None, todo |-> spec]]
    BY DEF CreateBegin
<1>3. spec \in SUBSET Companions
    BY SpecsAssumption
<1>4. Types'
    BY <1>2, <1>3, Numbers
    DEF CreateBegin, Inv, Types, Checking, Launching, host, links, Busy, None
<1>5. Slot'
    <2>1. \A e \in Create \ {c} : create'[e] = create[e] /\ create[e].pc \notin Checking \cup Launching
        BY <1>1, <1>2, NoneIsNobody DEF Inv, Types, Slot, Free
    <2>2. create'[c].pc = "qmp"
        BY <1>2 DEF Inv, Types
    <2>3. state' = "STARTING" /\ token' = c /\ c # None /\ handle' = None /\ destroy' = destroy
        BY <1>1, NoneIsNobody DEF CreateBegin, Free
    <2> QED BY <1>1, <2>1, <2>2, <2>3 DEF Slot, Free, Busy, Checking
<1>6. Host'
    BY DEF CreateBegin, Inv, Host, host
<1>7. Phase([pc |-> "qmp", proc |-> None, todo |-> spec])'
    BY <1>1 DEF CreateBegin, Inv, Phases, Phase, Idle, host, links, Launching
<1>8. Phases'
    BY <1>1, <1>2, <1>7, NoneIsNobody DEF CreateBegin, Inv, Types, Phases, Free, Busy
<1> QED BY <1>4, <1>5, <1>6, <1>8 DEF Inv, CreateBegin, links, OwnSession

\* A create that throws leaves the types as they are.
LEMMA ThrowsTypes ==
    ASSUME Inv, NEW c \in Create, Throws(c), UNCHANGED <<destroy, command, made>>,
           alive' \subseteq 1..made, bound' \in [Proc -> SUBSET Path],
           path' \in [Path -> Proc \cup {None, Foreign}],
           peer' \in [Proc -> Proc \cup {None}], line' \in [Proc -> Proc \cup {None}],
           viewers' \subseteq 1..made, watched' \subseteq 1..made, unlinks' \subseteq 1..made,
           closing' \in [Proc -> {"no", "session", "process", "file", "done"}]
    PROVE  Types'
BY Numbers DEF Inv, Types, Throws, release, NotCreating, Checking, Busy, None

LEMMA CreateRefusedInv ==
    ASSUME Inv, NEW c \in Create, CreateRefused(c)
    PROVE  Inv'
<1>1. Types'
    BY ThrowsTypes DEF CreateRefused, Inv, Types, host, links
<1>2. Host'
    BY DEF CreateRefused, Inv, Host, host
<1>3. Phase(Idle)'
    BY Owns DEF CreateRefused, Phase, Idle, Checking, Launching, host, links
<1>4. Slot' /\ Phases'
    BY <1>3, Owns, CreateGivesUp DEF CreateRefused, Checking
<1> QED BY <1>1, <1>2, <1>4 DEF Inv, CreateRefused, links, OwnSession

LEMMA CheckPathInv ==
    ASSUME Inv, NEW c \in Create, CheckPath(c)
    PROVE  Inv'
<1>0. create[c].pc \in Checking
    BY DEF CheckPath, Path, Checking
<1>1. UNCHANGED <<destroy, command, host, links, closing, watched, unlinks>>
    BY DEF CheckPath
<1>2. Host'
    BY <1>1 DEF Inv, Host, host
<1>3. Types' /\ Slot' /\ Phases'
    <2>1. CASE path[create[c].pc] # None
        <3>1. Throws(c)
            BY <2>1 DEF CheckPath
        <3>2. Types'
            BY <1>1, <3>1, ThrowsTypes DEF Inv, Types, host, links
        <3>3. Phase(Idle)'
            BY <1>0, <1>1, Owns DEF Phase, Idle, Checking, Launching, host, links
        <3> QED BY <1>0, <1>1, <3>1, <3>2, <3>3, Owns, CreateGivesUp
    <2>2. CASE path[create[c].pc] = None
        <3> DEFINE next == IF create[c].pc = "qmp" /\ "serial" \in create[c].todo
                           THEN "serial" ELSE "spawning"
                   r == [create[c] EXCEPT !.pc = next]
        <3>1. create' = [create EXCEPT ![c] = r] /\ UNCHANGED fields
            BY <2>2 DEF CheckPath, Inv, Types
        <3>2. /\ r.pc = next /\ r.pc \in Checking
              /\ r.proc = create[c].proc /\ r.todo = create[c].todo
            BY DEF Inv, Types, Checking
        <3>3. Types'
            BY <1>0, <1>1, <3>1 DEF Inv, Types, fields, host, links, Checking, Busy
        <3>4. ASSUME NEW s, s = r PROVE Phase(s)'
            BY <1>0, <1>1, <2>2, <3>2, <3>4, Owns
            DEF CheckPath, Phase, Checking, Launching, host, links, Path
        <3>5. Slot' /\ Phases'
            BY <1>0, <1>1, <3>1, <3>2, <3>4, Owns, CreateMoves
        <3> QED BY <3>3, <3>5
    <2> QED BY <2>1, <2>2
<1> QED BY <1>1, <1>2, <1>3 DEF Inv, links, OwnSession

LEMMA SpawnInv ==
    ASSUME Inv, NEW c \in Create, Spawn(c)
    PROVE  Inv'
<1> DEFINE p == made + 1
<1>0. create[c].pc \in Checking
    BY DEF Spawn, Checking
<1>1. /\ made' = p /\ p \in Proc /\ alive' = alive \cup {p}
      /\ UNCHANGED <<fields, destroy, command, bound, path, links, closing, watched, unlinks>>
    BY Numbers DEF Spawn, Proc
<1> DEFINE r == [pc |-> "dialing", proc |-> p, todo |-> create[c].todo]
<1>2. create' = [create EXCEPT ![c] = r]
    BY DEF Spawn, Inv, Types
<1>3. Types'
    BY <1>0, <1>1, <1>2, Numbers
    DEF Inv, Types, fields, links, Checking, Launching, Busy, Proc, None
<1>4. Host'
    BY <1>1, Numbers DEF Inv, Host, Types
<1>5. ASSUME NEW s, s = r PROVE Phase(s)'
    <2>1. closing[p] = "no"
        BY <1>1, Numbers DEF Inv, Host
    <2>2. p \notin viewers /\ p \notin watched /\ line[p] = None
        BY <1>0, <1>1, Numbers, Owns DEF Phase
    <2>3. path["qmp"] = None /\ ("serial" \in create[c].todo => path["serial"] = None)
        BY <1>0, Owns DEF Spawn, Phase
    <2>4. \A q \in Proc : (closing[q] = "no" /\ q <= made') \/ q \in viewers \/ line[q] # None
                              \/ q \in watched => q = p
        BY <1>0, <1>1, Numbers, Owns DEF Phase
    <2>5. \A q \in alive' : bound[q] = {} => q = p
        BY <1>0, <1>1, Numbers, Owns DEF Phase, Spawn
    <2> QED BY <1>1, <1>5, <2>1, <2>2, <2>3, <2>4, <2>5 DEF Phase, Launching, links
<1>6. Slot' /\ Phases'
    BY <1>0, <1>1, <1>2, <1>5, Owns, CreateMoves DEF Launching
<1> QED BY <1>1, <1>3, <1>4, <1>6 DEF Inv, links, OwnSession

LEMMA LaunchFailsInv ==
    ASSUME Inv, NEW c \in Create, LaunchFails(c)
    PROVE  Inv'
<1> DEFINE p == create[c].proc
           r == [create[c] EXCEPT !.pc = "aborting"]
<1>1. /\ create[c].pc = "dialing" /\ create[c].pc \in Launching
      /\ closing' = [closing EXCEPT ![p] = "session"]
      /\ UNCHANGED <<fields, destroy, command, host, links, watched, unlinks>>
    BY DEF LaunchFails, Launching
<1>2. /\ create' = [create EXCEPT ![c] = r]
      /\ r.pc = "aborting" /\ r.proc = p /\ r.todo = create[c].todo
    BY DEF LaunchFails, Inv, Types
<1>3. Types'
    <2>1. /\ create \in [Create -> [pc : {"idle", "cont"} \cup Checking \cup Launching,
                                    proc : 0..made, todo : SUBSET Companions]]
          /\ closing \in [Proc -> {"no", "session", "process", "file", "done"}]
        BY DEF Inv, Types
    <2>2. create' \in [Create -> [pc : {"idle", "cont"} \cup Checking \cup Launching,
                                  proc : 0..made, todo : SUBSET Companions]]
        BY <1>2, <2>1 DEF Launching
    <2>3. closing' \in [Proc -> {"no", "session", "process", "file", "done"}]
        BY <1>1, <2>1
    <2>4. \A e \in Create : create'[e].proc = None <=> create'[e].pc \in {"idle"} \cup Checking
        <3>1. \A e \in Create : /\ create'[e].proc = create[e].proc
                                /\ create'[e].pc = IF e = c THEN "aborting" ELSE create[e].pc
            BY <1>2, <2>1
        <3>2. create[c].proc # None /\ "aborting" \notin {"idle"} \cup Checking
            BY <1>1 DEF Inv, Types, Checking
        <3> QED BY <3>1, <3>2 DEF Inv, Types
    <2> QED BY <1>1, <2>2, <2>3, <2>4 DEF Inv, Types, fields, host, links, Busy
<1>4. Host'
    BY <1>1, Owns, Numbers DEF Inv, Types, Host, host
<1>5. ASSUME NEW s, s = r PROVE Phase(s)'
    BY <1>1, <1>2, <1>5, Owns DEF Inv, Types, Phase, Launching, host, links
<1>6. Slot' /\ Phases'
    BY <1>1, <1>2, <1>5, Owns, CreateMoves DEF Launching
<1> QED BY <1>1, <1>3, <1>4, <1>6 DEF Inv, links, OwnSession

\* close() is started, unless it was.
LEMMA ClosingStarts ==
    ASSUME Inv, NEW p \in Proc, closing' = Closing(p)
    PROVE  /\ closing' \in [Proc -> {"no", "session", "process", "file", "done"}]
           /\ closing'[p] # "no"
           /\ \A q \in Proc : closing'[q] = closing[q] \/ (q = p /\ closing'[q] = "session")
<1>1. closing \in [Proc -> {"no", "session", "process", "file", "done"}]
    BY DEF Inv, Types
<1>2. closing' = [q \in Proc |-> IF q = p /\ closing[p] = "no" THEN "session" ELSE closing[q]]
    BY <1>1 DEF Closing
<1> QED BY <1>1, <1>2

LEMMA ArmFailsInv ==
    ASSUME Inv, NEW c \in Create, ArmFails(c)
    PROVE  Inv'
<1> DEFINE p == create[c].proc
<1>1. /\ create[c].pc = "arming" /\ create[c].pc \in Launching
      /\ closing' = Closing(p) /\ Throws(c)
      /\ UNCHANGED <<destroy, command, host, links, watched, unlinks>>
    BY DEF ArmFails, Launching
<1>2. p \in Proc /\ p = made
    BY <1>1, Owns
<1>3. Types'
    BY <1>1, <1>2, ClosingStarts, ThrowsTypes DEF Inv, Types, host, links
<1>4. Host'
    BY <1>1, <1>2, ClosingStarts, Numbers DEF Inv, Host, host
<1>5. Phase(Idle)'
    BY <1>1, <1>2, ClosingStarts, Owns DEF Phase, Idle, Launching, host, links
<1>6. Slot' /\ Phases'
    BY <1>1, <1>5, Owns, CreateGivesUp
<1> QED BY <1>1, <1>3, <1>4, <1>6 DEF Inv, links, OwnSession

LEMMA AttachFailsInv ==
    ASSUME Inv, NEW c \in Create, AttachFails(c)
    PROVE  Inv'
<1> DEFINE p == create[c].proc
           r == [create[c] EXCEPT !.pc = "unlinking"]
<1>1. /\ create[c].pc = "attaching" /\ create[c].pc \in Launching
      /\ closing' = Closing(p) /\ viewers' = viewers \ {p}
      /\ UNCHANGED <<fields, destroy, command, host, peer, line, watched, unlinks>>
    BY DEF AttachFails, Launching
<1>2. /\ create' = [create EXCEPT ![c] = r]
      /\ r.pc = "unlinking" /\ r.proc = p /\ r.todo = create[c].todo
    BY DEF AttachFails, Inv, Types
<1>3. p \in Proc /\ p = made
    BY <1>1, Owns
<1>4. Types'
    <2>0. r \in [pc : {"idle", "cont"} \cup Checking \cup Launching,
                 proc : 0..made, todo : SUBSET Companions]
        BY DEF Inv, Types, Launching
    <2>1. create' \in [Create -> [pc : {"idle", "cont"} \cup Checking \cup Launching,
                                  proc : 0..made, todo : SUBSET Companions]]
        BY <1>2, <2>0 DEF Inv, Types
    <2>2. \A e \in Create :
              create'[e].proc = None <=> create'[e].pc \in {"idle"} \cup Checking
        BY <1>1, <1>2 DEF Inv, Types, Checking, Launching
    <2>3. closing' \in [Proc -> {"no", "session", "process", "file", "done"}]
        BY <1>1, <1>3, ClosingStarts
    <2> QED BY <1>1, <2>1, <2>2, <2>3 DEF Inv, Types, fields, host, Busy
<1>5. Host'
    BY <1>1, <1>3, ClosingStarts, Numbers DEF Inv, Host, host
<1>6. ASSUME NEW s, s = r PROVE Phase(s)'
    BY <1>1, <1>2, <1>3, <1>6, ClosingStarts, Owns DEF Phase, Launching, host
<1>7. Slot' /\ Phases'
    BY <1>1, <1>2, <1>6, Owns, CreateMoves DEF Launching
<1> QED BY <1>1, <1>4, <1>5, <1>7 DEF Inv, OwnSession

LEMMA AttachFailedInv ==
    ASSUME Inv, NEW c \in Create, AttachFailed(c)
    PROVE  Inv'
<1>1. /\ create[c].pc = "unlinking" /\ create[c].pc \in Launching /\ Throws(c)
      /\ path' = [path EXCEPT !["serial"] = None]
      /\ UNCHANGED <<destroy, command, made, alive, bound, links, closing, watched, unlinks>>
    BY DEF AttachFailed, Launching
<1>2. Types'
    BY <1>1, ThrowsTypes DEF Inv, Types, links
<1>3. Host'
    BY <1>1, Numbers DEF Inv, Types, Host
<1>4. Phase(Idle)'
    BY <1>1, Owns DEF Phase, Idle, Launching, links
<1>5. Slot' /\ Phases'
    BY <1>1, <1>4, Owns, CreateGivesUp
<1> QED BY <1>1, <1>2, <1>3, <1>5 DEF Inv, links, OwnSession

\* The Instance is published already, and may be gone: the slot is not touched.
LEMMA ContDoneInv ==
    ASSUME Inv, NEW c \in Create, ContDone(c)
    PROVE  Inv'
<1>1. /\ create[c].pc = "cont" /\ Throws(c)
      /\ UNCHANGED <<destroy, command, host, links, closing, watched, unlinks>>
    BY DEF ContDone
<1>2. token # c
    BY <1>1 DEF Inv, Slot, Checking, Launching
<1>3. /\ UNCHANGED fields
      /\ \A e \in Create : create'[e] = IF e = c THEN NotCreating ELSE create[e]
    BY <1>1, <1>2 DEF Throws, release, fields, Inv, Types
<1>4. Types'
    BY <1>1, ThrowsTypes DEF Inv, Types, host, links
<1>5. Host'
    BY <1>1 DEF Inv, Host, host
<1>6. Slot'
    BY <1>1, <1>2, <1>3 DEF Inv, Slot, fields, NotCreating, Busy, Checking, Launching
<1>7. \A r : Phase(r) => Phase(r)'
    BY <1>1 DEF Phase, host, links
<1>8. Phases'
    BY <1>1, <1>2, <1>3, <1>7 DEF Inv, Phases, fields, Busy, Free
<1> QED BY <1>1, <1>4, <1>5, <1>6, <1>8 DEF Inv, links, OwnSession

\* A create goes on with what is left to start, or publishes: what it has started is
\* its QEMU's own, and its QEMU has bound its sockets.
LEMMA ProceedInv ==
    ASSUME Inv, NEW c \in Create, create[c].pc \in {"dialing", "arming", "attaching"},
           NEW p, p = create[c].proc, p \in alive => bound[p] # {},
           NEW todo, todo \subseteq create[c].todo, Proceed(c, todo),
           create[c].pc = "attaching" => todo = {},
           UNCHANGED <<destroy, command, host>>,
           peer' \in [Proc -> Proc \cup {None}], line' \in [Proc -> Proc \cup {None}],
           \A q \in Proc : q # p => line'[q] = line[q],
           todo # {} => line'[p] = None,
           viewers' \subseteq viewers \cup {p}, "vnc" \in todo => p \notin viewers'
    PROVE  Types' /\ Slot' /\ Host' /\ Phases'
<1>1. /\ create[c].pc \in Launching /\ token = c /\ p = made /\ p \in Proc
      /\ Phase(create[c]) /\ create[c].todo \subseteq Companions
    BY Owns DEF Launching
<1>2. \A q \in alive : bound[q] # {}
    BY <1>1 DEF Phase
<1>3. closing[p] = "no" /\ p \notin watched
    BY <1>1 DEF Phase
<1>4. \A q \in Proc : (closing[q] = "no" /\ q <= made) \/ q \in viewers' \/ line'[q] # None
                          \/ q \in watched => q = p
    BY <1>1 DEF Phase
<1>5. UNCHANGED <<closing, unlinks>>
    BY DEF Proceed
<1>6. viewers' \subseteq 1..made
    BY <1>1, Numbers DEF Inv, Types, Proc
<1>7. ASSUME NEW pc \in {"arming", "attaching"},
             create' = [create EXCEPT ![c].pc = pc, ![c].todo = todo],
             UNCHANGED <<fields, watched>>, todo # {},
             pc = "arming" => "vnc" \in todo, pc = "attaching" => "serial" \in todo
      PROVE  Types' /\ Slot' /\ Host' /\ Phases'
    <2> DEFINE r == [pc |-> pc, proc |-> p, todo |-> todo]
    <2>1. create' = [create EXCEPT ![c] = r]
        <3>1. create[c] = [pc |-> create[c].pc, proc |-> p, todo |-> create[c].todo]
            BY DEF Inv, Types
        <3>2. create \in [Create -> [pc : {"idle", "cont"} \cup Checking \cup Launching,
                                     proc : 0..made, todo : SUBSET Companions]]
            BY DEF Inv, Types
        <3>3. create'[c] = r
            BY <1>7, <3>1, <3>2
        <3> QED BY <1>7, <3>2, <3>3
    <2>2. Types'
        <3>1. r \in [pc : Launching, proc : 1..made, todo : SUBSET Companions]
            BY <1>1, <1>7, Numbers DEF Launching, Proc, Inv, Types
        <3>2. \A e \in Create : create'[e] = IF e = c THEN r ELSE create[e]
            BY <2>1 DEF Inv, Types
        <3>3. create' \in [Create -> [pc : {"idle", "cont"} \cup Checking \cup Launching,
                                      proc : 0..made, todo : SUBSET Companions]]
            BY <2>1, <3>1, <3>2 DEF Inv, Types
        <3>4. \A e \in Create :
                  create'[e].proc = None <=> create'[e].pc \in {"idle"} \cup Checking
            BY <3>1, <3>2 DEF Inv, Types, Checking, Launching, None
        <3> QED BY <1>5, <1>6, <1>7, <3>3, <3>4 DEF Inv, Types, fields, host, Busy
    <2>3. Host'
        BY <1>5, <1>7 DEF Inv, Host, host
    <2>4. Phase(r)'
        BY <1>1, <1>2, <1>3, <1>4, <1>5, <1>7 DEF Phase, host, Launching
    <2>5. Slot' /\ Phases'
        BY <1>1, <1>7, <2>1, <2>4, CreateMoves DEF Launching
    <2> QED BY <2>2, <2>3, <2>5
<1>8. ASSUME Publish(c)
      PROVE  Types' /\ Slot' /\ Host' /\ Phases'
    <2>1. Types'
        <3>0. p # None /\ p \in 1..made /\ 0..made \subseteq Nat
            BY <1>1, Numbers DEF Proc, None
        <3>1. create'[c] \in [pc : {"idle", "cont"}, proc : 0..made, todo : SUBSET Companions]
              /\ (create'[c].proc = None <=> create'[c].pc = "idle")
            <4>1. create[c] \in [pc : {"idle", "cont"} \cup Checking \cup Launching,
                                 proc : 0..made, todo : SUBSET Companions]
                BY DEF Inv, Types
            <4>2. create'[c] = [pc |-> IF AutoStart THEN "cont" ELSE "idle",
                                proc |-> IF AutoStart THEN p ELSE None, todo |-> {}]
                BY <1>8, <4>1 DEF Publish, Inv, Types
            <4> QED BY <3>0, <4>2, Numbers, AutoStartAssumption DEF None
        <3>2. \A e \in Create \ {c} : create'[e] = create[e]
            BY <1>8 DEF Publish, Inv, Types
        <3>3. create' \in [Create -> [pc : {"idle", "cont"} \cup Checking \cup Launching,
                                      proc : 0..made, todo : SUBSET Companions]]
            BY <1>8, <3>1, <3>2 DEF Publish, Inv, Types
        <3>4. handle' \in 0..made /\ watched' \subseteq 1..made
            BY <1>8, <3>0 DEF Publish, Inv, Types
        <3>5. \A e \in Create :
                  create'[e].proc = None <=> create'[e].pc \in {"idle"} \cup Checking
            BY <3>1, <3>2 DEF Inv, Types, Checking
        <3> QED BY <1>5, <1>6, <1>8, <3>3, <3>4, <3>5 DEF Publish, Inv, Types, host, Busy
    <2>2. Host'
        BY <1>3, <1>5, <1>8 DEF Publish, Inv, Host, host
    <2>3. Phase(Instance(p))'
        BY <1>1, <1>2, <1>3, <1>4, <1>5, <1>8 DEF Publish, Phase, Instance, Launching, host
    <2>4. Slot' /\ Phases'
        BY <1>1, <1>8, <2>3, CreatePublishes
    <2> QED BY <2>1, <2>2, <2>4
<1> QED BY <1>7, <1>8 DEF Proceed

\* What listens at a path that a create dials is its own QEMU, which has bound it.
LEMMA DialsItsOwn ==
    ASSUME Inv, NEW c \in Create, NEW x \in Path, path[x] \in alive,
           path[x] \in {None, create[c].proc}
    PROVE  path[x] = create[c].proc /\ bound[create[c].proc] # {}
BY Numbers DEF Inv, Host

LEMMA LaunchedInv ==
    ASSUME Inv, NEW c \in Create, Launched(c)
    PROVE  Inv'
<1> DEFINE p == create[c].proc
<1>1. /\ create[c].pc = "dialing" /\ create[c].pc \in Launching
      /\ path["qmp"] \in alive
      /\ peer' = [peer EXCEPT ![p] = path["qmp"]]
      /\ UNCHANGED <<line, destroy, command, host>>
    BY DEF Launched, Launching
<1>2. token = c /\ p \in Proc /\ Phase(create[c])
    BY <1>1, Owns
<1>3. Proceed(c, create[c].todo) /\ UNCHANGED viewers
    BY <1>2 DEF Launched, ownsSlot
<1>4. path["qmp"] = p /\ bound[p] # {}
    BY <1>1, <1>2, DialsItsOwn DEF Phase, Path
<1>5. line[p] = None /\ p \notin viewers
    BY <1>1, <1>2 DEF Phase, Launching
<1>6. peer' \in [Proc -> Proc \cup {None}]
    BY <1>1, <1>2, <1>4 DEF Inv, Types
<1>7. Types' /\ Slot' /\ Host' /\ Phases'
    BY <1>1, <1>3, <1>4, <1>5, <1>6, ProceedInv DEF Inv, Types
<1>8. OwnSession'
    BY <1>1, <1>4 DEF Inv, Types, OwnSession
<1> QED BY <1>7, <1>8 DEF Inv

LEMMA ArmedInv ==
    ASSUME Inv, NEW c \in Create, Armed(c)
    PROVE  Inv'
<1> DEFINE p == create[c].proc
<1>1. /\ create[c].pc = "arming" /\ create[c].pc \in Launching
      /\ UNCHANGED <<peer, line, destroy, command, host>>
    BY DEF Armed, Launching
<1>2. token = c /\ p \in Proc /\ Phase(create[c]) /\ p = made
    BY <1>1, Owns
<1>3. Proceed(c, create[c].todo \ {"vnc"}) /\ viewers' = viewers \cup {p}
    BY <1>2 DEF Armed, ownsSlot
<1>4. line[p] = None
    BY <1>1, <1>2 DEF Phase
<1>5. p \in alive => bound[p] # {}
    BY <1>1, <1>2 DEF Phase
<1>6. Types' /\ Slot' /\ Host' /\ Phases'
    BY <1>1, <1>3, <1>4, <1>5, ProceedInv DEF Inv, Types
<1> QED BY <1>1, <1>6 DEF Inv, OwnSession

LEMMA AttachedInv ==
    ASSUME Inv, NEW c \in Create, Attached(c)
    PROVE  Inv'
<1> DEFINE p == create[c].proc
<1>1. /\ create[c].pc = "attaching" /\ create[c].pc \in Launching
      /\ path["serial"] \in alive
      /\ UNCHANGED <<peer, destroy, command, host>>
    BY DEF Attached, Launching
<1>2. token = c /\ p \in Proc /\ Phase(create[c])
    BY <1>1, Owns
<1>3. /\ Proceed(c, {}) /\ UNCHANGED viewers
      /\ line' = [line EXCEPT ![p] = path["serial"]]
    BY <1>2 DEF Attached, ownsSlot
<1>4. path["serial"] = p /\ bound[p] # {}
    BY <1>1, <1>2, DialsItsOwn DEF Phase, Path
<1>5. line' \in [Proc -> Proc \cup {None}] /\ \A q \in Proc : q # p => line'[q] = line[q]
    BY <1>2, <1>3, <1>4 DEF Inv, Types
<1>6. Types' /\ Slot' /\ Host' /\ Phases'
    <2>1. peer' \in [Proc -> Proc \cup {None}]
        BY <1>1 DEF Inv, Types
    <2>2. {} \subseteq create[c].todo /\ viewers' \subseteq viewers \cup {p}
        BY <1>3
    <2> QED BY <1>1, <1>3, <1>4, <1>5, <2>1, <2>2, ProceedInv
<1>7. OwnSession'
    BY <1>1, <1>3, <1>4 DEF Inv, Types, OwnSession
<1> QED BY <1>6, <1>7 DEF Inv

-----------------------------------------------------------------------------
\* destroy_instance.

\* The QEMU of a destroy in progress.
LEMMA Destroys ==
    ASSUME Inv, NEW d \in Destroy, Busy(d)
    PROVE  /\ destroy[d].proc \in Proc /\ Phase(destroy[d])
           /\ token = None /\ handle = None /\ state = "STOPPED"
           /\ \A c \in Create : create[c].pc \notin Checking \cup Launching
<1>1. destroy[d].proc \in Proc
    BY Numbers DEF Inv, Types, None, Proc
<1> QED BY <1>1, NoneIsNobody DEF Inv, Slot, Phases

\* The types of the destroy calls.
LEMMA DestroyTypes ==
    ASSUME Inv, NEW d \in Destroy,
           NEW r \in [pc : {"recording", "viewer", "closing"}, proc : 1..made]
                     \cup [pc : {"idle", "over"}, proc : {None}],
           destroy' = [destroy EXCEPT ![d] = r], UNCHANGED made
    PROVE  /\ destroy' \in [Destroy -> [pc : {"idle", "over", "recording", "viewer", "closing"},
                                        proc : 0..made']]
           /\ \A e \in Destroy : destroy'[e].proc # None <=> Busy(e)'
<1>1. r \in [pc : {"idle", "over", "recording", "viewer", "closing"}, proc : 0..made]
      /\ (r.proc # None <=> r.pc \in {"recording", "viewer", "closing"})
    BY Numbers DEF None
<1>2. \A e \in Destroy : destroy'[e] = IF e = d THEN r ELSE destroy[e]
    BY DEF Inv, Types
<1>3. destroy' \in [Destroy -> [pc : {"idle", "over", "recording", "viewer", "closing"},
                                proc : 0..made']]
    BY <1>1 DEF Inv, Types
<1>4. \A e \in Destroy : destroy'[e].proc # None <=> Busy(e)'
    BY <1>1, <1>2 DEF Inv, Types, Busy
<1> QED BY <1>3, <1>4

LEMMA DestroyBeginInv ==
    ASSUME Inv, NEW d \in Destroy, DestroyBegin(d)
    PROVE  Inv'
<1> DEFINE r == [pc |-> "recording", proc |-> handle]
<1>1. /\ handle # None /\ state # "NONE"
      /\ destroy' = [destroy EXCEPT ![d] = r]
      /\ state' = "STOPPED" /\ token' = None /\ handle' = None
      /\ UNCHANGED <<create, command, host, links, closing, watched, unlinks>>
    BY DEF DestroyBegin
<1>3. handle \in 1..made /\ Phase(Instance(handle)) /\ token = None
      /\ \A e \in Destroy : ~ Busy(e)
    BY <1>1, Numbers DEF Inv, Types, Slot, Phases, None
<1>4. Types'
    <2>1. r \in [pc : {"recording", "viewer", "closing"}, proc : 1..made]
        BY <1>3
    <2>2. /\ destroy' \in [Destroy -> [pc : {"idle", "over", "recording", "viewer", "closing"},
                                       proc : 0..made']]
          /\ \A e \in Destroy : destroy'[e].proc # None <=> Busy(e)'
        BY <1>1, <2>1, DestroyTypes DEF host
    <2>3. handle' \in 0..made'
        BY <1>1, Numbers DEF host, None
    <2> QED BY <1>1, <2>2, <2>3 DEF Inv, Types, host, links
<1>5. \A e \in Destroy : Busy(e)' <=> e = d
    BY <1>1, <1>3 DEF Inv, Types, Busy
<1>6. Slot'
    <2>1. \A c \in Create : create'[c].pc \notin Checking \cup Launching
        BY <1>1, <1>3, NoneIsNobody DEF Inv, Slot
    <2> QED BY <1>1, <1>5, <2>1, NoneIsNobody DEF Slot
<1>7. Host'
    BY <1>1 DEF Inv, Host, host
<1>8. ASSUME NEW s, s = r PROVE Phase(s)'
    BY <1>1, <1>3, <1>8 DEF Phase, Instance, Launching, host, links
<1>9. Phases'
    <2>1. destroy'[d] = r
        BY <1>1 DEF Inv, Types
    <2> QED BY <1>1, <1>5, <1>8, <2>1, NoneIsNobody DEF Phases, Free
<1> QED BY <1>1, <1>4, <1>6, <1>7, <1>9 DEF Inv, links, OwnSession

LEMMA ShutdownBeginInv ==
    ASSUME Inv, NEW d \in Shutdown, ShutdownBegin(d)
    PROVE  Inv'
<1>1. d \in Destroy
    BY ShutdownAssumption
<1>2. CASE DestroyBegin(d)
    BY <1>1, <1>2, DestroyBeginInv
<1>3. CASE ~ DestroyBegin(d)
    <2>1. /\ destroy[d].pc = "idle" /\ destroy' = [destroy EXCEPT ![d] = Over]
          /\ UNCHANGED <<fields, create, command, host, links, closing, watched, unlinks>>
        BY <1>3 DEF ShutdownBegin
    <2>2. Over \in [pc : {"idle", "over"}, proc : {None}]
        BY DEF Over
    <2>3. Types'
        BY <1>1, <2>1, <2>2, DestroyTypes DEF Inv, Types, fields, host, links
    <2>4. \A e \in Destroy : Busy(e)' <=> Busy(e)
        BY <2>1 DEF Inv, Types, Busy, Over
    <2>5. \A e \in Destroy : Busy(e) => destroy'[e] = destroy[e]
        BY <2>1 DEF Inv, Types, Busy
    <2>6. Slot'
        BY <2>1, <2>4 DEF Inv, Slot, fields
    <2>7. \A r : Phase(r) => Phase(r)'
        BY <2>1 DEF Phase, host, links
    <2>8. Phases'
        BY <2>1, <2>4, <2>5, <2>7 DEF Inv, Phases, fields, Free
    <2>9. Host'
        BY <2>1 DEF Inv, Host, host
    <2> QED BY <2>1, <2>3, <2>6, <2>8, <2>9 DEF Inv, links, OwnSession
<1> QED BY <1>2, <1>3

LEMMA DestroyBridgeInv ==
    ASSUME Inv, NEW d \in Destroy, DestroyBridge(d)
    PROVE  Inv'
<1> DEFINE p == destroy[d].proc
           r == [pc |-> "viewer", proc |-> p]
<1>1. /\ destroy[d].pc = "recording" /\ Busy(d)
      /\ line' = [line EXCEPT ![p] = None]
      /\ \A x \in Path : path'[x] \in {None, path[x]}
      /\ path' \in [Path -> Proc \cup {None, Foreign}]
      /\ UNCHANGED <<fields, create, command, made, alive, bound, peer, viewers,
                     closing, watched, unlinks>>
    BY DEF DestroyBridge, Busy, Inv, Types
<1>2. destroy' = [destroy EXCEPT ![d] = r]
    <2>1. destroy[d] = [pc |-> destroy[d].pc, proc |-> p]
        BY DEF Inv, Types
    <2>2. [destroy[d] EXCEPT !.pc = r.pc] = r
        BY <2>1
    <2> QED BY <2>2 DEF DestroyBridge
<1>3. p \in Proc /\ p \in 1..made /\ Phase(destroy[d])
    BY <1>1, Destroys, Numbers DEF Inv, Types, Proc, None
<1>4. Types'
    BY <1>1, <1>2, <1>3, DestroyTypes DEF Inv, Types, fields
<1>5. Host'
    BY <1>1, Numbers DEF Inv, Types, Host
<1>6. ASSUME NEW s, s = r PROVE Phase(s)'
    BY <1>1, <1>3, <1>6 DEF Inv, Types, Phase, Launching, Path
<1>7. Slot' /\ Phases'
    BY <1>1, <1>2, <1>6, DestroyMoves
<1>8. OwnSession'
    BY <1>1, <1>3 DEF Inv, Types, OwnSession
<1> QED BY <1>4, <1>5, <1>7, <1>8 DEF Inv

LEMMA DestroyViewerInv ==
    ASSUME Inv, NEW d \in Destroy, DestroyViewer(d)
    PROVE  Inv'
<1> DEFINE p == destroy[d].proc
           r == [pc |-> "closing", proc |-> p]
<1>1. /\ destroy[d].pc = "viewer" /\ Busy(d)
      /\ viewers' = viewers \ {p} /\ closing' = Closing(p)
      /\ UNCHANGED <<fields, create, command, host, peer, line, watched, unlinks>>
    BY DEF DestroyViewer, Busy
<1>2. destroy' = [destroy EXCEPT ![d] = r]
    <2>1. destroy[d] = [pc |-> destroy[d].pc, proc |-> p]
        BY DEF Inv, Types
    <2>2. [destroy[d] EXCEPT !.pc = r.pc] = r
        BY <2>1
    <2> QED BY <2>2 DEF DestroyViewer
<1>3. p \in Proc /\ p \in 1..made /\ Phase(destroy[d])
    BY <1>1, Destroys, Numbers DEF Inv, Types, Proc, None
<1>4. /\ closing' \in [Proc -> {"no", "session", "process", "file", "done"}]
      /\ closing'[p] = "session"
      /\ \A q \in Proc : q # p => closing'[q] = closing[q]
    <2>1. closing[p] = "no"
        BY <1>1, <1>3 DEF Phase
    <2> QED BY <1>1, <1>3, <2>1, ClosingStarts
<1>5. Types'
    BY <1>1, <1>2, <1>3, <1>4, DestroyTypes DEF Inv, Types, fields, host
<1>6. Host'
    BY <1>1, <1>3, <1>4, Numbers DEF Inv, Host, host
<1>7. ASSUME NEW s, s = r PROVE Phase(s)'
    BY <1>1, <1>3, <1>4, <1>7 DEF Phase, Launching, host
<1>8. Slot' /\ Phases'
    BY <1>1, <1>2, <1>7, DestroyMoves
<1> QED BY <1>1, <1>5, <1>6, <1>8 DEF Inv, OwnSession

-----------------------------------------------------------------------------
\* The end of close(), and the exit callback.

\* Whoever owned the slot has let go of it, and of all that was its own.
LEMMA SlotFreed ==
    ASSUME Free', state' = "NONE", Phase(Idle)',
           \A c \in Create : create'[c].pc \notin Checking \cup Launching
    PROVE  Slot' /\ Phases'
<1>1. Slot'
    BY NoneIsNobody DEF Slot, Free
<1>2. Phases'
    BY NoneIsNobody DEF Phases, Free
<1> QED BY <1>1, <1>2

LEMMA CloseFileInv ==
    ASSUME Inv, NEW p \in Proc, CloseFile(p)
    PROVE  Inv'
<1> DEFINE end   == { d \in Destroy : destroy[d] = [pc |-> "closing", proc |-> p] }
           throw == { c \in Create : create[c].proc = p /\ create[c].pc = "aborting" }
<1>1. /\ closing[p] = "file"
      /\ path' = [path EXCEPT !["qmp"] = None]
      /\ closing' = [closing EXCEPT ![p] = "done"]
      /\ UNCHANGED <<command, made, alive, bound, links, watched, unlinks>>
    BY DEF CloseFile
<1>0. /\ \A x \in Path : path'[x] \in {None, path[x]}
      /\ \A q \in Proc : closing'[q] = IF q = p THEN "done" ELSE closing[q]
    BY <1>1 DEF Inv, Types
<1>2. /\ create' = [c \in Create |-> IF c \in throw THEN NotCreating ELSE create[c]]
      /\ destroy' = [d \in Destroy |-> IF d \in end THEN Returned(d) ELSE destroy[d]]
      /\ state' = IF end # {} \/ token \in throw THEN "NONE" ELSE state
      /\ handle' = IF token \in throw THEN None ELSE handle
      /\ token' = IF token \in throw THEN None ELSE token
    BY DEF CloseFile, closed
<1>3. \A d \in Destroy : Returned(d) \in [pc : {"idle", "over"}, proc : {None}]
    BY DEF Returned, Idle, Over
<1>4. Types'
    <2>1. create' \in [Create -> [pc : {"idle", "cont"} \cup Checking \cup Launching,
                                  proc : 0..made, todo : SUBSET Companions]]
        BY <1>2, Numbers DEF Inv, Types, NotCreating, None
    <2>2. \A c \in Create :
              create'[c].proc = None <=> create'[c].pc \in {"idle"} \cup Checking
        BY <1>2 DEF Inv, Types, NotCreating
    <2>3. destroy' \in [Destroy -> [pc : {"idle", "over", "recording", "viewer", "closing"},
                                    proc : 0..made]]
        BY <1>2, <1>3, Numbers DEF Inv, Types, None
    <2>4. \A d \in Destroy : destroy'[d].proc # None <=> Busy(d)'
        BY <1>2, <1>3 DEF Inv, Types, Busy
    <2>5. /\ state' \in {"NONE", "STARTING", "RUNNING", "PAUSED", "STOPPED"}
          /\ token' \in Create \cup {None} /\ handle' \in 0..made
        BY <1>2, Numbers DEF Inv, Types, None
    <2>6. /\ path' \in [Path -> Proc \cup {None, Foreign}]
          /\ closing' \in [Proc -> {"no", "session", "process", "file", "done"}]
        BY <1>1 DEF Inv, Types
    <2>7. \A k \in Command : command'[k].pc # "idle" => command'[k].to # "NONE"
        BY <1>1 DEF Inv, Types
    <2> QED BY <1>1, <2>1, <2>2, <2>3, <2>4, <2>5, <2>6, <2>7 DEF Inv, Types, links
<1>5. Host'
    BY <1>1, Numbers DEF Inv, Types, Host
<1>6. p \notin alive /\ p \notin watched
    BY <1>1 DEF Inv, Host
<1>7. ASSUME NEW r, Phase(r), ~ (r.proc = p /\ r.pc \in {"aborting", "closing"})
      PROVE  Phase(r)'
    BY <1>0, <1>1, <1>7 DEF Phase, links, Path
<1>8. ASSUME NEW r, Phase(r), r.proc = p, r.pc \in {"aborting", "closing"}
      PROVE  Phase(Idle)'
    BY <1>1, <1>6, <1>8 DEF Inv, Types, Phase, Idle, Launching, links, Path
<1>9. Slot' /\ Phases'
    <2>1. CASE end # {}
        <3>1. PICK d \in Destroy : destroy[d] = [pc |-> "closing", proc |-> p]
            BY <2>1
        <3>2. Busy(d) /\ destroy[d].pc = "closing" /\ destroy[d].proc = p
            BY <3>1 DEF Busy
        <3>3. /\ Phase(destroy[d]) /\ token = None /\ handle = None
              /\ \A c \in Create : create[c].pc \notin Checking \cup Launching
              /\ \A e \in Destroy : Busy(e) => e = d
            BY <3>2, Destroys DEF Inv, Slot
        <3>4. \A e \in Destroy : ~ Busy(e)'
            BY <1>2, <1>3, <3>1, <3>3 DEF Busy
        <3>5. throw = {}
            BY <3>3 DEF Launching
        <3>6. Free' /\ state' = "NONE"
            BY <1>2, <2>1, <3>3, <3>4, <3>5 DEF Free
        <3>7. \A c \in Create : create'[c].pc \notin Checking \cup Launching
            BY <1>2, <3>3, <3>5
        <3> QED BY <1>8, <3>2, <3>3, <3>6, <3>7, SlotFreed
    <2>2. CASE throw # {}
        <3>1. PICK c \in Create : create[c].proc = p /\ create[c].pc = "aborting"
            BY <2>2
        <3>2. token = c /\ handle = None /\ Phase(create[c]) /\ c \in throw
            BY <3>1, Owns DEF Launching
        <3>3. \A e \in Create \ {c} : create[e].pc \notin Checking \cup Launching
            BY <3>2 DEF Inv, Slot
        <3>4. \A e \in Destroy : ~ Busy(e)
            BY <3>2, NoneIsNobody DEF Inv, Slot
        <3>5. \A e \in Destroy : ~ Busy(e)'
            BY <1>2, <1>3, <3>4 DEF Busy
        <3>6. Free' /\ state' = "NONE"
            BY <1>2, <3>2, <3>5 DEF Free
        <3>7. \A e \in Create : create'[e].pc \notin Checking \cup Launching
            BY <1>2, <3>2, <3>3 DEF NotCreating, Checking, Launching
        <3> QED BY <1>8, <3>1, <3>2, <3>6, <3>7, SlotFreed
    <2>3. CASE end = {} /\ throw = {}
        <3>1. create' = create /\ destroy' = destroy /\ UNCHANGED fields
            BY <1>2, <2>3 DEF Inv, Types, fields
        <3>2. Slot'
            BY <3>1 DEF Inv, Slot, fields, Busy
        <3>3. ASSUME NEW c \in Create, token = c PROVE Phase(create[c])'
            <4>1. create[c].pc \in Checking \cup Launching /\ Phase(create[c])
                BY <3>3 DEF Inv, Slot, Phases
            <4>2. ~ (create[c].proc = p /\ create[c].pc \in {"aborting", "closing"})
                BY <2>3, <4>1 DEF Checking, Launching
            <4>3. create'[c] = create[c]
                BY <3>1
            <4>4. ASSUME NEW s, s = create[c] PROVE Phase(s)'
                BY <1>7, <4>1, <4>2, <4>4
            <4> QED BY <4>3, <4>4
        <3>4. ASSUME NEW d \in Destroy, Busy(d) PROVE Phase(destroy[d])'
            <4>1. Phase(destroy[d])
                BY <3>4 DEF Inv, Phases
            <4>2. destroy[d] = [pc |-> destroy[d].pc, proc |-> destroy[d].proc]
                BY DEF Inv, Types
            <4>3. ~ (destroy[d].proc = p /\ destroy[d].pc \in {"aborting", "closing"})
                BY <2>3, <3>4, <4>2 DEF Busy
            <4>4. destroy'[d] = destroy[d]
                BY <3>1
            <4>5. ASSUME NEW s, s = destroy[d] PROVE Phase(s)'
                BY <1>7, <4>1, <4>3, <4>5
            <4> QED BY <4>4, <4>5
        <3>5. ASSUME handle # None PROVE Phase(Instance(handle))'
            <4>1. Phase(Instance(handle)) /\ Instance(handle).pc = "up"
                BY <3>5 DEF Inv, Phases, Instance
            <4>2. ASSUME NEW s, s = Instance(handle) PROVE Phase(s)'
                BY <1>7, <4>1, <4>2
            <4> QED BY <3>1, <4>2 DEF fields, Instance
        <3>6. ASSUME Free PROVE Phase(Idle)'
            <4>1. Phase(Idle) /\ Idle.pc = "idle"
                BY <3>6 DEF Inv, Phases, Idle
            <4>2. ASSUME NEW s, s = Idle PROVE Phase(s)'
                BY <1>7, <4>1, <4>2
            <4> QED BY <4>2 DEF Idle
        <3>7. Phases'
            <4>1. /\ token' = token /\ handle' = handle
                  /\ \A d \in Destroy : Busy(d)' <=> Busy(d)
                BY <3>1 DEF fields, Busy
            <4> QED BY <3>3, <3>4, <3>5, <3>6, <4>1 DEF Phases, Free
        <3> QED BY <3>2, <3>7
    <2> QED BY <2>1, <2>2, <2>3
<1> QED BY <1>1, <1>4, <1>5, <1>9 DEF Inv, links, OwnSession

LEMMA OnProcessExitInv ==
    ASSUME Inv, NEW p \in Proc, OnProcessExit(p)
    PROVE  Inv'
<1>1. /\ p \in watched /\ p \notin alive /\ watched' = watched \ {p}
      /\ UNCHANGED <<create, destroy, command, host>>
    BY DEF OnProcessExit
<1>2. ~ Free
    BY <1>1, Numbers DEF Inv, Phases, Phase, Idle
<1>3. token = None
    <2> SUFFICES ASSUME NEW c \in Create, token = c PROVE FALSE
        BY DEF Inv, Types
    <2>1. create[c].pc \in Checking \cup Launching
        BY DEF Inv, Slot
    <2>2. Phase(create[c])
        BY <2>1, Owns
    <2> QED BY <1>1, <2>1, <2>2, Owns, Numbers DEF Phase
<1>4. CASE state \in {"STOPPED", "NONE"}
    <2>1. UNCHANGED <<fields, links, closing, unlinks>>
        BY <1>4 DEF OnProcessExit
    <2>2. PICK d \in Destroy : Busy(d)
        BY <1>2, <1>4 DEF Inv, Slot, Free
    <2>3. Types'
        BY <1>1, <2>1 DEF Inv, Types, fields, host, links, Busy
    <2>4. Host'
        BY <1>1, <2>1 DEF Inv, Host, host
    <2>5. ASSUME NEW s, s = destroy[d] PROVE Phase(s)'
        BY <1>1, <2>1, <2>2, <2>5, Destroys DEF Phase, Busy, Launching, host, links
    <2>6. destroy' = [destroy EXCEPT ![d] = destroy[d]]
        BY <1>1 DEF Inv, Types
    <2>7. Slot' /\ Phases'
        BY <1>1, <2>1, <2>2, <2>5, <2>6, DestroyMoves DEF Busy
    <2> QED BY <2>1, <2>3, <2>4, <2>7 DEF Inv, links, OwnSession
<1>5. CASE state \notin {"STOPPED", "NONE"}
    <2>1. \A d \in Destroy : ~ Busy(d)
        BY <1>5 DEF Inv, Slot
    <2>2. handle # None /\ handle = p
        BY <1>1, <1>2, <1>3, <2>1 DEF Free, Inv, Phases, Phase, Instance
    <2>3. /\ state' = "NONE" /\ token' = None /\ handle' = None
          /\ closing' = Closing(p) /\ viewers' = viewers \ {p}
          /\ line' = [line EXCEPT ![p] = None]
          /\ unlinks' \subseteq unlinks \cup {p}
          /\ UNCHANGED peer
        BY <1>5, <2>2 DEF OnProcessExit
    <2>4. Types'
        BY <1>1, <2>2, <2>3, ClosingStarts, Numbers DEF Inv, Types, host, Busy, None
    <2>5. Host'
        BY <1>1, <2>2, <2>3, ClosingStarts, Numbers DEF Inv, Host, Types, host
    <2>6. Phase(Idle)'
        BY <1>1, <2>2, <2>3, ClosingStarts
        DEF Inv, Types, Phases, Phase, Instance, Idle, Launching, host
    <2>7. Free'
        BY <1>1, <2>1, <2>3 DEF Free, Busy
    <2>8. \A c \in Create : create'[c].pc \notin Checking \cup Launching
        BY <1>1, <1>3, NoneIsNobody DEF Inv, Slot
    <2>9. OwnSession'
        BY <2>3 DEF Inv, Types, OwnSession
    <2> QED BY <2>3, <2>4, <2>5, <2>6, <2>7, <2>8, <2>9, SlotFreed DEF Inv
<1> QED BY <1>4, <1>5


-----------------------------------------------------------------------------
\* The commands that set the state.

LEMMA CommandBeginInv ==
    ASSUME Inv, NEW k \in Command, NEW to \in {"RUNNING", "PAUSED"}, CommandBegin(k, to)
    PROVE  Inv'
<1> DEFINE r == [pc |-> "sent", proc |-> handle, to |-> to]
<1>1. /\ command' = [command EXCEPT ![k] = r]
      /\ UNCHANGED <<fields, create, destroy, host, links, closing, watched, unlinks>>
    BY DEF CommandBegin
<1>2. handle \in Proc
    BY Numbers DEF CommandBegin, Inv, Types, None
<1>3. Types'
    <2>1. command' \in [Command -> [pc : {"idle", "sent", "answered"},
                                    proc : Proc \cup {None},
                                    to : {"NONE", "RUNNING", "PAUSED"}]]
        BY <1>1, <1>2 DEF Inv, Types
    <2>2. \A j \in Command : command'[j].pc # "idle" => command'[j].to # "NONE"
        BY <1>1 DEF Inv, Types
    <2> QED BY <1>1, <2>1, <2>2 DEF Inv, Types, fields, host, links, Busy
<1>4. Host'
    BY <1>1 DEF Inv, Host, host
<1>5. \A s : Phase(s) => Phase(s)'
    BY <1>1 DEF Phase, host, links
<1>6. Slot' /\ Phases'
    BY <1>1, <1>5, HostMoves
<1> QED BY <1>1, <1>3, <1>4, <1>6 DEF Inv, links, OwnSession

\* What the other steps of a command do to its record.
LEMMA CommandTypes ==
    ASSUME Inv, NEW k \in Command,
           \/ command' = [command EXCEPT ![k].pc = "answered"] /\ command[k].pc = "sent"
           \/ command' = [command EXCEPT ![k].pc = "idle", ![k].proc = None]
    PROVE  /\ command' \in [Command -> [pc : {"idle", "sent", "answered"},
                                        proc : Proc \cup {None},
                                        to : {"NONE", "RUNNING", "PAUSED"}]]
           /\ \A j \in Command : command'[j].pc # "idle" => command'[j].to # "NONE"
<1>1. command[k] \in [pc : {"idle", "sent", "answered"}, proc : Proc \cup {None},
                      to : {"NONE", "RUNNING", "PAUSED"}]
    BY DEF Inv, Types
<1>2. CASE command' = [command EXCEPT ![k].pc = "answered"] /\ command[k].pc = "sent"
    BY <1>1, <1>2 DEF Inv, Types
<1>3. CASE command' = [command EXCEPT ![k].pc = "idle", ![k].proc = None]
    BY <1>1, <1>3 DEF Inv, Types
<1> QED BY <1>2, <1>3

LEMMA CommandAnsweredInv ==
    ASSUME Inv, NEW k \in Command, CommandAnswered(k) \/ CommandRejected(k)
    PROVE  Inv'
<1>1. UNCHANGED <<fields, create, destroy, host, links, closing, watched, unlinks>>
    BY DEF CommandAnswered, CommandRejected
<1>2. Types'
    BY <1>1, CommandTypes
    DEF CommandAnswered, CommandRejected, Inv, Types, fields, host, links, Busy
<1>3. Host'
    BY <1>1 DEF Inv, Host, host
<1>4. \A s : Phase(s) => Phase(s)'
    BY <1>1 DEF Phase, host, links
<1>5. Slot' /\ Phases'
    BY <1>1, <1>4, HostMoves
<1> QED BY <1>1, <1>2, <1>3, <1>5 DEF Inv, links, OwnSession

\* A reply sets the state and touches nothing that owns the slot: not even when it
\* comes late, unless a destroy is under way.
LEMMA CommandRepliedInv ==
    ASSUME Inv, NEW k \in Command, CommandReplied(k), NoLateReply
    PROVE  Inv'
<1>1. UNCHANGED <<token, handle, create, destroy, host, links, closing, watched, unlinks>>
    BY DEF CommandReplied
<1>2. state' \in {"RUNNING", "PAUSED"}
    BY DEF CommandReplied, Inv, Types
<1>3. \A d \in Destroy : ~ Busy(d)
    BY DEF NoLateReply
<1>4. Types'
    <2>1. /\ command' \in [Command -> [pc : {"idle", "sent", "answered"},
                                       proc : Proc \cup {None},
                                       to : {"NONE", "RUNNING", "PAUSED"}]]
          /\ \A j \in Command : command'[j].pc # "idle" => command'[j].to # "NONE"
        BY CommandTypes DEF CommandReplied
    <2> QED BY <1>1, <1>2, <2>1 DEF Inv, Types, host, links, Busy
<1>5. Slot'
    BY <1>1, <1>2, <1>3 DEF Inv, Slot, Busy
<1>6. Host'
    BY <1>1 DEF Inv, Host, host
<1>7. \A s : Phase(s) => Phase(s)'
    BY <1>1 DEF Phase, host, links
<1>8. Phases'
    BY <1>1, <1>7 DEF Inv, Phases, Busy, Free
<1> QED BY <1>1, <1>4, <1>5, <1>6, <1>8 DEF Inv, links, OwnSession

-----------------------------------------------------------------------------
\* The results.

LEMMA NextInv == Inv /\ [Next]_vars /\ [NoLateReply]_vars => Inv'
<1> SUFFICES ASSUME Inv, [Next]_vars, [NoLateReply]_vars PROVE Inv'
    OBVIOUS
<1>1. CASE UNCHANGED vars
    <2>1. /\ UNCHANGED <<fields, create, destroy, command, host, links, closing, watched>>
          /\ UNCHANGED unlinks
        BY <1>1 DEF vars, fields, host, links
    <2>2. Types'
        BY <2>1 DEF Inv, Types, fields, host, links, Busy
    <2>3. Host'
        BY <2>1 DEF Inv, Host, host
    <2>4. \A s : Phase(s) => Phase(s)'
        BY <2>1 DEF Phase, host, links
    <2>5. Slot' /\ Phases'
        BY <2>1, <2>4, HostMoves
    <2> QED BY <2>1, <2>2, <2>3, <2>5 DEF Inv, links, OwnSession
<1>2. ASSUME NEW c \in Create, CreateBegin(c) PROVE Inv'
    BY <1>2, CreateBeginInv
<1>3. ASSUME NEW c \in Create, CreateStep(c) PROVE Inv'
    BY <1>3, CheckPathInv, CreateRefusedInv, SpawnInv, LaunchedInv, LaunchFailsInv,
       ArmedInv, ArmFailsInv, AttachedInv, AttachFailsInv, AttachFailedInv, ContDoneInv
    DEF CreateStep
<1>4. ASSUME NEW d \in Destroy, DestroyBegin(d) PROVE Inv'
    BY <1>4, DestroyBeginInv
<1>5. ASSUME NEW d \in Shutdown, ShutdownBegin(d) PROVE Inv'
    BY <1>5, ShutdownBeginInv
<1>6. ASSUME NEW d \in Destroy, DestroyStep(d) PROVE Inv'
    BY <1>6, DestroyBridgeInv, DestroyViewerInv DEF DestroyStep
<1>7. ASSUME NEW p \in Proc,
             \/ QemuBinds(p) \/ SessionDrops(p) \/ OnProcessExit(p)
             \/ \E clean \in BOOLEAN : QemuExits(p, clean)
             \/ UnlinkSerial(p)
      PROVE  Inv'
    BY <1>7, QemuBindsInv, SessionDropsInv, OnProcessExitInv, QemuExitsInv, UnlinkSerialInv
<1>8. ASSUME NEW p \in Proc, CloseStep(p) PROVE Inv'
    BY <1>8, CloseSessionInv, CloseProcessInv, CloseFileInv DEF CloseStep
<1>9. ASSUME NEW k \in Command, NEW to \in {"RUNNING", "PAUSED"}, CommandBegin(k, to) PROVE Inv'
    BY <1>9, CommandBeginInv
<1>10. ASSUME NEW k \in Command, CommandAnswered(k) \/ CommandRejected(k) PROVE Inv'
    BY <1>10, CommandAnsweredInv
<1>11. ASSUME NEW k \in Command, CommandReplied(k) PROVE Inv'
    <2>1. command'[k].pc = "idle" /\ command[k].pc = "answered"
        BY <1>11 DEF CommandReplied, Inv, Types
    <2>2. NoLateReply
        BY <2>1 DEF vars
    <2> QED BY <1>11, <2>2, CommandRepliedInv
<1> QED BY <1>1, <1>2, <1>3, <1>4, <1>5, <1>6, <1>7, <1>8, <1>9, <1>10, <1>11 DEF Next, Step

LEMMA AlwaysInv == Spec /\ [][NoLateReply]_vars => []Inv
BY InitInv, NextInv, PTL DEF Spec

\* Overlapping creates, destroys, commands and exits never double a QEMU, orphan a
\* QEMU, a Viewer or a bridge, or connect one to another's socket, as long as no
\* reply to stop or cont sets the state while a destroy is under way.
THEOREM InstanceStaysOurs == Spec /\ [][NoLateReply]_vars => []InstanceIsOurs
BY AlwaysInv, InvIsOurs, PTL

\* A reply to stop or cont is handled while there is an Instance.
ReplyFindsInstance == \A k \in Command : CommandReplied(k) => handle # None

\* It finds no destroy under way then.
LEMMA FoundIsNotLate == Inv /\ ReplyFindsInstance => NoLateReply
BY DEF ReplyFindsInstance, NoLateReply, Inv, Slot

\* What changes the state changes the token and the handle with it.
LEMMA NextAgrees ==
    ASSUME Inv, Agree, [Next]_vars, [ReplyFindsInstance]_vars
    PROVE  Agree'
<1>1. CASE UNCHANGED fields
    BY <1>1 DEF Agree, fields
<1>2. ASSUME NEW c \in Create, Throws(c) PROVE Agree'
    BY <1>2 DEF Throws, release, Agree
<1>3. ASSUME NEW c \in Create, NEW todo, create[c].pc \in Launching, Proceed(c, todo)
      PROVE  Agree'
    <2>1. create[c].proc # None
        BY <1>3 DEF Inv, Types, Launching, Checking
    <2>2. CASE Publish(c)
        BY <2>1, <2>2 DEF Publish, Agree
    <2> QED BY <1>1, <1>3, <2>2 DEF Proceed
<1>4. ASSUME NEW c \in Create, CreateBegin(c) PROVE Agree'
    BY <1>4 DEF CreateBegin, Agree
<1>5. ASSUME NEW c \in Create, CreateStep(c) PROVE Agree'
    <2>1. CASE CheckPath(c) \/ CreateRefused(c) \/ ArmFails(c) \/ AttachFailed(c) \/ ContDone(c)
        BY <1>1, <1>2, <2>1
        DEF CheckPath, CreateRefused, ArmFails, AttachFailed, ContDone
    <2>2. CASE Spawn(c) \/ LaunchFails(c) \/ AttachFails(c)
        BY <1>1, <2>2 DEF Spawn, LaunchFails, AttachFails
    <2>3. CASE Launched(c) \/ Armed(c) \/ Attached(c)
        <3>1. create[c].pc \in Launching
            BY <2>3 DEF Launched, Armed, Attached, Launching
        <3>2. Throws(c) \/ \E todo : Proceed(c, todo)
            BY <2>3 DEF Launched, Armed, Attached, Superseded
        <3> QED BY <1>2, <1>3, <3>1, <3>2
    <2> QED BY <1>5, <2>1, <2>2, <2>3 DEF CreateStep
<1>6. ASSUME NEW d \in Destroy, DestroyBegin(d) PROVE Agree'
    BY <1>6 DEF DestroyBegin, Agree
<1>7. ASSUME NEW d \in Shutdown, ShutdownBegin(d) PROVE Agree'
    BY <1>1, <1>6, <1>7, ShutdownAssumption DEF ShutdownBegin
<1>8. ASSUME NEW d \in Destroy, DestroyStep(d) PROVE Agree'
    BY <1>1, <1>8 DEF DestroyStep, DestroyBridge, DestroyViewer
<1>9. ASSUME NEW p \in Proc, CloseFile(p) PROVE Agree'
    <2> DEFINE ended  == { d \in Destroy : destroy[d] = [pc |-> "closing", proc |-> p] }
               thrown == { c \in Create : create[c].proc = p /\ create[c].pc = "aborting" }
    <2>1. /\ state' = IF ended # {} \/ token \in thrown THEN "NONE" ELSE state
          /\ handle' = IF token \in thrown THEN None ELSE handle
          /\ token' = IF token \in thrown THEN None ELSE token
        BY <1>9 DEF CloseFile, closed
    <2>2. ended # {} => token = None
        BY DEF Inv, Slot, Busy
    <2> QED BY <2>1, <2>2 DEF Agree
<1>10. ASSUME NEW p \in Proc, OnProcessExit(p) PROVE Agree'
    BY <1>1, <1>10 DEF OnProcessExit, Agree
<1>11. ASSUME NEW p \in Proc,
              \/ QemuBinds(p) \/ SessionDrops(p) \/ UnlinkSerial(p)
              \/ \E clean \in BOOLEAN : QemuExits(p, clean)
              \/ CloseSession(p) \/ CloseProcess(p)
       PROVE  Agree'
    BY <1>1, <1>11 DEF QemuBinds, SessionDrops, UnlinkSerial, QemuExits, CloseSession,
                       CloseProcess
<1>12. ASSUME NEW k \in Command,
              \/ \E to \in {"RUNNING", "PAUSED"} : CommandBegin(k, to)
              \/ CommandAnswered(k) \/ CommandRejected(k)
       PROVE  Agree'
    BY <1>1, <1>12 DEF CommandBegin, CommandAnswered, CommandRejected
<1>13. ASSUME NEW k \in Command, CommandReplied(k) PROVE Agree'
    <2>1. CASE ~ UNCHANGED vars
        <3>1. handle # None /\ token = None
            BY <1>13, <2>1 DEF ReplyFindsInstance, Inv, Slot
        <3> QED BY <1>13, <3>1 DEF CommandReplied, Agree
    <2>2. CASE UNCHANGED vars
        BY <1>1, <2>2 DEF vars, fields
    <2> QED BY <2>1, <2>2
<1>14. CASE UNCHANGED vars
    BY <1>1, <1>14 DEF vars, fields
<1> QED BY <1>4, <1>5, <1>6, <1>7, <1>8, <1>9, <1>10, <1>11, <1>12, <1>13, <1>14
        DEF Next, Step, CloseStep

\* No other step is like a reply that finds none.
LEMMA RepliesAreTimely ==
    ASSUME Inv, Agree, [TimelyNext]_vars
    PROVE  [Next]_vars /\ [ReplyFindsInstance]_vars
<1>1. [Next]_vars
    BY DEF TimelyNext, Next
<1>2. ASSUME ~ UNCHANGED vars, NEW k \in Command, CommandReplied(k), handle = None PROVE FALSE
    <2>1. Step
        BY <1>2 DEF TimelyNext
    <2>2. command' # command /\ state' \in {"RUNNING", "PAUSED"}
        BY <1>2 DEF CommandReplied, Inv, Types
    <2>3. state \notin {"RUNNING", "PAUSED"}
        BY <1>2 DEF Agree
    <2>4. \A c \in Create : CreateBegin(c) \/ CreateStep(c) => command' = command
        BY DEF CreateBegin, CreateStep, CheckPath, CreateRefused, Spawn, Launched, LaunchFails,
               Armed, ArmFails, Attached, AttachFails, AttachFailed, ContDone
    <2>5. \A d \in Destroy :
              DestroyBegin(d) \/ ShutdownBegin(d) \/ DestroyStep(d) => command' = command
        BY DEF DestroyBegin, ShutdownBegin, DestroyStep, DestroyBridge, DestroyViewer
    <2>6. \A p \in Proc :
              \/ QemuBinds(p) \/ SessionDrops(p) \/ OnProcessExit(p)
              \/ \E clean \in BOOLEAN : QemuExits(p, clean)
              \/ CloseStep(p) \/ UnlinkSerial(p)
              => command' = command
        BY DEF QemuBinds, SessionDrops, OnProcessExit, QemuExits, CloseStep, CloseSession,
               CloseProcess, CloseFile, closed, UnlinkSerial
    <2>7. \A j \in Command :
              /\ ~ \E to \in {"RUNNING", "PAUSED"} : CommandBegin(j, to)
              /\ CommandAnswered(j) \/ CommandRejected(j) => state' = state
        BY <1>2 DEF CommandBegin, CommandAnswered, CommandRejected, fields
    <2> QED BY <2>1, <2>2, <2>3, <2>4, <2>5, <2>6, <2>7, ShutdownAssumption DEF Step
<1> QED BY <1>1, <1>2 DEF ReplyFindsInstance

\* As long as every reply finds an Instance, both are kept.
LEMMA AlwaysAgrees == TimelySpec => [](Inv /\ Agree)
<1>1. Init => Agree
    BY DEF Init, Agree
<1>2. Inv /\ [ReplyFindsInstance]_vars => [NoLateReply]_vars
    BY FoundIsNotLate
<1>3. Inv /\ Agree /\ [TimelyNext]_vars => (Inv /\ Agree)'
    BY <1>2, RepliesAreTimely, NextInv, NextAgrees
<1> QED BY <1>1, <1>3, InitInv, PTL DEF TimelySpec

\* Whatever creates, destroys, exits, stops and conts overlap, the state, the token, the
\* handle and the destroy in progress always say the same, as long as a reply to stop or
\* cont is handled while there is an Instance.  (Without that condition it does not hold
\* of the code: a reply that comes later leaves RUNNING or PAUSED with no Instance.)
THEOREM FieldsStaySound == TimelySpec => []FieldsHold
<1>1. Inv /\ Agree => FieldsHold
    BY InvIsFields
<1> QED BY <1>1, AlwaysAgrees, PTL

-----------------------------------------------------------------------------
\* The lifecycle that the README draws.

\* One promised step, or none that shows.
Promised == Abstract!Next \/ UNCHANGED <<state, handle, made>>

\* The state says who owns the slot.
LEMMA StateShows ==
    ASSUME Inv, Agree
    PROVE  /\ state \in Abstract!Up <=> handle # None
           /\ state = "STARTING" <=> token # None
           /\ state = "STOPPED" <=> \E d \in Destroy : Busy(d)
BY InvIsFields DEF FieldsHold, FieldsAgree, Abstract!Up

\* A create call that gives up frees the slot it owns, or touches nothing.
LEMMA ThrowIsPromised ==
    ASSUME Inv, Agree, NEW c \in Create, Throws(c), made' = made
    PROVE  Promised
<1>1. CASE token = c
    <2>1. state = "STARTING" /\ handle = None
        BY <1>1, StateShows, NoneIsNobody DEF Inv, Slot
    <2>2. state' = "NONE" /\ handle' = None
        BY <1>1 DEF Throws, release
    <2> QED BY <2>1, <2>2 DEF Promised, Abstract!Next, Abstract!Fail
<1>2. CASE token # c
    BY <1>2 DEF Throws, release, Promised
<1> QED BY <1>1, <1>2

\* What a create call publishes is the QEMU it launched, the newest.
LEMMA ProceedIsPromised ==
    ASSUME Inv, Agree, NEW c \in Create, create[c].pc \in Launching,
           NEW todo, Proceed(c, todo), made' = made
    PROVE  Promised
<1>1. CASE Publish(c)
    <2>1. state = "STARTING" /\ create[c].proc = made
        BY Owns, StateShows
    <2>2. state' \in Abstract!Up /\ handle' = made
        BY <1>1, <2>1 DEF Publish, Abstract!Up
    <2> QED BY <2>1, <2>2 DEF Promised, Abstract!Next, Abstract!Publish
<1>2. CASE UNCHANGED fields
    BY <1>2 DEF Promised, fields
<1> QED BY <1>1, <1>2 DEF Proceed

LEMMA CreateIsPromised ==
    ASSUME Inv, Agree, NEW c \in Create, CreateBegin(c) \/ CreateStep(c)
    PROVE  Promised
<1>1. CASE CreateBegin(c)
    BY <1>1 DEF CreateBegin, host, Promised, Abstract!Next, Abstract!Start
<1>2. CASE Spawn(c)
    <2>1. state = "STARTING"
        BY <1>2, Owns, StateShows DEF Spawn, Checking
    <2> QED BY <1>2, <2>1 DEF Spawn, fields, Promised, Abstract!Next, Abstract!Launch
<1>3. CASE \/ CreateRefused(c) \/ ArmFails(c) \/ AttachFailed(c) \/ ContDone(c)
           \/ CheckPath(c) /\ Throws(c)
    BY <1>3, ThrowIsPromised
    DEF CreateRefused, ArmFails, AttachFailed, ContDone, CheckPath, host
<1>4. CASE LaunchFails(c) \/ AttachFails(c) \/ (CheckPath(c) /\ UNCHANGED fields)
    BY <1>4 DEF LaunchFails, AttachFails, CheckPath, fields, host, Promised
<1>5. CASE Launched(c) \/ Armed(c) \/ Attached(c)
    <2>1. create[c].pc \in Launching /\ made' = made
        BY <1>5 DEF Launched, Armed, Attached, Launching, host
    <2>2. ownsSlot(c)
        BY <2>1, Owns DEF ownsSlot
    <2>3. \E todo : Proceed(c, todo)
        BY <1>5, <2>2 DEF Launched, Armed, Attached
    <2> QED BY <2>1, <2>3, ProceedIsPromised
<1>6. CheckPath(c) => Throws(c) \/ UNCHANGED fields
    BY DEF CheckPath
<1> QED BY <1>1, <1>2, <1>3, <1>4, <1>5, <1>6 DEF CreateStep

LEMMA DestroyIsPromised ==
    ASSUME Inv, Agree, NEW d \in Destroy,
           DestroyBegin(d) \/ ShutdownBegin(d) \/ DestroyStep(d)
    PROVE  Promised
<1>1. CASE DestroyBegin(d)
    <2>1. state \in Abstract!Up
        BY <1>1, StateShows DEF DestroyBegin
    <2> QED BY <1>1, <2>1 DEF DestroyBegin, host, None, Promised, Abstract!Next, Abstract!Stop
<1>2. CASE ~ DestroyBegin(d)
    BY <1>2 DEF ShutdownBegin, DestroyStep, DestroyBridge, DestroyViewer, fields, host, Promised
<1> QED BY <1>1, <1>2

LEMMA CloseFileIsPromised ==
    ASSUME Inv, Agree, NEW p \in Proc, CloseFile(p)
    PROVE  Promised
<1> DEFINE end   == { d \in Destroy : destroy[d] = [pc |-> "closing", proc |-> p] }
           throw == { c \in Create : create[c].proc = p /\ create[c].pc = "aborting" }
<1>1. /\ state' = IF end # {} \/ token \in throw THEN "NONE" ELSE state
      /\ handle' = IF token \in throw THEN None ELSE handle
      /\ made' = made
    BY DEF CloseFile, closed
<1>2. CASE token \in throw
    <2>1. state = "STARTING" /\ handle = None
        BY <1>2, StateShows, NoneIsNobody DEF Inv, Slot
    <2> QED BY <1>1, <1>2, <2>1 DEF Promised, Abstract!Next, Abstract!Fail
<1>3. CASE token \notin throw /\ end # {}
    <2>1. \E d \in Destroy : Busy(d)
        BY <1>3 DEF Busy
    <2>2. state = "STOPPED"
        BY <2>1, StateShows
    <2> QED BY <1>1, <1>3, <2>2 DEF Promised, Abstract!Next, Abstract!Stopped
<1>4. CASE token \notin throw /\ end = {}
    BY <1>1, <1>4 DEF Promised
<1> QED BY <1>2, <1>3, <1>4

LEMMA ExitIsPromised ==
    ASSUME Inv, Agree, NEW p \in Proc, OnProcessExit(p)
    PROVE  Promised
<1>1. made' = made
    BY DEF OnProcessExit, host
<1>2. CASE UNCHANGED fields
    BY <1>1, <1>2 DEF fields, Promised
<1>3. CASE ~ UNCHANGED fields
    <2>1. state \notin {"STOPPED", "NONE"} /\ state' = "NONE" /\ handle' = None
        BY <1>3 DEF OnProcessExit
    <2>2. CASE handle # None
        <3>1. state \in Abstract!Up
            BY <2>2, StateShows
        <3> QED BY <1>1, <2>1, <3>1 DEF None, Promised, Abstract!Next, Abstract!Gone
    <2>3. CASE handle = None
        <3>1. state = "STARTING"
            BY <2>1, <2>3, StateShows DEF Inv, Types, Abstract!Up
        <3> QED BY <1>1, <2>1, <2>3, <3>1 DEF Promised, Abstract!Next, Abstract!Fail
    <2> QED BY <2>2, <2>3
<1> QED BY <1>2, <1>3

LEMMA NextIsPromised ==
    ASSUME Inv, Agree, [Next]_vars, [ReplyFindsInstance]_vars
    PROVE  Promised
<1>1. CASE UNCHANGED vars
    BY <1>1 DEF vars, Promised
<1>2. ASSUME NEW p \in Proc,
             \/ QemuBinds(p) \/ SessionDrops(p) \/ UnlinkSerial(p)
             \/ \E clean \in BOOLEAN : QemuExits(p, clean)
             \/ CloseSession(p) \/ CloseProcess(p)
      PROVE  Promised
    BY <1>2 DEF QemuBinds, SessionDrops, UnlinkSerial, QemuExits, CloseSession, CloseProcess,
                fields, host, Promised
<1>3. ASSUME NEW p \in Proc, CloseFile(p) \/ OnProcessExit(p) PROVE Promised
    BY <1>3, CloseFileIsPromised, ExitIsPromised
<1>4. ASSUME NEW c \in Create, CreateBegin(c) \/ CreateStep(c) PROVE Promised
    BY <1>4, CreateIsPromised
<1>5. ASSUME NEW d \in Destroy, DestroyBegin(d) \/ ShutdownBegin(d) \/ DestroyStep(d)
      PROVE  Promised
    BY <1>5, DestroyIsPromised
<1>6. ASSUME NEW d \in Shutdown, ShutdownBegin(d) PROVE Promised
    BY <1>5, <1>6, ShutdownAssumption
<1>7. ASSUME NEW k \in Command,
             \/ \E to \in {"RUNNING", "PAUSED"} : CommandBegin(k, to)
             \/ CommandAnswered(k) \/ CommandRejected(k)
      PROVE  Promised
    BY <1>7 DEF CommandBegin, CommandAnswered, CommandRejected, fields, host, Promised
<1>8. ASSUME NEW k \in Command, CommandReplied(k), ~ UNCHANGED vars PROVE Promised
    <2>1. state \in Abstract!Up
        BY <1>8, StateShows DEF ReplyFindsInstance
    <2>2. state' \in Abstract!Up /\ UNCHANGED <<handle, made>>
        BY <1>8 DEF CommandReplied, Inv, Types, host, Abstract!Up
    <2> QED BY <2>1, <2>2 DEF Promised, Abstract!Next, Abstract!PauseOrResume
<1> QED BY <1>1, <1>2, <1>3, <1>4, <1>5, <1>6, <1>7, <1>8
        DEF Next, Step, CloseStep

\* The reservation, the launch token and the order of the awaits implement the
\* lifecycle that the README draws, pause and resume included, as long as a reply to
\* stop or cont is handled while there is an Instance.
THEOREM TsLifecycleIsImplemented == TimelySpec => ImplementsLifecycle
<1>1. Init => Abstract!Init
    BY DEF Init, Abstract!Init, None
<1>2. Inv /\ Agree /\ [TimelyNext]_vars => [Abstract!Next]_<<state, handle, made>>
    BY RepliesAreTimely, NextIsPromised DEF Promised
<1> QED BY <1>1, <1>2, AlwaysAgrees, PTL DEF TimelySpec, ImplementsLifecycle, Abstract!Spec

=============================================================================
