------------------------------ MODULE Download ------------------------------
(***************************************************************************)
(* The ISO downloader: download.rs and download.ts.  download_iso looks    *)
(* for the file in the ISO Store, claims the one download slot and starts  *)
(* a background task; the task tries the mirrors of the catalog entry in   *)
(* order, streams each into <file>.part and renames the first that ends    *)
(* well.  Both implementations are here: "impl" says which one runs, and   *)
(* the actions that differ name it.                                        *)
(*                                                                         *)
(* A file is the sequence of the chunks written to it, each one tagged     *)
(* with the call and the mirror it came from; every image has Size chunks. *)
(* Removing a file may fail, since both programs ignore that error.        *)
(***************************************************************************)
EXTENDS Naturals, Sequences, Functions

CONSTANTS
  Call,             \* calls of download_iso; a call that claims the slot names its task
  Nobody,           \* the slot when it is free
  Entry,            \* the ids of the catalog
  File,             \* the file names of the catalog
  FileOf, Mirrors,  \* file name and number of mirrors of each entry
  Size,             \* chunks in an image
  Totals,           \* the Content-Lengths a mirror may send, Unknown for none
  Unknown,          \* an absent optional number
  Impl,             \* the implementations: a subset of {"rust", "ts"}
  MaxKills          \* bound: how many times the server process may die

ASSUME DownloadAssumption ==
  /\ Nobody \notin Call
  /\ FileOf \in [Entry -> File]
  /\ Mirrors \in [Entry -> Nat \ {0}]      \* parseCatalog refuses an entry without mirrors
  /\ Size \in Nat \ {0}
  /\ Unknown \notin Nat
  /\ Totals \subseteq Nat \union {Unknown}
  /\ Impl \subseteq {"rust", "ts"}
  /\ MaxKills \in Nat

VARIABLES
  impl,     \* which implementation runs
  phase,    \* phase[c]: where call c and then its task are
  wanted,   \* wanted[c]: the entry that call c asked for
  active,   \* the slot: the task that holds it, or Nobody
  last,     \* the task whose end get_download reports when the slot is free, or Nobody
  status,   \* status[c]: the DownloadStatus of task c
  part,     \* the .part files of the ISO Store: file name -> chunks
  store,    \* the finished files of the ISO Store: file name -> chunks
  cut,      \* history: the tasks whose file lost its end to a write that failed unseen
  kills     \* how many times the server process has died

vars == <<impl, phase, wanted, active, last, status, part, store, cut, kills>>

Chunk == Call \X (Nat \ {0})

Waiting == {"idle", "checked"}
Running == {"sweep", "next", "request", "stream", "rename", "renamed", "clean", "spoilt", "settled"}
Phase == Waiting \union Running \union {"over"}
State == {"downloading", "completed", "failed"}
Count == Nat \union {Unknown}  \* an optional number
Status == [state: State, mirror: Nat, bytes: Nat, total: Count, percent: 0..100 \union {Unknown}]

Initial == [state |-> "downloading", mirror |-> 1, bytes |-> 0,
            total |-> Unknown, percent |-> Unknown]

Init ==
  /\ impl \in Impl
  /\ phase = [c \in Call |-> "idle"]
  /\ wanted \in [Call -> Entry]
  /\ active = Nobody
  /\ last = Nobody
  /\ status = [c \in Call |-> Initial]
  /\ part = << >>
  /\ store = << >>
  /\ cut = {}
  /\ kills = 0

TargetOf(c) == FileOf[wanted[c]]
Put(files, f, chunks) == [g \in DOMAIN files \union {f} |-> IF g = f THEN chunks ELSE files[g]]
Without(files, f) == Restrict(files, DOMAIN files \ {f})

\* Go from one phase to another.
Goes(c, from, to) == phase[c] = from /\ phase' = [phase EXCEPT ![c] = to]

-----------------------------------------------------------------------------
(* The call.                                                               *)

\* The target does not exist yet.  The answer is used after the wait for the
\* manager's lock (Rust) or after the await of stat (TypeScript).
Check(c) ==
  /\ TargetOf(c) \notin DOMAIN store
  /\ Goes(c, "idle", "checked")
  /\ UNCHANGED <<impl, wanted, active, last, status, part, store, cut, kills>>

\* Refused: downloads are disabled, the id is unknown, the Store is missing or the
\* target is there; or else the slot is taken.
Refused(c) ==
  /\ phase[c] = "idle" \/ (phase[c] = "checked" /\ active # Nobody)
  /\ phase' = [phase EXCEPT ![c] = "over"]
  /\ UNCHANGED <<impl, wanted, active, last, status, part, store, cut, kills>>

\* Mutation of Claim: the check of the slot is forgotten.
ClaimUnguarded(c) ==
  /\ Goes(c, "checked", "sweep")
  /\ active' = c
  /\ status' = [status EXCEPT ![c] = Initial]
  /\ UNCHANGED <<impl, wanted, last, part, store, cut, kills>>

\* Claim the slot, start the task and return the first status.
Claim(c) ==
  /\ active = Nobody
  /\ Goes(c, "checked", "sweep")
  /\ active' = c
  /\ status' = [status EXCEPT ![c] = Initial]
  /\ UNCHANGED <<impl, wanted, last, part, store, cut, kills>>

-----------------------------------------------------------------------------
(* The task.                                                               *)

\* Remove the .part file; an error is ignored.
RemovePart(c) == part' \in {part, Without(part, TargetOf(c))}

\* Remove what an earlier attempt left.
Sweep(c) ==
  /\ Goes(c, "sweep", "next")
  /\ RemovePart(c)
  /\ UNCHANGED <<impl, wanted, active, last, status, store, cut, kills>>

\* Mutation of TryMirror: the progress of the mirror before stays.
TryMirrorKeepingProgress(c) ==
  /\ Goes(c, "next", "request")
  /\ UNCHANGED <<impl, wanted, active, last, status, part, store, cut, kills>>

\* Begin with a mirror: the progress of the one before is forgotten.
TryMirror(c) ==
  /\ Goes(c, "next", "request")
  /\ status' = [status EXCEPT ![c] = [Initial EXCEPT !.mirror = status[c].mirror]]
  /\ UNCHANGED <<impl, wanted, active, last, part, store, cut, kills>>

\* Mutation of Answers: the .part file is opened for appending.
AnswersAppending(c) ==
  /\ Goes(c, "request", "stream")
  /\ \E t \in Totals : status' = [status EXCEPT ![c].total = t]
  /\ part' = IF TargetOf(c) \in DOMAIN part THEN part ELSE Put(part, TargetOf(c), << >>)
  /\ UNCHANGED <<impl, wanted, active, last, store, cut, kills>>

\* The mirror answers with an image; its length is noted and the .part file
\* is created or, if it exists, truncated.
Answers(c) ==
  /\ Goes(c, "request", "stream")
  /\ \E t \in Totals : status' = [status EXCEPT ![c].total = t]
  /\ part' = Put(part, TargetOf(c), << >>)
  /\ UNCHANGED <<impl, wanted, active, last, store, cut, kills>>

\* More bytes may come than the Content-Length said.
Percent(n, total) == ((IF n < total THEN n ELSE total) * 100) \div total

\* A chunk arrives, is written and counted.
Receive(c) ==
  LET s == status[c]  n == s.bytes + 1  f == TargetOf(c) IN
  /\ phase[c] = "stream"
  /\ n <= Size
  /\ part' = Put(part, f, Append(part[f], <<c, s.mirror>>))
  /\ status' = [status EXCEPT ![c] =
       [s EXCEPT !.bytes = n,
                 !.percent = IF s.total \notin {Unknown, 0} THEN Percent(n, s.total) ELSE @]]
  /\ UNCHANGED <<impl, phase, wanted, active, last, store, cut, kills>>

\* The body ends and the file is flushed.  A body that breaks off is an error
\* of the transport, in FetchFails.
BodyEnds(c) ==
  /\ status[c].bytes = Size
  /\ Goes(c, "stream", "rename")
  /\ UNCHANGED <<impl, wanted, active, last, status, part, store, cut, kills>>

\* The TypeScript task takes any end of the write stream for a good one: the
\* callback of end() resolves, and Node calls it, with an error that is ignored,
\* also when a write that was still buffered fails.  What was counted is not there.
EndsUnwritten(c) ==
  LET f == TargetOf(c) IN
  /\ impl = "ts"
  /\ status[c].bytes = Size
  /\ Goes(c, "stream", "rename")
  /\ \E k \in 0..Size - 1 : part' = Put(part, f, SubSeq(part[f], 1, k))
  /\ cut' = cut \union {c}
  /\ UNCHANGED <<impl, wanted, active, last, status, store, kills>>

\* The mirror refuses, sends an error page or breaks off, or the disk fails where
\* the task looks: at a write it waits for, and in Rust at the flush.
FetchFails(c) ==
  /\ phase[c] \in {"request", "stream"}
  /\ phase' = [phase EXCEPT ![c] = "clean"]
  /\ UNCHANGED <<impl, wanted, active, last, status, part, store, cut, kills>>

\* Mutation of Stalls: the timer is cleared when the headers are there.
StallsOnlyBeforeBody(c) ==
  /\ impl = "ts"
  /\ Goes(c, "request", "clean")
  /\ UNCHANGED <<impl, wanted, active, last, status, part, store, cut, kills>>

\* No data for STALL_TIMEOUT.  The TypeScript timer is armed before the request
\* is sent, the Rust one only around each chunk of the body.
Stalls(c) ==
  /\ phase[c] = "stream" \/ (phase[c] = "request" /\ impl = "ts")
  /\ phase' = [phase EXCEPT ![c] = "clean"]
  /\ UNCHANGED <<impl, wanted, active, last, status, part, store, cut, kills>>

\* Report the end.  The TypeScript task frees the slot in the same turn, the
\* Rust task when it gets the manager's lock.
Settles(c, from, state) ==
  /\ status' = [status EXCEPT ![c].state = state,
                  ![c].percent = IF state = "completed" /\ status[c].total # Unknown
                                 THEN 100 ELSE @]
  /\ IF impl = "ts"
       THEN Goes(c, from, "over") /\ active' = Nobody /\ last' = c
       ELSE Goes(c, from, "settled") /\ UNCHANGED <<active, last>>
  /\ UNCHANGED <<impl, wanted, store, cut, kills>>

\* After a failed fetch: remove the partial file, then the next mirror or the end.
NextMirror(c) ==
  /\ RemovePart(c)
  /\ IF status[c].mirror < Mirrors[wanted[c]]
       THEN /\ Goes(c, "clean", "next")
            /\ status' = [status EXCEPT ![c].mirror = @ + 1]
            /\ UNCHANGED <<impl, wanted, active, last, store, cut, kills>>
       ELSE Settles(c, "clean", "failed")

\* rename(2) puts the .part file on its final name, over whatever is there.
Rename(c) ==
  LET f == TargetOf(c) IN
  /\ Goes(c, "rename", "renamed")
  /\ store' = Put(store, f, part[f])
  /\ part' = Without(part, f)
  /\ UNCHANGED <<impl, wanted, active, last, status, cut, kills>>

\* Mutation of RenameFails: the error of rename is ignored.
RenameFailsUnnoticed(c) ==
  /\ Goes(c, "rename", "renamed")
  /\ RemovePart(c)
  /\ UNCHANGED <<impl, wanted, active, last, status, store, cut, kills>>

\* rename(2) fails: remove the partial file; the other mirrors are not tried.
RenameFails(c) ==
  /\ Goes(c, "rename", "spoilt")
  /\ RemovePart(c)
  /\ UNCHANGED <<impl, wanted, active, last, status, store, cut, kills>>

GiveUp(c) == Settles(c, "spoilt", "failed") /\ UNCHANGED part

Complete(c) == Settles(c, "renamed", "completed") /\ UNCHANGED part

\* The Rust task has the manager's lock: the snapshot is kept, the slot is free.
Finish(c) ==
  /\ Goes(c, "settled", "over")
  /\ active' = Nobody
  /\ last' = c
  /\ UNCHANGED <<impl, wanted, status, part, store, cut, kills>>

-----------------------------------------------------------------------------
(* The process dies: the operator or the supervisor kills it, or (in       *)
(* TypeScript) the write stream reports an error while nobody listens to   *)
(* it.  What was asked is lost, the files stay.                            *)
Die ==
  /\ kills < MaxKills
  /\ kills' = kills + 1
  /\ phase' = [c \in Call |-> IF phase[c] = "idle" THEN "idle" ELSE "over"]
  /\ active' = Nobody
  /\ last' = Nobody
  /\ UNCHANGED <<impl, wanted, status, part, store, cut>>

Begin(c) == Check(c) \/ Refused(c) \/ Claim(c)

\* What the server does by itself; the fair steps.
Work(c) == \/ Sweep(c) \/ TryMirror(c) \/ Stalls(c) \/ NextMirror(c)
           \/ Rename(c) \/ RenameFails(c) \/ GiveUp(c) \/ Complete(c) \/ Finish(c)

\* What the mirror does.
Mirror(c) == Answers(c) \/ Receive(c) \/ BodyEnds(c) \/ EndsUnwritten(c) \/ FetchFails(c)

Next == \/ \E c \in Call : Begin(c) \/ Work(c) \/ Mirror(c)
        \/ Die

Spec == Init /\ [][Next]_vars

FairSpec == Spec /\ \A c \in Call : WF_vars(Work(c))

-----------------------------------------------------------------------------
(* Properties.                                                             *)

AreFiles(files) == DOMAIN files \subseteq File /\ files \in [DOMAIN files -> Seq(Chunk)]

TypeOK ==
  /\ impl \in Impl
  /\ phase \in [Call -> Phase]
  /\ wanted \in [Call -> Entry]
  /\ active \in Call \union {Nobody}
  /\ last \in Call \union {Nobody}
  /\ status \in [Call -> Status]
  /\ AreFiles(part)
  /\ AreFiles(store)
  /\ cut \subseteq Call
  /\ kills \in 0..MaxKills

\* The slot is held by the one task that runs, from its claim until after it has
\* touched the files for the last time (the single slot of ADR-0018).
OneDownload == \A c \in Call : phase[c] \in Running <=> active = c

\* The first k chunks of an image that call c reads from mirror m, and all of it.
Piece(c, m, k) == [i \in 1..k |-> <<c, m>>]
Image(c, m) == Piece(c, m, Size)

\* What a download that ended well leaves: the image, or in TypeScript the part of
\* it that was written before a write failed at end() and nobody looked.
Fetched(c, m, chunks) ==
  \/ chunks = Image(c, m)
  \/ impl = "ts" /\ c \in cut /\ \E k \in 0..Size - 1 : chunks = Piece(c, m, k)

\* A file under its final name is the image from one mirror, whatever was left by
\* other mirrors, other calls or a process that died, and it is whole unless its
\* own last write failed under end(), the one way in which "a partial download
\* never appears as a usable ISO" (download.rs:11-12) can fail; in Rust there is none.
FinalIsWhole ==
  \A f \in DOMAIN store :
    \E c \in Call : TargetOf(c) = f /\ \E m \in 1..Mirrors[wanted[c]] : Fetched(c, m, store[f])

\* The sentence as it stands.  It does not hold of TypeScript.
NeverPartial ==
  \A f \in DOMAIN store : \E c \in Call : \E m \in 1..Mirrors[wanted[c]] : store[f] = Image(c, m)

\* The download that get_download reports: the running one, or else the last.
Reported == IF active # Nobody THEN active ELSE last

\* What get_download says is true of the Store, between any two steps: a download
\* reported as completed is there, from the mirror that is reported and whole but
\* for a write that failed under end(); of one reported as failed there is nothing;
\* any other holds the slot.
Stored(c) == /\ TargetOf(c) \in DOMAIN store
             /\ Fetched(c, status[c].mirror, store[TargetOf(c)])
Absent(c) == \A g \in DOMAIN store : \A i \in DOMAIN store[g] : store[g][i][1] # c
Outcome(c) == \/ status[c].state = "completed" /\ Stored(c)
              \/ status[c].state = "failed" /\ Absent(c)
ReportIsTrue ==
  Reported # Nobody =>
    \/ status[Reported].state = "downloading" /\ active = Reported
    \/ Outcome(Reported)

\* The progress that get_download reports is that of the .part file as it is: no
\* count, total or percentage survives from a mirror that failed.
ProgressIsThisMirror ==
  \A c \in Call :
    LET s == status[c] IN
    /\ phase[c] = "request" => s.bytes = 0 /\ s.total = Unknown /\ s.percent = Unknown
    /\ phase[c] = "stream" => part[TargetOf(c)] = [i \in 1..s.bytes |-> <<c, s.mirror>>]
    /\ s.percent # Unknown => s.total # Unknown

\* What get_download may report is sound: in its types and bounds, and against
\* the .part file.
StatusHolds == TypeOK /\ ProgressIsThisMirror

\* An existing file of the Store is never overwritten ("Downloads are
\* APPEND-ONLY", download.rs:14).
NeverOverwritten ==
  [][\A f \in DOMAIN store : f \in DOMAIN store' /\ store'[f] = store[f]]_vars

\* The task gives the slot back ("a stalled connection can never wedge the single
\* download slot indefinitely", download.rs:43).
SlotComesBack == \A c \in Call : active = c ~> active # c

\* What holds of both: the slot comes back if every mirror that accepts the
\* request of the Rust client answers it.
SlotComesBackOnceAnswered ==
  \A c \in Call :
    (impl = "ts" \/ []<>(phase[c] # "request")) => (active = c ~> active # c)
=============================================================================
