--------------------------- MODULE DownloadProofs ---------------------------
(***************************************************************************)
(* Proofs about the ISO downloader, for every catalog, any number of calls, *)
(* chunks and deaths of the server, and both implementations.              *)
(***************************************************************************)
EXTENDS Download, TLAPS

-----------------------------------------------------------------------------
\* The operators on files and progress.


\* Without removes one file.
LEMMA WithoutFile ==
  ASSUME NEW files, AreFiles(files), NEW f \in File
  PROVE  /\ AreFiles(Without(files, f))
         /\ DOMAIN Without(files, f) = DOMAIN files \ {f}
         /\ \A g \in DOMAIN Without(files, f) : Without(files, f)[g] = files[g]
BY DEF AreFiles, Without, Restrict

\* The clamp keeps the percentage within bounds, whatever the Content-Length.
LEMMA PercentBounded ==
  ASSUME NEW n \in Nat, NEW total \in Nat \ {0}
  PROVE  Percent(n, total) \in 0..100
<1> DEFINE low == IF n < total THEN n ELSE total
<1>1. low \in Nat /\ low <= total OBVIOUS
<1>2. low * 100 <= total * 100 BY <1>1
<1>3. (low * 100) \div total \in Nat BY <1>1
<1> DEFINE q == (low * 100) \div total
<1>4. q * total <= low * 100 BY <1>1
<1>5. q * total <= 100 * total BY <1>2, <1>3, <1>4, <1>1
<1>6. q <= 100 BY <1>3, <1>5
<1> QED BY <1>3, <1>6 DEF Percent

\* One more chunk of the same mirror.
LEMMA OneMoreChunk ==
  ASSUME NEW n \in Nat, NEW x
  PROVE  Append([i \in 1..n |-> x], x) = [i \in 1..n + 1 |-> x]
<1> DEFINE s == [i \in 1..n |-> x]
<1>1. s \in Seq({x}) /\ Len(s) = n OBVIOUS
<1>2. Append(s, x) \in Seq({x}) /\ Len(Append(s, x)) = n + 1 BY <1>1
<1>3. \A i \in 1..n + 1 : Append(s, x)[i] = x BY <1>1
<1> QED BY <1>2, <1>3

\* The first chunks of a file of one mirror.
LEMMA OnePieceOfIt ==
  ASSUME NEW n \in Nat, NEW x, NEW k \in 0..n - 1
  PROVE  SubSeq([i \in 1..n |-> x], 1, k) = [i \in 1..k |-> x]
<1> DEFINE s == [i \in 1..n |-> x]
<1>1. s \in Seq({x}) /\ Len(s) = n OBVIOUS
<1>2. SubSeq(s, 1, k) \in Seq({x}) /\ Len(SubSeq(s, 1, k)) = k BY <1>1
<1>3. \A i \in 1..k : SubSeq(s, 1, k)[i] = x BY <1>1
<1> QED BY <1>2, <1>3

-----------------------------------------------------------------------------
\* The inductive invariant.

\* What the task that runs knows of the files.
Content ==
  \A c \in Call :
    /\ status[c].mirror \in 1..Mirrors[wanted[c]]
    /\ phase[c] \in Running \ {"settled"} => status[c].state = "downloading"
    /\ phase[c] = "request" => status[c].bytes = 0
    /\ phase[c] = "stream" =>
         /\ status[c].bytes <= Size
         /\ TargetOf(c) \in DOMAIN part
         /\ part[TargetOf(c)] = [i \in 1..status[c].bytes |-> <<c, status[c].mirror>>]
    /\ phase[c] = "rename" =>
         /\ TargetOf(c) \in DOMAIN part
         /\ Fetched(c, status[c].mirror, part[TargetOf(c)])

\* A task that has not renamed.
Early == Waiting \union {"sweep", "next", "request", "stream", "rename", "clean", "spoilt"}

\* Nothing of a call is in the Store before its rename; from there to the end of
\* its task the Store agrees with what the task is about to report.
Truth ==
  \A c \in Call :
    /\ phase[c] \in Early => Absent(c)
    /\ phase[c] = "renamed" => Stored(c)
    /\ phase[c] = "settled" => Outcome(c)

\* What is reported when no task runs is true.
LastIsTrue == active = Nobody /\ last # Nobody => Outcome(last)

Inv == TypeOK /\ OneDownload /\ Content /\ FinalIsWhole /\ Truth /\ LastIsTrue

\* It holds at the start: no file, no task, the first mirror.
LEMMA InitInv == Init => Inv
<1> SUFFICES ASSUME Init PROVE Inv OBVIOUS
<1> USE DownloadAssumption DEF Init
<1>1. AreFiles(<< >>) BY DEF AreFiles
<1>2. Initial \in Status BY DEF Initial, Status, State, Count
<1>3. TypeOK BY <1>1, <1>2 DEF TypeOK, Phase, Waiting
<1>4. OneDownload BY DEF OneDownload, Running
<1>5. Content
  <2> SUFFICES ASSUME NEW c \in Call PROVE status[c].mirror \in 1..Mirrors[wanted[c]]
    BY DEF Content, Running
  <2>1. Mirrors[wanted[c]] \in Nat \ {0} OBVIOUS
  <2> QED BY <2>1 DEF Initial
<1>6. FinalIsWhole BY DEF FinalIsWhole
<1>7. Truth BY DEF Truth, Absent
<1> QED BY <1>3, <1>4, <1>5, <1>6, <1>7 DEF Inv, LastIsTrue


\* A removal changes nothing but the one .part file.
LEMMA RemovePartKeeps ==
  ASSUME TypeOK, NEW c \in Call, RemovePart(c)
  PROVE  AreFiles(part')
<1>1. TargetOf(c) \in File BY DownloadAssumption DEF TypeOK, TargetOf
<1>2. AreFiles(part) BY DEF TypeOK
<1>3. AreFiles(Without(part, TargetOf(c))) BY <1>1, <1>2, WithoutFile
<1> QED BY <1>2, <1>3 DEF RemovePart

\* What the files hold for a call that is about to be in phase q.
Holds(c, q) ==
  /\ q \in Running \ {"settled"} => status[c].state = "downloading"
  /\ q = "request" => status[c].bytes = 0
  /\ q = "stream" => /\ status[c].bytes <= Size
                     /\ TargetOf(c) \in DOMAIN part
                     /\ part[TargetOf(c)] = [i \in 1..status[c].bytes |-> <<c, status[c].mirror>>]
  /\ q = "rename" => /\ TargetOf(c) \in DOMAIN part
                     /\ Fetched(c, status[c].mirror, part[TargetOf(c)])

\* A step within a task or a call: one call goes on, its status with it, and the
\* Store, the slot and what is reported of the last download stay.
LEMMA QuietStep ==
  ASSUME Inv, NEW c \in Call, NEW q \in Phase,
         phase' = [phase EXCEPT ![c] = q],
         phase[c] \in Running <=> q \in Running,
         q \in Early => phase[c] \in Early,
         q # "renamed",
         status' \in [Call -> Status],
         \A d \in Call \ {c} : status'[d] = status[d],
         status'[c].mirror \in 1..Mirrors[wanted[c]],
         AreFiles(part'),
         phase[c] \in Running \/ (part' = part /\ status' = status),
         cut' \in {cut, cut \union {c}},
         UNCHANGED <<impl, wanted, active, last, store, kills>>,
         Holds(c, q)',
         q = "settled" => Outcome(c)'
  PROVE  Inv'
<1> USE DownloadAssumption
<1>1. TypeOK' BY DEF Inv, TypeOK
<1>2. OneDownload' BY DEF Inv, TypeOK, OneDownload
<1>3. FinalIsWhole' BY DEF Inv, FinalIsWhole, TargetOf, Fetched
<1>a. \A d \in Call : phase'[d] = IF d = c THEN q ELSE phase[d] BY DEF Inv, TypeOK
<1>4. Content'
  <2> SUFFICES ASSUME NEW d \in Call
               PROVE  (status[d].mirror \in 1..Mirrors[wanted[d]] /\ Holds(d, phase[d]))'
    BY DEF Content, Holds
  <2>1. CASE d = c BY <2>1, <1>a DEF Holds
  <2>2. CASE d # c /\ phase[d] \notin Running
    BY <2>2, <1>a DEF Inv, Content, Holds, Running
  <2>3. CASE d # c /\ phase[d] \in Running
    <3>1. phase[c] \notin Running BY <2>3 DEF Inv, OneDownload
    <3>2. part' = part /\ status' = status BY <3>1
    <3>3. status[d].mirror \in 1..Mirrors[wanted[d]] /\ Holds(d, phase[d])
      BY DEF Inv, Content, Holds
    <3>4. phase'[d] = phase[d] BY <2>3, <1>a
    <3> QED BY <3>2, <3>3, <3>4 DEF Holds, TargetOf, Fetched
  <2> QED BY <2>1, <2>2, <2>3
<1>5. Truth'
  <2> SUFFICES ASSUME NEW d \in Call
               PROVE  (/\ phase[d] \in Early => Absent(d)
                       /\ phase[d] = "renamed" => Stored(d)
                       /\ phase[d] = "settled" => Outcome(d))'
    BY DEF Truth, Absent, Outcome, Stored
  <2>1. CASE d = c BY <2>1, <1>a DEF Inv, Truth, Absent
  <2>2. CASE d # c
    <3>1. phase'[d] = phase[d] /\ status'[d] = status[d] BY <2>2, <1>a
    <3>2. /\ phase[d] \in Early => Absent(d)
          /\ phase[d] = "renamed" => Stored(d)
          /\ phase[d] = "settled" => Outcome(d)
      BY DEF Inv, Truth
    <3> QED BY <3>1, <3>2 DEF Outcome, Stored, Absent, TargetOf, Fetched
  <2> QED BY <2>1, <2>2
<1>6. LastIsTrue'
  <2> SUFFICES ASSUME active = Nobody, last # Nobody PROVE Outcome(last)' BY DEF LastIsTrue
  <2>1. phase[c] \notin Running BY DEF Inv, OneDownload
  <2>2. status' = status BY <2>1
  <2>3. Outcome(last) BY DEF Inv, LastIsTrue
  <2> QED BY <2>2, <2>3 DEF Outcome, Stored, Absent, TargetOf, Fetched
<1> QED BY <1>1, <1>2, <1>3, <1>4, <1>5, <1>6 DEF Inv

\* The end of a task: it frees the slot and is what get_download reports.
LEMMA ReleaseStep ==
  ASSUME Inv, NEW c \in Call,
         phase[c] \in Running,
         phase' = [phase EXCEPT ![c] = "over"],
         active' = Nobody, last' = c,
         status' \in [Call -> Status],
         \A d \in Call \ {c} : status'[d] = status[d],
         status'[c].mirror = status[c].mirror,
         AreFiles(part'),
         UNCHANGED <<impl, wanted, store, cut, kills>>,
         Outcome(c)'
  PROVE  Inv'
<1> USE DownloadAssumption
<1>0. /\ phase \in [Call -> Phase] /\ \A d \in Call : d # c => phase[d] \notin Running
      /\ Nobody \notin Call
  BY DEF Inv, TypeOK, OneDownload
<1>a. \A d \in Call : phase'[d] = IF d = c THEN "over" ELSE phase[d] BY <1>0
<1>1. TypeOK' BY DEF Inv, TypeOK, Phase
<1>2. OneDownload' BY <1>0, <1>a DEF OneDownload, Running
<1>3. FinalIsWhole'
  <2>1. FinalIsWhole BY DEF Inv
  <2>2. store' = store /\ wanted' = wanted OBVIOUS
  <2> QED BY <2>1, <2>2 DEF FinalIsWhole, TargetOf, Fetched
<1>4. Content'
  <2> SUFFICES ASSUME NEW d \in Call
               PROVE  (status[d].mirror \in 1..Mirrors[wanted[d]] /\ Holds(d, phase[d]))'
    BY DEF Content, Holds
  <2>1. status[d].mirror \in 1..Mirrors[wanted[d]] BY DEF Inv, Content
  <2>2. phase'[d] \notin Running BY <1>0, <1>a DEF Running
  <2>3. status'[d].mirror = status[d].mirror BY <1>0
  <2> QED BY <2>1, <2>2, <2>3 DEF Holds, Running
<1>5. Truth'
  <2> SUFFICES ASSUME NEW d \in Call
               PROVE  (/\ phase[d] \in Early => Absent(d)
                       /\ phase[d] = "renamed" => Stored(d)
                       /\ phase[d] = "settled" => Outcome(d))'
    BY DEF Truth, Absent, Outcome, Stored
  <2>1. CASE d = c BY <2>1, <1>a DEF Early, Waiting
  <2>2. CASE d # c
    <3>1. phase'[d] = phase[d] /\ status'[d] = status[d] BY <2>2, <1>a
    <3>2. /\ phase[d] \in Early => Absent(d)
          /\ phase[d] = "renamed" => Stored(d)
          /\ phase[d] = "settled" => Outcome(d)
      BY DEF Inv, Truth
    <3> QED BY <3>1, <3>2 DEF Outcome, Stored, Absent, TargetOf, Fetched
  <2> QED BY <2>1, <2>2
<1>6. LastIsTrue' BY DEF LastIsTrue, Outcome, Stored, Absent, TargetOf, Fetched
<1> QED BY <1>1, <1>2, <1>3, <1>4, <1>5, <1>6 DEF Inv

\* What every step starts from.
LEMMA Facts ==
  ASSUME Inv, NEW c \in Call
  PROVE  /\ phase \in [Call -> Phase] /\ status \in [Call -> Status] /\ AreFiles(part)
         /\ TargetOf(c) \in File
         /\ Mirrors[wanted[c]] \in Nat \ {0}
         /\ status[c].mirror \in 1..Mirrors[wanted[c]]
         /\ status[c] \in Status
         /\ Holds(c, phase[c])
         /\ phase[c] \in Early => Absent(c)
         /\ phase[c] = "renamed" => Stored(c)
         /\ phase[c] = "settled" => Outcome(c)
BY DownloadAssumption DEF Inv, TypeOK, Content, Holds, Truth, TargetOf

\* The end is reported: by a task of which the Store holds what it says.
LEMMA SettlesStep ==
  ASSUME Inv, NEW c \in Call, NEW from \in Running, NEW state \in {"completed", "failed"},
         Settles(c, from, state), AreFiles(part'),
         state = "completed" => Stored(c),
         state = "failed" => Absent(c)
  PROVE  Inv'
<1> DEFINE s == [status[c] EXCEPT !.state = state,
                   !.percent = IF state = "completed" /\ status[c].total # Unknown
                               THEN 100 ELSE @]
<1>1. status' = [status EXCEPT ![c] = s] BY Facts DEF Settles, Status
<1>2. s \in Status /\ s.mirror = status[c].mirror /\ s.state = state
  <2>1. status[c] \in Status BY Facts
  <2>2. state \in State BY DEF State
  <2>3. 100 \in 0..100 OBVIOUS
  <2>4. (IF state = "completed" /\ status[c].total # Unknown THEN 100 ELSE status[c].percent)
          \in 0..100 \union {Unknown}
    BY <2>1, <2>3 DEF Status
  <2> QED BY <2>1, <2>2, <2>4 DEF Status
<1>3. /\ status' \in [Call -> Status] /\ status'[c] = s
      /\ \A d \in Call \ {c} : status'[d] = status[d]
  <2> HIDE DEF s
  <2> QED BY <1>1, <1>2, Facts
<1>4. UNCHANGED <<impl, wanted, store, cut, kills>> BY DEF Settles
<1>5. Outcome(c)'
  BY <1>2, <1>3, <1>4 DEF Outcome, Stored, Absent, TargetOf, Fetched
<1>6. phase[c] = from BY DEF Settles, Goes
<1>7. CASE impl = "ts"
  <2>1. phase' = [phase EXCEPT ![c] = "over"] /\ active' = Nobody /\ last' = c
    BY <1>7 DEF Settles, Goes
  <2> HIDE DEF s
  <2> QED BY <2>1, <1>2, <1>3, <1>4, <1>5, <1>6, ReleaseStep
<1>8. CASE impl # "ts"
  <2>1. phase' = [phase EXCEPT ![c] = "settled"] /\ UNCHANGED <<active, last>>
    BY <1>8 DEF Settles, Goes
  <2>2. "settled" \in Phase /\ "settled" \in Running /\ "settled" \notin Early
    BY DEF Phase, Running, Early, Waiting
  <2>3. Holds(c, "settled")' BY DEF Holds
  <2>4. status'[c].mirror \in 1..Mirrors[wanted[c]] BY <1>2, <1>3, Facts
  <2> HIDE DEF s
  <2> QED BY <2>1, <2>2, <2>3, <2>4, <1>3, <1>4, <1>5, <1>6, QuietStep
<1> QED BY <1>7, <1>8

-----------------------------------------------------------------------------
\* The steps, one lemma for each kind.

\* The call, up to its claim.
LEMMA CallSteps ==
  ASSUME Inv, NEW c \in Call, Check(c) \/ Refused(c)
  PROVE  Inv'
<1>1. CASE Check(c)
  <2>1. phase[c] = "idle" /\ phase' = [phase EXCEPT ![c] = "checked"] BY <1>1 DEF Check, Goes
  <2>2. UNCHANGED <<impl, wanted, active, last, status, part, store, cut, kills>> BY <1>1 DEF Check
  <2>3. Holds(c, "checked")' BY DEF Holds, Running
  <2> QED BY <2>1, <2>2, <2>3, Facts, QuietStep DEF Phase, Running, Waiting, Early
<1>2. CASE Refused(c)
  <2>1. phase[c] \in Waiting /\ phase' = [phase EXCEPT ![c] = "over"]
    BY <1>2 DEF Refused, Waiting
  <2>2. UNCHANGED <<impl, wanted, active, last, status, part, store, cut, kills>> BY <1>2 DEF Refused
  <2>3. Holds(c, "over")' BY DEF Holds, Running
  <2> QED BY <2>1, <2>2, <2>3, Facts, QuietStep DEF Phase, Running, Waiting, Early
<1> QED BY <1>1, <1>2

\* The claim: no task runs, and one begins.
LEMMA ClaimStep ==
  ASSUME Inv, NEW c \in Call, Claim(c)
  PROVE  Inv'
<1> USE DownloadAssumption
<1>0. /\ phase \in [Call -> Phase] /\ \A d \in Call : phase[d] \notin Running
      /\ status \in [Call -> Status] /\ c # Nobody
  BY DEF Inv, TypeOK, OneDownload, Claim
<1>1. /\ phase[c] = "checked" /\ phase' = [phase EXCEPT ![c] = "sweep"] /\ active' = c
      /\ status' = [status EXCEPT ![c] = Initial]
      /\ UNCHANGED <<impl, wanted, last, part, store, cut, kills>>
  BY DEF Claim, Goes
<1>a. \A d \in Call : phase'[d] = IF d = c THEN "sweep" ELSE phase[d] BY <1>0, <1>1
<1>b. Initial \in Status BY DEF Initial, Status, State, Count
<1>2. TypeOK' BY <1>0, <1>1, <1>b DEF Inv, TypeOK, Phase, Running
<1>3. OneDownload' BY <1>0, <1>1, <1>a DEF OneDownload, Running
<1>4. FinalIsWhole'
  <2>1. FinalIsWhole /\ UNCHANGED <<impl, wanted, store, cut>> BY <1>1 DEF Inv
  <2> QED BY <2>1 DEF FinalIsWhole, TargetOf, Fetched
<1>5. Content'
  <2> SUFFICES ASSUME NEW d \in Call
               PROVE  (status[d].mirror \in 1..Mirrors[wanted[d]] /\ Holds(d, phase[d]))'
    BY DEF Content, Holds
  <2>1. phase'[d] \notin {"request", "stream", "rename"} BY <1>0, <1>a DEF Running
  <2>2. status[d].mirror \in 1..Mirrors[wanted[d]] /\ Mirrors[wanted[d]] \in Nat \ {0} BY Facts
  <2>3. status'[d].mirror \in {1, status[d].mirror} BY <1>0, <1>1 DEF Initial
  <2>4. phase'[d] \in Running => status'[d].state = "downloading"
    BY <1>0, <1>1, <1>a DEF Initial
  <2> QED BY <1>1, <2>1, <2>2, <2>3, <2>4 DEF Holds
<1>6. Truth'
  <2> SUFFICES ASSUME NEW d \in Call
               PROVE  (/\ phase[d] \in Early => Absent(d)
                       /\ phase[d] = "renamed" => Stored(d)
                       /\ phase[d] = "settled" => Outcome(d))'
    BY DEF Truth, Absent, Outcome, Stored
  <2>1. phase'[d] \in Early => phase[d] \in Early BY <1>1, <1>a DEF Early, Waiting
  <2>2. phase[d] \in Early => Absent(d) BY Facts
  <2>3. phase'[d] \notin {"renamed", "settled"} BY <1>0, <1>a DEF Running
  <2> QED BY <1>1, <2>1, <2>2, <2>3 DEF Absent
<1>7. LastIsTrue' BY <1>0, <1>1 DEF LastIsTrue
<1> QED BY <1>2, <1>3, <1>4, <1>5, <1>6, <1>7 DEF Inv

\* A step of the task that leaves its status alone.
LEMMA TaskSteps ==
  ASSUME Inv, NEW c \in Call,
         Sweep(c) \/ BodyEnds(c) \/ FetchFails(c) \/ Stalls(c) \/ RenameFails(c)
  PROVE  Inv'
<1>1. PICK q \in {"next", "rename", "clean", "spoilt"} :
        /\ phase' = [phase EXCEPT ![c] = q]
        /\ q = "rename" => phase[c] = "stream" /\ status[c].bytes = Size /\ part' = part
  BY DEF Sweep, BodyEnds, FetchFails, Stalls, RenameFails, Goes
<1>2. phase[c] \in {"sweep", "request", "stream", "rename"}
  BY DEF Sweep, BodyEnds, FetchFails, Stalls, RenameFails, Goes
<1>3. UNCHANGED <<impl, wanted, active, last, status, store, cut, kills>>
  BY DEF Sweep, BodyEnds, FetchFails, Stalls, RenameFails
<1>4. AreFiles(part')
  <2>1. CASE RemovePart(c) BY <2>1, RemovePartKeeps DEF Inv
  <2>2. CASE part' = part BY <2>2, Facts
  <2> QED BY <2>1, <2>2 DEF Sweep, BodyEnds, FetchFails, Stalls, RenameFails
<1>5. Holds(c, q)'
  <2>0. status[c].state = "downloading" BY <1>2, Facts DEF Holds, Running
  <2>1. CASE q = "rename"
    <3>1. Holds(c, "stream") BY <1>1, <2>1, Facts
    <3> QED BY <1>1, <1>3, <2>0, <2>1, <3>1 DEF Holds, TargetOf, Fetched, Image, Piece
  <2>2. CASE q # "rename" BY <1>1, <1>3, <2>0, <2>2 DEF Holds
  <2> QED BY <2>1, <2>2
<1>6. status'[c].mirror \in 1..Mirrors[wanted[c]] BY <1>3, Facts
<1>7. /\ q \in Phase /\ q \in Running /\ q \notin {"renamed", "settled"}
      /\ phase[c] \in Running /\ phase[c] \in Early
  BY <1>2 DEF Phase, Running, Waiting, Early
<1>8. status' \in [Call -> Status] /\ \A d \in Call \ {c} : status'[d] = status[d]
  BY <1>3, Facts
<1> QED BY <1>1, <1>3, <1>4, <1>5, <1>6, <1>7, <1>8, QuietStep

\* What was counted is not all there: the file is a piece of the image, and the
\* task is one of those whose last write failed.
LEMMA UnwrittenStep ==
  ASSUME Inv, NEW c \in Call, EndsUnwritten(c)
  PROVE  Inv'
<1> USE DownloadAssumption
<1> DEFINE f == TargetOf(c)  m == status[c].mirror
<1>0. /\ f \in File /\ AreFiles(part) /\ Holds(c, phase[c]) /\ m \in 1..Mirrors[wanted[c]]
      /\ status \in [Call -> Status] /\ Size \in Nat
  BY Facts
<1>1. /\ impl = "ts" /\ status[c].bytes = Size /\ phase[c] = "stream"
      /\ phase' = [phase EXCEPT ![c] = "rename"] /\ cut' = cut \union {c}
      /\ UNCHANGED <<impl, wanted, active, last, status, store, kills>>
  BY DEF EndsUnwritten, Goes
<1>2. PICK k \in 0..Size - 1 : part' = Put(part, f, SubSeq(part[f], 1, k))
  BY DEF EndsUnwritten
<1>3. f \in DOMAIN part /\ part[f] = [i \in 1..Size |-> <<c, m>>]
  BY <1>0, <1>1 DEF Holds
<1> DEFINE new == SubSeq(part[f], 1, k)
<1>4. new = Piece(c, m, k) BY <1>0, <1>3, OnePieceOfIt DEF Piece
<1>5. new \in Seq(Chunk)
  <2>1. <<c, m>> \in Chunk BY <1>0, Facts DEF Chunk
  <2> QED BY <1>4, <2>1 DEF Piece
<1>6. AreFiles(part') /\ f \in DOMAIN part' /\ part'[f] = new
  <2>1. f \in File /\ AreFiles(part) /\ new \in Seq(Chunk) /\ part' = Put(part, f, new)
    BY <1>0, <1>2, <1>5
  <2> HIDE DEF f, new
  <2> QED BY <2>1 DEF Put, AreFiles
<1>7. Holds(c, "rename")'
  <2>1. status'[c].state = "downloading" BY <1>0, <1>1 DEF Holds, Running
  <2>2. Fetched(c, m, Piece(c, m, k))' BY <1>1 DEF Fetched, Piece
  <2>3. Fetched(c, status[c].mirror, part[TargetOf(c)])'
    <3>1. TargetOf(c)' = f /\ m' = m BY <1>1 DEF TargetOf
    <3>2. part'[f] = Piece(c, m, k) BY <1>4, <1>6
    <3> QED BY <2>2, <3>1, <3>2 DEF Fetched, Piece, Image
  <2>4. TargetOf(c)' = f BY <1>1 DEF TargetOf
  <2> QED BY <1>6, <2>1, <2>3, <2>4 DEF Holds
<1>8. /\ "rename" \in Phase /\ "rename" \in Running /\ phase[c] \in Running /\ phase[c] \in Early
  BY <1>1 DEF Phase, Running, Early
<1>9. status'[c].mirror \in 1..Mirrors[wanted[c]] /\ status' \in [Call -> Status] BY <1>0, <1>1
<1> HIDE DEF f, m, new
<1> QED BY <1>1, <1>6, <1>7, <1>8, <1>9, QuietStep

\* A step of the task that moves its progress on.
LEMMA ProgressSteps ==
  ASSUME Inv, NEW c \in Call, TryMirror(c) \/ Answers(c) \/ Receive(c)
  PROVE  Inv'
<1> USE DownloadAssumption
<1> DEFINE s == status[c]  f == TargetOf(c)
<1>0. /\ s \in Status /\ s.mirror \in 1..Mirrors[wanted[c]] /\ Mirrors[wanted[c]] \in Nat \ {0}
      /\ f \in File /\ AreFiles(part) /\ phase \in [Call -> Phase] /\ status \in [Call -> Status]
      /\ Holds(c, phase[c]) /\ s.mirror \in Nat \ {0}
  BY Facts
\* It is enough that the new status is one and that it agrees with the file.
<1>1. ASSUME NEW q \in {"request", "stream"}, NEW t \in Status,
             phase' = [phase EXCEPT ![c] = q], phase[c] \in {"next", "request", "stream"},
             status' = [status EXCEPT ![c] = t], t.mirror = s.mirror, t.state = "downloading",
             AreFiles(part'), UNCHANGED <<impl, wanted, active, last, store, cut, kills>>,
             q = "request" => t.bytes = 0,
             q = "stream" => /\ t.bytes <= Size
                             /\ f \in DOMAIN part'
                             /\ part'[f] = [i \in 1..t.bytes |-> <<c, t.mirror>>]
      PROVE  Inv'
  <2>1. /\ status' \in [Call -> Status] /\ status'[c] = t
        /\ \A d \in Call \ {c} : status'[d] = status[d]
    BY <1>0, <1>1
  <2>2. Holds(c, q)' BY <1>1, <2>1 DEF Holds, TargetOf
  <2>3. /\ q \in Phase /\ q \in Running /\ q \notin {"renamed", "settled"}
        /\ phase[c] \in Running /\ phase[c] \in Early
    BY <1>1 DEF Phase, Running, Waiting, Early
  <2>4. status'[c].mirror \in 1..Mirrors[wanted[c]] BY <1>0, <1>1, <2>1
  <2> QED BY <1>1, <2>1, <2>2, <2>3, <2>4, QuietStep
<1>2. CASE TryMirror(c)
  <2> DEFINE t == [Initial EXCEPT !.mirror = s.mirror]
  <2>1. t \in Status /\ t.mirror = s.mirror /\ t.bytes = 0 /\ t.state = "downloading"
    BY <1>0 DEF Initial, Status, State, Count
  <2>2. /\ phase[c] = "next" /\ phase' = [phase EXCEPT ![c] = "request"]
        /\ status' = [status EXCEPT ![c] = t]
        /\ UNCHANGED <<impl, wanted, active, last, part, store, cut, kills>>
    BY <1>2 DEF TryMirror, Goes
  <2> HIDE DEF t
  <2> QED BY <1>0, <1>1, <2>1, <2>2
<1>3. CASE Answers(c)
  <2>1. PICK total \in Totals : status' = [status EXCEPT ![c].total = total]
    BY <1>3 DEF Answers
  <2> DEFINE t == [s EXCEPT !.total = total]
  <2>2. t \in Status /\ t.mirror = s.mirror /\ t.bytes = s.bytes /\ t.state = s.state
    BY <1>0 DEF Status, State, Count
  <2>3. /\ phase[c] = "request" /\ phase' = [phase EXCEPT ![c] = "stream"]
        /\ part' = Put(part, f, << >>)
        /\ UNCHANGED <<impl, wanted, active, last, store, cut, kills>>
    BY <1>3 DEF Answers, Goes
  <2>4. status' = [status EXCEPT ![c] = t] BY <1>0, <2>1
  <2>5. s.bytes = 0 /\ s.state = "downloading" BY <1>0, <2>3 DEF Holds, Running
  <2>6. AreFiles(part') /\ f \in DOMAIN part' /\ part'[f] = << >>
    <3>1. << >> \in Seq(Chunk) OBVIOUS
    <3>2. f \in File /\ AreFiles(part) BY <1>0
    <3> HIDE DEF f
    <3>3. /\ AreFiles(Put(part, f, << >>)) /\ f \in DOMAIN Put(part, f, << >>)
          /\ Put(part, f, << >>)[f] = << >>
      BY <3>1, <3>2 DEF Put, AreFiles
    <3> QED BY <2>3, <3>3
  <2>7. t.bytes <= Size /\ part'[f] = [i \in 1..t.bytes |-> <<c, t.mirror>>]
    BY <2>2, <2>5, <2>6
  <2> HIDE DEF t, f
  <2> QED BY <1>0, <1>1, <2>2, <2>3, <2>4, <2>5, <2>6, <2>7
<1>4. CASE Receive(c)
  <2> DEFINE n == s.bytes + 1  x == <<c, s.mirror>>
             t == [s EXCEPT !.bytes = n,
                     !.percent = IF s.total \notin {Unknown, 0} THEN Percent(n, s.total) ELSE @]
  <2>1. /\ phase[c] = "stream" /\ n <= Size /\ status' = [status EXCEPT ![c] = t]
        /\ part' = Put(part, f, Append(part[f], x))
        /\ UNCHANGED <<impl, phase, wanted, active, last, store, cut, kills>>
    BY <1>4 DEF Receive
  <2>2. t \in Status /\ t.mirror = s.mirror /\ t.bytes = n /\ t.state = s.state
    <3>1. n \in Nat BY <1>0 DEF Status, Count
    <3>2. s.total \notin {Unknown, 0} => Percent(n, s.total) \in 0..100
      BY <1>0, <3>1, PercentBounded DEF Status, Count
    <3>3. (IF s.total \notin {Unknown, 0} THEN Percent(n, s.total) ELSE s.percent)
            \in 0..100 \union {Unknown}
      BY <1>0, <3>2 DEF Status
    <3> QED BY <1>0, <3>1, <3>3 DEF Status, Count
  <2>3. /\ f \in DOMAIN part /\ part[f] = [i \in 1..s.bytes |-> x] /\ s.bytes \in Nat
        /\ s.state = "downloading"
    BY <1>0, <2>1 DEF Holds, Status, Count, Running
  <2>4. Append(part[f], x) = [i \in 1..n |-> x] BY <2>3, OneMoreChunk
  <2>5. Append(part[f], x) \in Seq(Chunk)
    <3>1. x \in Chunk BY <1>0 DEF Chunk
    <3>2. part[f] \in Seq(Chunk) BY <1>0, <2>3 DEF AreFiles
    <3> QED BY <3>1, <3>2
  <2>6. AreFiles(part') /\ f \in DOMAIN part' /\ part'[f] = Append(part[f], x)
    <3>1. f \in File /\ AreFiles(part) BY <1>0
    <3> DEFINE new == Append(part[f], x)
    <3>0. new \in Seq(Chunk) BY <2>5
    <3> HIDE DEF f, new
    <3>2. /\ AreFiles(Put(part, f, new)) /\ f \in DOMAIN Put(part, f, new)
          /\ Put(part, f, new)[f] = new
      BY <3>0, <3>1 DEF Put, AreFiles
    <3> QED BY <2>1, <3>2 DEF new
  <2>7. phase' = [phase EXCEPT ![c] = "stream"] BY <1>0, <2>1
  <2>8. t.bytes <= Size /\ part'[f] = [i \in 1..t.bytes |-> <<c, t.mirror>>]
    BY <2>1, <2>2, <2>4, <2>6
  <2> HIDE DEF t, f
  <2> QED BY <1>0, <1>1, <2>1, <2>2, <2>3, <2>6, <2>7, <2>8
<1> QED BY <1>2, <1>3, <1>4

\* The rename: the one step that changes the Store, and what it puts there is what
\* this task fetched.
LEMMA RenameStep ==
  ASSUME Inv, NEW c \in Call, Rename(c)
  PROVE  Inv'
<1> USE DownloadAssumption
<1> DEFINE f == TargetOf(c)  m == status[c].mirror
<1>0. /\ phase[c] = "rename" /\ phase' = [phase EXCEPT ![c] = "renamed"]
      /\ store' = Put(store, f, part[f]) /\ part' = Without(part, f)
      /\ UNCHANGED <<impl, wanted, active, last, status, cut, kills>>
  BY DEF Rename, Goes
<1>1. /\ phase \in [Call -> Phase] /\ c # Nobody /\ active = c
      /\ \A d \in Call : d # c => phase[d] \notin Running
  BY <1>0 DEF Inv, TypeOK, OneDownload, Running
<1>a. \A d \in Call : phase'[d] = IF d = c THEN "renamed" ELSE phase[d] BY <1>0, <1>1
<1>2. /\ f \in File /\ f \in DOMAIN part /\ Fetched(c, m, part[f])
      /\ m \in 1..Mirrors[wanted[c]] /\ AreFiles(part) /\ AreFiles(store)
  BY <1>0, Facts DEF Holds, Inv, TypeOK
<1>3. part[f] \in Seq(Chunk) BY <1>2 DEF AreFiles
<1>4. /\ AreFiles(store') /\ DOMAIN store' = DOMAIN store \union {f} /\ store'[f] = part[f]
      /\ \A g \in DOMAIN store : g # f => store'[g] = store[g]
  <2> DEFINE new == part[f]
  <2>1. new \in Seq(Chunk) /\ f \in File /\ AreFiles(store) BY <1>2, <1>3
  <2> HIDE DEF f, new
  <2>2. /\ AreFiles(Put(store, f, new)) /\ DOMAIN Put(store, f, new) = DOMAIN store \union {f}
        /\ Put(store, f, new)[f] = new
        /\ \A g \in DOMAIN store : g # f => Put(store, f, new)[g] = store[g]
    BY <2>1 DEF Put, AreFiles
  <2> QED BY <1>0, <1>2, <2>2 DEF new
<1>5. AreFiles(part')
  <2> HIDE DEF f
  <2>1. AreFiles(Without(part, f)) BY <1>2, WithoutFile
  <2> QED BY <1>0, <2>1
<1>6. TypeOK'
  <2>1. "renamed" \in Phase BY DEF Phase, Running
  <2> QED BY <1>0, <1>4, <1>5, <2>1 DEF Inv, TypeOK
<1>7. OneDownload' BY <1>0, <1>1, <1>a DEF OneDownload, Running
<1>8. FinalIsWhole'
  <2> SUFFICES ASSUME NEW g \in DOMAIN store'
               PROVE  \E d \in Call : TargetOf(d) = g
                         /\ \E k \in 1..Mirrors[wanted[d]] : Fetched(d, k, store'[g])
    BY <1>0 DEF FinalIsWhole, TargetOf, Fetched
  <2>1. CASE g = f BY <1>2, <1>4, <2>1
  <2>2. CASE g # f
    <3>1. g \in DOMAIN store /\ store'[g] = store[g] BY <1>4, <2>2
    <3> QED BY <3>1 DEF Inv, FinalIsWhole
  <2> QED BY <2>1, <2>2
<1>9. Content'
  <2> SUFFICES ASSUME NEW d \in Call
               PROVE  (status[d].mirror \in 1..Mirrors[wanted[d]] /\ Holds(d, phase[d]))'
    BY DEF Content, Holds
  <2>1. phase'[d] \notin {"request", "stream", "rename"} BY <1>1, <1>a DEF Running
  <2>2. status[d].mirror \in 1..Mirrors[wanted[d]] BY Facts
  <2>3. phase'[d] \in Running => status[d].state = "downloading"
    BY <1>0, <1>1, <1>a, Facts DEF Holds, Running
  <2> QED BY <1>0, <2>1, <2>2, <2>3 DEF Holds
<1>10. Truth'
  <2> SUFFICES ASSUME NEW d \in Call
               PROVE  (/\ phase[d] \in Early => Absent(d)
                       /\ phase[d] = "renamed" => Stored(d)
                       /\ phase[d] = "settled" => Outcome(d))'
    BY DEF Truth, Absent, Outcome, Stored
  <2>1. CASE d = c
    <3>1. Stored(c)' BY <1>0, <1>2, <1>4 DEF Stored, TargetOf, Fetched
    <3>2. phase'[c] = "renamed" /\ "renamed" \notin Early BY <1>a DEF Early, Waiting
    <3> QED BY <2>1, <3>1, <3>2 DEF Stored
  <2>2. CASE d # c
    <3>1. phase'[d] = phase[d] /\ phase[d] \notin {"renamed", "settled"}
      BY <1>1, <1>a, <2>2 DEF Running
    <3>2. phase[d] \in Early => Absent(d) BY Facts
    <3>3. Absent(d) => Absent(d)'
      <4> SUFFICES ASSUME Absent(d), NEW g \in DOMAIN store', NEW i \in DOMAIN store'[g]
                   PROVE  store'[g][i][1] # d
        BY DEF Absent
      <4>1. CASE g = f BY <1>2, <1>4, <2>2, <4>1 DEF Fetched, Image, Piece
      <4>2. CASE g # f BY <1>4, <4>2 DEF Absent
      <4> QED BY <4>1, <4>2
    <3> QED BY <3>1, <3>2, <3>3
  <2> QED BY <2>1, <2>2
<1>11. LastIsTrue' BY <1>0, <1>1 DEF LastIsTrue
<1> QED BY <1>6, <1>7, <1>8, <1>9, <1>10, <1>11 DEF Inv

\* The end of a task.
LEMMA EndSteps ==
  ASSUME Inv, NEW c \in Call, NextMirror(c) \/ GiveUp(c) \/ Complete(c) \/ Finish(c)
  PROVE  Inv'
<1> USE DownloadAssumption
<1>0. /\ phase \in [Call -> Phase] /\ status \in [Call -> Status] /\ AreFiles(part)
      /\ status[c].mirror \in 1..Mirrors[wanted[c]] /\ Mirrors[wanted[c]] \in Nat \ {0}
      /\ status[c] \in Status
  BY Facts
<1>1. CASE NextMirror(c) /\ status[c].mirror < Mirrors[wanted[c]]
  <2> DEFINE t == [status[c] EXCEPT !.mirror = @ + 1]
  <2>1. /\ phase[c] = "clean" /\ phase' = [phase EXCEPT ![c] = "next"]
        /\ status' = [status EXCEPT ![c] = t] /\ RemovePart(c)
        /\ UNCHANGED <<impl, wanted, active, last, store, cut, kills>>
    BY <1>0, <1>1 DEF NextMirror, Goes
  <2>2. t \in Status /\ t.mirror \in 1..Mirrors[wanted[c]] /\ t.state = status[c].state
    BY <1>0, <1>1 DEF Status
  <2>3. AreFiles(part') BY <2>1, RemovePartKeeps DEF Inv
  <2> HIDE DEF t
  <2>4. /\ status' \in [Call -> Status] /\ status'[c] = t
        /\ \A d \in Call \ {c} : status'[d] = status[d]
    BY <1>0, <2>1, <2>2
  <2>5. status[c].state = "downloading" BY <2>1, Facts DEF Holds, Running
  <2>6. Holds(c, "next")' BY <2>2, <2>4, <2>5 DEF Holds
  <2>7. /\ "next" \in Phase /\ "next" \in Running /\ phase[c] \in Running /\ phase[c] \in Early
    BY <2>1 DEF Phase, Running, Early
  <2> QED BY <2>1, <2>2, <2>3, <2>4, <2>6, <2>7, QuietStep
<1>2. CASE NextMirror(c) /\ ~(status[c].mirror < Mirrors[wanted[c]])
  <2>1. Settles(c, "clean", "failed") /\ RemovePart(c) BY <1>2 DEF NextMirror
  <2>2. AreFiles(part') BY <2>1, RemovePartKeeps DEF Inv
  <2>3. phase[c] = "clean" BY <2>1 DEF Settles, Goes
  <2>4. Absent(c) BY <2>3, Facts DEF Early
  <2>5. "clean" \in Running BY DEF Running
  <2> QED BY <2>1, <2>2, <2>4, <2>5, SettlesStep
<1>3. CASE GiveUp(c)
  <2>1. Settles(c, "spoilt", "failed") /\ part' = part BY <1>3 DEF GiveUp
  <2>2. phase[c] = "spoilt" BY <2>1 DEF Settles, Goes
  <2>3. Absent(c) BY <2>2, Facts DEF Early
  <2>4. "spoilt" \in Running /\ AreFiles(part') BY <1>0, <2>1 DEF Running
  <2> QED BY <2>1, <2>3, <2>4, SettlesStep
<1>4. CASE Complete(c)
  <2>1. Settles(c, "renamed", "completed") /\ part' = part BY <1>4 DEF Complete
  <2>2. phase[c] = "renamed" BY <2>1 DEF Settles, Goes
  <2>3. Stored(c) BY <2>2, Facts
  <2>4. "renamed" \in Running /\ AreFiles(part') BY <1>0, <2>1 DEF Running
  <2> QED BY <2>1, <2>3, <2>4, SettlesStep
<1>5. CASE Finish(c)
  <2>1. /\ phase[c] = "settled" /\ phase' = [phase EXCEPT ![c] = "over"]
        /\ active' = Nobody /\ last' = c
        /\ UNCHANGED <<impl, wanted, status, part, store, cut, kills>>
    BY <1>5 DEF Finish, Goes
  <2>2. Outcome(c) BY <2>1, Facts
  <2>3. Outcome(c)' BY <2>1, <2>2 DEF Outcome, Stored, Absent, TargetOf, Fetched
  <2>4. "settled" \in Running /\ AreFiles(part') BY <1>0, <2>1 DEF Running
  <2> QED BY <1>0, <2>1, <2>3, <2>4, ReleaseStep
<1> QED BY <1>1, <1>2, <1>3, <1>4, <1>5

\* The server dies: the files stay as they are, and nothing runs.
LEMMA DieStep == Inv /\ Die => Inv'
<1> SUFFICES ASSUME Inv, Die PROVE Inv' OBVIOUS
<1> USE DownloadAssumption
<1>1. /\ phase' = [d \in Call |-> IF phase[d] = "idle" THEN "idle" ELSE "over"]
      /\ active' = Nobody /\ last' = Nobody /\ kills' \in 0..MaxKills
      /\ UNCHANGED <<impl, wanted, status, part, store, cut>>
  BY DEF Die, Inv, TypeOK
<1>2. TypeOK' BY <1>1 DEF Inv, TypeOK, Phase, Waiting
<1>3. OneDownload' BY <1>1 DEF OneDownload, Running
<1>4. FinalIsWhole'
  <2>1. FinalIsWhole /\ UNCHANGED <<impl, wanted, store, cut>> BY <1>1 DEF Inv
  <2> QED BY <2>1 DEF FinalIsWhole, TargetOf, Fetched
<1>5. Content' BY <1>1 DEF Inv, Content, Running
<1>6. Truth'
  <2> SUFFICES ASSUME NEW d \in Call
               PROVE  (/\ phase[d] \in Early => Absent(d)
                       /\ phase[d] = "renamed" => Stored(d)
                       /\ phase[d] = "settled" => Outcome(d))'
    BY DEF Truth, Absent, Outcome, Stored
  <2>1. phase'[d] \in Early => phase[d] \in Early BY <1>1 DEF Early, Waiting
  <2>2. phase[d] \in Early => Absent(d) BY Facts
  <2>3. phase'[d] \notin {"renamed", "settled"} BY <1>1
  <2> QED BY <1>1, <2>1, <2>2, <2>3 DEF Absent
<1>7. LastIsTrue' BY <1>1 DEF LastIsTrue
<1> QED BY <1>2, <1>3, <1>4, <1>5, <1>6, <1>7 DEF Inv

-----------------------------------------------------------------------------
\* The theorems.

\* The invariant holds in every state of every behaviour.
LEMMA Invariance == Spec => []Inv
<1>1. Inv /\ [Next]_vars => Inv'
  <2> SUFFICES ASSUME Inv, [Next]_vars PROVE Inv' OBVIOUS
  <2>1. CASE UNCHANGED vars
    <3>1. UNCHANGED <<impl, phase, wanted, active, last, status, part, store, cut, kills>>
      BY <2>1 DEF vars
    <3>2. TypeOK' BY <3>1 DEF Inv, TypeOK, AreFiles
    <3>3. OneDownload' BY <3>1 DEF Inv, OneDownload
    <3>4. Content' BY <3>1 DEF Inv, Content, TargetOf, Fetched
    <3>5. FinalIsWhole' BY <3>1 DEF Inv, FinalIsWhole, TargetOf, Fetched
    <3>6. Truth' BY <3>1 DEF Inv, Truth, Outcome, Stored, Absent, TargetOf, Fetched
    <3>7. LastIsTrue' BY <3>1 DEF Inv, LastIsTrue, Outcome, Stored, Absent, TargetOf, Fetched
    <3> QED BY <3>2, <3>3, <3>4, <3>5, <3>6, <3>7 DEF Inv
  <2>2. ASSUME NEW c \in Call, Begin(c) \/ Work(c) \/ Mirror(c) PROVE Inv'
    <3>1. CASE Check(c) \/ Refused(c) BY <3>1, CallSteps
    <3>2. CASE Claim(c) BY <3>2, ClaimStep
    <3>3. CASE Sweep(c) \/ BodyEnds(c) \/ FetchFails(c) \/ Stalls(c) \/ RenameFails(c)
      BY <3>3, TaskSteps
    <3>7. CASE EndsUnwritten(c) BY <3>7, UnwrittenStep
    <3>4. CASE TryMirror(c) \/ Answers(c) \/ Receive(c) BY <3>4, ProgressSteps
    <3>5. CASE Rename(c) BY <3>5, RenameStep
    <3>6. CASE NextMirror(c) \/ GiveUp(c) \/ Complete(c) \/ Finish(c) BY <3>6, EndSteps
    <3> QED BY <2>2, <3>1, <3>2, <3>3, <3>4, <3>5, <3>6, <3>7 DEF Begin, Work, Mirror
  <2>3. CASE Die BY <2>3, DieStep
  <2> QED BY <2>1, <2>2, <2>3 DEF Next
<1> QED BY <1>1, InitInv, PTL DEF Spec

\* Every variable keeps its type, and no percentage leaves 0..100, whatever a
\* mirror says of its length.
THEOREM TypeCorrect == Spec => []TypeOK
<1>1. Inv => TypeOK BY DEF Inv
<1> QED BY <1>1, Invariance, PTL

\* One task at a time, and the slot is held exactly while it runs.
THEOREM SlotIsExclusive == Spec => []OneDownload
<1>1. Inv => OneDownload BY DEF Inv
<1> QED BY <1>1, Invariance, PTL

\* No mixed file ever has a final name, and no partial one but that of a TypeScript
\* task whose last write failed under end(), through failures of mirrors, of
\* removals and of renames, and through deaths of the server (in Rust: no partial
\* file at all).
THEOREM FinalFilesAreWhole == Spec => []FinalIsWhole
<1>1. Inv => FinalIsWhole BY DEF Inv
<1> QED BY <1>1, Invariance, PTL

\* What get_download reports of the last download is true of the Store, but for
\* that one write.
THEOREM ReportsAreTrue == Spec => []ReportIsTrue
<1>1. Inv => ReportIsTrue
  <2> SUFFICES ASSUME Inv, Reported # Nobody
               PROVE  \/ status[Reported].state = "downloading" /\ active = Reported
                      \/ Outcome(Reported)
    BY DEF ReportIsTrue
  <2>1. CASE active = Nobody BY <2>1 DEF Inv, LastIsTrue, Reported
  <2>2. CASE active # Nobody
    <3>1. active \in Call /\ Reported = active BY <2>2 DEF Inv, TypeOK, Reported
    <3>2. phase[active] \in Running BY <3>1 DEF Inv, OneDownload
    <3>3. CASE phase[active] = "settled" BY <3>1, <3>3 DEF Inv, Truth
    <3>4. CASE phase[active] # "settled" BY <3>1, <3>2, <3>4 DEF Inv, Content
    <3> QED BY <3>3, <3>4
  <2> QED BY <2>1, <2>2
<1> QED BY <1>1, Invariance, PTL

-----------------------------------------------------------------------------
\* The progress that get_download reports.

\* A mirror that has not answered has no total and no percentage; there is no
\* percentage without a total.
ProgressOf(c) ==
  /\ phase[c] = "request" => status[c].total = Unknown /\ status[c].percent = Unknown
  /\ status[c].percent # Unknown => status[c].total # Unknown
Progress == \A c \in Call : ProgressOf(c)

\* The progress of the calls that a step leaves alone.
LEMMA OthersProgress ==
  ASSUME Inv, Progress, NEW c \in Call, NEW q,
         phase' = [phase EXCEPT ![c] = q],
         \A d \in Call \ {c} : status'[d] = status[d],
         ProgressOf(c)'
  PROVE  Progress'
<1>1. \A d \in Call \ {c} : phase'[d] = phase[d] BY DEF Inv, TypeOK
<1> QED BY <1>1 DEF Progress, ProgressOf

\* A step that leaves the status and does not send a request.
LEMMA StatusUntouched ==
  ASSUME Inv, Progress, NEW c \in Call, NEW q, q # "request",
         phase' = [phase EXCEPT ![c] = q], status' = status
  PROVE  Progress'
<1>1. phase'[c] = q BY DEF Inv, TypeOK
<1>2. ProgressOf(c)' BY <1>1 DEF Progress, ProgressOf
<1> QED BY <1>2, OthersProgress

\* The steps of a mirror keep it, whatever length the mirror claims.
LEMMA MirrorProgress ==
  ASSUME Inv, Progress, NEW c \in Call, TryMirror(c) \/ Answers(c) \/ Receive(c)
  PROVE  Progress'
<1>0. status \in [Call -> Status] /\ phase \in [Call -> Phase] BY DEF Inv, TypeOK
<1>1. CASE TryMirror(c)
  <2>1. status'[c].total = Unknown /\ status'[c].percent = Unknown
    BY <1>0, <1>1 DEF TryMirror, Initial
  <2>2. phase' = [phase EXCEPT ![c] = "request"]
    BY <1>1 DEF TryMirror, Goes
  <2>3. \A d \in Call \ {c} : status'[d] = status[d] BY <1>0, <1>1 DEF TryMirror
  <2>4. ProgressOf(c)' BY <2>1 DEF ProgressOf
  <2> QED BY <2>2, <2>3, <2>4, OthersProgress
<1>2. CASE Answers(c)
  <2>1. phase[c] = "request" /\ phase' = [phase EXCEPT ![c] = "stream"]
    BY <1>2 DEF Answers, Goes
  <2>2. PICK t \in Totals : status' = [status EXCEPT ![c].total = t]
    BY <1>2 DEF Answers
  <2>3. status[c].percent = Unknown BY <2>1 DEF Progress, ProgressOf
  <2>4. status'[c].percent = Unknown BY <1>0, <2>2, <2>3 DEF Status
  <2>5. phase'[c] = "stream" BY <1>0, <2>1
  <2>6. ProgressOf(c)' BY <2>4, <2>5 DEF ProgressOf
  <2>7. \A d \in Call \ {c} : status'[d] = status[d] BY <1>0, <2>2
  <2> QED BY <2>1, <2>6, <2>7, OthersProgress
<1>3. CASE Receive(c)
  <2> DEFINE s == status[c]
  <2>1. phase[c] = "stream" /\ phase' = [phase EXCEPT ![c] = "stream"]
    BY <1>0, <1>3 DEF Receive
  <2>2. \A d \in Call \ {c} : status'[d] = status[d] BY <1>0, <1>3 DEF Receive
  <2>3. status'[c].total = s.total
    BY <1>0, <1>3 DEF Receive, Status
  <2>4. s.total = Unknown => status'[c].percent = s.percent
    BY <1>0, <1>3 DEF Receive, Status
  <2>5. s.percent # Unknown => s.total # Unknown BY DEF Progress, ProgressOf
  <2>6. phase'[c] = "stream" BY <1>0, <2>1
  <2>7. ProgressOf(c)' BY <2>3, <2>4, <2>5, <2>6 DEF ProgressOf
  <2> QED BY <2>1, <2>2, <2>7, OthersProgress
<1> QED BY <1>1, <1>2, <1>3

\* The end of a task keeps it: 100 percent only of a known total.
LEMMA SettlesProgress ==
  ASSUME Inv, Progress, NEW c \in Call, NEW from, NEW state, Settles(c, from, state)
  PROVE  Progress'
<1>0. status \in [Call -> Status] /\ phase \in [Call -> Phase] BY DEF Inv, TypeOK
<1>1. PICK q \in {"over", "settled"} : phase' = [phase EXCEPT ![c] = q]
  BY DEF Settles, Goes
<1>2. \A d \in Call \ {c} : status'[d] = status[d] BY <1>0 DEF Settles
<1>3. status'[c].total = status[c].total BY <1>0 DEF Settles, Status
<1>4. status[c].total = Unknown => status'[c].percent = status[c].percent
  BY <1>0 DEF Settles, Status
<1>5. status[c].percent # Unknown => status[c].total # Unknown BY DEF Progress, ProgressOf
<1>6. phase'[c] # "request" BY <1>0, <1>1
<1>7. ProgressOf(c)' BY <1>3, <1>4, <1>5, <1>6 DEF ProgressOf
<1> QED BY <1>1, <1>2, <1>7, OthersProgress

\* A failed fetch: the next mirror keeps the progress until it is tried.
LEMMA NextMirrorProgress ==
  ASSUME Inv, Progress, NEW c \in Call, NextMirror(c)
  PROVE  Progress'
<1>0. status \in [Call -> Status] /\ phase \in [Call -> Phase] BY DEF Inv, TypeOK
<1>1. CASE Settles(c, "clean", "failed") BY <1>1, SettlesProgress
<1>2. CASE /\ phase' = [phase EXCEPT ![c] = "next"]
           /\ status' = [status EXCEPT ![c].mirror = @ + 1]
  <2>1. status'[c].total = status[c].total /\ status'[c].percent = status[c].percent
    BY <1>0, <1>2 DEF Status
  <2>2. \A d \in Call \ {c} : status'[d] = status[d] BY <1>0, <1>2
  <2>3. phase'[c] # "request" BY <1>0, <1>2
  <2>4. status[c].percent # Unknown => status[c].total # Unknown BY DEF Progress, ProgressOf
  <2>5. ProgressOf(c)' BY <2>1, <2>3, <2>4 DEF ProgressOf
  <2> QED BY <1>2, <2>2, <2>5, OthersProgress
<1> QED BY <1>1, <1>2 DEF NextMirror, Goes

\* A claim begins with no progress.
LEMMA ClaimProgress ==
  ASSUME Inv, Progress, NEW c \in Call, Claim(c)
  PROVE  Progress'
<1>0. status \in [Call -> Status] /\ phase \in [Call -> Phase] BY DEF Inv, TypeOK
<1>1. phase' = [phase EXCEPT ![c] = "sweep"] BY DEF Claim, Goes
<1>2. \A d \in Call \ {c} : status'[d] = status[d] BY <1>0 DEF Claim
<1>3. status'[c].percent = Unknown BY <1>0 DEF Claim, Initial
<1>4. phase'[c] # "request" BY <1>0, <1>1
<1>5. ProgressOf(c)' BY <1>3, <1>4 DEF ProgressOf
<1> QED BY <1>1, <1>2, <1>5, OthersProgress

\* Every step keeps it.
LEMMA ProgressStep == Inv /\ Progress /\ [Next]_vars => Progress'
<1> SUFFICES ASSUME Inv, Progress, [Next]_vars PROVE Progress' OBVIOUS
<1>1. CASE UNCHANGED vars BY <1>1 DEF vars, Progress, ProgressOf
<1>2. ASSUME NEW c \in Call, Begin(c) \/ Work(c) \/ Mirror(c) PROVE Progress'
  <2>1. CASE Check(c)
    BY <2>1, StatusUntouched DEF Check, Goes
  <2>2. CASE Refused(c)
    BY <2>2, StatusUntouched DEF Refused
  <2>3. CASE Sweep(c) \/ BodyEnds(c) \/ EndsUnwritten(c) \/ RenameFails(c) \/ Rename(c) \/ Finish(c)
    <3>1. PICK q \in {"next", "rename", "spoilt", "renamed", "over"} :
            phase' = [phase EXCEPT ![c] = q]
      BY <2>3 DEF Sweep, BodyEnds, EndsUnwritten, RenameFails, Rename, Finish, Goes
    <3>2. status' = status BY <2>3 DEF Sweep, BodyEnds, EndsUnwritten, RenameFails, Rename, Finish
    <3> QED BY <3>1, <3>2, StatusUntouched
  <2>4. CASE FetchFails(c) \/ Stalls(c)
    <3>1. phase' = [phase EXCEPT ![c] = "clean"] /\ status' = status
      BY <2>4 DEF FetchFails, Stalls
    <3> QED BY <3>1, StatusUntouched
  <2>5. CASE TryMirror(c) \/ Answers(c) \/ Receive(c) BY <2>5, MirrorProgress
  <2>6. CASE NextMirror(c) BY <2>6, NextMirrorProgress
  <2>7. CASE GiveUp(c) \/ Complete(c)
    BY <2>7, SettlesProgress DEF GiveUp, Complete
  <2>8. CASE Claim(c) BY <2>8, ClaimProgress
  <2> QED BY <1>2, <2>1, <2>2, <2>3, <2>4, <2>5, <2>6, <2>7, <2>8 DEF Begin, Work, Mirror
<1>3. CASE Die
  <2>1. status' = status /\ \A c \in Call : phase'[c] # "request" BY <1>3 DEF Die
  <2> QED BY <2>1 DEF Progress, ProgressOf
<1> QED BY <1>1, <1>2, <1>3 DEF Next

\* What get_download reports is in its types and bounds, and its count, total and
\* percentage are those of the mirror it names and of the .part file as it is:
\* nothing survives from a mirror that failed (run_download, runDownload).
THEOREM StatusIsSound == Spec => []StatusHolds
<1>1. Init => Progress
  BY DownloadAssumption DEF Init, Progress, ProgressOf, Initial
<1>2. Inv /\ Progress => StatusHolds
  <2> SUFFICES ASSUME Inv, Progress PROVE ProgressIsThisMirror
    BY DEF StatusHolds, Inv
  <2> SUFFICES ASSUME NEW c \in Call
               PROVE  LET s == status[c] IN
                      /\ phase[c] = "request" =>
                           s.bytes = 0 /\ s.total = Unknown /\ s.percent = Unknown
                      /\ phase[c] = "stream" =>
                           part[TargetOf(c)] = [i \in 1..s.bytes |-> <<c, s.mirror>>]
                      /\ s.percent # Unknown => s.total # Unknown
    BY DEF ProgressIsThisMirror
  <2>1. ProgressOf(c) BY DEF Progress
  <2> QED BY <2>1 DEF Inv, Content, ProgressOf
<1> QED BY <1>1, <1>2, ProgressStep, InitInv, Invariance, PTL DEF Spec
=============================================================================
