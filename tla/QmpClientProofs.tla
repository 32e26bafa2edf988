--------------------------- MODULE QmpClientProofs ---------------------------
(***************************************************************************)
(* Proofs about the QMP client, for any number of callers and calls, any     *)
(* aborted tasks and any capacity of the socket and of its buffers: the run   *)
(* of QmpClient checks it for two callers.                                   *)
(***************************************************************************)
EXTENDS QmpClient, TLAPS

-----------------------------------------------------------------------------
\* The inductive invariant.

\* A call that has an id of its own: it is about to file its request, or it has,
\* and has not ended.
Active(c) == call[c].pc \in {"entered", "filed", "waiting", "aborted"}

\* Ids come from a counter that is ahead of all of them.
IdsTaken == \A c \in Caller : call[c].id < nextId

\* Two calls that go on never share an id.
IdsDiffer ==
    \A c, d \in Caller : Active(c) /\ Active(d) /\ call[c].id = call[d].id => c = d

\* A request or a reply on the way is that of the call that goes on under its id.
Addressed(m) ==
    /\ m.id < nextId
    /\ \A c \in Caller : Active(c) /\ call[c].id = m.id => m.to = MyCall(c)
WireAddressed == \A i \in 1..Len(wire) : Addressed(wire[i])
InboxAddressed ==
    \A i \in 1..Len(inbox) :
        inbox[i].kind = "reply" => inbox[i].to \in Caller \X Nat /\ Addressed(inbox[i])

\* Nobody has heard anything for a request that is not filed yet.
Unheard == \A c \in Caller : At(c, "entered") => call[c].got = NoCall /\ ~call[c].dropped

Table == FiledWhileWaiting /\ Unheard
Routing == IdsTaken /\ IdsDiffer /\ WireAddressed /\ InboxAddressed
Inv == TypeOK /\ Table /\ Routing /\ RightReply

\* The first and the rest of a queue, and one more.
LEMMA TailSeq ==
    ASSUME NEW T, NEW s \in Seq(T), s # <<>>
    PROVE  /\ Tail(s) \in Seq(T) /\ Head(s) \in T /\ Head(s) = s[1]
           /\ Len(s) \in Nat /\ Len(s) >= 1
           /\ Len(Tail(s)) = Len(s) - 1
           /\ \A i \in 1..Len(Tail(s)) : Tail(s)[i] = s[i + 1] /\ i + 1 \in 1..Len(s)
OBVIOUS

LEMMA AppendSeq ==
    ASSUME NEW T, NEW s \in Seq(T), NEW x \in T
    PROVE  /\ Append(s, x) \in Seq(T)
           /\ Len(Append(s, x)) = Len(s) + 1
           /\ \A i \in 1..Len(Append(s, x)) :
                 Append(s, x)[i] = x \/ (i \in 1..Len(s) /\ Append(s, x)[i] = s[i])
OBVIOUS

\* Taking one out of a queue leaves a queue.
LEMMA RemoveAtSeq ==
    ASSUME NEW T, NEW s \in Seq(T), NEW i \in DOMAIN s
    PROVE  RemoveAt(s, i) \in Seq(T)
BY DEF RemoveAt

\* It holds at the start: nobody calls, nothing is filed, nothing is on the way.
LEMMA InitInv == Init => Inv
<1> SUFFICES ASSUME Init PROVE Inv OBVIOUS
<1>1. TypeOK
    <2>1. call \in [Caller -> CallState] BY DEF Init, CallState, Outcome
    <2>2. <<>> \in Seq(Caller \cup {Closer}) /\ <<>> \in Seq(Request) /\ <<>> \in Seq(Message)
        OBVIOUS
    <2> QED BY <2>1, <2>2 DEF Init, TypeOK
<1>2. Table BY DEF Init, Table, FiledWhileWaiting, Unheard, At
<1>3. Routing
    BY DEF Init, Routing, IdsTaken, IdsDiffer, WireAddressed, InboxAddressed, Active
<1>4. RightReply BY DEF Init, RightReply
<1> QED BY <1>1, <1>2, <1>3, <1>4 DEF Inv

-----------------------------------------------------------------------------
\* Steps that move one call or none.

\* The routing stands when one call moves on, keeping its id, and does not come
\* to life by it, while the lines on the way stay as they are.
LEMMA RoutingStays ==
    ASSUME Inv, NEW c \in Caller,
           \A d \in Caller \ {c} : call'[d] = call[d],
           call'[c].id = call[c].id,
           Active(c)' => Active(c) /\ call'[c].n = call[c].n,
           UNCHANGED <<nextId, inbox, wire>>
    PROVE  Routing'
<1>1. \A d \in Caller : call'[d].id = call[d].id
    OBVIOUS
<1>2. \A d \in Caller : Active(d)' => Active(d) /\ MyCall(d)' = MyCall(d)
    BY DEF Active, MyCall
<1>3. IdsTaken' BY <1>1 DEF Inv, Routing, IdsTaken
<1>4. IdsDiffer' BY <1>1, <1>2 DEF Inv, Routing, IdsDiffer
<1>5. \A m : Addressed(m) => Addressed(m)' BY <1>1, <1>2 DEF Addressed
<1>6. WireAddressed' BY <1>5 DEF Inv, Routing, WireAddressed
<1>7. InboxAddressed' BY <1>5 DEF Inv, Routing, InboxAddressed
<1> QED BY <1>3, <1>4, <1>6, <1>7 DEF Routing

\* The other calls' entries when one call moves on and at most its own entry
\* comes or goes.
LEMMA TableStays ==
    ASSUME Inv, NEW c \in Caller,
           \A d \in Caller \ {c} : call'[d] = call[d],
           pending' \subseteq Nat \X Caller,
           \A e \in Nat \X Caller : e[2] # c => (e \in pending' <=> e \in pending),
           \A e \in pending' : e[2] = c =>
               call'[c].id = e[1] /\ call'[c].pc \in {"filed", "waiting", "aborted"},
           call'[c].pc \in {"filed", "waiting"} =>
               (<<call'[c].id, c>> \in pending' <=>
                    call'[c].got = NoCall /\ ~call'[c].dropped),
           call'[c].pc = "entered" => call'[c].got = NoCall /\ ~call'[c].dropped
    PROVE  Table'
<1>1. ASSUME NEW e \in pending'
      PROVE  call'[e[2]].id = e[1] /\ call'[e[2]].pc \in {"filed", "waiting", "aborted"}
    <2>1. e \in Nat \X Caller BY <1>1
    <2>2. CASE e[2] = c BY <1>1, <2>2
    <2>3. CASE e[2] # c
        <3>1. e \in pending /\ e[2] \in Caller \ {c} BY <1>1, <2>1, <2>3
        <3> QED BY <3>1 DEF Inv, Table, FiledWhileWaiting
    <2> QED BY <2>2, <2>3
<1>2. ASSUME NEW d \in Caller, call'[d].pc \in {"filed", "waiting"}
      PROVE  <<call'[d].id, d>> \in pending' <=> call'[d].got = NoCall /\ ~call'[d].dropped
    <2>1. CASE d = c BY <1>2, <2>1
    <2>2. CASE d # c
        <3>1. call'[d] = call[d] BY <2>2
        <3>2. call[d].id \in Nat BY DEF Inv, TypeOK, CallState
        <3>3. <<call[d].id, d>> \in pending' <=> <<call[d].id, d>> \in pending BY <2>2, <3>2
        <3> QED BY <1>2, <3>1, <3>3 DEF Inv, Table, FiledWhileWaiting
    <2> QED BY <2>1, <2>2
<1>3. Unheard' BY DEF Inv, Table, Unheard, At
<1>4. FiledWhileWaiting' BY <1>1, <1>2 DEF FiledWhileWaiting
<1> QED BY <1>3, <1>4 DEF Table

\* What the others have heard is theirs, when one call moves on.
LEMMA ReplyStays ==
    ASSUME Inv, NEW c \in Caller,
           \A d \in Caller \ {c} : call'[d] = call[d],
           call'[c].got = NoCall \/ (call'[c].got = call[c].got /\ call'[c].n = call[c].n)
    PROVE  RightReply'
BY DEF Inv, RightReply, MyCall

\* No entry of the table is that of a call that is not filed.
LEMMA NotFiled ==
    ASSUME Inv, NEW c \in Caller, call[c].pc \notin {"filed", "waiting", "aborted"}
    PROVE  \A e \in pending : e[2] # c
BY DEF Inv, Table, FiledWhileWaiting

\* The rest of the state has its types.
Rest ==
    /\ lock \in Seq(Caller \cup {Closer})
    /\ wire \in Seq(Request) /\ inbox \in Seq(Message)
    /\ greeting \in {"awaited", "sent", "lost"}
    /\ reader \in {"runs", "failing", "ending", "over"}
    /\ closer \in {"idle", "queued", "shut", "failing", "aborting", "over"}
    /\ closed \in BOOLEAN /\ exited \in BOOLEAN /\ shut \in BOOLEAN
    /\ qemu \in {"silent", "greeted", "gone"}

\* The calls stay as they are, and so do the lines on the way.
LEMMA CallsStay ==
    ASSUME Inv, UNCHANGED <<call, pending, nextId, wire, inbox>>, Rest'
    PROVE  Inv'
<1>1. TypeOK' BY DEF Inv, TypeOK, Rest
<1>2. Table' BY DEF Inv, Table, FiledWhileWaiting, Unheard, At
<1>3. Routing'
    BY DEF Inv, Routing, IdsTaken, IdsDiffer, WireAddressed, InboxAddressed, Addressed,
           Active, MyCall
<1>4. RightReply' BY DEF Inv, RightReply, MyCall
<1> QED BY <1>1, <1>2, <1>3, <1>4 DEF Inv

-----------------------------------------------------------------------------
\* The steps of a caller.

\* A call that is not filed begins to wait for the greeting, or ends.
LEMMA GreetingSteps ==
    ASSUME Inv, Negotiate \/ NotGreeted
    PROVE  Inv'
<1> USE NegotiatorAssumption
<1> DEFINE c == Negotiator
<1>0. c \in Caller /\ call \in [Caller -> CallState] BY DEF Inv, TypeOK
<1>1. PICK pc \in {"greeting", "idle"}, out \in Outcome :
        call' = [call EXCEPT ![c].pc = pc, ![c].out = out]
    <2>1. CASE Negotiate
        <3>1. call[c].out \in Outcome BY <1>0 DEF CallState
        <3>2. call' = [call EXCEPT ![c].pc = "greeting", ![c].out = call[c].out]
            BY <1>0, <2>1 DEF Negotiate, CallState
        <3> QED BY <3>1, <3>2
    <2>2. CASE NotGreeted
        <3>1. "closed" \in Outcome /\ "timeout" \in Outcome BY DEF Outcome
        <3> QED BY <2>2, <3>1 DEF NotGreeted, Ends
    <2> QED BY <2>1, <2>2
<1>2. /\ UNCHANGED <<pending, nextId, lock, wire, inbox, session, qemu>>
      /\ call[c].pc \in {"idle", "greeting"}
    BY DEF Negotiate, NotGreeted, At
<1>3. /\ call' \in [Caller -> CallState]
      /\ \A d \in Caller \ {c} : call'[d] = call[d]
      /\ call'[c].pc = pc /\ call'[c].id = call[c].id /\ call'[c].n = call[c].n
      /\ call'[c].got = call[c].got
    BY <1>0, <1>1 DEF CallState
<1>4. TypeOK' BY <1>2, <1>3 DEF Inv, TypeOK, session
<1>5. \A e \in pending : e[2] # c BY <1>0, <1>2, NotFiled
<1>5a. pending \subseteq Nat \X Caller BY DEF Inv, TypeOK
<1>6. Table' BY <1>0, <1>2, <1>3, <1>5, <1>5a, TableStays
<1>7. Routing'
    <2>1. ~Active(c)' BY <1>3 DEF Active
    <2> QED BY <1>0, <1>2, <1>3, <2>1, RoutingStays
<1>8. RightReply' BY <1>0, <1>3, ReplyStays
<1> QED BY <1>4, <1>6, <1>7, <1>8 DEF Inv

\* A call takes an id that nobody has, and no line on the way carries.
LEMMA EnterStep ==
    ASSUME Inv, NEW c \in Caller, Enter(c)
    PROVE  Inv'
<1> USE NoCallAssumption
<1>0. call \in [Caller -> CallState] /\ nextId \in Nat /\ pending \subseteq Nat \X Caller
    BY DEF Inv, TypeOK
<1>1. /\ call[c].pc \in {"idle", "greeting"}
      /\ UNCHANGED <<pending, lock, wire, inbox, session, qemu>>
    BY DEF Enter, At
<1>2. \A e \in pending : e[2] # c BY <1>1, NotFiled
<1>3. CASE closed
    <2>1. /\ call' = [call EXCEPT ![c].pc = "idle", ![c].n = @ + 1, ![c].out = "closed",
                                  ![c].got = NoCall]
          /\ nextId' = nextId
        BY <1>3 DEF Enter
    <2>2. /\ call' \in [Caller -> CallState]
          /\ \A d \in Caller \ {c} : call'[d] = call[d]
          /\ call'[c].pc = "idle" /\ call'[c].id = call[c].id /\ call'[c].got = NoCall
        BY <1>0, <2>1 DEF CallState, Outcome
    <2>3. TypeOK' BY <1>1, <2>1, <2>2 DEF Inv, TypeOK, session
    <2>4. Table' BY <1>0, <1>1, <1>2, <2>2, TableStays
    <2>5. Routing'
        <3>1. ~Active(c)' BY <2>2 DEF Active
        <3> QED BY <1>1, <2>1, <2>2, <3>1, RoutingStays
    <2>6. RightReply' BY <2>2, ReplyStays
    <2> QED BY <2>3, <2>4, <2>5, <2>6 DEF Inv
<1>4. CASE ~closed
    <2>1. /\ call' = [call EXCEPT ![c].pc = "entered", ![c].id = nextId, ![c].n = @ + 1,
                                  ![c].got = NoCall, ![c].dropped = FALSE]
          /\ nextId' = nextId + 1
        BY <1>4 DEF Enter, TakesId
    <2>2. /\ call' \in [Caller -> CallState]
          /\ \A d \in Caller \ {c} : call'[d] = call[d]
          /\ call'[c].pc = "entered" /\ call'[c].id = nextId /\ call'[c].got = NoCall
          /\ ~call'[c].dropped
        BY <1>0, <2>1 DEF CallState
    <2>3. TypeOK' BY <1>0, <1>1, <2>1, <2>2 DEF Inv, TypeOK, session
    <2>4. Table' BY <1>0, <1>1, <1>2, <2>2, TableStays
    <2>5. \A d \in Caller : call[d].id < nextId /\ call[d].id \in Nat
        BY <1>0 DEF Inv, Routing, IdsTaken, CallState
    <2>6. IdsTaken' BY <1>0, <2>1, <2>2, <2>5 DEF IdsTaken
    <2>7. IdsDiffer'
        <3>1. \A d \in Caller \ {c} : call'[d].id # nextId BY <2>2, <2>5, <1>0
        <3>2. \A d \in Caller \ {c} : Active(d)' <=> Active(d) BY <2>2 DEF Active
        <3> QED BY <2>2, <3>1, <3>2 DEF Inv, Routing, IdsDiffer
    <2>8. ASSUME NEW m, m.id \in Nat, Addressed(m) PROVE Addressed(m)'
        <3>1. m.id < nextId /\ m.id < nextId' BY <1>0, <2>1, <2>8 DEF Addressed
        <3>2. \A d \in Caller \ {c} :
                 call'[d] = call[d] /\ (Active(d)' <=> Active(d)) /\ MyCall(d)' = MyCall(d)
            BY <2>2 DEF Active, MyCall
        <3>3. call'[c].id # m.id BY <1>0, <2>2, <3>1
        <3>4. \A d \in Caller : Active(d)' /\ call'[d].id = m.id => m.to = MyCall(d)'
            BY <2>8, <3>2, <3>3 DEF Addressed
        <3> QED BY <3>1, <3>4 DEF Addressed
    <2>9. WireAddressed'
        <3>0. wire \in Seq(Request) BY DEF Inv, TypeOK
        <3>1. \A i \in 1..Len(wire) : wire[i] \in Request BY <3>0
        <3>2. \A q \in Request : q.id \in Nat BY DEF Request
        <3> QED BY <1>1, <2>8, <3>1, <3>2 DEF Inv, Routing, WireAddressed
    <2>10. InboxAddressed'
        <3>0. inbox \in Seq(Message) BY DEF Inv, TypeOK
        <3>1. \A i \in 1..Len(inbox) : inbox[i] \in Message BY <3>0
        <3>2. \A m \in Message : m.id \in Nat BY DEF Message
        <3> QED BY <1>1, <2>8, <3>1, <3>2 DEF Inv, Routing, InboxAddressed
    <2>11. RightReply' BY <2>2, ReplyStays
    <2> QED BY <2>3, <2>4, <2>6, <2>7, <2>9, <2>10, <2>11 DEF Inv, Routing
<1> QED BY <1>3, <1>4

\* A request is filed, and its caller waits for the write half.
LEMMA FileStep ==
    ASSUME Inv, NEW c \in Caller, File(c)
    PROVE  Inv'
<1>0. call \in [Caller -> CallState] /\ pending \subseteq Nat \X Caller
    BY DEF Inv, TypeOK
<1>1. /\ call[c].pc = "entered" /\ call[c].got = NoCall /\ ~call[c].dropped
      /\ pending' = pending \cup {<<call[c].id, c>>}
      /\ call' = [call EXCEPT ![c].pc = "filed"]
      /\ UNCHANGED <<nextId, wire, inbox, session, qemu>>
      /\ lock' = Append(lock, c)
    BY DEF File, At, Inv, Table, Unheard
<1>2. /\ call' \in [Caller -> CallState]
      /\ \A d \in Caller \ {c} : call'[d] = call[d]
      /\ call'[c].pc = "filed" /\ call'[c].id = call[c].id /\ call'[c].n = call[c].n
      /\ call'[c].got = call[c].got /\ call'[c].dropped = call[c].dropped
    BY <1>0, <1>1 DEF CallState
<1>3. pending' \subseteq Nat \X Caller BY <1>0, <1>1 DEF CallState
<1>4. TypeOK'
    <2>1. lock' \in Seq(Caller \cup {Closer})
        <3>1. lock \in Seq(Caller \cup {Closer}) /\ c \in Caller \cup {Closer}
            BY DEF Inv, TypeOK
        <3> QED BY <1>1, <3>1, AppendSeq
    <2> QED BY <1>1, <1>2, <1>3, <2>1 DEF Inv, TypeOK, session
<1>5. \A e \in pending : e[2] # c BY <1>1, NotFiled
<1>6. Table'
    <2>1. \A e \in Nat \X Caller : e[2] # c => (e \in pending' <=> e \in pending) BY <1>1
    <2>2. \A e \in pending' : e[2] = c => call'[c].id = e[1] BY <1>1, <1>2, <1>5
    <2>3. <<call'[c].id, c>> \in pending' BY <1>1, <1>2
    <2> QED BY <1>1, <1>2, <1>3, <2>1, <2>2, <2>3, TableStays
<1>7. Routing'
    <2>1. Active(c) BY <1>1 DEF Active
    <2> QED BY <1>1, <1>2, <2>1, RoutingStays
<1>8. RightReply' BY <1>2, ReplyStays
<1> QED BY <1>4, <1>6, <1>7, <1>8 DEF Inv

\* A request goes out under the id of its call.
LEMMA WriteStep ==
    ASSUME Inv, NEW c \in Caller, Write(c)
    PROVE  Inv'
<1> DEFINE r == [id |-> call[c].id, to |-> MyCall(c)]
<1>0. call \in [Caller -> CallState] /\ pending \subseteq Nat \X Caller /\ wire \in Seq(Request)
    BY DEF Inv, TypeOK
<1>1. /\ call[c].pc = "filed" /\ lock # <<>>
      /\ call' = [call EXCEPT ![c].pc = "waiting"]
      /\ UNCHANGED <<pending, nextId, inbox, session, qemu>>
      /\ lock' = Tail(lock) /\ wire' = Append(wire, r)
    BY DEF Write, At, Holds
<1>2. /\ call' \in [Caller -> CallState]
      /\ \A d \in Caller \ {c} : call'[d] = call[d]
      /\ call'[c].pc = "waiting" /\ call'[c].id = call[c].id /\ call'[c].n = call[c].n
      /\ call'[c].got = call[c].got /\ call'[c].dropped = call[c].dropped
    BY <1>0, <1>1 DEF CallState
<1>3. r \in Request BY <1>0 DEF CallState, Request, MyCall
<1>4. TypeOK'
    <2>1. lock' \in Seq(Caller \cup {Closer})
        <3>1. lock \in Seq(Caller \cup {Closer}) BY DEF Inv, TypeOK
        <3> QED BY <1>1, <3>1, TailSeq
    <2>2. wire' \in Seq(Request) BY <1>0, <1>1, <1>3, AppendSeq
    <2> QED BY <1>1, <1>2, <2>1, <2>2 DEF Inv, TypeOK, session
<1>5. Table'
    <2>1. \A e \in pending : e[2] = c => call[c].id = e[1]
        BY DEF Inv, Table, FiledWhileWaiting
    <2>2. <<call[c].id, c>> \in pending <=> call[c].got = NoCall /\ ~call[c].dropped
        BY <1>1 DEF Inv, Table, FiledWhileWaiting
    <2> QED BY <1>0, <1>1, <1>2, <2>1, <2>2, TableStays
<1>6. /\ \A d \in Caller : call'[d].id = call[d].id /\ MyCall(d)' = MyCall(d)
      /\ \A d \in Caller : Active(d)' <=> Active(d)
    BY <1>1, <1>2 DEF Active, MyCall
<1>7. IdsTaken' /\ IdsDiffer'
    BY <1>1, <1>6 DEF Inv, Routing, IdsTaken, IdsDiffer
<1>8. \A m : Addressed(m) => Addressed(m)' BY <1>1, <1>6 DEF Addressed
<1>9. Addressed(r)
    <2>1. call[c].id < nextId BY DEF Inv, Routing, IdsTaken
    <2>2. \A d \in Caller : Active(d) /\ call[d].id = call[c].id => d = c
        BY <1>1 DEF Inv, Routing, IdsDiffer, Active
    <2> QED BY <2>1, <2>2 DEF Addressed
<1>10. WireAddressed'
    <2> HIDE DEF r
    <2>1. \A i \in 1..Len(wire') : wire'[i] = r \/ (i \in 1..Len(wire) /\ wire'[i] = wire[i])
        BY <1>0, <1>1, <1>3, AppendSeq
    <2>2. \A i \in 1..Len(wire) : Addressed(wire[i]) BY DEF Inv, Routing, WireAddressed
    <2>3. \A i \in 1..Len(wire') : Addressed(wire'[i]) BY <1>9, <2>1, <2>2
    <2>4. ASSUME NEW i \in 1..Len(wire')
          PROVE  /\ wire'[i].id < nextId'
                 /\ \A d \in Caller :
                       Active(d)' /\ call'[d].id = wire'[i].id => wire'[i].to = MyCall(d)'
        <3>1. Addressed(wire'[i]) BY <2>3, <2>4
        <3> QED BY <1>1, <1>6, <3>1 DEF Addressed
    <2> QED BY <2>4 DEF WireAddressed, Addressed
<1>11. InboxAddressed' BY <1>1, <1>8 DEF Inv, Routing, InboxAddressed
<1>12. RightReply' BY <1>2, ReplyStays
<1> QED BY <1>4, <1>5, <1>7, <1>10, <1>11, <1>12 DEF Inv, Routing

\* A call that has failed to write, or has waited long enough, gives up its own
\* entry; one that has heard has none left.
LEMMA EndSteps ==
    ASSUME Inv, NEW c \in Caller, WriteFails(c) \/ Receive(c) \/ TimeOut(c)
    PROVE  Inv'
<1>0. call \in [Caller -> CallState] /\ pending \subseteq Nat \X Caller
    BY DEF Inv, TypeOK
<1>1. PICK out \in Outcome :
        call' = [call EXCEPT ![c].pc = "idle", ![c].out = out]
    <2>1. {"returned", "failed", "closed", "timeout", "unwritten"} \subseteq Outcome
        BY DEF Outcome
    <2>2. CASE WriteFails(c) BY <2>1, <2>2 DEF WriteFails, Ends
    <2>3. CASE Receive(c) BY <2>1, <2>3 DEF Receive, Ends
    <2>4. CASE TimeOut(c) BY <2>1, <2>4 DEF TimeOut, Ends
    <2> QED BY <2>2, <2>3, <2>4
<1>2. /\ UNCHANGED <<nextId, wire, inbox, session, qemu>>
      /\ call[c].pc \in {"filed", "waiting"}
      /\ pending' = pending \ {<<call[c].id, c>>}
    <2>1. CASE WriteFails(c) BY <2>1 DEF WriteFails, At
    <2>2. CASE TimeOut(c) BY <2>2 DEF TimeOut, At
    <2>3. CASE Receive(c)
        <3>1. /\ UNCHANGED <<pending, nextId, wire, inbox, session, qemu>>
              /\ call[c].pc = "waiting"
              /\ call[c].got # NoCall \/ call[c].dropped
            BY <2>3 DEF Receive, At
        <3>2. <<call[c].id, c>> \notin pending
            BY <3>1 DEF Inv, Table, FiledWhileWaiting
        <3> QED BY <3>1, <3>2
    <2> QED BY <2>1, <2>2, <2>3
<1>3. /\ call' \in [Caller -> CallState]
      /\ \A d \in Caller \ {c} : call'[d] = call[d]
      /\ call'[c].pc = "idle" /\ call'[c].id = call[c].id /\ call'[c].n = call[c].n
      /\ call'[c].got = call[c].got
    BY <1>0, <1>1 DEF CallState
<1>4. lock' \in Seq(Caller \cup {Closer})
    <2>1. lock \in Seq(Caller \cup {Closer}) BY DEF Inv, TypeOK
    <2>2. CASE WriteFails(c) BY <2>1, <2>2, TailSeq DEF WriteFails, Holds
    <2>3. CASE Receive(c) \/ TimeOut(c) BY <2>1, <2>3 DEF Receive, TimeOut
    <2> QED BY <2>2, <2>3
<1>5. TypeOK' BY <1>0, <1>2, <1>3, <1>4 DEF Inv, TypeOK, session
<1>6. Table'
    <2>1. \A e \in pending : e[2] = c => e = <<call[c].id, c>>
        BY <1>0 DEF Inv, Table, FiledWhileWaiting
    <2>2. \A e \in pending' : e[2] # c BY <1>2, <2>1
    <2>3. \A e \in Nat \X Caller : e[2] # c => (e \in pending' <=> e \in pending) BY <1>2
    <2>4. pending' \subseteq Nat \X Caller BY <1>0, <1>2
    <2> QED BY <1>3, <2>2, <2>3, <2>4, TableStays
<1>7. Routing'
    <2>1. ~Active(c)' BY <1>3 DEF Active
    <2> QED BY <1>2, <1>3, <2>1, RoutingStays
<1>8. RightReply' BY <1>3, ReplyStays
<1> QED BY <1>5, <1>6, <1>7, <1>8 DEF Inv

\* An aborted call leaves its entry behind, and no place in the queue for the lock.
LEMMA AbortStep ==
    ASSUME Inv, NEW c \in Abortable, Abort(c)
    PROVE  Inv'
<1> USE AbortableAssumption
<1>0. call \in [Caller -> CallState] /\ pending \subseteq Nat \X Caller /\ c \in Caller
    BY DEF Inv, TypeOK
<1>1. /\ call[c].pc \in {"filed", "waiting"}
      /\ call' = [call EXCEPT ![c].pc = "aborted"]
      /\ UNCHANGED <<pending, nextId, wire, inbox, session, qemu>>
    BY DEF Abort, At
<1>2. /\ call' \in [Caller -> CallState]
      /\ \A d \in Caller \ {c} : call'[d] = call[d]
      /\ call'[c].pc = "aborted" /\ call'[c].id = call[c].id /\ call'[c].n = call[c].n
      /\ call'[c].got = call[c].got
    BY <1>0, <1>1 DEF CallState
<1>3. lock' \in Seq(Caller \cup {Closer})
    <2>1. lock \in Seq(Caller \cup {Closer}) BY DEF Inv, TypeOK
    <2>2. CASE At(c, "filed") BY <2>1, <2>2, RemoveAtSeq DEF Abort
    <2>3. CASE ~At(c, "filed") BY <2>1, <2>3 DEF Abort
    <2> QED BY <2>2, <2>3
<1>4. TypeOK' BY <1>0, <1>1, <1>2, <1>3 DEF Inv, TypeOK, session
<1>5. Table'
    <2>1. \A e \in pending : e[2] = c => call[c].id = e[1]
        BY DEF Inv, Table, FiledWhileWaiting
    <2> QED BY <1>0, <1>1, <1>2, <2>1, TableStays
<1>6. Routing'
    <2>1. Active(c) BY <1>1 DEF Active
    <2> QED BY <1>0, <1>1, <1>2, <2>1, RoutingStays
<1>7. RightReply' BY <1>0, <1>2, ReplyStays
<1> QED BY <1>4, <1>5, <1>6, <1>7 DEF Inv

-----------------------------------------------------------------------------
\* The steps of the reader, of close() and of QEMU.

\* The reader routes one line: a reply to the call that filed its id.
LEMMA DispatchStep ==
    ASSUME Inv, Dispatch
    PROVE  Inv'
<1> USE NoCallAssumption
<1> DEFINE m == Head(inbox)
<1>0. /\ call \in [Caller -> CallState] /\ pending \subseteq Nat \X Caller
      /\ inbox \in Seq(Message) /\ inbox # <<>>
    BY DEF Inv, TypeOK, Dispatch
<1>1. /\ m \in Message /\ m = inbox[1] /\ 1 \in 1..Len(inbox)
      /\ inbox' = Tail(inbox) /\ inbox' \in Seq(Message)
      /\ \A i \in 1..Len(inbox') : inbox'[i] = inbox[i + 1] /\ i + 1 \in 1..Len(inbox)
      /\ UNCHANGED <<nextId, lock, wire, reader, closer, closed, exited, shut, qemu>>
      /\ greeting' \in {"awaited", "sent", "lost"}
    BY <1>0, TailSeq DEF Dispatch, Inv, TypeOK
<1> HIDE DEF m
<1>2. CASE m.kind # "reply"
    <2>1. UNCHANGED <<pending, call>> BY <1>2 DEF Dispatch, m
    <2>2. TypeOK' BY <1>1, <2>1 DEF Inv, TypeOK
    <2>3. Table' BY <2>1 DEF Inv, Table, FiledWhileWaiting, Unheard, At
    <2>4. RightReply' BY <2>1 DEF Inv, RightReply, MyCall
    <2>5. IdsTaken' /\ IdsDiffer' /\ WireAddressed'
        BY <1>1, <2>1
        DEF Inv, Routing, IdsTaken, IdsDiffer, WireAddressed, Addressed, Active, MyCall
    <2>6. InboxAddressed'
        BY <1>1, <2>1 DEF Inv, Routing, InboxAddressed, Addressed, Active, MyCall
    <2> QED BY <2>2, <2>3, <2>4, <2>5, <2>6 DEF Inv, Routing
<1>3. CASE m.kind = "reply"
    <2> DEFINE owned(c) == <<m.id, c>> \in pending
    <2>1. /\ pending' = {e \in pending : e[1] # m.id}
          /\ call' = [c \in Caller |-> IF owned(c) THEN [call[c] EXCEPT !.got = m.to] ELSE call[c]]
        <3>1. Deliver(m) BY <1>3 DEF Dispatch, m
        <3>2. \A c \in Caller : c \in {e[2] : e \in {f \in pending : f[1] = m.id}} <=> owned(c)
            BY <1>0
        <3> QED BY <3>1, <3>2 DEF Deliver
    <2>2. m.to \in Caller \X Nat /\ Addressed(m)
        BY <1>1, <1>3 DEF Inv, Routing, InboxAddressed
    <2>3. ASSUME NEW c \in Caller, owned(c)
          PROVE  call[c].id = m.id /\ Active(c) /\ m.to = MyCall(c) /\ call[c].pc # "entered"
        <3>1. call[c].id = m.id /\ call[c].pc \in {"filed", "waiting", "aborted"}
            BY <2>3 DEF Inv, Table, FiledWhileWaiting
        <3> QED BY <2>2, <3>1 DEF Addressed, Active
    <2>4. /\ call' \in [Caller -> CallState]
          /\ \A c \in Caller : /\ call'[c].pc = call[c].pc /\ call'[c].id = call[c].id
                               /\ call'[c].n = call[c].n /\ call'[c].dropped = call[c].dropped
                               /\ call'[c].got = IF owned(c) THEN m.to ELSE call[c].got
        <3>1. ASSUME NEW c \in Caller
              PROVE  /\ call'[c] \in CallState
                     /\ call'[c].pc = call[c].pc /\ call'[c].id = call[c].id
                     /\ call'[c].n = call[c].n /\ call'[c].dropped = call[c].dropped
                     /\ call'[c].got = IF owned(c) THEN m.to ELSE call[c].got
            <4>1. call[c] \in CallState BY <1>0
            <4>2. m.to \in (Caller \X Nat) \cup {NoCall} BY <2>2
            <4>3. CASE owned(c)
                <5>1. call'[c] = [call[c] EXCEPT !.got = m.to] BY <2>1, <4>3
                <5> HIDE DEF owned
                <5> QED BY <4>1, <4>2, <4>3, <5>1 DEF CallState
            <4>4. CASE ~owned(c)
                <5>1. call'[c] = call[c] BY <2>1, <4>4
                <5> QED BY <4>1, <4>4, <5>1
            <4> QED BY <4>3, <4>4
        <3>2. call' = [c \in Caller |-> call'[c]] BY <2>1
        <3>3. call' \in [Caller -> CallState] BY <3>1, <3>2
        <3> QED BY <3>1, <3>3
    <2>5. TypeOK'
        <3>1. pending' \subseteq Nat \X Caller BY <1>0, <2>1
        <3> QED BY <1>1, <2>4, <3>1 DEF Inv, TypeOK
    <2>6. RightReply' BY <2>3, <2>4 DEF Inv, RightReply, MyCall
    <2>7. Unheard' BY <2>3, <2>4 DEF Inv, Table, Unheard, At
    <2>8. ASSUME NEW e \in pending'
          PROVE  call'[e[2]].id = e[1] /\ call'[e[2]].pc \in {"filed", "waiting", "aborted"}
        <3>1. e \in pending /\ e[2] \in Caller BY <1>0, <2>1
        <3> QED BY <2>4, <3>1 DEF Inv, Table, FiledWhileWaiting
    <2>9. ASSUME NEW c \in Caller, call'[c].pc \in {"filed", "waiting"}
          PROVE  <<call'[c].id, c>> \in pending' <=> call'[c].got = NoCall /\ ~call'[c].dropped
        <3>1. <<call[c].id, c>> \in pending <=> call[c].got = NoCall /\ ~call[c].dropped
            BY <2>4, <2>9 DEF Inv, Table, FiledWhileWaiting
        <3>2. CASE owned(c)
            <4>1. call'[c].got # NoCall BY <2>2, <2>4, <3>2
            <4>2. call'[c].id = m.id BY <2>3, <2>4, <3>2
            <4>3. <<m.id, c>>[1] = m.id OBVIOUS
            <4>4. <<call'[c].id, c>> \notin pending' BY <2>1, <4>2, <4>3
            <4> QED BY <4>1, <4>4
        <3>3. CASE ~owned(c)
            <4>1. call[c].id = m.id => <<call[c].id, c>> \notin pending BY <3>3
            <4>2. <<call'[c].id, c>> \in pending' <=> <<call[c].id, c>> \in pending
                BY <2>1, <2>4, <4>1
            <4> QED BY <2>4, <3>1, <3>3, <4>2
        <3> QED BY <3>2, <3>3
    <2>10. FiledWhileWaiting' BY <2>8, <2>9 DEF FiledWhileWaiting
    <2> HIDE DEF owned
    <2>11. \A c \in Caller : (Active(c)' <=> Active(c)) /\ MyCall(c)' = MyCall(c)
        BY <2>4 DEF Active, MyCall
    <2>12. IdsTaken' /\ IdsDiffer'
        BY <1>1, <2>4, <2>11 DEF Inv, Routing, IdsTaken, IdsDiffer
    <2>13. WireAddressed'
        BY <1>1, <2>4, <2>11 DEF Inv, Routing, WireAddressed, Addressed
    <2>14. InboxAddressed'
        BY <1>1, <2>4, <2>11 DEF Inv, Routing, InboxAddressed, Addressed
    <2> QED BY <2>5, <2>6, <2>7, <2>10, <2>12, <2>13, <2>14 DEF Inv, Table, Routing
<1> QED BY <1>2, <1>3

\* fail_all(): whoever is filed is told that nothing will come.
LEMMA FailSteps ==
    ASSUME Inv, ReaderFails \/ CloseFails
    PROVE  Inv'
<1>0. call \in [Caller -> CallState] /\ pending \subseteq Nat \X Caller
    BY DEF Inv, TypeOK
<1>1. /\ UNCHANGED <<nextId, lock, wire, inbox, greeting, closed, shut, qemu>>
      /\ reader' \in {reader, "ending"} /\ closer' \in {closer, "aborting"}
      /\ pending' = {} /\ exited' = TRUE
      /\ call' = [c \in Caller |->
             IF <<call[c].id, c>> \in pending THEN [call[c] EXCEPT !.dropped = TRUE] ELSE call[c]]
    BY DEF ReaderFails, CloseFails, FailAll
<1>2. /\ call' \in [Caller -> CallState]
      /\ \A c \in Caller : /\ call'[c].pc = call[c].pc /\ call'[c].id = call[c].id
                           /\ call'[c].n = call[c].n /\ call'[c].got = call[c].got
                           /\ call'[c].dropped = (call[c].dropped \/ <<call[c].id, c>> \in pending)
    BY <1>0, <1>1 DEF CallState
<1>3. TypeOK' BY <1>1, <1>2 DEF Inv, TypeOK
<1>4. RightReply' BY <1>2 DEF Inv, RightReply, MyCall
<1>5. Unheard'
    <2>1. \A c \in Caller : call[c].pc = "entered" => <<call[c].id, c>> \notin pending
        BY DEF Inv, Table, FiledWhileWaiting
    <2> QED BY <1>2, <2>1 DEF Inv, Table, Unheard, At
<1>6. FiledWhileWaiting'
    <2>1. ASSUME NEW c \in Caller, call[c].pc \in {"filed", "waiting"}
          PROVE  call'[c].got # NoCall \/ call'[c].dropped
        BY <1>2, <2>1 DEF Inv, Table, FiledWhileWaiting
    <2> QED BY <1>1, <1>2, <2>1 DEF FiledWhileWaiting
<1>7. \A c \in Caller : (Active(c)' <=> Active(c)) /\ MyCall(c)' = MyCall(c)
    BY <1>2 DEF Active, MyCall
<1>8. Routing'
    BY <1>1, <1>2, <1>7
    DEF Inv, Routing, IdsTaken, IdsDiffer, WireAddressed, InboxAddressed, Addressed
<1> QED BY <1>3, <1>4, <1>5, <1>6, <1>8 DEF Inv, Table

\* The other steps of the reader and of close(), and QEMU's end, move no call.
LEMMA QuietSteps ==
    ASSUME Inv,
           \/ ReaderEnds \/ ReaderOver \/ Close \/ CloseShuts \/ CloseMarks \/ CloseAborts
           \/ QemuGoes
    PROVE  Inv'
<1>0. lock \in Seq(Caller \cup {Closer}) BY DEF Inv, TypeOK
<1>1. UNCHANGED <<call, pending, nextId, wire, inbox>>
    BY DEF ReaderEnds, ReaderOver, Close, CloseShuts, CloseMarks, CloseAborts, QemuGoes, session
<1>2. CASE ReaderEnds \/ ReaderOver \/ CloseMarks \/ CloseAborts \/ QemuGoes
    <2>0. TypeOK BY DEF Inv
    <2>a. ReaderEnds => Rest' BY <2>0 DEF TypeOK, Rest, ReaderEnds, MarksClosed
    <2>b. ReaderOver => Rest' BY <2>0 DEF TypeOK, Rest, ReaderOver
    <2>c. CloseMarks => Rest' BY <2>0 DEF TypeOK, Rest, CloseMarks, MarksClosed
    <2>d. CloseAborts => Rest' BY <2>0 DEF TypeOK, Rest, CloseAborts
    <2>e. QemuGoes => Rest' BY <2>0 DEF TypeOK, Rest, QemuGoes, session
    <2>1. Rest' BY <1>2, <2>a, <2>b, <2>c, <2>d, <2>e
    <2> QED BY <1>1, <2>1, CallsStay
<1>3. CASE Close
    <2>1. lock' \in Seq(Caller \cup {Closer})
        <3>1. lock' = Append(lock, Closer) BY <1>3 DEF Close
        <3> QED BY <1>0, <3>1, AppendSeq
    <2>2. Rest' BY <1>3, <2>1 DEF Inv, TypeOK, Rest, Close
    <2> QED BY <1>1, <2>2, CallsStay
<1>4. CASE CloseShuts
    <2>1. lock' \in Seq(Caller \cup {Closer})
        BY <1>0, <1>4, TailSeq DEF CloseShuts, Holds
    <2>2. Rest' BY <1>4, <2>1 DEF Inv, TypeOK, Rest, CloseShuts
    <2> QED BY <1>1, <2>2, CallsStay
<1> QED BY <1>2, <1>3, <1>4

\* What QEMU says under an id is the answer to the request that came with it.
LEMMA QemuSteps ==
    ASSUME Inv, QemuGreets \/ QemuAnswers \/ QemuSaysOther
    PROVE  Inv'
<1> DEFINE answer == [kind |-> "reply", id |-> Head(wire).id, to |-> Head(wire).to]
<1>0. wire \in Seq(Request) /\ inbox \in Seq(Message) BY DEF Inv, TypeOK
<1>1. PICK m \in Message :
        /\ inbox' = Append(inbox, m)
        /\ m.kind = "reply" => m.to \in Caller \X Nat /\ Addressed(m)
    <2>1. CASE QemuGreets \/ QemuSaysOther
        <3>1. Greeting \in Message /\ Greeting.kind # "reply" /\ Other \in Message
              /\ Other.kind # "reply"
            BY DEF Greeting, Other, Message
        <3> QED BY <2>1, <3>1 DEF QemuGreets, QemuSaysOther, Says
    <2>2. CASE QemuAnswers
        <3>1. wire # <<>> BY <2>2 DEF QemuAnswers
        <3>2. /\ Head(wire) = wire[1] /\ 1 \in 1..Len(wire) /\ Head(wire) \in Request
            BY <1>0, <3>1, TailSeq
        <3>3. Addressed(Head(wire)) BY <3>2 DEF Inv, Routing, WireAddressed
        <3>4. answer \in Message /\ answer.to \in Caller \X Nat
            BY <3>2 DEF Request, Message
        <3>5. Addressed(answer) BY <3>3 DEF Addressed
        <3>6. inbox' = Append(inbox, answer) BY <2>2 DEF QemuAnswers, Says
        <3> QED BY <3>4, <3>5, <3>6
    <2> QED BY <2>1, <2>2
<1>2. UNCHANGED <<call, pending, nextId, lock, session>> /\ qemu' \in {"greeted", qemu}
    BY DEF QemuGreets, QemuAnswers, QemuSaysOther
<1>3. /\ wire' \in Seq(Request) /\ Len(wire') \in Nat
      /\ \A i \in 1..Len(wire') : \E j \in 1..Len(wire) : wire'[i] = wire[j]
    <2>1. CASE QemuGreets \/ QemuSaysOther
        <3>1. wire' = wire BY <2>1 DEF QemuGreets, QemuSaysOther
        <3> QED BY <1>0, <3>1
    <2>2. CASE QemuAnswers
        <3>1. wire # <<>> /\ wire' = Tail(wire) BY <2>2 DEF QemuAnswers
        <3> QED BY <1>0, <3>1, TailSeq
    <2> QED BY <2>1, <2>2
<1>4. /\ inbox' \in Seq(Message)
      /\ \A i \in 1..Len(inbox') : inbox'[i] = m \/ (i \in 1..Len(inbox) /\ inbox'[i] = inbox[i])
    BY <1>0, <1>1, AppendSeq
<1>5. TypeOK' BY <1>2, <1>3, <1>4 DEF Inv, TypeOK, session
<1>6. Table' BY <1>2 DEF Inv, Table, FiledWhileWaiting, Unheard, At
<1>7. RightReply' BY <1>2 DEF Inv, RightReply, MyCall
<1>8. IdsTaken' /\ IdsDiffer'
    BY <1>2 DEF Inv, Routing, IdsTaken, IdsDiffer, Active
<1>9. WireAddressed'
    BY <1>2, <1>3 DEF Inv, Routing, WireAddressed, Addressed, Active, MyCall
<1>10. InboxAddressed'
    BY <1>1, <1>2, <1>4 DEF Inv, Routing, InboxAddressed, Addressed, Active, MyCall
<1> QED BY <1>5, <1>6, <1>7, <1>8, <1>9, <1>10 DEF Inv, Routing

-----------------------------------------------------------------------------
\* The theorems.

\* The invariant holds in every state of every behaviour.
LEMMA Invariance == Spec => []Inv
<1>1. Inv /\ [Next]_vars => Inv'
    <2> SUFFICES ASSUME Inv, [Next]_vars PROVE Inv' OBVIOUS
    <2>1. CASE UNCHANGED vars
        <3>1. Rest' BY <2>1 DEF Inv, TypeOK, Rest, vars, session
        <3>2. UNCHANGED <<call, pending, nextId, wire, inbox>> BY <2>1 DEF vars
        <3> QED BY <3>1, <3>2, CallsStay
    <2>2. CASE Negotiate \/ NotGreeted BY <2>2, GreetingSteps
    <2>3. ASSUME NEW c \in Caller, CallerStep(c) PROVE Inv'
        <3>1. CASE Enter(c) BY <3>1, EnterStep
        <3>2. CASE File(c) BY <3>2, FileStep
        <3>3. CASE Write(c) BY <3>3, WriteStep
        <3>4. CASE WriteFails(c) \/ Receive(c) \/ TimeOut(c) BY <3>4, EndSteps
        <3> QED BY <2>3, <3>1, <3>2, <3>3, <3>4 DEF CallerStep
    <2>4. ASSUME NEW c \in Abortable, Abort(c) PROVE Inv' BY <2>4, AbortStep
    <2>5. CASE Dispatch BY <2>5, DispatchStep
    <2>6. CASE ReaderFails \/ CloseFails BY <2>6, FailSteps
    <2>7. CASE \/ ReaderEnds \/ ReaderOver \/ Close \/ CloseShuts \/ CloseMarks
               \/ CloseAborts \/ QemuGoes
        BY <2>7, QuietSteps
    <2>8. CASE QemuGreets \/ QemuAnswers \/ QemuSaysOther BY <2>8, QemuSteps
    <2> QED BY <2>1, <2>2, <2>3, <2>4, <2>5, <2>6, <2>7, <2>8
            DEF Next, ReaderStep, CloseStep, QemuStep
<1> QED BY <1>1, InitInv, PTL DEF Spec

\* The pending table never lies: a request is filed exactly while its call still
\* waits to hear, whatever times out, is aborted, fails to be written or is failed
\* by the reader and close() at once (execute, fail_all).
THEOREM PendingIsSound == Spec => []PendingHolds
<1>1. Inv => PendingHolds BY DEF Inv, Table, PendingHolds
<1> QED BY <1>1, Invariance, PTL

\* A reply reaches the call it answers and no other, for any number of concurrent
\* callers: a late reply to a call that timed out is never taken for the answer to
\* the next (dispatch).
THEOREM RepliesAreRight == Spec => []RightReply
<1>1. Inv => RightReply BY DEF Inv
<1> QED BY <1>1, Invariance, PTL
=============================================================================
