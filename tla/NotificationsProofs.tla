------------------------ MODULE NotificationsProofs ------------------------
(***************************************************************************)
(* That one call wins a notification, that streams show the events of      *)
(* their user in order, and that they implement EventFeed, for every       *)
(* number of users, notifications and calls, any capacity of the Go        *)
(* channel, any number of events sent again and any fault model.           *)
(***************************************************************************)
EXTENDS Notifications, FiniteSetTheorems, TLAPS

-----------------------------------------------------------------------------
(* Types                                                                   *)

LEMMA GotoType ==
  ASSUME call \in [Calls -> Call], NEW c \in Calls, NEW step \in Steps, Goto(c, step)
  PROVE  call' \in [Calls -> Call]
BY DEF Goto, Call

LEMMA ReplyType ==
  ASSUME call \in [Calls -> Call], NEW c \in Calls, NEW a \in {"ok", "err"}, Reply(c, a)
  PROVE  call' \in [Calls -> Call]
<1> DEFINE new == [call[c] EXCEPT !.pc = "done", !.reply = a]
<1>1. call[c] \in Call
  OBVIOUS
<1>2. new \in Call
  BY <1>1 DEF Call, Steps
<1>3. call' = [call EXCEPT ![c] = new]
  BY DEF Reply
<1> QED  BY <1>2, <1>3

LEMMA AcceptType ==
  ASSUME call \in [Calls -> Call], NEW c \in Calls,
         NEW op \in {"event", "stream", "read", "readall", "delete"},
         NEW u \in Users, NEW n \in Notes \cup {NoCall}, NEW step \in Steps,
         NEW a \in {"pending", "ok", "err"}, Accept(c, op, u, n, step, a)
  PROVE  call' \in [Calls -> Call]
<1> DEFINE new == [call[c] EXCEPT !.op = op, !.user = u, !.note = n, !.pc = step, !.reply = a]
<1>1. call[c] \in Call
  OBVIOUS
<1>2. new \in Call
  BY <1>1 DEF Call
<1>3. call' = [call EXCEPT ![c] = new]
  BY DEF Accept
<1> QED  BY <1>2, <1>3

\* Steps that send events: one more message, on the wires of some streams.
LEMMA WireType ==
  ASSUME TypeOK, NEW s \in Calls, NEW n \in Nat
  PROVE  /\ [stream[s] EXCEPT !.wire = Append(@, n)] \in Stream
         /\ [stream[s] EXCEPT !.wire = Append(@, n)].buffer = stream[s].buffer
<1>1. stream[s] \in Stream
  BY DEF TypeOK
<1>2. Append(stream[s].wire, n) \in Seq(Nat)
  BY <1>1 DEF Stream
<1> QED  BY <1>1, <1>2 DEF Stream

\* A step that leaves the capacity of every Go channel alone.
LEMMA StreamType ==
  ASSUME TypeOK, NEW s \in Calls, NEW st \in Stream, Len(st.buffer) <= Capacity,
         stream' = [stream EXCEPT ![s] = st]
  PROVE  /\ stream' \in [Calls -> Stream]
         /\ \A r \in Calls : Len(stream'[r].buffer) <= Capacity
BY DEF TypeOK

LEMMA ReadType ==
  ASSUME TypeOK, NEW n \in Notes, NEW c \in Calls
  PROVE  [note[n] EXCEPT !.read = TRUE, !.by = c] \in Note
<1>1. note[n] \in Note
  BY DEF TypeOK
<1> QED  BY <1>1 DEF Note

LEMMA GoneType ==
  ASSUME TypeOK, NEW n \in Notes
  PROVE  [note[n] EXCEPT !.gone = TRUE] \in Note
<1>1. note[n] \in Note
  BY DEF TypeOK
<1> QED  BY <1>1 DEF Note

LEMMA InitType == Init => TypeOK
<1> SUFFICES ASSUME Init PROVE TypeOK
  OBVIOUS
<1>1. note \in [Notes -> Note]
  BY DEF Init, Note
<1>2. call \in [Calls -> Call]
  BY NotificationsAssumption DEF Init, Call, Steps
<1>3. NoStream \in Stream /\ Len(NoStream.buffer) = 0
  BY DEF NoStream, Stream
<1>4. stream \in [Calls -> Stream] /\ \A s \in Calls : Len(stream[s].buffer) <= Capacity
  BY <1>3, NotificationsAssumption DEF Init
<1>5. <<>> \in Seq(Calls)
  OBVIOUS
<1> QED  BY <1>1, <1>2, <1>4, <1>5 DEF Init, TypeOK

\* What the steps of the calls do to the types.
LEMMA CallsType ==
  ASSUME TypeOK, NEW c \in Calls, Request(c) \/ Continue(c)
  PROVE  TypeOK'
<1> USE NotificationsAssumption DEF TypeOK
<1>0. stream[c] \in Stream /\ Len(stream[c].buffer) <= Capacity
  OBVIOUS
<1>1. ASSUME NEW u \in Users, Emit(c, u) PROVE TypeOK'
  BY <1>1, AcceptType DEF Emit, Steps
<1>2. ASSUME NEW u \in Users, OpenStream(c, u) PROVE TypeOK'
  <2> DEFINE st == [stream[c] EXCEPT !.sub = "asked"]
  <2>1. st \in Stream /\ st.buffer = stream[c].buffer
    BY <1>0 DEF Stream
  <2>2. stream' = [stream EXCEPT ![c] = st]
    BY <1>2 DEF OpenStream
  <2>3. call' \in [Calls -> Call]
    BY <1>2, AcceptType DEF OpenStream, Steps
  <2> HIDE DEF st
  <2> QED  BY <1>0, <1>2, <2>1, <2>2, <2>3, StreamType DEF OpenStream
<1>3. ASSUME NEW u \in Users, MarkAllAsRead(c, u) PROVE TypeOK'
  <2>1. call' \in [Calls -> Call]
    BY <1>3, AcceptType DEF MarkAllAsRead, Steps
  <2>2. note' \in [Notes -> Note]
    <3>1. PICK o \in Outcomes :
            note' = [n \in Notes |-> IF o = "ok" /\ Present(n, u) /\ ~ note[n].read
                       THEN [note[n] EXCEPT !.read = TRUE, !.by = c] ELSE note[n]]
      BY <1>3 DEF MarkAllAsRead
    <3> QED  BY <3>1, ReadType
  <2> QED  BY <1>3, <2>1, <2>2 DEF MarkAllAsRead
<1>4. ASSUME NEW u \in Users, NEW n \in Notes, MarkAsRead(c, u, n) PROVE TypeOK'
  BY <1>4, AcceptType DEF MarkAsRead, Steps
<1>5. ASSUME NEW u \in Users, NEW n \in Notes, DeleteNote(c, u, n) PROVE TypeOK'
  BY <1>5, AcceptType DEF DeleteNote, Steps
<1>6. CASE StartWriter(c)
  <2> DEFINE st == [stream[c] EXCEPT !.writer = "loop"]
  <2>1. st \in Stream /\ st.buffer = stream[c].buffer
    BY <1>0 DEF Stream
  <2>2. stream' = [stream EXCEPT ![c] = st]
    BY <1>6 DEF StartWriter
  <2>3. call' \in [Calls -> Call]
    BY <1>6, GotoType DEF StartWriter, Steps
  <2> HIDE DEF st
  <2> QED  BY <1>0, <1>6, <2>1, <2>2, <2>3, StreamType DEF StartWriter
<1>7. CASE CloseSubscription(c)
  <2> DEFINE st == [stream[c] EXCEPT !.sub = "closed", !.wire = <<>>]
  <2>1. <<>> \in Seq(Nat)
    OBVIOUS
  <2>2. st \in Stream /\ st.buffer = stream[c].buffer
    BY <1>0, <2>1 DEF Stream
  <2>3. stream' = [stream EXCEPT ![c] = st] /\ call' \in [Calls -> Call]
    BY <1>7, ReplyType DEF CloseSubscription
  <2> HIDE DEF st
  <2> QED  BY <1>0, <1>7, <2>2, <2>3, StreamType DEF CloseSubscription
<1>8. CASE UpdateRead(c)
  <2>1. call' \in [Calls -> Call]
    BY <1>8, ReplyType DEF UpdateRead
  <2>2. note' \in [Notes -> Note]
    <3>1. \/ UNCHANGED note
          \/ note' = [note EXCEPT ![call[c].note] = [@ EXCEPT !.read = TRUE, !.by = c]]
      BY <1>8 DEF UpdateRead
    <3>2. CASE note' = [note EXCEPT ![call[c].note] = [@ EXCEPT !.read = TRUE,
                                                                !.by = c]]
      BY <3>2, ReadType
    <3> QED  BY <3>1, <3>2
  <2> QED  BY <1>8, <2>1, <2>2 DEF UpdateRead
<1>9. CASE RemoveNote(c)
  <2>1. call' \in [Calls -> Call]
    BY <1>9, ReplyType DEF RemoveNote
  <2>2. note' \in [Notes -> Note]
    <3>1. UNCHANGED note \/ note' = [note EXCEPT ![call[c].note].gone = TRUE]
      BY <1>9 DEF RemoveNote
    <3>2. CASE note' = [note EXCEPT ![call[c].note].gone = TRUE]
      BY <3>2, GoneType
    <3> QED  BY <3>1, <3>2
  <2> QED  BY <1>9, <2>1, <2>2 DEF RemoveNote
<1>10. CASE Request(c)
  BY <1>1, <1>2, <1>3, <1>4, <1>5, <1>10 DEF Request
<1>11. CASE Continue(c)
  BY <1>6, <1>7, <1>8, <1>9, <1>11 DEF Continue
<1> QED  BY <1>10, <1>11

\* What sending an event does to the types.
LEMMA SendType ==
  ASSUME TypeOK, NEW c \in Calls, Send(c)
  PROVE  TypeOK'
<1> USE NotificationsAssumption DEF TypeOK
<1>1. CASE Publish(c)
  <2>1. call' \in [Calls -> Call]
    BY <1>1, GotoType DEF Publish, Steps
  <2>2. published' \in Seq(Calls) /\ Len(published) + 1 \in Nat
    BY <1>1 DEF Publish
  <2>3. ASSUME NEW s \in Calls
        PROVE  stream'[s] \in Stream /\ stream'[s].buffer = stream[s].buffer
    BY <1>1, <2>2, WireType DEF Publish
  <2>4. stream' \in [Calls -> Stream]
    BY <1>1, <2>2, WireType DEF Publish
  <2> QED  BY <1>1, <2>1, <2>2, <2>3, <2>4 DEF Publish
<1>2. CASE Resend(c)
  <2> DEFINE new == [call[c] EXCEPT !.tries = call[c].tries + 1]
  <2>1. call[c] \in Call /\ call[c].tries < Retries
    BY <1>2 DEF Resend
  <2>2. call[c].tries \in 0 .. Retries
    BY <2>1 DEF Call
  <2>3. call[c].tries + 1 \in 0 .. Retries
    BY <2>1, <2>2
  <2>4. new \in Call
    BY <2>1, <2>3 DEF Call
  <2>5. call' = [call EXCEPT ![c] = new]
    BY <1>2 DEF Resend
  <2> HIDE DEF new
  <2> QED  BY <1>2, <2>4, <2>5 DEF Resend
<1>3. CASE GiveUp(c)
  BY <1>3, GotoType DEF GiveUp, Steps
<1> QED  BY <1>1, <1>2, <1>3 DEF Send

\* What the steps of Redis, of its client and of the writer do to the types.
LEMMA QueuesType ==
  ASSUME TypeOK, NEW s \in Calls, Redis(s) \/ Disconnect(s) \/ Writer(s)
  PROVE  TypeOK'
<1>0. stream[s] \in Stream /\ Len(stream[s].buffer) <= Capacity
  BY DEF TypeOK
<1>1. SUFFICES ASSUME NEW st \in Stream, Len(st.buffer) <= Capacity,
                      stream' = [stream EXCEPT ![s] = st],
                      UNCHANGED <<note, call, published, stopping>>
               PROVE  TypeOK'
  <2>1. CASE RedisSubscribe(s)
    <3> DEFINE st == [stream[s] EXCEPT !.sub = "on"]
    <3>1. st \in Stream /\ st.buffer = stream[s].buffer
      BY <1>0 DEF Stream
    <3>2. stream' = [stream EXCEPT ![s] = st]
      BY <2>1 DEF RedisSubscribe
    <3> HIDE DEF st
    <3> QED  BY <1>0, <2>1, <3>1, <3>2 DEF RedisSubscribe
  <2>2. CASE LoseConnection(s)
    <3> DEFINE st == [stream[s] EXCEPT !.sub = "asked", !.wire = <<>>]
    <3>1. <<>> \in Seq(Nat)
      OBVIOUS
    <3>2. st \in Stream /\ st.buffer = stream[s].buffer
      BY <1>0, <3>1 DEF Stream
    <3>3. stream' = [stream EXCEPT ![s] = st]
      BY <2>2 DEF LoseConnection
    <3> HIDE DEF st
    <3> QED  BY <1>0, <2>2, <3>2, <3>3 DEF LoseConnection
  <2>3. CASE Receive(s)
    <3> DEFINE wire == Tail(stream[s].wire)
               buffer == Append(stream[s].buffer, Head(stream[s].wire))
               taken == stream[s].taken \cup {Head(stream[s].wire)}
               st == [stream[s] EXCEPT !.wire = wire, !.buffer = buffer, !.taken = taken]
    <3>1. stream[s].wire \in Seq(Nat) /\ stream[s].buffer \in Seq(Nat)
          /\ stream[s].taken \subseteq Nat /\ Capacity \in Nat
      BY <1>0, NotificationsAssumption DEF Stream
    <3>2. stream[s].wire # <<>> /\ Len(stream[s].buffer) < Capacity
      BY <2>3 DEF Receive
    <3>3. /\ wire \in Seq(Nat) /\ buffer \in Seq(Nat) /\ taken \in SUBSET Nat
          /\ Len(buffer) <= Capacity
      BY <3>1, <3>2
    <3>4. stream' = [stream EXCEPT ![s] = st]
      BY <2>3 DEF Receive
    <3> HIDE DEF wire, buffer, taken
    <3>5. st \in Stream /\ st.buffer = buffer
      BY <1>0, <3>3 DEF Stream
    <3> HIDE DEF st
    <3> QED  BY <2>3, <3>3, <3>4, <3>5 DEF Receive
  <2>4. CASE CloseChannel(s)
    <3> DEFINE st == [stream[s] EXCEPT !.open = FALSE]
    <3>1. st \in Stream /\ st.buffer = stream[s].buffer
      BY <1>0 DEF Stream
    <3>2. stream' = [stream EXCEPT ![s] = st]
      BY <2>4 DEF CloseChannel
    <3> HIDE DEF st
    <3> QED  BY <1>0, <2>4, <3>1, <3>2 DEF CloseChannel
  <2>5. CASE Disconnect(s)
    <3> DEFINE st == [stream[s] EXCEPT !.connected = FALSE]
    <3>1. st \in Stream /\ st.buffer = stream[s].buffer
      BY <1>0 DEF Stream
    <3>2. stream' = [stream EXCEPT ![s] = st]
      BY <2>5 DEF Disconnect
    <3> HIDE DEF st
    <3> QED  BY <1>0, <2>5, <3>1, <3>2 DEF Disconnect
  <2>6. CASE WriteEvent(s)
    <3> DEFINE buffer == Tail(stream[s].buffer)
               got == IF stream[s].connected THEN Append(stream[s].got, Head(stream[s].buffer))
                                             ELSE stream[s].got
               writer == IF stream[s].connected THEN "loop" ELSE "done"
               st == [stream[s] EXCEPT !.buffer = buffer, !.got = got, !.writer = writer]
    <3>1. stream[s].got \in Seq(Nat) /\ stream[s].buffer \in Seq(Nat) /\ Capacity \in Nat
      BY <1>0, NotificationsAssumption DEF Stream
    <3>2. stream[s].buffer # <<>>
      BY <2>6 DEF WriteEvent
    <3>3. /\ buffer \in Seq(Nat) /\ Len(buffer) <= Capacity
          /\ got \in Seq(Nat) /\ writer \in {"loop", "done"}
      BY <1>0, <3>1, <3>2
    <3>4. stream' = [stream EXCEPT ![s] = st]
      BY <2>6 DEF WriteEvent
    <3> HIDE DEF buffer, got, writer
    <3>5. st \in Stream /\ st.buffer = buffer
      BY <1>0, <3>3 DEF Stream
    <3> HIDE DEF st
    <3> QED  BY <2>6, <3>3, <3>4, <3>5 DEF WriteEvent
  <2>7. CASE WriterEnds(s)
    <3> DEFINE st == [stream[s] EXCEPT !.writer = "done"]
    <3>1. st \in Stream /\ st.buffer = stream[s].buffer
      BY <1>0 DEF Stream
    <3>2. stream' = [stream EXCEPT ![s] = st]
      BY <2>7 DEF WriterEnds
    <3> HIDE DEF st
    <3> QED  BY <1>0, <2>7, <3>1, <3>2 DEF WriterEnds
  <2> QED  BY <2>1, <2>2, <2>3, <2>4, <2>5, <2>6, <2>7
           DEF Redis, Writer, Heartbeat, EndOfChannel, Interrupted
<1> QED  BY <1>1, StreamType DEF TypeOK

LEMMA TypeStep == ASSUME TypeOK, [Next]_vars PROVE TypeOK'
<1>1. CASE UNCHANGED vars
  BY <1>1 DEF vars, TypeOK
<1>2. CASE Shutdown
  BY <1>2 DEF Shutdown, TypeOK
<1> QED  BY <1>1, <1>2, CallsType, SendType, QueuesType DEF Next

\* Every reachable state is well typed, and no Go channel overflows.
THEOREM TypeCorrect == Spec => []TypeOK
BY InitType, TypeStep, PTL DEF Spec

-----------------------------------------------------------------------------
(* Lines of messages, as sequences                                         *)

\* The messages q are places among those taken, m, belong to user u as k names
\* the users of calls, and are in order.
Fine(q, k, m, u) ==
  /\ \A i \in 1 .. Len(q) : q[i] \in DOMAIN m /\ k[m[q[i]]].user = u
  /\ \A i, j \in 1 .. Len(q) : i < j => q[i] < q[j]

\* Messages that are added, and whatever keeps the users, does not matter to a line.
LEMMA FineKept ==
  ASSUME NEW k, NEW l, NEW m, NEW r, NEW u, NEW q, Fine(q, k, m, u),
         \A n \in DOMAIN m : n \in DOMAIN r /\ r[n] = m[n] /\ l[m[n]].user = k[m[n]].user
  PROVE  Fine(q, l, r, u)
BY DEF Fine

\* A message moves from the front of one queue to the end of the one before.
LEMMA Moved ==
  ASSUME NEW a \in Seq(Nat), NEW b \in Seq(Nat), b # <<>>
  PROVE  Append(a, Head(b)) \o Tail(b) = a \o b
OBVIOUS

LEMMA Regroup ==
  ASSUME NEW a \in Seq(Nat), NEW b \in Seq(Nat), NEW w \in Seq(Nat)
  PROVE  /\ (a \o b) \o w \in Seq(Nat)
         /\ a \o (b \o w) = (a \o b) \o w
OBVIOUS

LEMMA Appended ==
  ASSUME NEW a \in Seq(Nat), NEW w \in Seq(Nat), NEW n \in Nat
  PROVE  a \o Append(w, n) = Append(a \o w, n)
OBVIOUS

LEMMA TailOf ==
  ASSUME NEW b \in Seq(Nat), NEW w \in Seq(Nat), b # <<>>
  PROVE  b \o w \in Seq(Nat) /\ b \o w # <<>> /\ Tail(b \o w) = Tail(b) \o w
<1>1. Len(b) \in Nat \ {0} /\ Len(b \o w) = Len(b) + Len(w) /\ Len(w) \in Nat
  OBVIOUS
<1>2. b \o w \in Seq(Nat) /\ b \o w # <<>>
  BY <1>1
<1> QED  BY <1>1, <1>2

\* A line without one of its messages, or without its end, is a line.
LEMMA FineDropped ==
  ASSUME NEW k, NEW m, NEW u, NEW a \in Seq(Nat), NEW b \in Seq(Nat), b # <<>>,
         Fine(a \o b, k, m, u)
  PROVE  Fine(a \o Tail(b), k, m, u)
<1> DEFINE q == a \o b
           r == a \o Tail(b)
           up(i) == IF i <= Len(a) THEN i ELSE i + 1
<1>1. ASSUME NEW i \in 1 .. Len(r) PROVE up(i) \in 1 .. Len(q) /\ r[i] = q[up(i)]
  OBVIOUS
<1>2. ASSUME NEW i \in 1 .. Len(r), NEW j \in 1 .. Len(r), i < j PROVE up(i) < up(j)
  BY <1>2
<1> HIDE DEF q, r, up
<1> QED  BY <1>1, <1>2 DEF Fine, q, r

LEMMA FineCut ==
  ASSUME NEW k, NEW m, NEW u, NEW a \in Seq(Nat), NEW w \in Seq(Nat),
         Fine(a \o w, k, m, u)
  PROVE  Fine(a, k, m, u)
<1>1. Len(a) <= Len(a \o w) /\ \A i \in 1 .. Len(a) : (a \o w)[i] = a[i]
  OBVIOUS
<1>2. 1 .. Len(a) \subseteq 1 .. Len(a \o w)
  OBVIOUS
<1> QED  BY <1>1, <1>2 DEF Fine

\* The next message comes last.
LEMMA FineAppended ==
  ASSUME NEW k, NEW m \in Seq(Calls), NEW u, NEW q \in Seq(Nat), Fine(q, k, m, u),
         NEW c \in Calls, k[c].user = u
  PROVE  Fine(Append(q, Len(m) + 1), k, Append(m, c), u)
<1> DEFINE p == Len(m) + 1
           r == Append(q, p)
           more == Append(m, c)
<1>1. Len(r) = Len(q) + 1 /\ Len(q) \in Nat /\ r[Len(r)] = p
  OBVIOUS
<1>2. /\ DOMAIN m = 1 .. Len(m) /\ Len(m) \in Nat /\ p \in DOMAIN more /\ more[p] = c
      /\ \A n \in DOMAIN m : n \in DOMAIN more /\ more[n] = m[n] /\ n \in Nat /\ n < p
  OBVIOUS
<1>3. \A i \in 1 .. Len(q) : r[i] = q[i]
  OBVIOUS
<1> HIDE DEF p, r, more
<1>4. ASSUME NEW i \in 1 .. Len(q) PROVE q[i] \in DOMAIN m /\ q[i] < p /\ k[m[q[i]]].user = u
  BY <1>2 DEF Fine
<1>5. ASSUME NEW i \in 1 .. Len(r) PROVE r[i] \in DOMAIN more /\ k[more[r[i]]].user = u
  <2>1. CASE i = Len(r)
    BY <1>1, <1>2, <2>1
  <2>2. CASE i # Len(r)
    <3>1. i \in 1 .. Len(q)
      BY <1>1, <2>2
    <3> QED  BY <1>2, <1>3, <1>4, <3>1
  <2> QED  BY <2>1, <2>2
<1>6. ASSUME NEW i \in 1 .. Len(r), NEW j \in 1 .. Len(r), i < j PROVE r[i] < r[j]
  <2>1. i \in 1 .. Len(q)
    BY <1>1, <1>6
  <2>2. CASE j = Len(r)
    BY <1>1, <1>3, <1>4, <2>1, <2>2
  <2>3. CASE j # Len(r)
    <3>1. j \in 1 .. Len(q)
      BY <1>1, <2>3
    <3> QED  BY <1>3, <1>6, <2>1, <3>1 DEF Fine
  <2> QED  BY <2>2, <2>3
<1> QED  BY <1>5, <1>6 DEF Fine, p, r, more

\* The copies of an event are finitely many, and one more is one more at most.
LEMMA CopiesFinite ==
  ASSUME TypeOK, NEW c \in Calls
  PROVE  IsFiniteSet(Copies(c)) /\ Cardinality(Copies(c)) \in Nat
<1>1. DOMAIN published = 1 .. Len(published) /\ Len(published) \in Nat
  BY DEF TypeOK
<1>2. IsFiniteSet(DOMAIN published)
  BY <1>1, FS_Interval
<1>3. Copies(c) \in SUBSET DOMAIN published
  BY DEF Copies
<1> QED  BY <1>2, <1>3, FS_Subset, FS_CardinalityType

LEMMA OneMore ==
  ASSUME NEW S, NEW x, IsFiniteSet(S), Cardinality(S) \in Nat
  PROVE  Cardinality(S \cup {x}) <= Cardinality(S) + 1
<1>1. Cardinality(S \cup {x}) = IF x \in S THEN Cardinality(S) ELSE Cardinality(S) + 1
  BY FS_AddElement
<1> QED  BY <1>1

\* A line shows no more copies of an event than Redis took.
LEMMA ShownAreCopies ==
  ASSUME NEW q, NEW k, NEW m \in Seq(Calls), NEW u, Fine(q, k, m, u), Len(q) \in Nat, NEW c
  PROVE  LET shown  == {i \in 1 .. Len(q) : m[q[i]] = c}
             copies == {n \in DOMAIN m : m[n] = c}
         IN  /\ Cardinality(shown) <= Cardinality(copies)
             /\ Cardinality(shown) \in Nat /\ Cardinality(copies) \in Nat
<1> DEFINE shown == {i \in 1 .. Len(q) : m[q[i]] = c}
           copies == {n \in DOMAIN m : m[n] = c}
           f == [i \in shown |-> q[i]]
<1>0. DOMAIN m = 1 .. Len(m) /\ Len(m) \in Nat
  OBVIOUS
<1>1. ASSUME NEW i \in shown PROVE q[i] \in copies /\ i \in 1 .. Len(q) /\ q[i] \in Int
  BY <1>0 DEF Fine
<1> HIDE DEF shown
<1>2. ASSUME NEW i \in shown, NEW j \in shown, q[i] = q[j] PROVE i = j
  <2>1. i \in Int /\ j \in Int /\ q[i] \in Int /\ q[j] \in Int
    BY <1>1
  <2>2. ~ (i < j) /\ ~ (j < i)
    BY <1>1, <1>2, <2>1 DEF Fine
  <2> QED  BY <2>1, <2>2
<1>3. IsFiniteSet(copies)
  <2>1. IsFiniteSet(DOMAIN m)
    BY <1>0, FS_Interval
  <2> QED  BY <2>1, FS_Subset
<1> HIDE DEF copies
<1>4. f \in Injection(shown, copies)
  BY <1>1, <1>2 DEF Injection, IsInjective
<1> HIDE DEF f
<1>5. /\ Cardinality(shown) <= Cardinality(copies)
      /\ Cardinality(shown) \in Nat /\ Cardinality(copies) \in Nat
  BY <1>3, <1>4, FS_Injection, FS_CardinalityType
<1> QED  BY <1>5 DEF shown, copies

-----------------------------------------------------------------------------
(* What the steps do to calls and lines                                    *)

LEMMA LineType ==
  ASSUME TypeOK, NEW s \in Calls
  PROVE  /\ stream[s].got \in Seq(Nat) /\ stream[s].buffer \in Seq(Nat)
         /\ stream[s].wire \in Seq(Nat) /\ Line(s) \in Seq(Nat)
<1>1. stream[s] \in Stream
  BY DEF TypeOK
<1>2. /\ stream[s].got \in Seq(Nat) /\ stream[s].buffer \in Seq(Nat)
      /\ stream[s].wire \in Seq(Nat)
  BY <1>1 DEF Stream
<1> QED  BY <1>2, Regroup DEF Line

\* A step is taken by one call, or by none.
LEMMA OneCall ==
  ASSUME TypeOK, [Next]_vars
  PROVE  \/ UNCHANGED call
         \/ \E d \in Calls : /\ Request(d) \/ Continue(d) \/ Send(d)
                             /\ \A c \in Calls \ {d} : call'[c] = call[c]
<1>0. call \in [Calls -> Call]
  BY DEF TypeOK
<1>1. ASSUME NEW d \in Calls, Request(d), NEW c \in Calls \ {d} PROVE call'[c] = call[c]
  <2>1. ASSUME NEW op, NEW u, NEW n, NEW step, NEW a, Accept(d, op, u, n, step, a)
        PROVE  call'[c] = call[c]
    BY <1>0, <1>1, <2>1 DEF Accept
  <2> QED
    BY <1>1, <2>1 DEF Request, Emit, OpenStream, MarkAllAsRead, MarkAsRead, DeleteNote
<1>2. ASSUME NEW d \in Calls, Continue(d), NEW c \in Calls \ {d} PROVE call'[c] = call[c]
  BY <1>0, <1>2 DEF Continue, StartWriter, CloseSubscription, UpdateRead, RemoveNote, Goto, Reply
<1>3. ASSUME NEW d \in Calls, Send(d), NEW c \in Calls \ {d} PROVE call'[c] = call[c]
  BY <1>0, <1>3 DEF Send, Publish, Resend, GiveUp, Goto
<1>4. ASSUME NEW d \in Calls, Redis(d) \/ Disconnect(d) \/ Writer(d) PROVE UNCHANGED call
  BY <1>4 DEF Redis, RedisSubscribe, LoseConnection, Receive, CloseChannel, Disconnect, Writer,
              WriteEvent, Heartbeat, EndOfChannel, Interrupted, WriterEnds
<1>5. CASE Shutdown \/ UNCHANGED vars
  BY <1>5 DEF Shutdown, vars
<1> QED  BY <1>1, <1>2, <1>3, <1>4, <1>5 DEF Next

\* Sending an event, its call is somewhere, and its operation and user stay.
LEMMA SendCall ==
  ASSUME TypeOK, NEW c \in Calls, Send(c)
  PROVE  /\ call'[c].op = call[c].op /\ call'[c].user = call[c].user
         /\ call'[c].reply = call[c].reply /\ call'[c].note = call[c].note
         /\ call'[c].pc \in {call[c].pc, "done"}
         /\ call'[c].tries >= call[c].tries
         /\ stopping' = stopping /\ note' = note
<1>0. call \in [Calls -> Call] /\ call[c] \in Call
  BY DEF TypeOK
<1>1. call[c].tries \in Int
  BY <1>0 DEF Call
<1>2. CASE Goto(c, "done")
  BY <1>0, <1>1, <1>2 DEF Goto, Call, Send, Publish, Resend, GiveUp
<1>3. CASE UNCHANGED call
  BY <1>0, <1>1, <1>3 DEF Send, Publish, Resend, GiveUp
<1>4. CASE Resend(c)
  BY <1>0, <1>1, <1>4 DEF Resend, Call
<1> QED  BY <1>2, <1>3, <1>4 DEF Send, Publish, GiveUp

\* A call that has started keeps its operation and its user.
LEMMA CallKept ==
  ASSUME TypeOK, [Next]_vars, NEW c \in Calls, call[c].pc # "idle"
  PROVE  /\ call'[c].op = call[c].op /\ call'[c].user = call[c].user
         /\ call'[c].tries >= call[c].tries
<1>0. call \in [Calls -> Call] /\ call[c] \in Call /\ call[c].tries \in Int
  BY DEF TypeOK, Call
<1>1. CASE call'[c] = call[c]
  BY <1>0, <1>1
<1>2. CASE Request(c)
  <2>1. ASSUME NEW op, NEW u, NEW n, NEW step, NEW a, Accept(c, op, u, n, step, a)
        PROVE  FALSE
    BY <2>1 DEF Accept, At
  <2> QED
    BY <1>2, <2>1 DEF Request, Emit, OpenStream, MarkAllAsRead, MarkAsRead, DeleteNote
<1>3. CASE Continue(c)
  <2>1. (\E step : Goto(c, step)) \/ (\E a : Reply(c, a))
    BY <1>3 DEF Continue, StartWriter, CloseSubscription, UpdateRead, RemoveNote
  <2>2. ASSUME NEW step, Goto(c, step)
        PROVE  call'[c].op = call[c].op /\ call'[c].user = call[c].user /\ call'[c].tries = call[c].tries
    BY <1>0, <2>2 DEF Goto, Call
  <2>3. ASSUME NEW a, Reply(c, a)
        PROVE  call'[c].op = call[c].op /\ call'[c].user = call[c].user /\ call'[c].tries = call[c].tries
    BY <1>0, <2>3 DEF Reply, Call
  <2> QED  BY <1>0, <2>1, <2>2, <2>3
<1>4. CASE Send(c)
  BY <1>4, SendCall
<1> QED  BY <1>1, <1>2, <1>3, <1>4, OneCall

\* Only Publish adds to what Redis has taken.
LEMMA PublishedKept ==
  ASSUME TypeOK, [Next]_vars
  PROVE  \/ published' = published
         \/ \E c \in Calls : Publish(c) /\ published' = Append(published, c)
<1>1. ASSUME NEW c \in Calls, Request(c) PROVE published' = published
  BY <1>1 DEF Request, Emit, OpenStream, MarkAllAsRead, MarkAsRead, DeleteNote
<1>2. ASSUME NEW c \in Calls, Continue(c) PROVE published' = published
  BY <1>2 DEF Continue, StartWriter, CloseSubscription, UpdateRead, RemoveNote
<1>3. ASSUME NEW c \in Calls, Send(c)
      PROVE  published' = published \/ (Publish(c) /\ published' = Append(published, c))
  BY <1>3 DEF Send, Publish, Resend, GiveUp
<1>4. ASSUME NEW c \in Calls, Redis(c) \/ Disconnect(c) \/ Writer(c)
      PROVE  published' = published
  BY <1>4 DEF Redis, RedisSubscribe, LoseConnection, Receive, CloseChannel, Disconnect, Writer,
              WriteEvent, Heartbeat, EndOfChannel, Interrupted, WriterEnds
<1> QED  BY <1>1, <1>2, <1>3, <1>4 DEF Next, vars, Shutdown

\* A step leaves a line alone, drops a message or the end of it, or adds one more.
Grows(c, s) ==
  /\ Publish(c) /\ published' = Append(published, c)
  /\ stream[s].sub = "on" /\ call[s].user = call[c].user
  /\ Line(s)' = Append(Line(s), Len(published) + 1)

LEMMA SameLine ==
  ASSUME NEW s \in Calls, stream'[s].got = stream[s].got, stream'[s].buffer = stream[s].buffer,
         stream'[s].wire = stream[s].wire
  PROVE  Line(s)' = Line(s)
BY DEF Line

\* Steps that change no queue of any stream.
LEMMA SameQueues ==
  ASSUME TypeOK, NEW s \in Calls, NEW d \in Calls,
         \/ stream' = [stream EXCEPT ![d].sub = "asked"]
         \/ stream' = [stream EXCEPT ![d].sub = "on"]
         \/ stream' = [stream EXCEPT ![d].open = FALSE]
         \/ stream' = [stream EXCEPT ![d].connected = FALSE]
         \/ stream' = [stream EXCEPT ![d].writer = "loop"]
         \/ stream' = [stream EXCEPT ![d].writer = "done"]
  PROVE  Line(s)' = Line(s)
<1>1. stream \in [Calls -> Stream] /\ stream[s] \in Stream
  BY DEF TypeOK
<1>2. CASE d # s
  <2>1. stream'[s] = stream[s]
    BY <1>1, <1>2
  <2> QED  BY <2>1, SameLine
<1>3. CASE d = s
  <2>1. \/ stream'[s] = [stream[s] EXCEPT !.sub = "asked"]
        \/ stream'[s] = [stream[s] EXCEPT !.sub = "on"]
        \/ stream'[s] = [stream[s] EXCEPT !.open = FALSE]
        \/ stream'[s] = [stream[s] EXCEPT !.connected = FALSE]
        \/ stream'[s] = [stream[s] EXCEPT !.writer = "loop"]
        \/ stream'[s] = [stream[s] EXCEPT !.writer = "done"]
    BY <1>1, <1>3
  <2>2. /\ stream'[s].got = stream[s].got /\ stream'[s].buffer = stream[s].buffer
        /\ stream'[s].wire = stream[s].wire
    BY <1>1, <2>1 DEF Stream
  <2> QED  BY <2>2, SameLine
<1> QED  BY <1>2, <1>3

LEMMA LineStep ==
  ASSUME TypeOK, [Next]_vars, NEW s \in Calls
  PROVE  \/ Line(s)' = Line(s)
         \/ /\ stream[s].buffer # <<>>
            /\ Line(s)' = stream[s].got \o (Tail(stream[s].buffer) \o stream[s].wire)
         \/ Line(s)' = stream[s].got \o stream[s].buffer
         \/ \E c \in Calls : Grows(c, s)
<1> DEFINE st == stream[s]
<1>0. stream \in [Calls -> Stream] /\ st \in Stream
  BY DEF TypeOK
<1>00. st.got \in Seq(Nat) /\ st.buffer \in Seq(Nat) /\ st.wire \in Seq(Nat)
  BY LineType
<1>1. CASE stream'[s] = stream[s]
  BY <1>1, SameLine
<1>2. ASSUME NEW c \in Calls, Publish(c) PROVE stream'[s] = stream[s] \/ Grows(c, s)
  <2>1. CASE stream'[s] = stream[s]
    BY <2>1
  <2>2. CASE /\ published' = Append(published, c)
             /\ stream'[s] = [stream[s] EXCEPT !.wire = Append(@, Len(published) + 1)]
             /\ stream[s].sub = "on" /\ call[s].user = call[c].user
    <3> DEFINE p == Len(published) + 1
    <3>0. p \in Nat
      BY DEF TypeOK
    <3>1. stream'[s].got = st.got /\ stream'[s].buffer = st.buffer
          /\ stream'[s].wire = Append(st.wire, p)
      BY <1>0, <2>2 DEF Stream
    <3> HIDE DEF p
    <3>2. Line(s)' = Append(Line(s), p)
      <4> DEFINE front == st.got \o st.buffer
      <4>1. front \in Seq(Nat)
        BY <1>00
      <4>2. Line(s)' = front \o Append(st.wire, p) /\ Line(s) = front \o st.wire
        BY <3>1 DEF Line
      <4> HIDE DEF front
      <4>3. front \o Append(st.wire, p) = Append(front \o st.wire, p)
        BY <1>00, <3>0, <4>1, Appended
      <4> QED  BY <4>2, <4>3
    <3> QED  BY <1>2, <2>2, <3>2 DEF Grows, p
  <2> QED  BY <1>2, <2>1, <2>2 DEF Publish
<1>3. ASSUME NEW d \in Calls, Request(d) PROVE Line(s)' = Line(s)
  <2>1. \/ UNCHANGED stream
        \/ stream' = [stream EXCEPT ![d].sub = "asked"]
    BY <1>3 DEF Request, Emit, OpenStream, MarkAllAsRead, MarkAsRead, DeleteNote
  <2> QED  BY <2>1, SameQueues, SameLine
<1>4. ASSUME NEW d \in Calls, StartWriter(d) \/ UpdateRead(d) \/ RemoveNote(d)
      PROVE  Line(s)' = Line(s)
  <2>1. UNCHANGED stream \/ stream' = [stream EXCEPT ![d].writer = "loop"]
    BY <1>4 DEF StartWriter, UpdateRead, RemoveNote
  <2> QED  BY <2>1, SameQueues, SameLine
<1>5. CASE CloseSubscription(s)
  <2>1. stream'[s].got = st.got /\ stream'[s].buffer = st.buffer /\ stream'[s].wire = <<>>
    BY <1>0, <1>5 DEF CloseSubscription, Stream
  <2>2. Line(s)' = (st.got \o st.buffer) \o <<>>
    BY <2>1 DEF Line
  <2>3. (st.got \o st.buffer) \o <<>> = st.got \o st.buffer
    BY <1>00
  <2> QED  BY <2>2, <2>3
<1>6. CASE Receive(s)
  <2>1. /\ st.wire # <<>>
        /\ stream'[s].got = st.got /\ stream'[s].wire = Tail(st.wire)
        /\ stream'[s].buffer = Append(st.buffer, Head(st.wire))
    BY <1>0, <1>6 DEF Receive, Stream
  <2>2. Append(st.buffer, Head(st.wire)) \o Tail(st.wire) = st.buffer \o st.wire
    BY <1>00, <2>1, Moved
  <2>3. Append(st.buffer, Head(st.wire)) \in Seq(Nat) /\ Tail(st.wire) \in Seq(Nat)
    BY <1>00, <2>1
  <2>4. Line(s)' = st.got \o (st.buffer \o st.wire)
    <3>1. Line(s)' = (st.got \o Append(st.buffer, Head(st.wire))) \o Tail(st.wire)
      BY <2>1 DEF Line
    <3>2. st.got \o (Append(st.buffer, Head(st.wire)) \o Tail(st.wire))
            = (st.got \o Append(st.buffer, Head(st.wire))) \o Tail(st.wire)
      BY <1>00, <2>3, Regroup
    <3> QED  BY <2>2, <3>1, <3>2
  <2> QED  BY <1>00, <2>4, Regroup DEF Line
<1>7. CASE WriteEvent(s)
  <2>1. /\ st.buffer # <<>> /\ stream'[s].wire = st.wire /\ stream'[s].buffer = Tail(st.buffer)
        /\ stream'[s].got = IF st.connected THEN Append(st.got, Head(st.buffer)) ELSE st.got
    BY <1>0, <1>7 DEF WriteEvent, Stream
  <2>2. CASE st.connected
    <3>1. Append(st.got, Head(st.buffer)) \o Tail(st.buffer) = st.got \o st.buffer
      BY <1>00, <2>1, Moved
    <3> QED  BY <2>1, <2>2, <3>1 DEF Line
  <2>3. CASE ~ st.connected
    <3>1. Tail(st.buffer) \in Seq(Nat)
      BY <1>00, <2>1
    <3>2. Line(s)' = (st.got \o Tail(st.buffer)) \o st.wire
      BY <2>1, <2>3 DEF Line
    <3>3. st.got \o (Tail(st.buffer) \o st.wire) = (st.got \o Tail(st.buffer)) \o st.wire
      BY <1>00, <3>1, Regroup
    <3> QED  BY <2>1, <3>2, <3>3
  <2> QED  BY <2>2, <2>3
<1>8. ASSUME NEW d \in Calls, \/ RedisSubscribe(d) \/ CloseChannel(d) \/ Disconnect(d)
                              \/ WriterEnds(d)
      PROVE  Line(s)' = Line(s)
  <2>1. \/ stream' = [stream EXCEPT ![d].sub = "on"]
        \/ stream' = [stream EXCEPT ![d].open = FALSE]
        \/ stream' = [stream EXCEPT ![d].connected = FALSE]
        \/ stream' = [stream EXCEPT ![d].writer = "done"]
    BY <1>8 DEF RedisSubscribe, CloseChannel, Disconnect, WriterEnds
  <2> QED  BY <2>1, SameQueues, SameLine
<1>9. ASSUME NEW d \in Calls, d # s,
             CloseSubscription(d) \/ LoseConnection(d) \/ Receive(d) \/ WriteEvent(d)
      PROVE  stream'[s] = stream[s]
  BY <1>0, <1>9 DEF CloseSubscription, LoseConnection, Receive, WriteEvent
<1>10. CASE Shutdown \/ UNCHANGED vars
  BY <1>1, <1>10 DEF Shutdown, vars
<1>11. ASSUME NEW d \in Calls, Resend(d) \/ GiveUp(d) PROVE stream'[s] = stream[s]
  BY <1>11 DEF Resend, GiveUp
<1>12. CASE LoseConnection(s)
  <2>1. stream'[s].got = st.got /\ stream'[s].buffer = st.buffer /\ stream'[s].wire = <<>>
    BY <1>0, <1>12 DEF LoseConnection, Stream
  <2>2. Line(s)' = (st.got \o st.buffer) \o <<>>
    BY <2>1 DEF Line
  <2>3. (st.got \o st.buffer) \o <<>> = st.got \o st.buffer
    BY <1>00
  <2> QED  BY <2>2, <2>3
<1> QED
  BY <1>1, <1>2, <1>3, <1>4, <1>5, <1>6, <1>7, <1>8, <1>9, <1>10, <1>11, <1>12
     DEF Next, Continue, Send, Redis, Writer, Heartbeat, EndOfChannel, Interrupted

-----------------------------------------------------------------------------
(* The invariant                                                           *)

\* What the invariant says of the line of one stream.
LEMMA LineIsFine ==
  ASSUME \A r \in Calls : LineInv(r), OwnEventsInOrder, NEW s \in Calls
  PROVE  Fine(Line(s), call, published, call[s].user)
BY DEF Fine, LineInv, OwnEventsInOrder

\* The call of a message has started, so it keeps its user.
LEMMA UsersKept ==
  ASSUME TypeOK, NotificationsInv, [Next]_vars, NEW n \in DOMAIN published
  PROVE  /\ n \in DOMAIN published' /\ published'[n] = published[n]
         /\ published[n] \in Calls /\ call'[published[n]].user = call[published[n]].user
<1>1. published \in Seq(Calls) /\ published[n] \in Calls
  BY DEF TypeOK
<1>2. PICK c \in Calls : c = published[n]
  BY <1>1
<1>3. call[c].pc # "idle"
  <2>1. n \in Copies(c)
    BY <1>2 DEF Copies
  <2> QED  BY <2>1 DEF NotificationsInv, CallInv, LineInv
<1>4. call'[c].user = call[c].user
  BY <1>3, CallKept
<1>5. n \in DOMAIN published' /\ published'[n] = published[n]
  BY <1>1, PublishedKept
<1> QED  BY <1>1, <1>2, <1>4, <1>5

LEMMA LineFine ==
  ASSUME TypeOK, NotificationsInv, [Next]_vars, NEW s \in Calls
  PROVE  Fine(Line(s), call, published, call[s].user)'
<1>0. /\ call \in [Calls -> Call] /\ call' \in [Calls -> Call] /\ Line(s) \in Seq(Nat)
      /\ published \in Seq(Calls)
  BY TypeStep, LineType DEF TypeOK
<1>1. Fine(Line(s), call, published, call[s].user)
  BY LineIsFine DEF NotificationsInv
<1>2. CASE Line(s)' = <<>>
  BY <1>2 DEF Fine
<1>3. CASE call[s].pc # "idle"
  <2> DEFINE st == stream[s]
             u == call[s].user
  <2>0. call'[s].user = u
    BY <1>3, CallKept
  <2>1. \A n \in DOMAIN published : /\ n \in DOMAIN published' /\ published'[n] = published[n]
                                    /\ call'[published[n]].user = call[published[n]].user
    BY UsersKept
  <2>2. ASSUME NEW q \in Seq(Nat), Fine(q, call, published, u), Line(s)' = q
        PROVE  Fine(Line(s)', call', published', u)
    BY <2>1, <2>2, FineKept
  <2>3. st.got \in Seq(Nat) /\ st.buffer \in Seq(Nat) /\ st.wire \in Seq(Nat)
    BY LineType
  <2>4. ASSUME Line(s)' = Line(s)
        PROVE  Fine(Line(s)', call', published', u)
    BY <1>0, <1>1, <2>2, <2>4
  <2>5. ASSUME st.buffer # <<>> /\ Line(s)' = st.got \o (Tail(st.buffer) \o st.wire)
        PROVE  Fine(Line(s)', call', published', u)
    <3> DEFINE rest == st.buffer \o st.wire
    <3>1. rest \in Seq(Nat) /\ rest # <<>> /\ Tail(rest) = Tail(st.buffer) \o st.wire
      BY <2>3, <2>5, TailOf
    <3>2. Line(s) = st.got \o rest
      BY <2>3, Regroup DEF Line
    <3>3. st.got \o Tail(rest) \in Seq(Nat)
      BY <2>3, <3>1
    <3> HIDE DEF rest
    <3>4. Fine(st.got \o Tail(rest), call, published, u)
      BY <1>1, <2>3, <3>1, <3>2, FineDropped
    <3> QED  BY <2>2, <2>5, <3>1, <3>3, <3>4
  <2>6. ASSUME Line(s)' = st.got \o st.buffer
        PROVE  Fine(Line(s)', call', published', u)
    <3>1. st.got \o st.buffer \in Seq(Nat)
      BY <2>3
    <3>2. Fine(st.got \o st.buffer, call, published, u)
      BY <1>1, <2>3, <3>1, FineCut DEF Line
    <3> QED  BY <2>2, <2>6, <3>1, <3>2
  <2>7. ASSUME NEW c \in Calls, Grows(c, s) PROVE Fine(Line(s)', call', published', u)
    <3>1. Fine(Line(s), call', published, u)
      BY <1>1, <2>1, FineKept
    <3>2. call'[c].user = u
      BY <2>7, SendCall DEF Grows, Send
    <3>3. Fine(Append(Line(s), Len(published) + 1), call', Append(published, c), u)
      BY <1>0, <3>1, <3>2, FineAppended
    <3> QED  BY <2>7, <3>3 DEF Grows
  <2>8. Fine(Line(s)', call', published', u)
    BY <2>4, <2>5, <2>6, <2>7, LineStep
  <2> QED  BY <2>0, <2>8
<1>4. CASE call[s].pc = "idle"
  <2>1. stream[s] = NoStream
    BY <1>4 DEF NotificationsInv, CallInv
  <2>2. Line(s) = <<>> /\ stream[s].buffer = <<>> /\ stream[s].got = <<>> /\ stream[s].sub = "none"
    BY <2>1 DEF Line, NoStream
  <2>3. stream[s].got \o stream[s].buffer = <<>>
    BY <2>2
  <2>4. Line(s)' = <<>>
    BY <2>2, <2>3, LineStep DEF Grows
  <2> QED  BY <1>2, <2>4
<1> QED  BY <1>3, <1>4

\* No event is taken more often than it was sent.
LEMMA CopiesStep ==
  ASSUME TypeOK, NotificationsInv, [Next]_vars, NEW c \in Calls
  PROVE  (Cardinality(Copies(c)) <= 1 + call[c].tries /\ (Copies(c) # {} => call[c].op = "event"))'
<1>0. /\ call \in [Calls -> Call] /\ call[c] \in Call /\ call' \in [Calls -> Call]
      /\ published \in Seq(Calls)
  BY TypeStep DEF TypeOK
<1>1. call[c].tries \in Int /\ call'[c].tries \in Int /\ call'[c].tries >= 0
  <2>1. call'[c] \in Call
    BY <1>0
  <2> QED  BY <1>0, <2>1, NotificationsAssumption DEF Call
<1>2. /\ Cardinality(Copies(c)) \in Nat /\ IsFiniteSet(Copies(c))
      /\ Cardinality(Copies(c)) <= 1 + call[c].tries
      /\ Copies(c) # {} => call[c].op = "event"
  BY CopiesFinite DEF NotificationsInv, LineInv
<1>3. CASE Copies(c)' = Copies(c)
  <2>1. CASE call[c].pc # "idle"
    BY <1>1, <1>2, <1>3, <2>1, CallKept
  <2>2. CASE call[c].pc = "idle"
    <3>1. Copies(c) = {}
      BY <1>2, <2>2 DEF NotificationsInv, CallInv
    <3> QED  BY <1>1, <1>3, <3>1, FS_EmptySet
  <2> QED  BY <2>1, <2>2
<1>4. ASSUME NEW d \in Calls, Publish(d), published' = Append(published, d)
      PROVE  Copies(c)' = Copies(c) \cup (IF c = d THEN {Len(published) + 1} ELSE {})
  <2>1. /\ DOMAIN published = 1 .. Len(published) /\ Len(published) \in Nat
        /\ DOMAIN published' = (1 .. Len(published)) \cup {Len(published) + 1}
        /\ Len(published) + 1 \notin 1 .. Len(published)
        /\ published'[Len(published) + 1] = d
        /\ \A n \in 1 .. Len(published) : published'[n] = published[n]
    BY <1>0, <1>4
  <2> QED  BY <2>1 DEF Copies
<1>5. ASSUME Publish(c), published' = Append(published, c)
      PROVE  (Cardinality(Copies(c)) <= 1 + call[c].tries /\ (Copies(c) # {} => call[c].op = "event"))'
  <2>1. call[c].op = "event" /\ Cardinality(Copies(c)) <= call[c].tries
    BY <1>5 DEF Publish
  <2>2. call'[c].op = "event" /\ call'[c].tries >= call[c].tries
    BY <1>5, <2>1, SendCall DEF Send
  <2>3. Copies(c)' = Copies(c) \cup {Len(published) + 1}
    BY <1>4, <1>5
  <2>4. Cardinality(Copies(c)') <= Cardinality(Copies(c)) + 1 /\ Cardinality(Copies(c)') \in Nat
    <3> DEFINE one == Cardinality(Copies(c) \cup {Len(published) + 1})
    <3>1. one <= Cardinality(Copies(c)) + 1
      BY <1>2, OneMore
    <3>2. one \in Nat
      BY <1>2, FS_AddElement, FS_CardinalityType
    <3> QED  BY <2>3, <3>1, <3>2
  <2> QED  BY <1>1, <1>2, <2>1, <2>2, <2>4
<1>6. CASE published' = published
  BY <1>3, <1>6 DEF Copies
<1>7. ASSUME NEW d \in Calls, d # c, Publish(d), published' = Append(published, d)
      PROVE  Copies(c)' = Copies(c)
  BY <1>4, <1>7
<1> QED  BY <1>3, <1>5, <1>6, <1>7, PublishedKept

\* A note that is gone stays so, and read_at is set once.
LEMMA NoteKept ==
  ASSUME TypeOK, [Next]_vars, NEW n \in Notes
  PROVE  /\ note[n].gone => note'[n].gone
         /\ note[n].by \in Calls => note'[n].by = note[n].by
<1>0. note \in [Notes -> Note] /\ note[n] \in Note
  BY DEF TypeOK
<1>1. note[n].by \in Calls => note[n].read
  BY <1>0, NotificationsAssumption DEF Note
<1>2. CASE note'[n] = note[n]
  BY <1>2
<1>3. CASE ~ note[n].read /\ \E c \in Calls :
             note'[n] = [note[n] EXCEPT !.read = TRUE, !.by = c]
  BY <1>0, <1>1, <1>3 DEF Note
<1>4. CASE note'[n] = [note[n] EXCEPT !.gone = TRUE]
  BY <1>0, <1>4 DEF Note
<1>5. ASSUME NEW c \in Calls, UpdateRead(c)
      PROVE  \/ note'[n] = note[n]
             \/ ~ note[n].read /\ note'[n] = [note[n] EXCEPT !.read = TRUE, !.by = c]
  BY <1>0, <1>5 DEF UpdateRead
<1>6. ASSUME NEW c \in Calls, NEW u \in Users, MarkAllAsRead(c, u)
      PROVE  \/ note'[n] = note[n]
             \/ ~ note[n].read /\ note'[n] = [note[n] EXCEPT !.read = TRUE, !.by = c]
  <2>1. PICK o \in Outcomes :
          note' = [m \in Notes |-> IF o = "ok" /\ Present(m, u) /\ ~ note[m].read
                     THEN [note[m] EXCEPT !.read = TRUE, !.by = c] ELSE note[m]]
    BY <1>6 DEF MarkAllAsRead
  <2> QED  BY <2>1
<1>7. ASSUME NEW c \in Calls, RemoveNote(c)
      PROVE  note'[n] = note[n] \/ note'[n] = [note[n] EXCEPT !.gone = TRUE]
  BY <1>0, <1>7 DEF RemoveNote
<1>8. ASSUME NEW c \in Calls, Request(c)
      PROVE  UNCHANGED note \/ \E u \in Users : MarkAllAsRead(c, u)
  BY <1>8 DEF Request, Emit, OpenStream, MarkAsRead, DeleteNote
<1>9. ASSUME NEW c \in Calls, Continue(c)
      PROVE  UNCHANGED note \/ UpdateRead(c) \/ RemoveNote(c)
  BY <1>9 DEF Continue, StartWriter, CloseSubscription
<1>10. ASSUME NEW c \in Calls, Send(c) \/ Redis(c) \/ Disconnect(c) \/ Writer(c)
       PROVE  UNCHANGED note
  BY <1>10 DEF Send, Publish, Resend, GiveUp, Redis, RedisSubscribe, LoseConnection, Receive,
               CloseChannel, Disconnect, Writer, WriteEvent, Heartbeat, EndOfChannel, Interrupted,
               WriterEnds
<1> QED
  BY <1>2, <1>3, <1>4, <1>5, <1>6, <1>7, <1>8, <1>9, <1>10 DEF Next, vars, Shutdown

\* A call that has not started has no stream, and no stream appears by itself.
LEMMA NoStreamKept ==
  ASSUME TypeOK, [Next]_vars, NEW c \in Calls, CallInv(c), call'[c] = call[c], At(c, "idle")
  PROVE  stream'[c] = NoStream
<1>0. stream \in [Calls -> Stream] /\ call \in [Calls -> Call]
  BY DEF TypeOK
<1>1. stream[c] = NoStream /\ call[c].op = "none" /\ call[c].pc = "idle"
  BY DEF CallInv, At
<1>2. /\ stream[c].sub = "none" /\ stream[c].writer = "none" /\ stream[c].wire = <<>>
      /\ stream[c].buffer = <<>>
  BY <1>1 DEF NoStream
<1>3. ASSUME NEW d \in Calls, Redis(d) \/ Disconnect(d) \/ Writer(d) PROVE stream'[c] = stream[c]
  <2>1. CASE d = c
    BY <1>1, <1>2, <1>3, <2>1
       DEF Redis, RedisSubscribe, LoseConnection, Receive, CloseChannel, Disconnect, Writer, Writing, WriteEvent,
           Heartbeat, EndOfChannel, Interrupted
  <2>2. CASE d # c
    BY <1>0, <1>3, <2>2 DEF Redis, RedisSubscribe, LoseConnection, Receive, CloseChannel, Disconnect, Writer,
                            WriteEvent, Heartbeat, EndOfChannel, Interrupted, WriterEnds
  <2> QED  BY <2>1, <2>2
<1>4. ASSUME NEW d \in Calls, Request(d) PROVE stream'[c] = stream[c]
  <2>1. ASSUME NEW u \in Users, OpenStream(c, u) PROVE FALSE
    <3>1. call'[c].pc = "subscribed"
      <4>1. call[c] \in Call
        BY <1>0
      <4> QED  BY <1>0, <2>1, <4>1 DEF OpenStream, Accept, Call
    <3> QED  BY <1>1, <3>1
  <2>2. ASSUME NEW u \in Users, OpenStream(d, u), d # c PROVE stream'[c] = stream[c]
    BY <1>0, <2>2 DEF OpenStream
  <2> QED  BY <1>4, <2>1, <2>2 DEF Request, Emit, MarkAllAsRead, MarkAsRead, DeleteNote
<1>5. ASSUME NEW d \in Calls, Continue(d) PROVE stream'[c] = stream[c]
  BY <1>0, <1>1, <1>2, <1>5
     DEF Continue, StartWriter, CloseSubscription, UpdateRead, RemoveNote, At
<1>6. ASSUME NEW d \in Calls, Send(d) PROVE stream'[c] = stream[c]
  BY <1>0, <1>2, <1>6 DEF Send, Publish, Resend, GiveUp
<1>7. CASE Shutdown \/ UNCHANGED vars
  BY <1>1, <1>7 DEF Shutdown, vars
<1> QED  BY <1>1, <1>3, <1>4, <1>5, <1>6, <1>7 DEF Next

\* What a call answered: a MarkAsRead set read_at, a Delete found the note.
Answered(c) ==
  /\ call'[c].op = "read" /\ call'[c].reply = "ok" => note'[call'[c].note].by = c
  /\ call'[c].op = "delete" /\ call'[c].reply = "ok" => ~ note[call'[c].note].gone

\* A request leaves its call as the call's invariant wants it.
LEMMA RequestStep ==
  ASSUME TypeOK, NEW c \in Calls, Request(c)
  PROVE  CallInv(c)' /\ Answered(c)
<1>0. call \in [Calls -> Call] /\ call[c] \in Call
  BY DEF TypeOK
<1>1. ASSUME NEW op \in {"event", "stream", "read", "readall", "delete"}, NEW u \in Users,
             NEW n \in Notes \cup {NoCall}, NEW step \in Steps, NEW a \in {"pending", "ok", "err"},
             Accept(c, op, u, n, step, a)
      PROVE  call'[c].op = op /\ call'[c].note = n /\ call'[c].pc = step /\ call'[c].reply = a
  BY <1>0, <1>1 DEF Accept, Call
<1>2. ASSUME NEW u \in Users, Emit(c, u) PROVE CallInv(c)' /\ Answered(c)
  <2>1. call'[c].op = "event" /\ call'[c].pc = "publish"
    BY <1>1, <1>2 DEF Emit, Steps
  <2> QED  BY <2>1 DEF CallInv, Answered
<1>3. ASSUME NEW u \in Users, OpenStream(c, u) PROVE CallInv(c)' /\ Answered(c)
  <2>1. call'[c].op = "stream" /\ call'[c].pc = "subscribed"
    BY <1>1, <1>3 DEF OpenStream, Steps
  <2> QED  BY <2>1 DEF CallInv, Answered
<1>4. ASSUME NEW u \in Users, MarkAllAsRead(c, u) PROVE CallInv(c)' /\ Answered(c)
  <2>1. call'[c].op = "readall" /\ call'[c].pc = "done"
    BY <1>1, <1>4 DEF MarkAllAsRead, Steps
  <2> QED  BY <2>1 DEF CallInv, Answered
<1>5. ASSUME NEW u \in Users, NEW n \in Notes, MarkAsRead(c, u, n)
      PROVE  CallInv(c)' /\ Answered(c)
  <2>1. /\ call'[c].op = "read" /\ call'[c].note = n /\ call'[c].pc \in {"mark", "done"}
        /\ call'[c].reply \in {"pending", "err"}
    BY <1>1, <1>5 DEF MarkAsRead, Steps
  <2> QED  BY <2>1 DEF CallInv, Answered
<1>6. ASSUME NEW u \in Users, NEW n \in Notes, DeleteNote(c, u, n)
      PROVE  CallInv(c)' /\ Answered(c)
  <2>1. /\ call'[c].op = "delete" /\ call'[c].note = n /\ call'[c].pc \in {"delete", "done"}
        /\ call'[c].reply \in {"pending", "err"}
    BY <1>1, <1>6 DEF DeleteNote, Steps
  <2> QED  BY <2>1 DEF CallInv, Answered
<1> QED  BY <1>2, <1>3, <1>4, <1>5, <1>6 DEF Request

\* So do the steps after it.
LEMMA ContinueStep ==
  ASSUME TypeOK, NEW c \in Calls, CallInv(c), Continue(c)
  PROVE  CallInv(c)' /\ Answered(c)
<1>0. /\ call \in [Calls -> Call] /\ call[c] \in Call /\ note \in [Notes -> Note]
  BY DEF TypeOK
<1>1. ASSUME NEW step, Goto(c, step)
      PROVE  call'[c].op = call[c].op /\ call'[c].pc = step
  BY <1>0, <1>1 DEF Goto, Call
<1>2. ASSUME NEW a, Reply(c, a)
      PROVE  /\ call'[c].op = call[c].op /\ call'[c].note = call[c].note
             /\ call'[c].pc = "done" /\ call'[c].reply = a
  BY <1>0, <1>2 DEF Reply, Call
<1>3. CASE StartWriter(c) \/ CloseSubscription(c)
  <2>1. call[c].op = "stream"
    BY <1>3 DEF StartWriter, CloseSubscription, At, CallInv
  <2>2. call'[c].op = "stream" /\ call'[c].pc \in {"serving", "done"}
    BY <1>1, <1>2, <1>3, <2>1 DEF StartWriter, CloseSubscription
  <2> QED  BY <2>2 DEF CallInv, Answered
<1>4. CASE UpdateRead(c)
  <2>1. call[c].op = "read" /\ call[c].note \in Notes
    BY <1>4 DEF UpdateRead, At, CallInv
  <2>2. /\ call'[c].op = "read" /\ call'[c].note = call[c].note /\ call'[c].pc = "done"
        /\ call'[c].reply = "ok" => note'[call[c].note].by = c
    <3>1. CASE Reply(c, "err")
      BY <1>2, <2>1, <3>1
    <3>2. CASE /\ Reply(c, "ok")
               /\ note' = [note EXCEPT ![call[c].note] = [@ EXCEPT !.read = TRUE,
                                                                   !.by = c]]
      <4>1. note[call[c].note] \in Note
        BY <1>0, <2>1
      <4> QED  BY <1>0, <1>2, <2>1, <3>2, <4>1 DEF Note
    <3> QED  BY <1>4, <3>1, <3>2 DEF UpdateRead
  <2> QED  BY <2>1, <2>2 DEF CallInv, Answered
<1>5. CASE RemoveNote(c)
  <2>1. call[c].op = "delete" /\ call[c].note \in Notes
    BY <1>5 DEF RemoveNote, At, CallInv
  <2>2. /\ call'[c].op = "delete" /\ call'[c].note = call[c].note /\ call'[c].pc = "done"
        /\ call'[c].reply = "ok" => ~ note[call[c].note].gone /\ note'[call[c].note].gone
    <3>1. CASE Reply(c, "err")
      BY <1>2, <2>1, <3>1
    <3>2. CASE /\ Reply(c, "ok") /\ ~ note[call[c].note].gone
               /\ note' = [note EXCEPT ![call[c].note].gone = TRUE]
      <4>1. note[call[c].note] \in Note
        BY <1>0, <2>1
      <4> QED  BY <1>0, <1>2, <2>1, <3>2, <4>1 DEF Note
    <3> QED  BY <1>5, <3>1, <3>2 DEF RemoveNote
  <2> QED  BY <2>1, <2>2 DEF CallInv, Answered
<1> QED  BY <1>3, <1>4, <1>5 DEF Continue

\* And those that send an event.
LEMMA SendStep ==
  ASSUME TypeOK, NotificationsInv, NEW c \in Calls, Send(c)
  PROVE  CallInv(c)' /\ Answered(c)
<1>1. call[c].op = "event" /\ call[c].pc # "idle"
  BY DEF NotificationsInv, CallInv, Send, Publish, Resend, GiveUp, At
<1>2. call'[c].op = "event" /\ call'[c].pc \in {call[c].pc, "done"}
  BY <1>1, SendCall
<1>3. call[c].pc \notin {"subscribed", "serving", "mark", "delete"}
  BY <1>1 DEF NotificationsInv, CallInv
<1> QED  BY <1>1, <1>2, <1>3 DEF CallInv, Answered

\* A call that does not move keeps its invariant, whoever moves.
LEMMA CallInvKept ==
  ASSUME TypeOK, [Next]_vars, NEW c \in Calls, CallInv(c), call'[c] = call[c]
  PROVE  CallInv(c)'
<1>1. call[c].pc = "idle" => stream'[c] = NoStream
  BY NoStreamKept DEF At
<1>2. call[c].note \in Notes /\ note[call[c].note].gone => note'[call[c].note].gone
  BY NoteKept
<1> QED  BY <1>1, <1>2 DEF CallInv

LEMMA InvInit == Init => NotificationsInv
<1> SUFFICES ASSUME Init PROVE NotificationsInv
  OBVIOUS
<1>1. ASSUME NEW c \in Calls
      PROVE  /\ call[c].op = "none" /\ call[c].pc = "idle" /\ call[c].reply = "pending"
             /\ stream[c] = NoStream
  BY DEF Init
<1>2. ASSUME NEW s \in Calls PROVE Len(Line(s)) = 0
  <2>1. Line(s) = (<<>> \o <<>>) \o <<>>
    BY <1>1 DEF Line, NoStream
  <2> QED  BY <2>1
<1>3. 1 .. 0 = {}
  OBVIOUS
<1>4. ASSUME NEW s \in Calls PROVE Fine(Line(s), call, published, call[s].user)
  BY <1>2, <1>3 DEF Fine
<1>5. \A c \in Calls : CallInv(c)
  BY <1>1 DEF CallInv
<1>6. OneWinner
  BY <1>1 DEF OneWinner
<1>7. ASSUME NEW c \in Calls
      PROVE  Copies(c) = {} /\ Cardinality(Copies(c)) <= 1 + call[c].tries
  <2>1. Copies(c) = {} /\ call[c].tries = 0
    BY DEF Init, Copies
  <2> QED  BY <2>1, FS_EmptySet
<1>8. ASSUME NEW s \in Calls, NEW c \in Calls
      PROVE  Cardinality(Shown(s, c)) <= 1 + call[c].tries
  <2>1. Shown(s, c) = {} /\ call[c].tries = 0
    BY <1>2, <1>3 DEF Init, Shown
  <2> QED  BY <2>1, FS_EmptySet
<1>9. (\A r \in Calls : LineInv(r)) /\ OwnEventsInOrder
  BY <1>4, <1>7, <1>8 DEF Fine, LineInv, OwnEventsInOrder
<1> QED  BY <1>5, <1>6, <1>9 DEF NotificationsInv

LEMMA InvStep ==
  ASSUME TypeOK, NotificationsInv, [Next]_vars
  PROVE  NotificationsInv'
<1>1. \A c \in Calls : CallInv(c)
  BY DEF NotificationsInv
<1>2. ASSUME NEW c \in Calls PROVE call'[c] = call[c] \/ Answered(c)
  BY <1>1, OneCall, RequestStep, ContinueStep, SendStep
<1>3. ASSUME NEW c \in Calls PROVE CallInv(c)'
  BY <1>1, OneCall, RequestStep, ContinueStep, SendStep, CallInvKept
<1>4. ASSUME NEW c \in Calls, call'[c].op = "read", call'[c].reply = "ok"
      PROVE  note'[call'[c].note].by = c
  <2>1. CASE Answered(c)
    BY <1>4, <2>1 DEF Answered
  <2>2. CASE call'[c] = call[c]
    <3>1. call[c].note \in Notes /\ note[call[c].note].by = c
      BY <1>1, <1>4, <2>2 DEF CallInv, NotificationsInv, OneWinner
    <3> QED  BY <2>2, <3>1, NoteKept
  <2> QED  BY <1>2, <2>1, <2>2
<1>5. ASSUME NEW c \in Calls, NEW d \in Calls, c # d, call'[c] = call[c],
             call'[c].op = "delete", call'[c].reply = "ok",
             call'[d].op = "delete", call'[d].reply = "ok", call'[c].note = call'[d].note
      PROVE  FALSE
  <2>1. CASE call'[d] = call[d]
    BY <1>5, <2>1 DEF NotificationsInv, OneWinner
  <2>2. CASE Answered(d)
    <3>1. note[call[c].note].gone
      BY <1>1, <1>5 DEF CallInv
    <3> QED  BY <1>5, <2>2, <3>1 DEF Answered
  <2> QED  BY <1>2, <2>1, <2>2
<1>6. ASSUME NEW c \in Calls, NEW d \in Calls, c # d
      PROVE  call'[c] = call[c] \/ call'[d] = call[d]
  BY <1>6, OneCall
<1>7. OneWinner'
  BY <1>4, <1>5, <1>6 DEF OneWinner
<1>8. (\A r \in Calls : LineInv(r))' /\ OwnEventsInOrder'
  <2>1. \A r \in Calls : Fine(Line(r), call, published, call[r].user)'
    BY LineFine
  <2>2. ASSUME NEW s \in Calls
        PROVE  Len(Line(s)') \in Nat
    <3>1. stream'[s] \in Stream
      BY TypeStep DEF TypeOK
    <3>2. /\ stream'[s].got \in Seq(Nat) /\ stream'[s].buffer \in Seq(Nat)
          /\ stream'[s].wire \in Seq(Nat)
      BY <3>1 DEF Stream
    <3>3. Line(s)' \in Seq(Nat)
      BY <3>2, Regroup DEF Line
    <3> QED  BY <3>3
  <2>3. ASSUME NEW s \in Calls, NEW c \in Calls
        PROVE  (Cardinality(Shown(s, c)) <= 1 + call[c].tries)'
    <3> DEFINE q == Line(s)'
               m == published'
               shown == {i \in 1 .. Len(q) : m[q[i]] = c}
               copies == {n \in DOMAIN m : m[n] = c}
    <3>1. m \in Seq(Calls) /\ Len(q) \in Nat
      BY <2>2, TypeStep DEF TypeOK
    <3>2. Fine(q, call', m, call'[s].user)
      BY <2>1
    <3>3. shown = Shown(s, c)' /\ copies = Copies(c)'
      BY DEF Shown, Copies
    <3>4. Cardinality(copies) <= 1 + call'[c].tries
      BY <3>3, CopiesStep
    <3>5. call'[c].tries \in Int
      <4>1. call'[c] \in Call
        BY TypeStep DEF TypeOK
      <4> QED  BY <4>1 DEF Call
    <3> HIDE DEF q, m
    <3>6. /\ Cardinality(shown) <= Cardinality(copies)
          /\ Cardinality(shown) \in Nat /\ Cardinality(copies) \in Nat
      BY <3>1, <3>2, ShownAreCopies
    <3> HIDE DEF shown, copies
    <3>7. Cardinality(shown) <= 1 + call'[c].tries
      BY <3>4, <3>5, <3>6
    <3> QED  BY <3>3, <3>7
  <2> QED  BY <2>1, <2>3, CopiesStep DEF Fine, LineInv, OwnEventsInOrder
<1> QED  BY <1>3, <1>7, <1>8 DEF NotificationsInv

\* Every reachable state satisfies the inductive invariant: what a call is
\* doing at each of its steps, and that no event is taken more often than sent.
THEOREM NotificationsCorrect == Spec => []NotificationsInv
<1>1. Init => TypeOK /\ NotificationsInv
  BY InitType, InvInit
<1>2. TypeOK /\ NotificationsInv /\ [Next]_vars => (TypeOK /\ NotificationsInv)'
  BY TypeStep, InvStep
<1> QED  BY <1>1, <1>2, PTL DEF Spec

\* However Redis, the Redis client and the writers interleave with the calls, and
\* whatever answer or connection to Redis is lost, a stream carries the events of
\* its own user only, in order, and one again only as often as it was sent again.
THEOREM EventsInOrder == Spec => []OwnEventsInOrder
<1>1. NotificationsInv => OwnEventsInOrder
  BY DEF NotificationsInv
<1> QED  BY <1>1, NotificationsCorrect, PTL

\* Of the overlapping MarkAsReads of a notification at most one is acknowledged,
\* the one that set read_at, and at most one of its Deletes is.
THEOREM OneCallWins == Spec => []OneWinner
<1>1. NotificationsInv => OneWinner
  BY DEF NotificationsInv
<1> QED  BY <1>1, NotificationsCorrect, PTL

-----------------------------------------------------------------------------
(* Delivery: what the Redis client took reaches the client of the stream    *)

\* One stream: messages are on the wire of a live subscription only, the channel
\* is closed after the subscription, the writer starts once, and one that ended
\* for no other reason found the channel closed and empty.
DeliveryInv(s) ==
  LET st == stream[s] IN
  /\ st.wire # <<>> => st.sub = "on"
  /\ ~ st.open => st.sub = "closed"
  /\ call[s].pc = "subscribed" => st.writer = "none"
  /\ st.writer = "done" /\ st.connected /\ ~ stopping => ~ st.open /\ st.buffer = <<>>
  /\ st.writer # "done" \/ (st.connected /\ ~ stopping) =>
       st.taken = Range(st.got) \cup Range(st.buffer)

LEMMA RangeAppend ==
  ASSUME NEW q \in Seq(Nat), NEW e \in Nat
  PROVE  Range(Append(q, e)) = Range(q) \cup {e}
<1>1. DOMAIN q = 1 .. Len(q) /\ DOMAIN Append(q, e) = 1 .. Len(q) + 1
  OBVIOUS
<1>2. /\ \A i \in 1 .. Len(q) : Append(q, e)[i] = q[i]
      /\ Append(q, e)[Len(q) + 1] = e
  OBVIOUS
<1>3. 1 .. Len(q) + 1 = (1 .. Len(q)) \cup {Len(q) + 1}
  <2>1. Len(q) \in Nat
    OBVIOUS
  <2> QED  BY <2>1
<1> QED  BY <1>1, <1>2, <1>3 DEF Range

LEMMA RangeTail ==
  ASSUME NEW q \in Seq(Nat), q # <<>>
  PROVE  Range(q) = {Head(q)} \cup Range(Tail(q))
<1>1. DOMAIN q = 1 .. Len(q) /\ DOMAIN Tail(q) = 1 .. Len(q) - 1 /\ Head(q) = q[1]
  OBVIOUS
<1>2. \A i \in 1 .. Len(q) - 1 : Tail(q)[i] = q[i + 1]
  OBVIOUS
<1>3. Len(q) \in Nat /\ Len(q) > 0
  OBVIOUS
<1>4. \A i \in 1 .. Len(q) : i = 1 \/ (i - 1 \in 1 .. Len(q) - 1 /\ (i - 1) + 1 = i)
  BY <1>3
<1>5. 1 \in 1 .. Len(q) /\ \A i \in 1 .. Len(q) - 1 : i + 1 \in 1 .. Len(q)
  BY <1>3
<1>6. ASSUME NEW x \in Range(q) PROVE x \in {Head(q)} \cup Range(Tail(q))
  <2>1. PICK i \in 1 .. Len(q) : x = q[i]
    BY <1>1 DEF Range
  <2>2. CASE i = 1
    BY <1>1, <2>1, <2>2
  <2>3. CASE i - 1 \in 1 .. Len(q) - 1 /\ (i - 1) + 1 = i
    <3>1. Tail(q)[i - 1] = x
      BY <1>2, <2>1, <2>3
    <3> QED  BY <1>1, <2>3, <3>1 DEF Range
  <2> QED  BY <1>4, <2>2, <2>3
<1>7. ASSUME NEW x \in {Head(q)} \cup Range(Tail(q)) PROVE x \in Range(q)
  <2>1. CASE x = Head(q)
    BY <1>1, <1>5, <2>1 DEF Range
  <2>2. CASE x \in Range(Tail(q))
    <3>1. PICK i \in 1 .. Len(q) - 1 : x = Tail(q)[i]
      BY <1>1, <2>2 DEF Range
    <3>2. x = q[i + 1] /\ i + 1 \in 1 .. Len(q)
      BY <1>2, <1>5, <3>1
    <3> QED  BY <1>1, <3>2 DEF Range
  <2> QED  BY <1>7, <2>1, <2>2
<1> QED  BY <1>6, <1>7

\* The steps of the stream itself.
LEMMA DeliveryOwn ==
  ASSUME TypeOK, NEW s \in Calls, DeliveryInv(s), Redis(s) \/ Disconnect(s) \/ Writer(s)
  PROVE  DeliveryInv(s)'
<1>0. /\ stream[s] \in Stream /\ DOMAIN stream = Calls /\ stream \in [Calls -> Stream]
      /\ call' = call /\ stopping' = stopping
  BY DEF TypeOK, Redis, Disconnect, Writer, RedisSubscribe, LoseConnection, Receive, CloseChannel,
         WriteEvent, Heartbeat, EndOfChannel, Interrupted, WriterEnds
<1>1. /\ stream[s].wire \in Seq(Nat) /\ stream[s].buffer \in Seq(Nat)
      /\ stream[s].got \in Seq(Nat)
  BY <1>0 DEF Stream
<1>2. CASE RedisSubscribe(s)
  <2>1. stream'[s] = [stream[s] EXCEPT !.sub = "on"] /\ stream[s].sub = "asked"
    BY <1>0, <1>2 DEF RedisSubscribe
  <2> QED  BY <1>0, <2>1 DEF DeliveryInv, Stream
<1>3. CASE LoseConnection(s)
  <2>1. stream'[s] = [stream[s] EXCEPT !.sub = "asked", !.wire = <<>>] /\ stream[s].sub = "on"
    BY <1>0, <1>3 DEF LoseConnection
  <2> QED  BY <1>0, <2>1 DEF DeliveryInv, Stream
<1>4. CASE Receive(s)
  <2> DEFINE e == Head(stream[s].wire)
             wire == Tail(stream[s].wire)
             buffer == Append(stream[s].buffer, e)
  <2>1. /\ stream[s].wire # <<>>
        /\ stream'[s] = [stream[s] EXCEPT !.wire = wire, !.buffer = buffer,
                                          !.taken = stream[s].taken \cup {e}]
    BY <1>0, <1>4 DEF Receive
  <2>2. e \in Nat
    BY <1>1, <2>1
  <2>3. Range(buffer) = Range(stream[s].buffer) \cup {e}
    BY <1>1, <2>2, RangeAppend
  <2>4. stream[s].sub = "on" /\ stream[s].open
    BY <1>0, <2>1 DEF DeliveryInv, Stream
  <2> HIDE DEF e, wire, buffer
  <2>5. /\ stream'[s].sub = stream[s].sub /\ stream'[s].open = stream[s].open
        /\ stream'[s].writer = stream[s].writer /\ stream'[s].connected = stream[s].connected
        /\ stream'[s].got = stream[s].got /\ stream'[s].buffer = buffer
        /\ stream'[s].taken = stream[s].taken \cup {e}
    BY <1>0, <2>1 DEF Stream
  <2> QED  BY <1>0, <2>3, <2>4, <2>5 DEF DeliveryInv
<1>5. CASE CloseChannel(s)
  <2>1. stream'[s] = [stream[s] EXCEPT !.open = FALSE] /\ stream[s].sub = "closed" /\ stream[s].open
    BY <1>0, <1>5 DEF CloseChannel
  <2> QED  BY <1>0, <2>1 DEF DeliveryInv, Stream
<1>6. CASE Disconnect(s)
  <2>1. stream'[s] = [stream[s] EXCEPT !.connected = FALSE]
    BY <1>0, <1>6 DEF Disconnect
  <2> QED  BY <1>0, <2>1 DEF DeliveryInv, Stream
<1>7. CASE WriteEvent(s)
  <2> DEFINE e == Head(stream[s].buffer)
             buffer == Tail(stream[s].buffer)
             got == Append(stream[s].got, e)
  <2>1. stream[s].buffer # <<>> /\ stream[s].writer = "loop"
    BY <1>7 DEF WriteEvent, Writing
  <2>2. CASE stream[s].connected
    <3>1. stream'[s] = [stream[s] EXCEPT !.buffer = buffer, !.got = got, !.writer = "loop"]
      BY <1>0, <1>7, <2>2 DEF WriteEvent
    <3>2. e \in Nat
      BY <1>1, <2>1
    <3>3. Range(got) = Range(stream[s].got) \cup {e}
      BY <1>1, <3>2, RangeAppend
    <3>4. Range(stream[s].buffer) = {e} \cup Range(buffer)
      BY <1>1, <2>1, RangeTail
    <3> HIDE DEF e, buffer, got
    <3>5. /\ stream'[s].sub = stream[s].sub /\ stream'[s].open = stream[s].open
          /\ stream'[s].wire = stream[s].wire /\ stream'[s].writer = "loop"
          /\ stream'[s].got = got /\ stream'[s].buffer = buffer
          /\ stream'[s].taken = stream[s].taken
      BY <1>0, <3>1 DEF Stream
    <3>6. stream[s].taken = Range(stream[s].got) \cup Range(stream[s].buffer)
      BY <2>1 DEF DeliveryInv
    <3>7. Range(got) \cup Range(buffer) = stream[s].taken
      BY <3>3, <3>4, <3>6
    <3> QED  BY <1>0, <2>1, <3>5, <3>7 DEF DeliveryInv
  <2>3. CASE ~ stream[s].connected
    <3>1. stream'[s] = [stream[s] EXCEPT !.buffer = buffer, !.got = stream[s].got, !.writer = "done"]
      BY <1>0, <1>7, <2>3 DEF WriteEvent
    <3> HIDE DEF buffer
    <3>2. /\ stream'[s].sub = stream[s].sub /\ stream'[s].open = stream[s].open
          /\ stream'[s].wire = stream[s].wire /\ stream'[s].writer = "done"
          /\ ~ stream'[s].connected
      BY <1>0, <2>3, <3>1 DEF Stream
    <3>3. call[s].pc # "subscribed"
      BY <2>1 DEF DeliveryInv
    <3> QED  BY <1>0, <3>2, <3>3 DEF DeliveryInv
  <2> QED  BY <2>2, <2>3
<1>8. CASE Heartbeat(s) \/ EndOfChannel(s) \/ Interrupted(s)
  <2>1. /\ stream'[s] = [stream[s] EXCEPT !.writer = "done"] /\ stream[s].writer = "loop"
        /\ \/ ~ stream[s].connected
           \/ ~ stream[s].open /\ stream[s].buffer = <<>>
           \/ stopping
    BY <1>0, <1>8 DEF Heartbeat, EndOfChannel, Interrupted, Writing, WriterEnds
  <2> QED  BY <1>0, <2>1 DEF DeliveryInv, Stream
<1> QED  BY <1>2, <1>3, <1>4, <1>5, <1>6, <1>7, <1>8 DEF Redis, Writer

\* The steps of the call that opened the stream.
LEMMA DeliveryCall ==
  ASSUME TypeOK, NEW s \in Calls, CallInv(s), DeliveryInv(s),
         Request(s) \/ Continue(s) \/ Send(s)
  PROVE  DeliveryInv(s)'
<1>0. /\ stream[s] \in Stream /\ call[s] \in Call /\ call \in [Calls -> Call]
      /\ stream \in [Calls -> Stream]
  BY DEF TypeOK
<1>1. CASE Send(s)
  <2>1. stopping' = stopping /\ (call'[s].pc = "subscribed" => call[s].pc = "subscribed")
    BY <1>1, SendCall
  <2>2. stream'[s] = stream[s] \/
          /\ stream'[s] = [stream[s] EXCEPT !.wire = Append(@, Len(published) + 1)]
          /\ stream[s].sub = "on"
    BY <1>0, <1>1 DEF Send, Publish, Resend, GiveUp
  <2> QED  BY <1>0, <2>1, <2>2 DEF DeliveryInv, Stream
<1>2. CASE StartWriter(s)
  <2>1. /\ stream'[s] = [stream[s] EXCEPT !.writer = "loop"] /\ stopping' = stopping
        /\ call'[s].pc = "serving" /\ call[s].pc = "subscribed"
    BY <1>0, <1>2 DEF StartWriter, Goto, At
  <2> QED  BY <1>0, <2>1 DEF DeliveryInv, Stream
<1>3. CASE CloseSubscription(s)
  <2>1. /\ stream'[s] = [stream[s] EXCEPT !.sub = "closed", !.wire = <<>>]
        /\ stopping' = stopping /\ call'[s].pc = "done"
    BY <1>0, <1>3 DEF CloseSubscription, Reply
  <2> QED  BY <1>0, <2>1 DEF DeliveryInv, Stream
<1>4. CASE UpdateRead(s) \/ RemoveNote(s)
  <2>1. \E a : Reply(s, a)
    BY <1>4 DEF UpdateRead, RemoveNote
  <2>2. call'[s].pc = "done"
    BY <1>0, <2>1 DEF Reply, Call
  <2>3. stream' = stream /\ stopping' = stopping
    BY <1>4 DEF UpdateRead, RemoveNote
  <2> QED  BY <2>2, <2>3 DEF DeliveryInv
<1>5. ASSUME NEW u \in Users, OpenStream(s, u) PROVE DeliveryInv(s)'
  <2>1. stream[s] = NoStream /\ stopping' = stopping
    BY <1>5 DEF OpenStream, Accept, At, CallInv
  <2>2. stream'[s] = [stream[s] EXCEPT !.sub = "asked"]
    BY <1>0, <1>5 DEF OpenStream
  <2>3. /\ stream'[s].wire = <<>> /\ stream'[s].open /\ stream'[s].writer = "none"
        /\ stream'[s].got = <<>> /\ stream'[s].buffer = <<>> /\ stream'[s].taken = {}
    BY <2>1, <2>2 DEF NoStream
  <2>4. Range(<<>>) = {}
    BY DEF Range
  <2> QED  BY <2>1, <2>3, <2>4 DEF DeliveryInv
<1>6. ASSUME NEW op, NEW u, NEW n, NEW step, NEW a, Accept(s, op, u, n, step, a)
      PROVE  call'[s].pc = step
  BY <1>0, <1>6 DEF Accept, Call
<1>7. ASSUME NEW u \in Users, NEW n \in Notes \cup {NoCall},
             \/ Emit(s, u) \/ MarkAllAsRead(s, u)
             \/ n \in Notes /\ (MarkAsRead(s, u, n) \/ DeleteNote(s, u, n))
      PROVE  stream' = stream /\ stopping' = stopping /\ call'[s].pc # "subscribed"
  <2>1. CASE Emit(s, u)
    BY <1>6, <2>1 DEF Emit
  <2>2. CASE MarkAllAsRead(s, u)
    BY <1>6, <2>2 DEF MarkAllAsRead
  <2>3. CASE MarkAsRead(s, u, n)
    BY <1>6, <2>3 DEF MarkAsRead
  <2>4. CASE DeleteNote(s, u, n)
    BY <1>6, <2>4 DEF DeleteNote
  <2> QED  BY <1>7, <2>1, <2>2, <2>3, <2>4
<1>8. CASE stream' = stream /\ stopping' = stopping /\ call'[s].pc # "subscribed"
  BY <1>8 DEF DeliveryInv
<1> QED  BY <1>1, <1>2, <1>3, <1>4, <1>5, <1>7, <1>8 DEF Request, Continue

\* Every other step leaves the stream alone, or adds to the wire of a live
\* subscription.
LEMMA DeliveryOther ==
  ASSUME TypeOK, NEW s \in Calls, DeliveryInv(s), NEW c \in Calls, c # s,
         Request(c) \/ Continue(c) \/ Send(c) \/ Redis(c) \/ Disconnect(c) \/ Writer(c)
  PROVE  DeliveryInv(s)'
<1>0. /\ stream[s] \in Stream /\ call \in [Calls -> Call] /\ stream \in [Calls -> Stream]
  BY DEF TypeOK
<1>1. CASE Send(c)
  <2>1. stopping' = stopping /\ call'[s] = call[s]
    BY <1>0, <1>1 DEF Send, Publish, Resend, GiveUp, Goto
  <2>2. stream'[s] = stream[s] \/
          /\ stream'[s] = [stream[s] EXCEPT !.wire = Append(@, Len(published) + 1)]
          /\ stream[s].sub = "on"
    BY <1>0, <1>1 DEF Send, Publish, Resend, GiveUp
  <2> QED  BY <1>0, <2>1, <2>2 DEF DeliveryInv, Stream
<1>2. CASE call'[s] = call[s] /\ stream'[s] = stream[s] /\ stopping' = stopping
  BY <1>2 DEF DeliveryInv
<1>3. CASE Redis(c) \/ Disconnect(c) \/ Writer(c)
  BY <1>0, <1>2, <1>3
  DEF Redis, Disconnect, Writer, RedisSubscribe, LoseConnection, Receive, CloseChannel,
      WriteEvent, Heartbeat, EndOfChannel, Interrupted, WriterEnds
<1>4. CASE StartWriter(c) \/ CloseSubscription(c) \/ UpdateRead(c) \/ RemoveNote(c)
  BY <1>0, <1>2, <1>4 DEF StartWriter, CloseSubscription, UpdateRead, RemoveNote, Goto, Reply
<1>5. CASE Request(c)
  <2>1. ASSUME NEW op, NEW u, NEW n, NEW step, NEW a, Accept(c, op, u, n, step, a)
        PROVE  call'[s] = call[s]
    BY <1>0, <2>1 DEF Accept
  <2>2. call'[s] = call[s]
    BY <1>5, <2>1 DEF Request, Emit, OpenStream, MarkAllAsRead, MarkAsRead, DeleteNote
  <2>3. stream'[s] = stream[s] /\ stopping' = stopping
    BY <1>0, <1>5 DEF Request, Emit, OpenStream, MarkAllAsRead, MarkAsRead, DeleteNote
  <2> QED  BY <1>2, <2>2, <2>3
<1> QED  BY <1>1, <1>3, <1>4, <1>5 DEF Continue

LEMMA DeliveryStep ==
  ASSUME TypeOK, NEW s \in Calls, CallInv(s), DeliveryInv(s), [Next]_vars
  PROVE  DeliveryInv(s)'
<1>1. CASE UNCHANGED vars
  BY <1>1 DEF vars, DeliveryInv
<1>2. CASE Shutdown
  BY <1>2 DEF Shutdown, DeliveryInv
<1> QED  BY <1>1, <1>2, DeliveryOwn, DeliveryCall, DeliveryOther DEF Next

\* What the Redis client took is written to the client of the stream, in spite
\* of the subscription being closed as soon as the handler has returned.
THEOREM TakenAreWritten == Spec => []TakenIsWritten
<1> DEFINE D == \A s \in Calls : DeliveryInv(s)
<1>1. Init => D
  <2> SUFFICES ASSUME Init, NEW s \in Calls PROVE DeliveryInv(s)
    OBVIOUS
  <2>1. stream[s] = NoStream /\ call[s].pc = "idle"
    BY DEF Init
  <2>2. Range(<<>>) = {}
    BY DEF Range
  <2> QED  BY <2>1, <2>2 DEF DeliveryInv, NoStream
<1>2. TypeOK /\ NotificationsInv /\ D /\ [Next]_vars => D'
  BY DeliveryStep DEF NotificationsInv
<1>3. TypeOK /\ D => TakenIsWritten
  <2> SUFFICES ASSUME D, NEW s \in Calls
               PROVE  LET st == stream[s] IN
                        IF st.writer # "done"
                          THEN st.taken = Range(st.got) \cup Range(st.buffer)
                          ELSE st.connected /\ ~ stopping => st.taken = Range(st.got)
    BY DEF TakenIsWritten
  <2>1. Range(<<>>) = {}
    BY DEF Range
  <2> QED  BY <2>1 DEF DeliveryInv
<1> HIDE DEF D
<1> QED  BY <1>1, <1>2, <1>3, TypeCorrect, NotificationsCorrect, PTL DEF Spec

-----------------------------------------------------------------------------
(* Streams implement EventFeed                                              *)

\* The subscription of a call.
FeedInv(c) ==
  /\ (stream[c].sub = "none") <=> (call[c].op # "stream")
  /\ call[c].pc \in {"subscribed", "serving"} => stream[c].sub \in {"asked", "on"}

LEMMA FeedInvInit == ASSUME Init, NEW c \in Calls PROVE FeedInv(c)
BY DEF Init, FeedInv, NoStream

\* What happens to a call and its subscription at a step of the call itself.
LEMMA FeedInvCall ==
  ASSUME TypeOK, NEW c \in Calls, CallInv(c), FeedInv(c),
         Request(c) \/ Continue(c) \/ Send(c)
  PROVE  FeedInv(c)'
<1>0. /\ call \in [Calls -> Call] /\ call[c] \in Call
      /\ stream \in [Calls -> Stream] /\ stream[c] \in Stream
  BY DEF TypeOK
<1>1. ASSUME NEW op, NEW u, NEW n, NEW step, NEW a, Accept(c, op, u, n, step, a)
      PROVE  /\ call'[c].op = op /\ call'[c].pc = step /\ stream[c].sub = "none"
  BY <1>0, <1>1 DEF Accept, At, Call, FeedInv, CallInv, NoStream
<1>2. ASSUME NEW op \in {"event", "read", "readall", "delete"}, NEW step, NEW u, NEW n, NEW a,
             Accept(c, op, u, n, step, a), step \notin {"subscribed", "serving"},
             stream'[c] = stream[c]
      PROVE  FeedInv(c)'
  BY <1>1, <1>2 DEF FeedInv
<1>3. ASSUME NEW u \in Users, OpenStream(c, u) PROVE FeedInv(c)'
  <2>1. call'[c].op = "stream" /\ call'[c].pc = "subscribed"
    BY <1>1, <1>3 DEF OpenStream
  <2>2. stream'[c].sub = "asked"
    BY <1>0, <1>3 DEF OpenStream, Stream
  <2> QED  BY <2>1, <2>2 DEF FeedInv
<1>4. CASE Request(c)
  <2>1. ASSUME NEW u \in Users, Emit(c, u) PROVE FeedInv(c)'
    BY <1>2, <2>1 DEF Emit
  <2>2. ASSUME NEW u \in Users, MarkAllAsRead(c, u) PROVE FeedInv(c)'
    <3>1. PICK a : Accept(c, "readall", u, NoCall, "done", a)
      BY <2>2 DEF MarkAllAsRead
    <3>2. stream' = stream
      BY <2>2 DEF MarkAllAsRead
    <3> QED  BY <1>2, <3>1, <3>2
  <2>3. ASSUME NEW u \in Users, NEW n \in Notes, MarkAsRead(c, u, n) PROVE FeedInv(c)'
    BY <1>2, <2>3 DEF MarkAsRead
  <2>4. ASSUME NEW u \in Users, NEW n \in Notes, DeleteNote(c, u, n) PROVE FeedInv(c)'
    BY <1>2, <2>4 DEF DeleteNote
  <2> QED  BY <1>3, <1>4, <2>1, <2>2, <2>3, <2>4 DEF Request
<1>5. CASE Send(c)
  <2>1. call[c].op = "event" /\ stream[c].sub = "none"
    BY <1>5 DEF Send, Publish, Resend, GiveUp, At, CallInv, FeedInv
  <2>2. call'[c].op = call[c].op /\ call'[c].pc \in {call[c].pc, "done"}
    BY <1>5, SendCall
  <2>3. stream'[c] = stream[c]
    BY <1>0, <1>5, <2>1 DEF Send, Publish, Resend, GiveUp
  <2>4. call[c].pc \notin {"subscribed", "serving"}
    BY <2>1 DEF CallInv
  <2> QED  BY <2>1, <2>2, <2>3, <2>4 DEF FeedInv
<1>6. CASE StartWriter(c)
  <2>1. call'[c].op = call[c].op /\ call'[c].pc = "serving" /\ call[c].pc = "subscribed"
    BY <1>0, <1>6 DEF StartWriter, Goto, At, Call
  <2>2. stream'[c].sub = stream[c].sub
    BY <1>0, <1>6 DEF StartWriter, Stream
  <2> QED  BY <2>1, <2>2 DEF FeedInv
<1>7. CASE CloseSubscription(c)
  <2>1. call'[c].op = "stream" /\ call'[c].pc = "done"
    BY <1>0, <1>7 DEF CloseSubscription, Reply, At, Call, CallInv
  <2>2. stream'[c].sub = "closed"
    BY <1>0, <1>7 DEF CloseSubscription, Stream
  <2> QED  BY <2>1, <2>2 DEF FeedInv
<1>8. CASE UpdateRead(c) \/ RemoveNote(c)
  <2>1. PICK a : Reply(c, a)
    BY <1>8 DEF UpdateRead, RemoveNote
  <2>2. call'[c].op = call[c].op /\ call'[c].pc = "done"
    BY <1>0, <2>1 DEF Reply, Call
  <2>3. stream' = stream
    BY <1>8 DEF UpdateRead, RemoveNote
  <2> QED  BY <2>2, <2>3 DEF FeedInv
<1> QED  BY <1>4, <1>5, <1>6, <1>7, <1>8 DEF Continue

\* No other step moves the call, or changes what the call is about.
LEMMA FeedInvStep ==
  ASSUME TypeOK, NEW c \in Calls, CallInv(c), FeedInv(c), [Next]_vars
  PROVE  FeedInv(c)'
<1>0. call \in [Calls -> Call] /\ stream \in [Calls -> Stream] /\ stream[c] \in Stream
  BY DEF TypeOK
<1>1. CASE call'[c] = call[c] /\ stream'[c].sub = stream[c].sub
  BY <1>1 DEF FeedInv
<1>2. CASE UNCHANGED vars \/ Shutdown
  BY <1>1, <1>2 DEF vars, Shutdown
<1>3. CASE RedisSubscribe(c)
  <2>1. call' = call /\ stream[c].sub = "asked" /\ stream'[c].sub = "on"
    BY <1>0, <1>3 DEF RedisSubscribe, Stream
  <2> QED  BY <2>1 DEF FeedInv
<1>4. CASE LoseConnection(c)
  <2>1. call' = call /\ stream[c].sub = "on" /\ stream'[c].sub = "asked"
    BY <1>0, <1>4 DEF LoseConnection, Stream
  <2> QED  BY <2>1 DEF FeedInv
<1>5. CASE Receive(c) \/ CloseChannel(c) \/ Disconnect(c) \/ Writer(c)
  <2>1. CASE Receive(c)
    BY <1>0, <1>1, <2>1 DEF Receive, Stream
  <2>2. CASE CloseChannel(c) \/ Disconnect(c) \/ WriterEnds(c)
    BY <1>0, <1>1, <2>2 DEF CloseChannel, Disconnect, WriterEnds, Stream
  <2>3. CASE WriteEvent(c)
    BY <1>0, <1>1, <2>3 DEF WriteEvent, Stream
  <2> QED  BY <1>5, <2>1, <2>2, <2>3 DEF Writer, Heartbeat, EndOfChannel, Interrupted
<1>6. ASSUME NEW d \in Calls, d # c, Redis(d) \/ Disconnect(d) \/ Writer(d)
      PROVE  call'[c] = call[c] /\ stream'[c] = stream[c]
  BY <1>0, <1>6
  DEF Redis, RedisSubscribe, LoseConnection, Receive, CloseChannel, Disconnect, Writer, WriteEvent,
      Heartbeat, EndOfChannel, Interrupted, WriterEnds
<1>7. ASSUME NEW d \in Calls, d # c, Request(d)
      PROVE  call'[c] = call[c] /\ stream'[c] = stream[c]
  <2>1. ASSUME NEW op, NEW u, NEW n, NEW step, NEW a, Accept(d, op, u, n, step, a)
        PROVE  call'[c] = call[c]
    BY <1>0, <1>7, <2>1 DEF Accept
  <2>2. call'[c] = call[c]
    BY <1>7, <2>1 DEF Request, Emit, OpenStream, MarkAllAsRead, MarkAsRead, DeleteNote
  <2>3. stream'[c] = stream[c]
    BY <1>0, <1>7 DEF Request, Emit, OpenStream, MarkAllAsRead, MarkAsRead, DeleteNote
  <2> QED  BY <2>2, <2>3
<1>8. ASSUME NEW d \in Calls, d # c, Continue(d)
      PROVE  call'[c] = call[c] /\ stream'[c] = stream[c]
  BY <1>0, <1>8 DEF Continue, StartWriter, CloseSubscription, UpdateRead, RemoveNote, Goto, Reply
<1>9. ASSUME NEW d \in Calls, d # c, Send(d)
      PROVE  call'[c] = call[c] /\ stream'[c].sub = stream[c].sub
  BY <1>0, <1>9 DEF Send, Publish, Resend, GiveUp, Goto, Stream
<1> QED  BY <1>1, <1>2, <1>3, <1>4, <1>5, <1>6, <1>7, <1>8, <1>9, FeedInvCall DEF Next, Redis

LEMMA Joined ==
  ASSUME NEW a \in Seq(Nat), NEW b \in Seq(Nat)
  PROVE  /\ Len(a \o b) = Len(a) + Len(b)
         /\ \A i \in 1 .. Len(a) : (a \o b)[i] = a[i]
         /\ \A i \in 1 .. Len(b) : (a \o b)[Len(a) + i] = b[i]
OBVIOUS

\* Where the queues of a stream stand in its line.
LEMMA Positions ==
  ASSUME TypeOK, NEW s \in Calls
  PROVE  LET g == Len(stream[s].got)
             b == Len(stream[s].buffer)
             w == Len(stream[s].wire)
         IN  /\ g \in Nat /\ b \in Nat /\ w \in Nat /\ Len(Line(s)) = g + b + w
             /\ \A i \in 1 .. b : Line(s)[g + i] = stream[s].buffer[i]
             /\ \A i \in 1 .. w : Line(s)[g + b + i] = stream[s].wire[i]
<1> DEFINE got == stream[s].got
           buffer == stream[s].buffer
           wire == stream[s].wire
<1>1. got \in Seq(Nat) /\ buffer \in Seq(Nat) /\ wire \in Seq(Nat)
  BY LineType
<1> DEFINE front == got \o buffer
<1>2. front \in Seq(Nat) /\ Line(s) = front \o wire
  BY <1>1 DEF Line
<1>3. Len(got) \in Nat /\ Len(buffer) \in Nat /\ Len(wire) \in Nat
  BY <1>1
<1>4. /\ Len(front) = Len(got) + Len(buffer)
      /\ \A i \in 1 .. Len(buffer) : front[Len(got) + i] = buffer[i]
  BY <1>1, Joined
<1> HIDE DEF got, buffer, wire, front
<1>5. /\ Len(Line(s)) = Len(front) + Len(wire)
      /\ \A i \in 1 .. Len(front) : Line(s)[i] = front[i]
      /\ \A i \in 1 .. Len(wire) : Line(s)[Len(front) + i] = wire[i]
  BY <1>1, <1>2, Joined
<1>6. ASSUME NEW i \in 1 .. Len(buffer) PROVE Line(s)[Len(got) + i] = buffer[i]
  <2>1. Len(got) + i \in 1 .. Len(front)
    BY <1>3, <1>4
  <2> QED  BY <1>4, <1>5, <2>1
<1> QED  BY <1>3, <1>4, <1>5, <1>6 DEF got, buffer, wire

\* The head of the channel is the earliest of the events that are due, and what
\* is in the channel comes before what is on the wire.
LEMMA DueInOrder ==
  ASSUME TypeOK, OwnEventsInOrder, NEW s \in Calls
  PROVE  /\ \A e \in Range(stream[s].buffer), f \in Range(stream[s].wire) :
              e < f
         /\ stream[s].buffer # <<>> =>
              \A f \in Range(Tail(stream[s].buffer)) \cup Range(stream[s].wire) :
                Head(stream[s].buffer) < f
<1> DEFINE got == stream[s].got
           buffer == stream[s].buffer
           wire == stream[s].wire
           g == Len(got)
           b == Len(buffer)
           w == Len(wire)
           line == Line(s)
<1>1. /\ g \in Nat /\ b \in Nat /\ w \in Nat /\ Len(line) = g + b + w
      /\ \A i \in 1 .. b : line[g + i] = buffer[i]
      /\ \A i \in 1 .. w : line[g + b + i] = wire[i]
  BY Positions
<1>2. \A i, j \in 1 .. Len(line) : i < j => line[i] < line[j]
  BY DEF OwnEventsInOrder
<1>3. buffer \in Seq(Nat) /\ wire \in Seq(Nat)
  BY LineType
<1>4. DOMAIN buffer = 1 .. b /\ DOMAIN wire = 1 .. w
  BY <1>3
<1>5. buffer # <<>> => /\ b > 0 /\ Head(buffer) = buffer[1]
                       /\ DOMAIN Tail(buffer) = 1 .. b - 1
                       /\ \A i \in 1 .. b - 1 : Tail(buffer)[i] = buffer[i + 1]
  BY <1>3
<1> HIDE DEF g, b, w, line
<1>6. ASSUME NEW i \in 1 .. b, NEW j \in 1 .. w PROVE buffer[i] < wire[j]
  <2>1. /\ g + i \in 1 .. Len(line) /\ g + b + j \in 1 .. Len(line) /\ g + i < g + b + j
    BY <1>1
  <2>2. line[g + i] < line[g + b + j]
    BY <1>2, <2>1
  <2> QED  BY <1>1, <2>2
<1>7. ASSUME NEW i \in 2 .. b PROVE buffer[1] < buffer[i]
  <2>1. /\ g + 1 \in 1 .. Len(line) /\ g + i \in 1 .. Len(line) /\ g + 1 < g + i
        /\ 1 \in 1 .. b /\ i \in 1 .. b
    BY <1>1
  <2>2. line[g + 1] < line[g + i]
    BY <1>2, <2>1
  <2> QED  BY <1>1, <2>1, <2>2
<1>8. ASSUME NEW e \in Range(buffer), NEW f \in Range(wire) PROVE e < f
  BY <1>4, <1>6 DEF Range
<1>9. ASSUME buffer # <<>>, NEW f \in Range(Tail(buffer)) \cup Range(wire)
      PROVE  Head(buffer) < f
  <2>1. CASE f \in Range(Tail(buffer))
    <3>1. PICK i \in 1 .. b - 1 : f = Tail(buffer)[i]
      BY <1>5, <1>9, <2>1 DEF Range
    <3>2. f = buffer[i + 1] /\ i + 1 \in 2 .. b
      BY <1>1, <1>5, <1>9, <3>1
    <3> QED  BY <1>5, <1>7, <1>9, <3>2
  <2>2. CASE f \in Range(wire)
    <3>1. 1 \in 1 .. b
      BY <1>1, <1>5, <1>9
    <3>2. Head(buffer) \in Range(buffer)
      BY <1>4, <1>5, <1>9, <3>1 DEF Range
    <3> QED  BY <1>8, <2>2, <3>2
  <2> QED  BY <1>9, <2>1, <2>2
<1> QED  BY <1>8, <1>9

-----------------------------------------------------------------------------
(* A step of the streams is a step of the feeds                             *)

\* A step that is about stream s at most and publishes nothing.
About(s) ==
  /\ published' = published
  /\ \A r \in Calls : FeedOf(r).of # {} => call'[r].user = call[r].user
  /\ \A r \in Calls \ {s} : stream'[r] = stream[r]

\* A feed, field by field.
As(o, p, d, g, v) == [of |-> o, state |-> p, due |-> d, shown |-> g, view |-> v]

Whom(s)  == IF stream[s].sub = "none" THEN {} ELSE {call[s].user}
Stage(s) == CASE stream[s].sub = "asked" -> "open" [] stream[s].sub = "on" -> "listening"
              [] OTHER -> stream[s].sub
Due(s)   == Range(stream[s].buffer) \cup Range(stream[s].wire)
View(s)  == IF stream[s].writer = "done" THEN "over" ELSE "live"

LEMMA WhomSet ==
  ASSUME NEW o, NEW p, NEW d, NEW g, NEW v, NEW x
  PROVE  [As(o, p, d, g, v) EXCEPT !.of = x] = As(x, p, d, g, v)
BY DEF As

LEMMA StageSet ==
  ASSUME NEW o, NEW p, NEW d, NEW g, NEW v, NEW x
  PROVE  [As(o, p, d, g, v) EXCEPT !.state = x] = As(o, x, d, g, v)
BY DEF As

LEMMA DueSet ==
  ASSUME NEW o, NEW p, NEW d, NEW g, NEW v, NEW x
  PROVE  [As(o, p, d, g, v) EXCEPT !.due = x] = As(o, p, x, g, v)
BY DEF As

LEMMA ShownSet ==
  ASSUME NEW o, NEW p, NEW d, NEW g, NEW v, NEW x
  PROVE  [As(o, p, d, g, v) EXCEPT !.shown = x] = As(o, p, d, x, v)
BY DEF As

LEMMA ViewSet ==
  ASSUME NEW o, NEW p, NEW d, NEW g, NEW v, NEW x
  PROVE  [As(o, p, d, g, v) EXCEPT !.view = x] = As(o, p, d, g, x)
BY DEF As

\* A feed before and after a step.
LEMMA FeedIs ==
  ASSUME NEW s \in Calls
  PROVE  /\ FeedOf(s) = As(Whom(s), Stage(s), Due(s), stream[s].got, View(s))
         /\ FeedOf(s)' = As(Whom(s)', Stage(s)', Due(s)', stream'[s].got, View(s)')
BY DEF FeedOf, As, Whom, Stage, Due, View

LEMMA FieldsOf ==
  ASSUME NEW s \in Calls
  PROVE  /\ FeedOf(s).of = Whom(s) /\ FeedOf(s).state = Stage(s) /\ FeedOf(s).due = Due(s)
         /\ FeedOf(s).shown = stream[s].got /\ FeedOf(s).view = View(s)
BY DEF FeedOf, Whom, Stage, Due, View

\* The user of a stream does not change, and that of another call is of no interest.
LEMMA WhomKept ==
  ASSUME NEW s \in Calls, stream'[s].sub = stream[s].sub,
         stream[s].sub # "none" => call'[s].user = call[s].user
  PROVE  Whom(s)' = Whom(s) /\ Stage(s)' = Stage(s)
BY DEF Whom, Stage

LEMMA FeedUsers ==
  ASSUME TypeOK, NotificationsInv, [Next]_vars, NEW r \in Calls, FeedOf(r).of # {}
  PROVE  call'[r].user = call[r].user
<1>1. stream[r].sub # "none"
  BY DEF FeedOf
<1>2. call[r].pc # "idle"
  BY <1>1 DEF NotificationsInv, CallInv, NoStream
<1> QED  BY <1>2, CallKept

LEMMA OtherFeeds ==
  ASSUME NEW s \in Calls, About(s), NEW r \in Calls \ {s}
  PROVE  FeedOf(r)' = FeedOf(r)
<1>1. stream'[r] = stream[r]
  BY DEF About
<1>2. CASE stream[r].sub = "none"
  BY <1>1, <1>2 DEF FeedOf
<1>3. CASE stream[r].sub # "none"
  <2>1. call'[r].user = call[r].user
    BY <1>3 DEF About, FeedOf
  <2> QED  BY <1>1, <2>1 DEF FeedOf
<1> QED  BY <1>2, <1>3

LEMMA FeedBecomes ==
  ASSUME NEW s \in Calls, About(s), NEW new, FeedOf(s)' = new
  PROVE  Feed!Becomes(s, new)
<1>1. [r \in Calls |-> FeedOf(r)]' = [[r \in Calls |-> FeedOf(r)] EXCEPT ![s] = new]
  BY OtherFeeds
<1> QED  BY <1>1 DEF Feed!Becomes, About

LEMMA FeedStays ==
  ASSUME NEW s \in Calls, About(s), FeedOf(s)' = FeedOf(s)
  PROVE  UNCHANGED Feed!feedVars
<1>1. [r \in Calls |-> FeedOf(r)]' = [r \in Calls |-> FeedOf(r)]
  BY OtherFeeds
<1> QED  BY <1>1 DEF Feed!feedVars, About

\* The steps of Redis, of its client and of the writer.
LEMMA FeedQueues ==
  ASSUME TypeOK, NotificationsInv, NEW s \in Calls, DeliveryInv(s), FeedInv(s),
         [Next]_vars, Redis(s) \/ Disconnect(s) \/ Writer(s)
  PROVE  [Feed!Next]_Feed!feedVars
<1> DEFINE st == stream[s]
           feed == [r \in Calls |-> FeedOf(r)]
<1>0. /\ stream \in [Calls -> Stream] /\ st \in Stream /\ call' = call
      /\ st.buffer \in Seq(Nat) /\ st.wire \in Seq(Nat) /\ st.got \in Seq(Nat)
  BY LineType DEF TypeOK, Redis, Disconnect, Writer, RedisSubscribe, LoseConnection, Receive, CloseChannel,
         WriteEvent, Heartbeat, EndOfChannel, Interrupted, WriterEnds
<1>1. About(s)
  BY <1>0 DEF About, Redis, Disconnect, Writer, RedisSubscribe, LoseConnection, Receive, CloseChannel,
         WriteEvent, Heartbeat, EndOfChannel, Interrupted, WriterEnds
<1>2. feed[s] = FeedOf(s)
  OBVIOUS
<1> HIDE DEF feed
<1>3. CASE RedisSubscribe(s)
  <2>1. st.sub = "asked" /\ stream'[s] = [st EXCEPT !.sub = "on"]
    BY <1>0, <1>3 DEF RedisSubscribe
  <2>2. FeedOf(s).state = "open" /\ FeedOf(s)' = [FeedOf(s) EXCEPT !.state = "listening"]
    <3>1. /\ stream'[s].sub = "on" /\ stream'[s].got = st.got /\ stream'[s].buffer = st.buffer
          /\ stream'[s].wire = st.wire /\ stream'[s].writer = st.writer
      BY <1>0, <2>1 DEF Stream
    <3>2. Whom(s)' = Whom(s) /\ Stage(s)' = "listening" /\ Stage(s) = "open"
      BY <1>0, <2>1, <3>1 DEF Whom, Stage
    <3>3. Due(s)' = Due(s) /\ View(s)' = View(s)
      BY <3>1 DEF Due, View
    <3>4. [FeedOf(s) EXCEPT !.state = "listening"]
            = As(Whom(s), "listening", Due(s), st.got, View(s))
      BY FeedIs, StageSet
    <3>5. FeedOf(s)' = As(Whom(s), "listening", Due(s), st.got, View(s))
      BY <3>1, <3>2, <3>3, FeedIs
    <3> QED  BY <3>2, <3>4, <3>5, FieldsOf
  <2>3. Feed!Becomes(s, [FeedOf(s) EXCEPT !.state = "listening"])
    BY <1>1, <2>2, FeedBecomes
  <2>4. Feed!Listen(s)
    BY <1>2, <2>2, <2>3 DEF Feed!Listen, feed
  <2> QED  BY <2>4 DEF Feed!Next
<1>4. CASE LoseConnection(s)
  <2> DEFINE kept == Range(st.buffer)
  <2>1. st.sub = "on" /\ stream'[s] = [st EXCEPT !.sub = "asked", !.wire = <<>>]
    BY <1>0, <1>4 DEF LoseConnection
  <2>2. /\ stream'[s].sub = "asked" /\ stream'[s].buffer = st.buffer
        /\ stream'[s].wire = <<>> /\ stream'[s].got = st.got
        /\ stream'[s].writer = st.writer
    BY <1>0, <2>1 DEF Stream
  <2>3. Whom(s)' = Whom(s) /\ Stage(s)' = "open" /\ Stage(s) = "listening"
    BY <1>0, <2>1, <2>2 DEF Whom, Stage
  <2>4. Due(s)' = kept
    <3>1. Range(<<>>) = {}
      BY DEF Range
    <3> QED  BY <2>2, <3>1 DEF Due
  <2>5. View(s)' = View(s)
    BY <2>2 DEF View
  <2>6. FeedOf(s)' = [FeedOf(s) EXCEPT !.state = "open", !.due = kept]
    <3> HIDE DEF kept
    <3>1. FeedOf(s)' = As(Whom(s), "open", kept, st.got, View(s))
      BY <2>2, <2>3, <2>4, <2>5, FeedIs
    <3>2. [FeedOf(s) EXCEPT !.state = "open", !.due = kept]
            = [[FeedOf(s) EXCEPT !.state = "open"] EXCEPT !.due = kept]
      OBVIOUS
    <3>3. [FeedOf(s) EXCEPT !.state = "open"] = As(Whom(s), "open", Due(s), st.got, View(s))
      BY FeedIs, StageSet
    <3>4. [As(Whom(s), "open", Due(s), st.got, View(s)) EXCEPT !.due = kept]
            = As(Whom(s), "open", kept, st.got, View(s))
      BY DueSet
    <3> QED  BY <3>1, <3>2, <3>3, <3>4
  <2>7. FeedOf(s).due = kept \cup Range(st.wire) /\ FeedOf(s).state = "listening"
    BY <2>3, FieldsOf DEF Due
  <2>8. \A e \in kept, f \in FeedOf(s).due \ kept : e < f
    BY <2>7, DueInOrder DEF NotificationsInv
  <2>9. Feed!Becomes(s, [FeedOf(s) EXCEPT !.state = "open", !.due = kept])
    BY <1>1, <2>6, FeedBecomes
  <2> HIDE DEF kept
  <2>10. kept \in SUBSET FeedOf(s).due
    BY <2>7
  <2>11. Feed!Lose(s)
    BY <1>2, <2>7, <2>8, <2>9, <2>10 DEF Feed!Lose, Feed!Keeps, feed
  <2> QED  BY <2>11 DEF Feed!Next
<1>5. CASE Receive(s)
  <2> DEFINE e == Head(st.wire)
             wire == Tail(st.wire)
             buffer == Append(st.buffer, e)
  <2>1. /\ st.wire # <<>>
        /\ stream'[s] = [st EXCEPT !.wire = wire, !.buffer = buffer, !.taken = st.taken \cup {e}]
    BY <1>0, <1>5 DEF Receive
  <2>2. Range(buffer) \cup Range(wire) = Range(st.buffer) \cup Range(st.wire)
    <3>1. e \in Nat
      BY <1>0, <2>1
    <3>2. Range(buffer) = Range(st.buffer) \cup {e}
      BY <1>0, <3>1, RangeAppend
    <3>3. Range(st.wire) = {e} \cup Range(wire)
      BY <1>0, <2>1, RangeTail
    <3> QED  BY <3>2, <3>3
  <2> HIDE DEF e, wire, buffer
  <2>3. /\ stream'[s].sub = st.sub /\ stream'[s].buffer = buffer /\ stream'[s].wire = wire
        /\ stream'[s].got = st.got /\ stream'[s].writer = st.writer
    BY <1>0, <2>1 DEF Stream
  <2>4. FeedOf(s)' = FeedOf(s)
    BY <1>0, <2>2, <2>3 DEF FeedOf
  <2> QED  BY <1>1, <2>4, FeedStays
<1>6. CASE CloseChannel(s) \/ Disconnect(s)
  <2>1. \/ stream'[s] = [st EXCEPT !.open = FALSE]
        \/ stream'[s] = [st EXCEPT !.connected = FALSE]
    BY <1>0, <1>6 DEF CloseChannel, Disconnect
  <2>2. FeedOf(s)' = FeedOf(s)
    BY <1>0, <2>1 DEF FeedOf, Stream
  <2> QED  BY <1>1, <2>2, FeedStays
<1>7. CASE WriteEvent(s)
  <2> DEFINE e == Head(st.buffer)
             buffer == Tail(st.buffer)
             got == Append(st.got, e)
             kept == Range(buffer) \cup Range(st.wire)
  <2>1. st.buffer # <<>> /\ st.writer = "loop"
    BY <1>7 DEF WriteEvent, Writing
  <2>2. e \in Nat /\ Range(st.buffer) = {e} \cup Range(buffer)
    BY <1>0, <2>1, RangeTail
  <2>3. FeedOf(s).due = {e} \cup kept /\ FeedOf(s).view = "live" /\ FeedOf(s).shown = st.got
    BY <2>1, <2>2 DEF FeedOf
  <2>4. CASE st.connected
    <3>1. stream'[s] = [st EXCEPT !.buffer = buffer, !.got = got, !.writer = "loop"]
      BY <1>0, <1>7, <2>4 DEF WriteEvent
    <3>2. \A f \in kept : e < f
      BY <2>1, DueInOrder DEF NotificationsInv
    <3>3. e \notin kept
      BY <2>2, <3>2
    <3>4. FeedOf(s).due \ {e} = kept
      BY <2>3, <3>3
    <3>5. FeedOf(s)' = [FeedOf(s) EXCEPT !.shown = got, !.due = kept]
      <4> HIDE DEF e, buffer, got
      <4>1. /\ stream'[s].sub = st.sub /\ stream'[s].buffer = buffer
            /\ stream'[s].wire = st.wire /\ stream'[s].got = got
            /\ stream'[s].writer = "loop"
        BY <1>0, <3>1 DEF Stream
      <4>2. Due(s)' = kept
        BY <4>1 DEF Due
      <4>3. View(s)' = View(s)
        BY <2>1, <4>1 DEF View
      <4>4. Whom(s)' = Whom(s) /\ Stage(s)' = Stage(s)
        BY <1>0, <4>1, WhomKept
      <4>5. [FeedOf(s) EXCEPT !.shown = got, !.due = kept]
              = As(Whom(s), Stage(s), kept, got, View(s))
        <5> HIDE DEF kept
        <5>1. [FeedOf(s) EXCEPT !.shown = got, !.due = kept]
                = [[FeedOf(s) EXCEPT !.shown = got] EXCEPT !.due = kept]
          OBVIOUS
        <5>2. [FeedOf(s) EXCEPT !.shown = got] = As(Whom(s), Stage(s), Due(s), got, View(s))
          BY FeedIs, ShownSet
        <5>3. [As(Whom(s), Stage(s), Due(s), got, View(s)) EXCEPT !.due = kept]
                = As(Whom(s), Stage(s), kept, got, View(s))
          BY DueSet
        <5> QED  BY <5>1, <5>2, <5>3
      <4>6. FeedOf(s)' = As(Whom(s), Stage(s), kept, got, View(s))
        BY <4>1, <4>2, <4>3, <4>4, FeedIs
      <4> QED  BY <4>5, <4>6
    <3>6. Feed!Becomes(s, [FeedOf(s) EXCEPT !.shown = got, !.due = kept])
      BY <1>1, <3>5, FeedBecomes
    <3> HIDE DEF e, kept
    <3>7. Feed!Becomes(s, [FeedOf(s) EXCEPT !.shown = Append(FeedOf(s).shown, e),
                                            !.due = FeedOf(s).due \ {e}])
      BY <2>3, <3>4, <3>6
    <3>8. \A f \in FeedOf(s).due \ {e} : e < f
      BY <3>2, <3>4
    <3>9. e \in FeedOf(s).due /\ Feed!Show(s, e)
      BY <1>2, <2>3, <3>7, <3>8 DEF Feed!Show, feed
    <3> QED  BY <1>2, <3>9 DEF Feed!Next, feed
  <2>5. CASE ~ st.connected
    <3>1. stream'[s] = [st EXCEPT !.buffer = buffer, !.got = st.got, !.writer = "done"]
      BY <1>0, <1>7, <2>5 DEF WriteEvent
    <3>2. FeedOf(s)' = [FeedOf(s) EXCEPT !.view = "over", !.due = kept]
      <4> HIDE DEF buffer
      <4>1. /\ stream'[s].sub = st.sub /\ stream'[s].buffer = buffer
            /\ stream'[s].wire = st.wire /\ stream'[s].got = st.got
            /\ stream'[s].writer = "done"
        BY <1>0, <3>1 DEF Stream
      <4>2. Due(s)' = kept
        BY <4>1 DEF Due
      <4>3. View(s)' = "over"
        BY <4>1 DEF View
      <4>4. Whom(s)' = Whom(s) /\ Stage(s)' = Stage(s)
        BY <1>0, <4>1, WhomKept
      <4>5. [FeedOf(s) EXCEPT !.view = "over", !.due = kept]
              = As(Whom(s), Stage(s), kept, st.got, "over")
        <5> HIDE DEF kept
        <5>1. [FeedOf(s) EXCEPT !.view = "over", !.due = kept]
                = [[FeedOf(s) EXCEPT !.view = "over"] EXCEPT !.due = kept]
          OBVIOUS
        <5>2. [FeedOf(s) EXCEPT !.view = "over"] = As(Whom(s), Stage(s), Due(s), st.got, "over")
          BY FeedIs, ViewSet
        <5>3. [As(Whom(s), Stage(s), Due(s), st.got, "over") EXCEPT !.due = kept]
                = As(Whom(s), Stage(s), kept, st.got, "over")
          BY DueSet
        <5> QED  BY <5>1, <5>2, <5>3
      <4>6. FeedOf(s)' = As(Whom(s), Stage(s), kept, st.got, "over")
        BY <4>1, <4>2, <4>3, <4>4, FeedIs
      <4> QED  BY <4>5, <4>6
    <3>3. kept \in SUBSET FeedOf(s).due
      BY <2>3
    <3> HIDE DEF kept
    <3>4. Feed!Becomes(s, [FeedOf(s) EXCEPT !.view = "over", !.due = kept])
      BY <1>1, <3>2, FeedBecomes
    <3>5. Feed!End(s)
      BY <2>3, <3>3, <3>4 DEF Feed!End
    <3> QED  BY <3>5 DEF Feed!Next
  <2> QED  BY <2>4, <2>5
<1>8. CASE Heartbeat(s) \/ EndOfChannel(s) \/ Interrupted(s)
  <2>1. st.writer = "loop" /\ stream'[s] = [st EXCEPT !.writer = "done"]
    BY <1>0, <1>8 DEF Heartbeat, EndOfChannel, Interrupted, Writing, WriterEnds
  <2>2. /\ stream'[s].sub = st.sub /\ stream'[s].buffer = st.buffer
        /\ stream'[s].wire = st.wire /\ stream'[s].got = st.got
        /\ stream'[s].writer = "done"
    BY <1>0, <2>1 DEF Stream
  <2>3. /\ FeedOf(s).view = "live" /\ FeedOf(s).due \in SUBSET FeedOf(s).due
        /\ FeedOf(s)' = [FeedOf(s) EXCEPT !.view = "over", !.due = FeedOf(s).due]
    <3>1. Due(s)' = Due(s)
      BY <2>2 DEF Due
    <3>2. View(s) = "live" /\ View(s)' = "over"
      BY <2>1, <2>2 DEF View
    <3>3. Whom(s)' = Whom(s) /\ Stage(s)' = Stage(s)
      BY <1>0, <2>2, WhomKept
    <3>4. [FeedOf(s) EXCEPT !.view = "over", !.due = FeedOf(s).due]
            = As(Whom(s), Stage(s), FeedOf(s).due, st.got, "over")
      <4>1. [FeedOf(s) EXCEPT !.view = "over", !.due = FeedOf(s).due]
              = [[FeedOf(s) EXCEPT !.view = "over"] EXCEPT !.due = FeedOf(s).due]
        OBVIOUS
      <4>2. [FeedOf(s) EXCEPT !.view = "over"] = As(Whom(s), Stage(s), Due(s), st.got, "over")
        BY FeedIs, ViewSet
      <4>3. [As(Whom(s), Stage(s), Due(s), st.got, "over") EXCEPT !.due = FeedOf(s).due]
              = As(Whom(s), Stage(s), FeedOf(s).due, st.got, "over")
        BY DueSet
      <4> QED  BY <4>1, <4>2, <4>3
    <3>5. FeedOf(s)' = As(Whom(s), Stage(s), Due(s), st.got, "over")
      BY <2>2, <3>1, <3>2, <3>3, FeedIs
    <3>6. FeedOf(s).due = Due(s) /\ FeedOf(s).view = "live"
      BY <3>2, FieldsOf
    <3> QED  BY <3>4, <3>5, <3>6
  <2>4. Feed!Becomes(s, [FeedOf(s) EXCEPT !.view = "over", !.due = FeedOf(s).due])
    BY <1>1, <2>3, FeedBecomes
  <2>5. Feed!End(s)
    BY <2>3, <2>4 DEF Feed!End
  <2> QED  BY <2>5 DEF Feed!Next
<1> QED  BY <1>3, <1>4, <1>5, <1>6, <1>7, <1>8 DEF Redis, Writer

\* A step that moves one call and publishes nothing is about its stream at most.
LEMMA CallAbout ==
  ASSUME TypeOK, NotificationsInv, [Next]_vars, NEW c \in Calls,
         Request(c) \/ Continue(c)
  PROVE  About(c)
<1>0. call \in [Calls -> Call] /\ stream \in [Calls -> Stream]
  BY DEF TypeOK
<1>1. published' = published
  BY DEF Request, Emit, OpenStream, MarkAllAsRead, MarkAsRead, DeleteNote,
         Continue, StartWriter, CloseSubscription, UpdateRead, RemoveNote
<1>2. ASSUME NEW r \in Calls \ {c} PROVE stream'[r] = stream[r]
  <2>1. CASE Request(c)
    BY <1>0, <2>1 DEF Request, Emit, OpenStream, MarkAllAsRead, MarkAsRead, DeleteNote
  <2>2. CASE Continue(c)
    BY <1>0, <2>2 DEF Continue, StartWriter, CloseSubscription, UpdateRead, RemoveNote
  <2> QED  BY <2>1, <2>2
<1> QED  BY <1>1, <1>2, FeedUsers DEF About

\* Redis takes an event: that is a Post.
LEMMA FeedPublish ==
  ASSUME TypeOK, NotificationsInv, \A r \in Calls : FeedInv(r), NEW c \in Calls,
         [Next]_vars, Publish(c)
  PROVE  [Feed!Next]_Feed!feedVars
<1> DEFINE feed == [r \in Calls |-> FeedOf(r)]
           p == Len(published) + 1
<1>0. /\ call \in [Calls -> Call] /\ call[c] \in Call
      /\ stream \in [Calls -> Stream]
  BY DEF TypeOK
<1>00. PICK u \in Users : u = call[c].user
  BY <1>0 DEF Call
<1>1. Cardinality({n \in DOMAIN published : published[n] = c}) < Retries + 1
  <2>1. /\ Cardinality(Copies(c)) \in Nat /\ Cardinality(Copies(c)) <= call[c].tries
        /\ call[c].tries \in 0 .. Retries /\ Retries \in Nat
    BY <1>0, CopiesFinite, NotificationsAssumption DEF Publish, Call
  <2> QED  BY <2>1 DEF Copies
<1>2. /\ p \in Nat /\ published' = Append(published, c)
      /\ stream' = [s \in Calls |->
           IF stream[s].sub = "on" /\ call[s].user = call[c].user
             THEN [stream[s] EXCEPT !.wire = Append(@, p)] ELSE stream[s]]
  BY DEF Publish, TypeOK
<1> HIDE DEF p
<1>3. ASSUME NEW r \in Calls
      PROVE  FeedOf(r)' = IF FeedOf(r).state = "listening" /\ FeedOf(r).of = {u}
                            THEN [FeedOf(r) EXCEPT !.due = @ \cup {p}] ELSE FeedOf(r)
  <2> DEFINE st == stream[r]
  <2>0. st \in Stream /\ st.wire \in Seq(Nat)
    BY <1>0, LineType
  <2>1. st.sub # "none" => call'[r].user = call[r].user
    BY FeedUsers DEF FeedOf
  <2>2. CASE st.sub = "on" /\ call[r].user = u
    <3>1. stream'[r] = [st EXCEPT !.wire = Append(@, p)]
      BY <1>2, <1>00, <2>2
    <3>2. /\ stream'[r].sub = st.sub /\ stream'[r].buffer = st.buffer
          /\ stream'[r].wire = Append(st.wire, p)
          /\ stream'[r].got = st.got /\ stream'[r].writer = st.writer
      BY <2>0, <3>1 DEF Stream
    <3>3. Due(r)' = Due(r) \cup {p}
      BY <1>2, <2>0, <3>2, RangeAppend DEF Due
    <3>4. Whom(r)' = Whom(r) /\ Stage(r)' = Stage(r) /\ View(r)' = View(r)
      BY <2>1, <3>2, WhomKept DEF View
    <3>5. Whom(r) = {u} /\ Stage(r) = "listening"
      BY <2>2 DEF Whom, Stage
    <3>6. FeedOf(r)' = As(Whom(r), Stage(r), Due(r) \cup {p}, st.got, View(r))
      BY <3>2, <3>3, <3>4, FeedIs
    <3>7. [FeedOf(r) EXCEPT !.due = Due(r) \cup {p}]
            = As(Whom(r), Stage(r), Due(r) \cup {p}, st.got, View(r))
      <4> DEFINE more == Due(r) \cup {p}
      <4> HIDE DEF more
      <4>1. [FeedOf(r) EXCEPT !.due = more] = As(Whom(r), Stage(r), more, st.got, View(r))
        BY FeedIs, DueSet
      <4> QED  BY <4>1 DEF more
    <3>8. FeedOf(r).state = "listening" /\ FeedOf(r).of = {u} /\ FeedOf(r).due = Due(r)
      BY <3>5, FieldsOf
    <3> QED  BY <3>6, <3>7, <3>8
  <2>3. CASE ~ (st.sub = "on" /\ call[r].user = u)
    <3>1. stream'[r] = st
      BY <1>2, <1>00, <2>3
    <3>2. FeedOf(r)' = FeedOf(r)
      <4>1. Due(r)' = Due(r) /\ View(r)' = View(r)
        BY <3>1 DEF Due, View
      <4> QED  BY <2>1, <3>1, <4>1, WhomKept, FeedIs
    <3>3. ~ (FeedOf(r).state = "listening" /\ FeedOf(r).of = {u})
      <4>1. Stage(r) = "listening" /\ Whom(r) = {u} => st.sub = "on" /\ call[r].user = u
        BY <2>0 DEF Stage, Whom, Stream
      <4> QED  BY <2>3, <4>1, FieldsOf
    <3> QED  BY <3>2, <3>3
  <2> QED  BY <2>2, <2>3
<1>4. feed' = [r \in Calls |-> IF feed[r].state = "listening" /\ feed[r].of = {u}
                                 THEN [feed[r] EXCEPT !.due = @ \cup {p}] ELSE feed[r]]
  BY <1>3
<1>5. Feed!Post(c, u)
  <2>1. \A S : Feed!Cardinality(S) = Cardinality(S)
    BY DEF Feed!Cardinality, Cardinality
  <2> QED  BY <1>1, <1>2, <1>4, <2>1 DEF Feed!Post, p
<1> QED  BY <1>5 DEF Feed!Next

\* An event that is sent again, or given up, is nothing to the feeds.
LEMMA FeedSend ==
  ASSUME TypeOK, NotificationsInv, NEW c \in Calls, [Next]_vars, Resend(c) \/ GiveUp(c)
  PROVE  UNCHANGED Feed!feedVars
<1>1. stream' = stream /\ published' = published
  BY DEF Resend, GiveUp
<1>2. About(c)
  BY <1>1, FeedUsers DEF About
<1>3. FeedOf(c)' = FeedOf(c)
  <2>1. call'[c].user = call[c].user
    BY SendCall DEF Send
  <2> QED  BY <1>1, <2>1 DEF FeedOf
<1> QED  BY <1>2, <1>3, FeedStays

\* The other steps of the calls: a stream opens, or closes its subscription.
LEMMA FeedCalls ==
  ASSUME TypeOK, NotificationsInv, NEW c \in Calls, DeliveryInv(c), FeedInv(c),
         [Next]_vars, Request(c) \/ Continue(c)
  PROVE  [Feed!Next]_Feed!feedVars
<1> DEFINE st == stream[c]
           feed == [r \in Calls |-> FeedOf(r)]
<1>0. /\ call \in [Calls -> Call] /\ call[c] \in Call
      /\ stream \in [Calls -> Stream] /\ st \in Stream
  BY DEF TypeOK
<1>1. About(c)
  BY CallAbout
<1>2. feed[c] = FeedOf(c)
  OBVIOUS
<1> HIDE DEF feed
<1>3. CASE /\ stream'[c].sub = st.sub /\ stream'[c].buffer = st.buffer
           /\ stream'[c].wire = st.wire /\ stream'[c].got = st.got
           /\ View(c)' = View(c)
  <2>1. st.sub # "none" => call'[c].user = call[c].user
    BY <1>1 DEF About, FeedOf
  <2>2. Whom(c)' = Whom(c) /\ Stage(c)' = Stage(c)
    BY <1>3, <2>1, WhomKept
  <2>3. Due(c)' = Due(c)
    BY <1>3 DEF Due
  <2>4. FeedOf(c)' = FeedOf(c)
    BY <1>3, <2>2, <2>3, FeedIs
  <2> QED  BY <1>1, <2>4, FeedStays
<1>4. CASE stream' = stream
  BY <1>3, <1>4 DEF View
<1>5. CASE StartWriter(c)
  <2>1. stream'[c] = [st EXCEPT !.writer = "loop"] /\ st.writer = "none"
    BY <1>0, <1>5 DEF StartWriter, At, DeliveryInv
  <2>2. /\ stream'[c].sub = st.sub /\ stream'[c].buffer = st.buffer
        /\ stream'[c].wire = st.wire /\ stream'[c].got = st.got
        /\ stream'[c].writer = "loop"
    BY <1>0, <2>1 DEF Stream
  <2> QED  BY <1>3, <2>1, <2>2 DEF View
<1>6. ASSUME NEW u \in Users, OpenStream(c, u) PROVE [Feed!Next]_Feed!feedVars
  <2>1. st = NoStream
    BY <1>6 DEF OpenStream, Accept, At, NotificationsInv, CallInv
  <2>2. call'[c].user = u
    BY <1>0, <1>6 DEF OpenStream, Accept, Call
  <2>3. stream'[c] = [st EXCEPT !.sub = "asked"]
    BY <1>0, <1>6 DEF OpenStream
  <2>4. /\ stream'[c].sub = "asked" /\ stream'[c].buffer = st.buffer
        /\ stream'[c].wire = st.wire /\ stream'[c].got = st.got
        /\ stream'[c].writer = st.writer /\ st.sub = "none"
    BY <1>0, <2>1, <2>3 DEF Stream, NoStream
  <2>5. Whom(c)' = {u} /\ Stage(c)' = "open" /\ Stage(c) = "none"
    BY <2>2, <2>4 DEF Whom, Stage
  <2>6. Due(c)' = Due(c) /\ View(c)' = View(c)
    BY <2>4 DEF Due, View
  <2>7. FeedOf(c)' = [FeedOf(c) EXCEPT !.state = "open", !.of = {u}]
    <3> DEFINE us == {u}
    <3>1. FeedOf(c)' = As(us, "open", Due(c), st.got, View(c))
      BY <2>4, <2>5, <2>6, FeedIs
    <3> HIDE DEF us
    <3>2. [FeedOf(c) EXCEPT !.state = "open", !.of = us]
            = [[FeedOf(c) EXCEPT !.state = "open"] EXCEPT !.of = us]
      OBVIOUS
    <3>3. [FeedOf(c) EXCEPT !.state = "open"] = As(Whom(c), "open", Due(c), st.got, View(c))
      BY FeedIs, StageSet
    <3>4. [As(Whom(c), "open", Due(c), st.got, View(c)) EXCEPT !.of = us]
            = As(us, "open", Due(c), st.got, View(c))
      BY WhomSet
    <3>5. FeedOf(c)' = [FeedOf(c) EXCEPT !.state = "open", !.of = us]
      BY <3>1, <3>2, <3>3, <3>4
    <3> QED  BY <3>5 DEF us
  <2>8. FeedOf(c).state = "none"
    BY <2>5, FieldsOf
  <2>9. Feed!Becomes(c, [FeedOf(c) EXCEPT !.state = "open", !.of = {u}])
    BY <1>1, <2>7, FeedBecomes
  <2>10. Feed!Open(c, u)
    BY <1>2, <2>8, <2>9 DEF Feed!Open, feed
  <2> QED  BY <2>10 DEF Feed!Next
<1>7. CASE CloseSubscription(c)
  <2> DEFINE kept == Range(st.buffer)
  <2>1. /\ stream'[c] = [st EXCEPT !.sub = "closed", !.wire = <<>>]
        /\ st.sub \in {"asked", "on"}
    BY <1>0, <1>7 DEF CloseSubscription, At, FeedInv
  <2>2. /\ stream'[c].sub = "closed" /\ stream'[c].buffer = st.buffer
        /\ stream'[c].wire = <<>> /\ stream'[c].got = st.got
        /\ stream'[c].writer = st.writer
    BY <1>0, <2>1 DEF Stream
  <2>3. Whom(c)' = Whom(c) /\ Stage(c)' = "closed" /\ Stage(c) \in {"open", "listening"}
    <3>1. call'[c].user = call[c].user
      BY <1>1, <2>1 DEF About, FeedOf
    <3> QED  BY <2>1, <2>2, <3>1 DEF Whom, Stage
  <2>4. Due(c)' = kept
    <3>1. Range(<<>>) = {}
      BY DEF Range
    <3> QED  BY <2>2, <3>1 DEF Due
  <2>5. View(c)' = View(c)
    BY <2>2 DEF View
  <2>6. FeedOf(c)' = [FeedOf(c) EXCEPT !.state = "closed", !.due = kept]
    <3> HIDE DEF kept
    <3>1. FeedOf(c)' = As(Whom(c), "closed", kept, st.got, View(c))
      BY <2>2, <2>3, <2>4, <2>5, FeedIs
    <3>2. [FeedOf(c) EXCEPT !.state = "closed", !.due = kept]
            = [[FeedOf(c) EXCEPT !.state = "closed"] EXCEPT !.due = kept]
      OBVIOUS
    <3>3. [FeedOf(c) EXCEPT !.state = "closed"]
            = As(Whom(c), "closed", Due(c), st.got, View(c))
      BY FeedIs, StageSet
    <3>4. [As(Whom(c), "closed", Due(c), st.got, View(c)) EXCEPT !.due = kept]
            = As(Whom(c), "closed", kept, st.got, View(c))
      BY DueSet
    <3> QED  BY <3>1, <3>2, <3>3, <3>4
  <2>7. FeedOf(c).due = kept \cup Range(st.wire) /\ FeedOf(c).state \in {"open", "listening"}
    BY <2>3, FieldsOf DEF Due
  <2>8. \A e \in kept, f \in FeedOf(c).due \ kept : e < f
    BY <2>7, DueInOrder DEF NotificationsInv
  <2>9. Feed!Becomes(c, [FeedOf(c) EXCEPT !.state = "closed", !.due = kept])
    BY <1>1, <2>6, FeedBecomes
  <2> HIDE DEF kept
  <2>10. kept \in SUBSET FeedOf(c).due
    BY <2>7
  <2>11. Feed!Close(c)
    BY <1>2, <2>7, <2>8, <2>9, <2>10 DEF Feed!Close, Feed!Keeps, feed
  <2> QED  BY <2>11 DEF Feed!Next
<1> QED
  BY <1>4, <1>5, <1>6, <1>7
     DEF Request, Emit, MarkAllAsRead, MarkAsRead, DeleteNote, Continue, UpdateRead, RemoveNote

\* The streams implement EventFeed, which knows no queues and no goroutines: a
\* feed shows what was posted for its user while it listened in the order of the
\* postings, none twice, and is silent after its end; what it misses are the last
\* ones before it stopped, or ceased for a while, to listen.
THEOREM FeedImplemented == Spec => ImplementsFeed
<1> DEFINE I == \A c \in Calls : DeliveryInv(c) /\ FeedInv(c)
<1>1. Init => Feed!Init
  <2> SUFFICES ASSUME Init PROVE Feed!Init
    OBVIOUS
  <2>1. Range(<<>>) = {}
    BY DEF Range
  <2>2. \A s \in Calls : FeedOf(s) = Feed!NoFeed
    BY <2>1 DEF Init, FeedOf, NoStream, Feed!NoFeed
  <2> QED  BY <2>2 DEF Init, Feed!Init
<1>2. Init => I
  <2> SUFFICES ASSUME Init, NEW s \in Calls PROVE DeliveryInv(s)
    BY FeedInvInit
  <2>1. stream[s] = NoStream /\ call[s].pc = "idle"
    BY DEF Init
  <2>2. Range(<<>>) = {}
    BY DEF Range
  <2> QED  BY <2>1, <2>2 DEF DeliveryInv, NoStream
<1>3. TypeOK /\ NotificationsInv /\ I /\ [Next]_vars => I'
  BY DeliveryStep, FeedInvStep DEF NotificationsInv
<1>4. TypeOK /\ NotificationsInv /\ I /\ [Next]_vars => [Feed!Next]_Feed!feedVars
  <2> SUFFICES ASSUME TypeOK, NotificationsInv, I, [Next]_vars
               PROVE  [Feed!Next]_Feed!feedVars
    OBVIOUS
  <2>1. CASE UNCHANGED vars \/ Shutdown
    BY <2>1 DEF vars, Shutdown, Feed!feedVars, FeedOf
  <2>2. ASSUME NEW c \in Calls, Publish(c) PROVE [Feed!Next]_Feed!feedVars
    BY <2>2, FeedPublish
  <2>3. ASSUME NEW c \in Calls, Resend(c) \/ GiveUp(c) PROVE [Feed!Next]_Feed!feedVars
    BY <2>3, FeedSend
  <2>4. ASSUME NEW c \in Calls, Redis(c) \/ Disconnect(c) \/ Writer(c)
        PROVE  [Feed!Next]_Feed!feedVars
    BY <2>4, FeedQueues
  <2>5. ASSUME NEW c \in Calls, Request(c) \/ Continue(c) PROVE [Feed!Next]_Feed!feedVars
    BY <2>5, FeedCalls
  <2> QED  BY <2>1, <2>2, <2>3, <2>4, <2>5 DEF Next, Send
<1> HIDE DEF I
<1> QED
  BY <1>1, <1>2, <1>3, <1>4, TypeCorrect, NotificationsCorrect, PTL
     DEF Spec, ImplementsFeed, Feed!Spec
=============================================================================
