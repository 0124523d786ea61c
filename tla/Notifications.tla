--------------------------- MODULE Notifications ---------------------------
(***************************************************************************)
(* Notifications: the event stream of a user over Redis pub/sub, and the   *)
(* inbox, the notifications table.                                         *)
(*                                                                         *)
(* A use case that uploaded or shared a file answers its request and       *)
(* leaves a goroutine that publishes an event to the channel of the user.  *)
(* An open stream has three goroutines: the handler, which subscribes,     *)
(* starts the writer, returns, and by that closes the subscription; the    *)
(* Redis client's, which takes messages from the connection into a Go      *)
(* channel; and the writer, which takes them from there to the client.     *)
(* The Redis client sends a PUBLISH again whose answer does not come, and   *)
(* subscribes anew, without a word, when a subscription's connection is    *)
(* lost.  Events and streams are named by the call they belong to, and     *)
(* messages by their place among those that Redis has taken.               *)
(***************************************************************************)
EXTENDS Integers, Sequences, FiniteSets, Functions

CONSTANTS
  Users,
  Notes,        \* the rows of the inbox; no code adds one
  Owner,        \* Owner[n]: user_id of row n
  Calls,        \* the HTTP calls of a behaviour, each handled once
  NoCall,       \* read_at is NULL
  Capacity,     \* how many messages the Go channel of a subscription holds
  Retries,      \* how often the Redis client sends a PUBLISH again (3)
  Faults        \* whether a call of the database or Redis may fail: {} or {"failed"}

ASSUME NotificationsAssumption ==
  /\ Owner \in [Notes -> Users]
  /\ NoCall \notin Calls
  /\ Capacity \in Nat \ {0} /\ Retries \in Nat
  /\ Faults \subseteq {"failed"}

VARIABLES
  note,         \* note[n]: whether row n is there and read, and who set read_at
  call,         \* call[c]: the local state of the goroutine handling c
  stream,       \* stream[c]: what belongs to the stream that c opened
  published,    \* the events Redis has taken, one place for every copy
  stopping      \* the server is shutting down

vars == <<note, call, stream, published, stopping>>

\* Where a row stands: an unread row has no read_at, a read one has.
Note == [gone: BOOLEAN, read: {FALSE}, by: {NoCall}] \cup [gone: BOOLEAN, read: {TRUE}, by: Calls]

\* tries: how often the event was sent again.
Steps == {"idle", "publish", "subscribed", "serving", "mark", "delete", "done"}
Call == [op: {"none", "event", "stream", "read", "readall", "delete"}, pc: Steps,
         user: Users, note: Notes \cup {NoCall}, tries: 0 .. Retries,
         reply: {"pending", "ok", "err"}]

\* sub: the subscription at Redis; wire: messages sent to it and not taken yet;
\* buffer, open: the Go channel; writer: the writer goroutine; got: the messages
\* written to the client; connected: whether the connection to it is alive.
\* taken: the messages that were put into the channel (history).
Stream == [sub: {"none", "asked", "on", "closed"}, wire: Seq(Nat), buffer: Seq(Nat),
           open: BOOLEAN, writer: {"none", "loop", "done"}, got: Seq(Nat),
           connected: BOOLEAN, taken: SUBSET Nat]

TypeOK ==
  /\ note \in [Notes -> Note] /\ call \in [Calls -> Call] /\ stream \in [Calls -> Stream]
  /\ \A s \in Calls : Len(stream[s].buffer) <= Capacity
  /\ published \in Seq(Calls) /\ stopping \in BOOLEAN

NoStream == [sub |-> "none", wire |-> <<>>, buffer |-> <<>>, open |-> TRUE, writer |-> "none",
             got |-> <<>>, connected |-> TRUE, taken |-> {}]

\* The seed's welcome notifications, unread.
Init ==
  /\ note = [n \in Notes |-> [gone |-> FALSE, read |-> FALSE, by |-> NoCall]]
  /\ \E u \in Users : call = [c \in Calls |->
       [op |-> "none", pc |-> "idle", user |-> u, note |-> NoCall, tries |-> 0,
        reply |-> "pending"]]
  /\ stream = [c \in Calls |-> NoStream]
  /\ published = <<>>
  /\ stopping = FALSE

At(c, step) == call[c].pc = step
Outcomes    == {"ok"} \cup Faults

Goto(c, step)    == call' = [call EXCEPT ![c].pc = step]
Reply(c, answer) == call' = [call EXCEPT ![c] = [@ EXCEPT !.pc = "done",
                                                          !.reply = answer]]

\* The server takes call c, authenticated as u.
Accept(c, op, u, n, step, answer) ==
  /\ At(c, "idle") /\ ~ stopping
  /\ call' = [call EXCEPT ![c] = [@ EXCEPT !.op = op, !.user = u, !.note = n,
                                           !.pc = step, !.reply = answer]]

-----------------------------------------------------------------------------
(* Events *)

\* An Upload or a Share is answered and leaves a goroutine to publish its event.
Emit(c, u) ==
  /\ Accept(c, "event", u, NoCall, "publish", "ok")
  /\ UNCHANGED <<note, stream, published, stopping>>

\* The copies of an event that Redis has taken.
Copies(c) == {n \in DOMAIN published : published[n] = c}

\* Faulty variant: one channel for all users.
PublishToAll(c) ==
  /\ call[c].op = "event" /\ Cardinality(Copies(c)) <= call[c].tries
  /\ published' = Append(published, c)
  /\ stream' = [s \in Calls |-> IF stream[s].sub = "on"
                 THEN [stream[s] EXCEPT !.wire = Append(@, Len(published) + 1)] ELSE stream[s]]
  /\ Goto(c, "done") \/ ("failed" \in Faults /\ UNCHANGED call)
  /\ UNCHANGED <<note, stopping>>

\* Redis takes a copy that was sent and not taken yet, sends it to the
\* subscriptions of the channel and answers; the answer may not come, and a copy
\* may be taken when the client has long given it up.
Publish(c) ==
  /\ call[c].op = "event" /\ Cardinality(Copies(c)) <= call[c].tries
  /\ published' = Append(published, c)
  /\ stream' = [s \in Calls |-> IF stream[s].sub = "on" /\ call[s].user = call[c].user
                 THEN [stream[s] EXCEPT !.wire = Append(@, Len(published) + 1)] ELSE stream[s]]
  /\ Goto(c, "done") \/ ("failed" \in Faults /\ UNCHANGED call)
  /\ UNCHANGED <<note, stopping>>

\* No answer, whatever Redis did with the copy: another one is sent.
Resend(c) ==
  /\ At(c, "publish") /\ "failed" \in Faults /\ call[c].tries < Retries
  /\ call' = [call EXCEPT ![c].tries = @ + 1]
  /\ UNCHANGED <<note, stream, published, stopping>>

\* After the last one, or at an error that is not worth another, it is logged.
GiveUp(c) ==
  /\ At(c, "publish") /\ "failed" \in Faults
  /\ Goto(c, "done")
  /\ UNCHANGED <<note, stream, published, stopping>>

-----------------------------------------------------------------------------
(* Streams: the handler *)

\* Subscribe sends the command to Redis and does not wait for the answer.
OpenStream(c, u) ==
  /\ Accept(c, "stream", u, NoCall, "subscribed", "pending")
  /\ stream' = [stream EXCEPT ![c].sub = "asked"]
  /\ UNCHANGED <<note, published, stopping>>

\* SetBodyStreamWriter starts the writer at once.
StartWriter(c) ==
  /\ At(c, "subscribed")
  /\ stream' = [stream EXCEPT ![c].writer = "loop"]
  /\ Goto(c, "serving")
  /\ UNCHANGED <<note, published, stopping>>

\* The handler returns: its deferred Close drops the subscription and whatever
\* was not taken from the connection.  Then the server sends what is written.
CloseSubscription(c) ==
  /\ At(c, "serving")
  /\ stream' = [stream EXCEPT ![c] = [@ EXCEPT !.sub = "closed", !.wire = <<>>]]
  /\ Reply(c, "ok")
  /\ UNCHANGED <<note, published, stopping>>

-----------------------------------------------------------------------------
(* Streams: Redis and its client *)

RedisSubscribe(s) ==
  /\ stream[s].sub = "asked"
  /\ stream' = [stream EXCEPT ![s].sub = "on"]
  /\ UNCHANGED <<note, call, published, stopping>>

\* The connection breaks: the client makes another one and subscribes anew.  It
\* tells nobody; what was sent to the old one is gone, and so is what Redis takes
\* before it has the new subscription.
LoseConnection(s) ==
  /\ stream[s].sub = "on" /\ "failed" \in Faults
  /\ stream' = [stream EXCEPT ![s] = [@ EXCEPT !.sub = "asked", !.wire = <<>>]]
  /\ UNCHANGED <<note, call, published, stopping>>

\* The client takes a message into the Go channel.  (One that finds no room for
\* a minute is dropped; no stream lives that long.)
Receive(s) ==
  /\ stream[s].wire # <<>> /\ Len(stream[s].buffer) < Capacity
  /\ LET st == stream[s]
     IN  stream' = [stream EXCEPT ![s] = [st EXCEPT
           !.wire = Tail(st.wire), !.buffer = Append(st.buffer, Head(st.wire)),
           !.taken = st.taken \cup {Head(st.wire)}]]
  /\ UNCHANGED <<note, call, published, stopping>>

\* The client's goroutine sees that the subscription is closed.
CloseChannel(s) ==
  /\ stream[s].sub = "closed" /\ stream[s].open
  /\ stream' = [stream EXCEPT ![s].open = FALSE]
  /\ UNCHANGED <<note, call, published, stopping>>

\* The client of the stream leaves, or the server's write timeout has passed.
Disconnect(s) ==
  /\ call[s].op = "stream" /\ stream[s].connected
  /\ stream' = [stream EXCEPT ![s].connected = FALSE]
  /\ UNCHANGED <<note, call, published, stopping>>

-----------------------------------------------------------------------------
(* Streams: the writer, a select over the channel, a ticker and shutdown.  *)

Writing(s) == stream[s].writer = "loop"
WriterEnds(s) == /\ stream' = [stream EXCEPT ![s].writer = "done"]
                 /\ UNCHANGED <<note, call, published, stopping>>

\* Faulty variant: a failing flush is ignored.
WriteEventGoesOn(s) ==
  /\ Writing(s) /\ stream[s].buffer # <<>>
  /\ LET st == stream[s]
         got == IF st.connected THEN Append(st.got, Head(st.buffer)) ELSE st.got
     IN  stream' = [stream EXCEPT ![s] = [st EXCEPT !.buffer = Tail(st.buffer), !.got = got]]
  /\ UNCHANGED <<note, call, published, stopping>>

\* An event is written and flushed; a failing flush ends the writer.
WriteEvent(s) ==
  /\ Writing(s) /\ stream[s].buffer # <<>>
  /\ LET st == stream[s]
         got == IF st.connected THEN Append(st.got, Head(st.buffer)) ELSE st.got
     IN  stream' = [stream EXCEPT ![s] = [st EXCEPT
           !.buffer = Tail(st.buffer), !.got = got,
           !.writer = IF st.connected THEN "loop" ELSE "done"]]
  /\ UNCHANGED <<note, call, published, stopping>>

\* A heartbeat to a client that has gone ends the writer; others change nothing.
Heartbeat(s) == Writing(s) /\ ~ stream[s].connected /\ WriterEnds(s)

\* Faulty variant: the closed channel is noticed before it is empty.
EndOfChannelEarly(s) == Writing(s) /\ ~ stream[s].open /\ WriterEnds(s)

\* Faulty variant: that the channel is closed is not looked at.
EndOfChannelIgnored(s) ==
  Writing(s) /\ ~ stream[s].open /\ stream[s].buffer = <<>> /\ UNCHANGED vars

\* The channel is closed and empty.
EndOfChannel(s) ==
  Writing(s) /\ ~ stream[s].open /\ stream[s].buffer = <<>> /\ WriterEnds(s)

\* ctx.Done() of the server.
Interrupted(s) == Writing(s) /\ stopping /\ WriterEnds(s)

Shutdown ==
  /\ ~ stopping /\ stopping' = TRUE
  /\ UNCHANGED <<note, call, stream, published>>

-----------------------------------------------------------------------------
(* The inbox *)

Present(n, u) == ~ note[n].gone /\ Owner[n] = u

\* MarkAsRead reads the row and checks its owner ...
MarkAsRead(c, u, n) ==
  /\ IF Present(n, u) THEN Accept(c, "read", u, n, "mark", "pending")
                      ELSE Accept(c, "read", u, n, "done", "err")
  /\ UNCHANGED <<note, stream, published, stopping>>

\* Faulty variant: the condition is_read = false is missing.
UpdateReadAgain(c) ==
  /\ At(c, "mark")
  /\ LET n == call[c].note IN
     IF note[n].gone
       THEN Reply(c, "err") /\ UNCHANGED note
       ELSE Reply(c, "ok") /\ note' = [note EXCEPT ![n] = [@ EXCEPT !.read = TRUE,
                                                                    !.by = c]]
  /\ UNCHANGED <<stream, published, stopping>>

\* ... and updates it WHERE is_read = false; no row affected is an error.
UpdateRead(c) ==
  /\ At(c, "mark")
  /\ LET n == call[c].note IN
     IF ~ note[n].gone /\ ~ note[n].read
       THEN \E o \in Outcomes :
              /\ note' = IF o = "ok" THEN [note EXCEPT ![n] = [@ EXCEPT !.read = TRUE,
                                                                        !.by = c]] ELSE note
              /\ Reply(c, IF o = "ok" THEN "ok" ELSE "err")
       ELSE Reply(c, "err") /\ UNCHANGED note
  /\ UNCHANGED <<stream, published, stopping>>

MarkAllAsRead(c, u) ==
  /\ \E o \in Outcomes :
       /\ Accept(c, "readall", u, NoCall, "done", IF o = "ok" THEN "ok" ELSE "err")
       /\ note' = [n \in Notes |->
            IF o = "ok" /\ Present(n, u) /\ ~ note[n].read
              THEN [note[n] EXCEPT !.read = TRUE, !.by = c] ELSE note[n]]
  /\ UNCHANGED <<stream, published, stopping>>

DeleteNote(c, u, n) ==
  /\ IF Present(n, u) THEN Accept(c, "delete", u, n, "delete", "pending")
                      ELSE Accept(c, "delete", u, n, "done", "err")
  /\ UNCHANGED <<note, stream, published, stopping>>

RemoveNote(c) ==
  /\ At(c, "delete")
  /\ IF ~ note[call[c].note].gone
       THEN \E o \in Outcomes :
              /\ note' = IF o = "ok" THEN [note EXCEPT ![call[c].note].gone = TRUE] ELSE note
              /\ Reply(c, IF o = "ok" THEN "ok" ELSE "err")
       ELSE Reply(c, "err") /\ UNCHANGED note
  /\ UNCHANGED <<stream, published, stopping>>

-----------------------------------------------------------------------------

Request(c) ==
  \E u \in Users :
    \/ Emit(c, u) \/ OpenStream(c, u) \/ MarkAllAsRead(c, u)
    \/ \E n \in Notes : MarkAsRead(c, u, n) \/ DeleteNote(c, u, n)

Continue(c) ==
  \/ StartWriter(c) \/ CloseSubscription(c)
  \/ UpdateRead(c) \/ RemoveNote(c)

Send(c)   == Publish(c) \/ Resend(c) \/ GiveUp(c)
Redis(s)  == RedisSubscribe(s) \/ LoseConnection(s) \/ Receive(s) \/ CloseChannel(s)
Writer(s) == WriteEvent(s) \/ Heartbeat(s) \/ EndOfChannel(s) \/ Interrupted(s)

Next == Shutdown \/ \E c \in Calls :
          Request(c) \/ Continue(c) \/ Send(c) \/ Redis(c) \/ Disconnect(c) \/ Writer(c)

Spec == Init /\ [][Next]_vars

\* Goroutines that can go on do, the database answers, tickers tick.  Nobody has
\* to send a request, to leave, or to shut the server down, and Redis nothing.
FairSpec ==
  Spec /\ \A c \in Calls : WF_vars(Continue(c)) /\ WF_vars(CloseChannel(c)) /\ WF_vars(Writer(c))

-----------------------------------------------------------------------------
(* Properties *)

\* The messages of one stream, those written first.
Line(s) == stream[s].got \o stream[s].buffer \o stream[s].wire

\* The copies of an event that are in the line of a stream.
Shown(s, c) == {i \in 1 .. Len(Line(s)) : published[Line(s)[i]] = c}

\* A stream carries the events of its own user only, in the order in which Redis
\* took them, through three queues, two goroutines and a subscription that is
\* lost and renewed; and an event again only as often as it was sent again.
OwnEventsInOrder ==
  \A s \in Calls :
    /\ \A i \in 1 .. Len(Line(s)) : call[published[Line(s)[i]]].user = call[s].user
    /\ \A i, j \in 1 .. Len(Line(s)) : i < j => Line(s)[i] < Line(s)[j]
    /\ \A c \in Calls : Cardinality(Shown(s, c)) <= 1 + call[c].tries

\* An event that the Redis client took is written to the client of the stream
\* although the handler closes the subscription behind the writer's back: only a
\* lost connection or a shutdown can take it away.
TakenIsWritten ==
  \A s \in Calls : LET st == stream[s] IN
    IF st.writer # "done"
      THEN st.taken = Range(st.got) \cup Range(st.buffer)
      ELSE st.connected /\ ~ stopping => st.taken = Range(st.got)

\* Of the calls that overlap in marking one notification, MarkAllAsRead among
\* them, one sets read_at, and a MarkAsRead is acknowledged only if it is the
\* one; likewise one of several Deletes is.
OneWinner ==
  /\ \A c \in Calls : call[c].op = "read" /\ call[c].reply = "ok" => note[call[c].note].by = c
  /\ \A c, d \in Calls : /\ call[c].op = "delete" /\ call[c].reply = "ok"
                         /\ call[d].op = "delete" /\ call[d].reply = "ok"
                         /\ call[c].note = call[d].note
                         => c = d

\* No stream leaves goroutines behind: its writer ends, whether the client
\* stays or leaves, and whatever was in the queues.
StreamEnds == \A s \in Calls : stream[s].sub = "asked" ~> stream[s].writer = "done"

\* What EventFeed calls a feed: the queues between Redis and the writer are one
\* set of places, of which the least comes next.
FeedOf(s) ==
  [of    |-> IF stream[s].sub = "none" THEN {} ELSE {call[s].user},
   state |-> CASE stream[s].sub = "asked" -> "open" [] stream[s].sub = "on" -> "listening"
               [] OTHER -> stream[s].sub,
   due   |-> Range(stream[s].buffer) \cup Range(stream[s].wire),
   shown |-> stream[s].got,
   view  |-> IF stream[s].writer = "done" THEN "over" ELSE "live"]

Feed == INSTANCE EventFeed WITH
          Events <- Calls, Feeds <- Calls, Sendings <- Retries + 1,
          posted <- published, feed <- [s \in Calls |-> FeedOf(s)]

\* Streams implement EventFeed: between Redis and the client of a stream nothing
\* that was taken is shown twice, out of order or after the end, and nothing is
\* missing but at the end of the stream and where a connection to Redis was lost,
\* although handler, Redis client and writer run down at their own pace.
ImplementsFeed == Feed!Spec

\* What a call is doing at each step, and what an acknowledged Delete left.
CallInv(c) ==
  /\ call[c].pc = "idle" =>
       call[c].op = "none" /\ call[c].reply = "pending" /\ stream[c] = NoStream
  /\ call[c].pc = "publish" => call[c].op = "event"
  /\ call[c].pc \in {"subscribed", "serving"} => call[c].op = "stream"
  /\ call[c].pc = "mark" => call[c].op = "read" /\ call[c].note \in Notes
  /\ call[c].pc = "delete" => call[c].op = "delete" /\ call[c].note \in Notes
  /\ call[c].op = "read" /\ call[c].reply = "ok" => call[c].note \in Notes
  /\ call[c].op = "delete" /\ call[c].reply = "ok" =>
       call[c].note \in Notes /\ note[call[c].note].gone

\* A line holds places of messages, and no event is taken more often than sent.
LineInv(s) ==
  /\ \A i \in 1 .. Len(Line(s)) : Line(s)[i] \in DOMAIN published
  /\ Cardinality(Copies(s)) <= 1 + call[s].tries
  /\ Copies(s) # {} => call[s].op = "event"

\* The inductive invariant behind OneWinner and OwnEventsInOrder.
NotificationsInv ==
  /\ \A c \in Calls : CallInv(c) /\ LineInv(c)
  /\ OneWinner /\ OwnEventsInOrder

-----------------------------------------------------------------------------
(* What the documentation says and the code does not keep. *)

\* A stream stays open, for notifications and heartbeats, until its client
\* leaves or the server stops.
StreamLasts ==
  \A s \in Calls : stream[s].writer = "done" => ~ stream[s].connected \/ stopping
=============================================================================
