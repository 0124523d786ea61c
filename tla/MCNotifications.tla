-------------------------- MODULE MCNotifications --------------------------
(* Instances of Notifications for TLC. *)
EXTENDS Notifications, TLC

CONSTANTS alice, bob, n1, n2, c1, c3

Inboxes == (n1 :> alice) @@ (n2 :> bob)

\* Streams and the inbox share no state, so calls of one kind at a time do.
\* Where there is a stream, c1 may as well be one, and alice its user; where there
\* is a second one and an event, c2 and c3 may.
Streaming == /\ \A c \in Calls : call[c].op \in {"none", "event", "stream"}
             /\ call[c1].op \in {"none", "stream"}
             /\ call[c1].op = "stream" => call[c1].user = alice
             /\ call[c3].op \in {"none", "event"}
Reading   == \A c \in Calls : call[c].op \in {"none", "read", "readall", "delete"}

Workload  == Streaming \/ Reading
=============================================================================
