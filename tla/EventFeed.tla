----------------------------- MODULE EventFeed ------------------------------
(***************************************************************************)
(* What an event stream promises, without Redis, queues or goroutines: a   *)
(* feed shows the postings for its user while it listened, one after the   *)
(* other in the order they were made in, none twice.  An event may be      *)
(* posted more than once.  A feed may stop listening without a word, and   *)
(* lose by that the last ones of those it has not shown and whatever is    *)
(* posted before it listens again; at those places only there are gaps.    *)
(* When it is over it shows nothing any more.                              *)
(***************************************************************************)
EXTENDS Naturals, Sequences, FiniteSets

CONSTANTS
  Events, Feeds, Users,
  Sendings     \* how often an event is posted at most

VARIABLES
  posted,   \* the postings: posted[n] is the event of the n-th
  feed      \* feed[s]: whom it is for, the postings it has shown and those due

feedVars == <<posted, feed>>

NoFeed == [of |-> {}, state |-> "none", due |-> {}, shown |-> <<>>, view |-> "live"]

Init ==
  /\ posted = <<>>
  /\ feed = [s \in Feeds |-> NoFeed]

Post(e, u) ==
  /\ Cardinality({n \in DOMAIN posted : posted[n] = e}) < Sendings
  /\ posted' = Append(posted, e)
  /\ feed' = [s \in Feeds |-> IF feed[s].state = "listening" /\ feed[s].of = {u}
                THEN [feed[s] EXCEPT !.due = @ \cup {Len(posted) + 1}] ELSE feed[s]]

\* Feed s becomes `new'.
Becomes(s, new) == feed' = [feed EXCEPT ![s] = new] /\ UNCHANGED posted

Open(s, u) ==
  feed[s].state = "none" /\ Becomes(s, [feed[s] EXCEPT !.state = "open", !.of = {u}])

Listen(s) ==
  feed[s].state = "open" /\ Becomes(s, [feed[s] EXCEPT !.state = "listening"])

\* The postings kept are those before the ones lost.
Keeps(s, kept) ==
  kept \subseteq feed[s].due /\ \A m \in kept, n \in feed[s].due \ kept : m < n

\* It does not listen for a while.
Lose(s) ==
  /\ feed[s].state = "listening"
  /\ \E kept \in SUBSET feed[s].due :
       Keeps(s, kept) /\ Becomes(s, [feed[s] EXCEPT !.state = "open", !.due = kept])

Close(s) ==
  /\ feed[s].state \in {"open", "listening"}
  /\ \E kept \in SUBSET feed[s].due :
       Keeps(s, kept) /\ Becomes(s, [feed[s] EXCEPT !.state = "closed", !.due = kept])

Show(s, n) ==
  /\ feed[s].view = "live" /\ n \in feed[s].due
  /\ \A m \in feed[s].due \ {n} : n < m
  /\ Becomes(s, [feed[s] EXCEPT !.shown = Append(@, n), !.due = @ \ {n}])

End(s) ==
  /\ feed[s].view = "live"
  /\ \E kept \in SUBSET feed[s].due : Becomes(s, [feed[s] EXCEPT !.view = "over", !.due = kept])

Next ==
  \/ \E e \in Events, u \in Users : Post(e, u)
  \/ \E s \in Feeds : \/ Listen(s) \/ Lose(s) \/ Close(s) \/ End(s)
                      \/ \E u \in Users : Open(s, u)
                      \/ \E n \in feed[s].due : Show(s, n)

Spec == Init /\ [][Next]_feedVars

=============================================================================
