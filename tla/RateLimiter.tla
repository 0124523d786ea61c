---------------------------- MODULE RateLimiter -----------------------------
(***************************************************************************)
(* The rate-limit middleware for one client IP.  Every request sends INCR  *)
(* and EXPIRE for the key of its IP to Redis in one pipeline, which is not *)
(* a transaction: commands of other requests, the expiry of the key and a  *)
(* broken connection can come in between.  The client of redis.go leaves   *)
(* MaxRetries at its default, so a pipeline whose answer does not come is  *)
(* sent again, whatever Redis did or will do of the earlier sending.  Keys *)
(* of different IPs do not interact.  Time is counted in ticks of which    *)
(* the window has Expiry.                                                  *)
(***************************************************************************)
EXTENDS Integers, FiniteSets

CONSTANTS
  Requests,     \* the requests from this IP
  Retries,      \* how often the Redis client sends a pipeline again (3)
  Max,          \* cfg.Max
  Expiry,       \* cfg.Expiry
  MaxErrors,    \* how many times the answer of Redis may fail to come
  MaxTime       \* the clock stops here

ASSUME RateLimiterAssumption ==
  /\ Retries \in Nat /\ Max \in Nat /\ Expiry \in Nat \ {0}
  /\ MaxErrors \in Nat /\ MaxTime \in Nat

\* <<r, k>> is the sending of the pipeline of request r after k others.
Sendings == Requests \X (0 .. Retries)

VARIABLES
  now,
  count,        \* the value of the key, 0 when the key does not exist
  deadline,     \* when the key expires, 0 when it has no time to live
  generation,   \* how many keys have expired (history)
  pipe          \* pipe[s]: what became of sending s, at Redis and in the handler

vars == <<now, count, deadline, generation, pipe>>

\* pc is how far Redis is with the two commands; at and gen are the time and the
\* generation of the INCR, seen its result, done and last the time and the
\* generation of the EXPIRE.  answer is the handler's: "resent" and "passed" are
\* sendings it got an error for, before another one and at last.
Pipeline == [pc: {"new", "sent", "done"}, seen: Nat, at: Nat, gen: Nat,
             done: Nat, last: Nat,
             answer: {"pending", "admitted", "limited", "resent", "passed"}]

TypeOK ==
  /\ now \in Nat /\ count \in Nat /\ deadline \in Nat /\ generation \in Nat
  /\ pipe \in [Sendings -> Pipeline]

Init ==
  /\ now = 0 /\ count = 0 /\ deadline = 0 /\ generation = 0
  /\ pipe = [s \in Sendings |->
               [pc |-> "new", seen |-> 0, at |-> 0, gen |-> 0, done |-> 0,
                last |-> 0, answer |-> "pending"]]

\* The client has begun this sending: the first one, or the one before failed.
Begun(s) == s[2] > 0 => pipe[<<s[1], s[2] - 1>>].answer = "resent"

\* INCR creates the key without a time to live.  Redis runs it also when the
\* client has given the sending up since.
Incr(s) ==
  /\ Begun(s) /\ pipe[s].pc = "new"
  /\ count' = count + 1
  /\ pipe' = [pipe EXCEPT ![s] = [@ EXCEPT !.pc = "sent", !.seen = count + 1,
                                           !.at = now, !.gen = generation]]
  /\ UNCHANGED <<now, deadline, generation>>

\* Faulty variant: only the request that created the key sets its time to live,
\* told by the count when EXPIRE runs.
RefreshOfNewKey == deadline' = IF count = 1 THEN now + Expiry ELSE deadline

\* EXPIRE restarts the time to live, of a rejected request's key too; on a key
\* that is gone it does nothing.
Refresh == deadline' = IF count > 0 THEN now + Expiry ELSE deadline

\* The answer to a handler that still waits for this sending.
Answer(s) ==
  IF pipe[s].answer # "pending" THEN pipe[s].answer
  ELSE IF pipe[s].seen > Max THEN "limited" ELSE "admitted"

\* Faulty variant: the time to live is set when the key is created only, and
\* the window starts before the request.
ExpireOnce(s) ==
  /\ pipe[s].pc = "sent"
  /\ deadline' = IF count > 0 /\ deadline = 0 THEN now + Expiry - 1 ELSE deadline
  /\ pipe' = [pipe EXCEPT ![s] = [@ EXCEPT !.pc = "done", !.done = now,
                                           !.last = generation, !.answer = Answer(s)]]
  /\ UNCHANGED <<now, count, generation>>

Expire(s) ==
  /\ pipe[s].pc = "sent"
  /\ Refresh
  /\ pipe' = [pipe EXCEPT ![s] = [@ EXCEPT !.pc = "done", !.done = now,
                                           !.last = generation, !.answer = Answer(s)]]
  /\ UNCHANGED <<now, count, generation>>

Failed == {s \in Sendings : pipe[s].answer \in {"resent", "passed"}}

\* Redis cannot be reached, the connection breaks or the reply is late, before
\* or after any of the two commands: the client sends the whole pipeline again.
\* When it may not any more, or Redis replied with an error, which the client
\* does not answer with a re-sending, the request is let through.
RedisError(s) ==
  /\ Cardinality(Failed) < MaxErrors
  /\ Begun(s) /\ pipe[s].answer = "pending"
  /\ \E a \in {"resent", "passed"} :
       /\ a = "resent" => s[2] < Retries
       /\ pipe' = [pipe EXCEPT ![s].answer = a]
  /\ UNCHANGED <<now, count, deadline, generation>>

Tick ==
  /\ now < MaxTime /\ now' = now + 1
  /\ IF deadline # 0 /\ deadline <= now + 1
       THEN count' = 0 /\ deadline' = 0 /\ generation' = generation + 1
       ELSE UNCHANGED <<count, deadline, generation>>
  /\ UNCHANGED pipe

Next == Tick \/ \E s \in Sendings : Incr(s) \/ Expire(s) \/ RedisError(s)

Spec == Init /\ [][Next]_vars

-----------------------------------------------------------------------------

Recent(t) == now - t < Expiry

\* The key expired between the INCR and the EXPIRE.
Late(s) == pipe[s].last # pipe[s].gen

\* The sendings that got a request of the last Expiry ticks admitted (one of a
\* request at most), without the late ones.
AdmittedInWindow ==
  {s \in Sendings : /\ pipe[s].answer = "admitted" /\ ~ Late(s)
                    /\ Recent(pipe[s].at)}

\* Whatever the interleaving of the pipelines and their re-sendings, no window
\* of length Expiry has more than Max admitted requests (late ones and Redis
\* errors apart), across the expiry of the key and the start of the next one.
WindowBound == Cardinality(AdmittedInWindow) <= Max

\* The sendings of request r that Redis has counted, up to time t.
Counted(r) == {s \in Sendings : s[1] = r /\ pipe[s].pc # "new"}
CountedBy(r, t) == {s \in Counted(r) : pipe[s].at <= t}

\* Sending q is of another request, and had not run its EXPIRE a window before
\* request r was first counted.
Disturbs(q, r) ==
  /\ q[1] # r /\ pipe[q].pc # "new"
  /\ pipe[q].pc = "sent" \/ \E s \in Counted(r) : pipe[s].at - pipe[q].done < Expiry

\* A request is limited for one of two reasons only: the Redis client's own
\* re-sendings of it were counted more than Max times, or the IP was not quiet:
\* another request, counted before it, ran its EXPIRE less than Expiry ticks
\* before this one was first counted, or later, or had not (or never) run it.
QuietClientIsAdmitted ==
  \A s \in Sendings : pipe[s].answer = "limited" =>
    \/ Cardinality(CountedBy(s[1], pipe[s].at)) > Max
    \/ \E q \in Sendings : Disturbs(q, s[1]) /\ pipe[q].at <= pipe[s].at

\* What keeps the keys of successive generations apart: the sendings counted
\* in the current one have distinct results up to count, the older ones that
\* ran their EXPIRE in time have left the window.
KeyInv ==
  /\ count = 0 => deadline = 0
  /\ deadline # 0 => now < deadline

SendingInv(s) ==
  /\ pipe[s].answer \in {"admitted", "limited"} => pipe[s].pc = "done" /\ pipe[s].seen > 0
  /\ pipe[s].answer = "admitted" => pipe[s].seen <= Max
  /\ pipe[s].pc = "new" <=> pipe[s].seen = 0
  /\ pipe[s].seen > 0 => pipe[s].gen <= generation /\ pipe[s].at <= now
  /\ pipe[s].seen > 0 /\ pipe[s].gen = generation => pipe[s].seen <= count
  /\ pipe[s].answer = "admitted" /\ ~ Late(s) =>
       IF pipe[s].gen = generation THEN deadline >= pipe[s].at + Expiry
                                   ELSE now >= pipe[s].at + Expiry

CountsDistinct ==
  \A s, q \in Sendings :
    s # q /\ pipe[s].seen > 0 /\ pipe[s].seen = pipe[q].seen => pipe[s].gen # pipe[q].gen

RateInv == KeyInv /\ (\A s \in Sendings : SendingInv(s)) /\ CountsDistinct
=============================================================================
