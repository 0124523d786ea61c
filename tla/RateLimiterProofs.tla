-------------------------- MODULE RateLimiterProofs -------------------------
(* The rate limiter, for any number of requests and retries, limit and window. *)
EXTENDS RateLimiter, FiniteSetTheorems, TLAPS

USE RateLimiterAssumption

\* What every step but the clock's does to the requests other than its own.
LEMMA TypeStep == TypeOK /\ [Next]_vars => TypeOK'
<1> SUFFICES ASSUME TypeOK, [Next]_vars PROVE TypeOK'
  OBVIOUS
<1> USE DEF TypeOK, Pipeline
<1>1. ASSUME NEW s \in Sendings, Incr(s) PROVE TypeOK'
  <2>1. [pipe[s] EXCEPT !.pc = "sent", !.seen = count + 1, !.at = now, !.gen = generation]
          \in Pipeline
    <3>1. pipe[s] \in Pipeline /\ count + 1 \in Nat
      BY DEF TypeOK
    <3>2. QED BY <3>1
  <2>2. QED BY <1>1, <2>1 DEF Incr
<1>2. ASSUME NEW s \in Sendings, Expire(s) PROVE TypeOK'
  <2>1. Answer(s) \in {"pending", "admitted", "limited", "resent", "passed"}
    BY DEF Answer
  <2>2. [pipe[s] EXCEPT !.pc = "done", !.done = now, !.last = generation,
                        !.answer = Answer(s)] \in Pipeline
    BY <2>1
  <2>3. pipe' \in [Sendings -> Pipeline]
    BY <1>2, <2>2 DEF Expire
  <2>4. QED BY <1>2, <2>3 DEF Expire, Answer, Refresh
<1>3. ASSUME NEW s \in Sendings, RedisError(s) PROVE TypeOK'
  <2>1. PICK a \in {"resent", "passed"} : pipe' = [pipe EXCEPT ![s].answer = a]
    BY <1>3 DEF RedisError
  <2>2. [pipe[s] EXCEPT !.answer = a] \in Pipeline
    OBVIOUS
  <2>3. QED BY <1>3, <2>1, <2>2 DEF RedisError
<1>4. CASE Tick
  BY <1>4 DEF Tick
<1>5. CASE UNCHANGED vars
  BY <1>5 DEF vars
<1>6. QED BY <1>1, <1>2, <1>3, <1>4, <1>5 DEF Next

\* Every reachable state is well typed.
THEOREM TypeCorrect == Spec => []TypeOK
<1>1. Init => TypeOK
  BY DEF Init, TypeOK, Pipeline
<1>2. QED BY <1>1, TypeStep, PTL DEF Spec

LEMMA KeyStep == TypeOK /\ KeyInv /\ [Next]_vars => KeyInv'
<1> SUFFICES ASSUME TypeOK, KeyInv, [Next]_vars PROVE KeyInv'
  OBVIOUS
<1> USE DEF TypeOK, KeyInv
<1>1. ASSUME NEW s \in Sendings, Incr(s) PROVE KeyInv'
  BY <1>1 DEF Incr
<1>2. ASSUME NEW s \in Sendings, Expire(s) PROVE KeyInv'
  BY <1>2 DEF Expire, Answer, Refresh
<1>3. ASSUME NEW s \in Sendings, RedisError(s) PROVE KeyInv'
  BY <1>3 DEF RedisError
<1>4. CASE Tick
  BY <1>4 DEF Tick
<1>5. CASE UNCHANGED vars
  BY <1>5 DEF vars
<1>6. QED BY <1>1, <1>2, <1>3, <1>4, <1>5 DEF Next

\* The deadline of a key only moves back in time when the key expires, and
\* then everything admitted under it has left the window.
LEMMA SendingStep ==
  ASSUME TypeOK, KeyInv, NEW q \in Sendings, SendingInv(q), [Next]_vars
  PROVE  SendingInv(q)'
<1> USE DEF TypeOK, Pipeline, KeyInv, SendingInv, Late
<1>1. ASSUME NEW s \in Sendings, Incr(s) PROVE SendingInv(q)'
  <2>1. CASE q = s
    BY <1>1, <2>1 DEF Incr
  <2>2. CASE q # s
    <3>1. pipe'[q] = pipe[q] /\ count' = count + 1
      BY <1>1, <2>2 DEF Incr
    <3>2. QED BY <1>1, <3>1 DEF Incr
  <2>3. QED BY <2>1, <2>2
<1>2. ASSUME NEW s \in Sendings, Expire(s) PROVE SendingInv(q)'
  <2>1. count = 0 \/ deadline' = now + Expiry
    BY <1>2 DEF Expire, Answer, Refresh
  <2>2. count > 0 => deadline' >= deadline \/ deadline' = now + Expiry
    BY <2>1
  <2>3. CASE q = s
    BY <1>2, <2>1, <2>3 DEF Expire, Refresh, Answer
  <2>4. CASE q # s
    <3>1. pipe'[q] = pipe[q]
      BY <1>2, <2>4 DEF Expire, Answer
    <3>2. QED BY <1>2, <2>1, <3>1 DEF Expire, Answer, Refresh
  <2>5. QED BY <2>3, <2>4
<1>3. ASSUME NEW s \in Sendings, RedisError(s) PROVE SendingInv(q)'
  <2>1. PICK a \in {"resent", "passed"} : pipe' = [pipe EXCEPT ![s].answer = a]
    BY <1>3 DEF RedisError
  <2>2. CASE q = s
    BY <1>3, <2>1, <2>2 DEF RedisError
  <2>3. CASE q # s
    <3>1. pipe'[q] = pipe[q]
      BY <2>1, <2>3
    <3>2. QED BY <1>3, <3>1 DEF RedisError
  <2>4. QED BY <2>2, <2>3
<1>4. CASE Tick
  BY <1>4 DEF Tick
<1>5. CASE UNCHANGED vars
  BY <1>5 DEF vars
<1>6. QED BY <1>1, <1>2, <1>3, <1>4, <1>5 DEF Next

\* INCR hands out each value of a key once.
LEMMA CountsStep ==
  ASSUME TypeOK, RateInv, [Next]_vars
  PROVE  CountsDistinct'
<1> USE DEF TypeOK, Pipeline
<1>1. ASSUME NEW s \in Sendings, Incr(s) PROVE CountsDistinct'
  <2>1. \A q \in Sendings \ {s} :
          pipe'[q] = pipe[q] /\ (pipe[q].seen > 0 /\ pipe[q].gen = generation => pipe[q].seen <= count)
    BY <1>1 DEF Incr, RateInv, SendingInv
  <2>2. pipe'[s].seen = count + 1 /\ pipe'[s].gen = generation
    BY <1>1 DEF Incr
  <2>3. QED BY <2>1, <2>2 DEF RateInv, CountsDistinct
<1>2. ASSUME NEW s \in Sendings, Expire(s) \/ RedisError(s) PROVE CountsDistinct'
  <2>1. \A q \in Sendings : pipe'[q].seen = pipe[q].seen /\ pipe'[q].gen = pipe[q].gen
    <3>1. CASE Expire(s)
      BY <3>1 DEF Expire
    <3>2. CASE RedisError(s)
      BY <3>2 DEF RedisError
    <3> QED BY <1>2, <3>1, <3>2
  <2>2. QED BY <2>1 DEF RateInv, CountsDistinct
<1>3. CASE Tick \/ UNCHANGED vars
  BY <1>3 DEF Tick, vars, RateInv, CountsDistinct
<1>4. QED BY <1>1, <1>2, <1>3 DEF Next

\* The inductive invariant of the limiter.
THEOREM RateCorrect == Spec => []RateInv
<1>1. Init => RateInv
  BY DEF Init, RateInv, KeyInv, SendingInv, CountsDistinct, Late
<1>2. TypeOK /\ RateInv /\ [Next]_vars => RateInv'
  <2> SUFFICES ASSUME TypeOK, RateInv, [Next]_vars PROVE RateInv'
    OBVIOUS
  <2>1. KeyInv'
    BY KeyStep DEF RateInv
  <2>2. \A q \in Sendings : SendingInv(q)'
    BY SendingStep DEF RateInv
  <2>3. QED BY <2>1, <2>2, CountsStep DEF RateInv
<1>3. QED BY <1>1, <1>2, TypeCorrect, PTL DEF Spec

\* Sendings admitted within one window got distinct values up to Max of one
\* and the same key, so there are at most Max of them.
LEMMA WindowFromInv == TypeOK /\ RateInv => WindowBound
<1> SUFFICES ASSUME TypeOK, RateInv PROVE WindowBound
  OBVIOUS
<1> DEFINE A == AdmittedInWindow
           seenOf == [s \in A |-> pipe[s].seen]
<1>1. \A s \in A : pipe[s].gen = generation /\ pipe[s].seen \in 1 .. Max
  BY DEF TypeOK, Pipeline, RateInv, SendingInv, AdmittedInWindow, Recent, Late
<1>2. seenOf \in Injection(A, 1 .. Max)
  <2>1. seenOf \in [A -> 1 .. Max]
    BY <1>1
  <2>2. ASSUME NEW s \in A, NEW q \in A, seenOf[s] = seenOf[q] PROVE s = q
    <3>1. s \in Sendings /\ q \in Sendings
      BY DEF AdmittedInWindow
    <3>2. pipe[s].seen = pipe[q].seen
      BY <2>2
    <3>3. pipe[s].gen = pipe[q].gen /\ pipe[s].seen > 0
      BY <1>1
    <3>4. QED BY <3>1, <3>2, <3>3 DEF RateInv, CountsDistinct
  <2>3. QED BY <2>1, <2>2 DEF Injection, IsInjective
<1>3. IsFiniteSet(1 .. Max) /\ Cardinality(1 .. Max) = Max
  BY FS_Interval
<1>4. Cardinality(A) <= Cardinality(1 .. Max)
  BY <1>2, <1>3, FS_Injection
<1>5. QED BY <1>3, <1>4 DEF WindowBound

\* No window of the limiter's length admits more than Max requests, whatever
\* the interleaving of the pipelines and the expiry of the keys.
THEOREM AtMostMaxPerWindow == Spec => []WindowBound
BY TypeCorrect, RateCorrect, WindowFromInv, PTL

-----------------------------------------------------------------------------
(* Who is limited                                                          *)

\* A key with a time to live owes it to a sending whose EXPIRE set it, one
\* without to a sending that did INCR and not EXPIRE.
KeyOwed ==
  /\ deadline # 0 => \E q \in Sendings :
       pipe[q].pc = "done" /\ pipe[q].at <= now /\ pipe[q].done + Expiry = deadline
  /\ count > 0 /\ deadline = 0 => \E q \in Sendings :
       pipe[q].pc = "sent" /\ pipe[q].at <= now

\* No INCR is in the future, and only a count above the limit limits.
Answered ==
  \A s \in Sendings : /\ pipe[s].at <= now
                      /\ pipe[s].answer = "limited" => pipe[s].seen > Max

\* The key holds no more than the request's own sendings, but for others that
\* disturbed it.
OwnKey ==
  \A r \in Requests : Counted(r) # {} =>
    (\E q \in Sendings : Disturbs(q, r)) \/ count <= Cardinality(Counted(r))

\* So it was when a sending of the request was counted.
Excused(s) ==
  \/ \E q \in Sendings : Disturbs(q, s[1]) /\ pipe[q].at <= pipe[s].at
  \/ pipe[s].seen <= Cardinality(CountedBy(s[1], pipe[s].at))

\* The inductive invariant.
QuietInv ==
  /\ KeyOwed /\ Answered /\ OwnKey
  /\ \A s \in Sendings : pipe[s].pc # "new" => Excused(s)

\* What a step leaves of a sending that was counted.
LEMMA CountedKept ==
  ASSUME TypeOK, [Next]_vars, NEW q \in Sendings, pipe[q].pc # "new"
  PROVE  /\ pipe'[q].pc # "new" /\ pipe'[q].at = pipe[q].at /\ pipe'[q].seen = pipe[q].seen
         /\ \/ pipe'[q].pc = pipe[q].pc /\ pipe'[q].done = pipe[q].done
            \/ pipe[q].pc = "sent" /\ pipe'[q].done = now
<1> USE DEF TypeOK, Pipeline
<1>1. ASSUME NEW s \in Sendings, Incr(s) PROVE pipe'[q] = pipe[q]
  BY <1>1 DEF Incr
<1>2. ASSUME NEW s \in Sendings, Expire(s)
      PROVE  /\ pipe'[q].pc # "new" /\ pipe'[q].at = pipe[q].at /\ pipe'[q].seen = pipe[q].seen
             /\ \/ pipe'[q].pc = pipe[q].pc /\ pipe'[q].done = pipe[q].done
                \/ pipe[q].pc = "sent" /\ pipe'[q].done = now
  <2>1. CASE q = s
    BY <1>2, <2>1 DEF Expire
  <2>2. CASE q # s
    BY <1>2, <2>2 DEF Expire
  <2> QED BY <2>1, <2>2
<1>3. ASSUME NEW s \in Sendings, RedisError(s)
      PROVE  /\ pipe'[q].pc = pipe[q].pc /\ pipe'[q].at = pipe[q].at
             /\ pipe'[q].seen = pipe[q].seen /\ pipe'[q].done = pipe[q].done
  BY <1>3 DEF RedisError
<1>4. CASE Tick \/ UNCHANGED vars
  BY <1>4 DEF Tick, vars
<1> QED BY <1>1, <1>2, <1>3, <1>4 DEF Next

\* What only INCR does.
LEMMA NotCounted ==
  ASSUME TypeOK, [Next]_vars, NEW q \in Sendings, pipe[q].pc = "new", ~ Incr(q)
  PROVE  pipe'[q].pc = "new" /\ pipe'[q].at = pipe[q].at /\ pipe'[q].seen = pipe[q].seen
<1> USE DEF TypeOK, Pipeline
<1>1. ASSUME NEW s \in Sendings, s # q, Incr(s) PROVE pipe'[q] = pipe[q]
  BY <1>1 DEF Incr
<1>2. ASSUME NEW s \in Sendings, Expire(s) PROVE pipe'[q] = pipe[q]
  BY <1>2 DEF Expire
<1>3. ASSUME NEW s \in Sendings, RedisError(s)
      PROVE  pipe'[q].pc = "new" /\ pipe'[q].at = pipe[q].at /\ pipe'[q].seen = pipe[q].seen
  BY <1>3 DEF RedisError
<1>4. CASE Tick \/ UNCHANGED vars
  BY <1>4 DEF Tick, vars
<1> QED BY <1>1, <1>2, <1>3, <1>4 DEF Next

\* A request has at most Retries + 1 sendings.
LEMMA CountedFinite ==
  ASSUME NEW r \in Requests
  PROVE  /\ IsFiniteSet(Counted(r)) /\ \A t : IsFiniteSet(CountedBy(r, t))
         /\ IsFiniteSet(Counted(r)')
<1> DEFINE Own == {s \in Sendings : s[1] = r}
           number == [s \in Own |-> s[2]]
<1>1. number \in Injection(Own, 0 .. Retries)
  <2>1. number \in [Own -> 0 .. Retries]
    BY DEF Sendings
  <2>2. ASSUME NEW s \in Own, NEW q \in Own, number[s] = number[q] PROVE s = q
    BY <2>2 DEF Sendings
  <2> QED BY <2>1, <2>2 DEF Injection, IsInjective
<1>2. IsFiniteSet(Own)
  BY <1>1, FS_Interval, FS_Injection
<1>3. /\ Counted(r) \subseteq Own /\ Counted(r)' \subseteq Own
      /\ \A t : CountedBy(r, t) \subseteq Own
  BY DEF Counted, CountedBy
<1> QED BY <1>2, <1>3, FS_Subset

\* Who disturbed a request that was counted goes on doing so, whatever it does
\* next: if it runs its EXPIRE now, that is no window before the request.
LEMMA DisturbsStep ==
  ASSUME TypeOK, Answered, [Next]_vars, NEW q \in Sendings, NEW r \in Requests,
         Counted(r) # {}, Disturbs(q, r)
  PROVE  Disturbs(q, r)' /\ pipe'[q].at = pipe[q].at
<1>1. \A s \in Sendings : pipe[s] \in Pipeline
  BY DEF TypeOK
<1>2. /\ q[1] # r /\ pipe[q].pc # "new"
      /\ pipe[q].pc = "sent" \/ \E s \in Counted(r) : pipe[s].at - pipe[q].done < Expiry
  BY DEF Disturbs
<1>3. \A s \in Counted(r) : s \in Counted(r)' /\ pipe'[s].at = pipe[s].at /\ s \in Sendings
  BY CountedKept DEF Counted
<1>4. /\ pipe'[q].pc # "new" /\ pipe'[q].at = pipe[q].at
      /\ \/ pipe'[q].pc = pipe[q].pc /\ pipe'[q].done = pipe[q].done
         \/ pipe[q].pc = "sent" /\ pipe'[q].done = now
  BY <1>2, CountedKept
<1>5. pipe'[q].pc = "sent" \/ \E s \in Counted(r)' : pipe'[s].at - pipe'[q].done < Expiry
  <2>1. CASE pipe'[q].pc = pipe[q].pc /\ pipe'[q].done = pipe[q].done
    BY <1>2, <1>3, <2>1
  <2>2. CASE pipe[q].pc = "sent" /\ pipe'[q].done = now
    <3>1. PICK s \in Counted(r) : s \in Sendings
      BY <1>3
    <3>2. pipe[s].at <= now /\ pipe[s].at \in Nat /\ now \in Nat
      BY <1>1, <3>1 DEF Answered, TypeOK, Pipeline
    <3>3. pipe'[s].at - pipe'[q].done < Expiry
      BY <1>3, <2>2, <3>1, <3>2
    <3> QED BY <1>3, <3>1, <3>3
  <2> QED BY <1>4, <2>1, <2>2
<1> QED BY <1>2, <1>4, <1>5 DEF Disturbs

\* The sending that an INCR on an existing key finds before it.
LEMMA FoundAwake ==
  ASSUME TypeOK, KeyInv, KeyOwed, count > 0
  PROVE  \E q \in Sendings : /\ pipe[q].pc # "new" /\ pipe[q].at <= now
                             /\ pipe[q].pc = "sent" \/ now - pipe[q].done < Expiry
<1> USE DEF TypeOK, Pipeline, KeyInv, KeyOwed
<1>1. CASE deadline = 0
  BY <1>1
<1>2. CASE deadline # 0
  <2>1. PICK q \in Sendings :
          pipe[q].pc = "done" /\ pipe[q].at <= now /\ pipe[q].done + Expiry = deadline
    BY <1>2
  <2>2. now < deadline
    BY <1>2
  <2>3. QED BY <2>1, <2>2
<1>3. QED BY <1>1, <1>2

LEMMA OwedStep ==
  ASSUME TypeOK, KeyInv, KeyOwed, Answered, [Next]_vars
  PROVE  KeyOwed'
<1> USE DEF TypeOK, Pipeline, KeyInv, KeyOwed
<1>1. ASSUME NEW s \in Sendings, Incr(s) PROVE KeyOwed'
  <2>1. /\ pipe'[s].pc = "sent" /\ pipe'[s].at = now /\ now' = now /\ deadline' = deadline
        /\ \A q \in Sendings \ {s} : pipe'[q] = pipe[q]
    BY <1>1 DEF Incr
  <2>2. pipe[s].pc = "new"
    BY <1>1 DEF Incr
  <2>3. CASE deadline # 0
    <3>1. PICK q \in Sendings :
            pipe[q].pc = "done" /\ pipe[q].at <= now /\ pipe[q].done + Expiry = deadline
      BY <2>3
    <3>2. pipe'[q] = pipe[q]
      BY <2>1, <2>2, <3>1
    <3>3. QED BY <2>1, <2>3, <3>1, <3>2
  <2>4. CASE deadline = 0
    BY <2>1, <2>4
  <2>5. QED BY <2>3, <2>4
<1>2. ASSUME NEW s \in Sendings, Expire(s) PROVE KeyOwed'
  <2>1. /\ pipe'[s].pc = "done" /\ pipe'[s].done = now /\ pipe'[s].at = pipe[s].at /\ now' = now
        /\ count' = count /\ pipe[s].pc = "sent"
        /\ \A q \in Sendings \ {s} : pipe'[q] = pipe[q]
    BY <1>2 DEF Expire
  <2>2. CASE count > 0
    <3>1. deadline' = now + Expiry /\ deadline' # 0
      BY <1>2, <2>2 DEF Expire, Refresh
    <3>2. pipe[s].at <= now
      BY DEF Answered
    <3>3. QED BY <2>1, <3>1, <3>2
  <2>3. CASE ~ (count > 0)
    BY <1>2, <2>1, <2>3 DEF Expire, Refresh
  <2>4. QED BY <2>2, <2>3
<1>3. ASSUME NEW s \in Sendings, RedisError(s) PROVE KeyOwed'
  <2>1. /\ \A q \in Sendings : /\ pipe'[q].pc = pipe[q].pc /\ pipe'[q].at = pipe[q].at
                               /\ pipe'[q].done = pipe[q].done
        /\ now' = now /\ count' = count /\ deadline' = deadline
    BY <1>3 DEF RedisError
  <2>2. QED BY <2>1
<1>4. CASE Tick
  BY <1>4 DEF Tick
<1>5. CASE UNCHANGED vars
  BY <1>5 DEF vars
<1>6. QED BY <1>1, <1>2, <1>3, <1>4, <1>5 DEF Next

LEMMA AnsweredStep == TypeOK /\ RateInv /\ Answered /\ [Next]_vars => Answered'
<1> SUFFICES ASSUME TypeOK, RateInv, Answered, [Next]_vars, NEW q \in Sendings
             PROVE  /\ pipe'[q].at <= now'
                    /\ pipe'[q].answer = "limited" => pipe'[q].seen > Max
  BY DEF Answered
<1> USE DEF TypeOK, Pipeline
<1>0. /\ pipe[q].at <= now /\ (pipe[q].answer = "limited" => pipe[q].seen > Max)
      /\ pipe[q].pc = "new" => pipe[q].answer # "limited"
  BY DEF Answered, RateInv, SendingInv
<1>1. ASSUME NEW s \in Sendings, Incr(s)
      PROVE  /\ pipe'[q].at <= now' /\ (pipe'[q].answer = "limited" => pipe'[q].seen > Max)
  <2>1. CASE q = s
    BY <1>0, <1>1, <2>1 DEF Incr
  <2>2. CASE q # s
    BY <1>0, <1>1, <2>2 DEF Incr
  <2> QED BY <2>1, <2>2
<1>2. ASSUME NEW s \in Sendings, Expire(s)
      PROVE  /\ pipe'[q].at <= now' /\ (pipe'[q].answer = "limited" => pipe'[q].seen > Max)
  <2>1. CASE q = s
    BY <1>0, <1>2, <2>1 DEF Expire, Answer
  <2>2. CASE q # s
    BY <1>0, <1>2, <2>2 DEF Expire
  <2> QED BY <2>1, <2>2
<1>3. ASSUME NEW s \in Sendings, RedisError(s)
      PROVE  /\ pipe'[q].at <= now' /\ (pipe'[q].answer = "limited" => pipe'[q].seen > Max)
  BY <1>0, <1>3 DEF RedisError
<1>4. CASE Tick \/ UNCHANGED vars
  BY <1>0, <1>4 DEF Tick, vars
<1> QED BY <1>1, <1>2, <1>3, <1>4 DEF Next

\* The first sending of a request finds no key, or one that others keep; every
\* other one adds one to the key and one to the sendings counted.
LEMMA OwnStep ==
  ASSUME TypeOK, RateInv, KeyOwed, Answered, OwnKey, [Next]_vars
  PROVE  OwnKey'
<1> SUFFICES ASSUME NEW r \in Requests, Counted(r)' # {}
             PROVE  (\E q \in Sendings : Disturbs(q, r)') \/ count' <= Cardinality(Counted(r)')
  BY DEF OwnKey
<1>0. /\ \A s \in Sendings : pipe[s] \in Pipeline
      /\ pipe \in [Sendings -> Pipeline] /\ count \in Nat /\ now \in Nat
  BY DEF TypeOK
<1>1. CASE Counted(r) # {} /\ \E q \in Sendings : Disturbs(q, r)
  BY <1>1, DisturbsStep
<1>2. CASE \A s \in Sendings : ~ Incr(s)
  <2>1. Counted(r)' = Counted(r)
    BY <1>2, CountedKept, NotCounted DEF Counted
  <2>2. count' = count \/ count' = 0
    <3>1. ASSUME NEW s \in Sendings, Expire(s) \/ RedisError(s) PROVE count' = count
      BY <3>1 DEF Expire, RedisError
    <3>2. CASE Tick \/ UNCHANGED vars
      BY <3>2 DEF Tick, vars
    <3> QED BY <1>2, <3>1, <3>2 DEF Next
  <2>3. Cardinality(Counted(r)) \in Nat
    BY CountedFinite, FS_CardinalityType
  <2> QED BY <1>0, <1>1, <2>1, <2>2, <2>3 DEF OwnKey
<1>3. ASSUME NEW s \in Sendings, Incr(s), s[1] # r
      PROVE  \E q \in Sendings : Disturbs(q, r)'
  <2>1. pipe'[s].pc = "sent"
    BY <1>0, <1>3 DEF Incr
  <2> QED BY <1>3, <2>1 DEF Disturbs
<1>4. ASSUME NEW s \in Sendings, Incr(s), s[1] = r, ~ (Counted(r) # {} /\ \E q \in Sendings : Disturbs(q, r))
      PROVE  (\E q \in Sendings : Disturbs(q, r)') \/ count' <= Cardinality(Counted(r)')
  <2>1. /\ pipe'[s].pc = "sent" /\ pipe'[s].at = now /\ count' = count + 1 /\ pipe[s].pc = "new"
        /\ \A q \in Sendings \ {s} : pipe'[q] = pipe[q]
    BY <1>0, <1>4 DEF Incr
  <2>2. Counted(r)' = Counted(r) \cup {s} /\ s \notin Counted(r)
    BY <1>4, <2>1 DEF Counted
  <2>3. /\ Cardinality(Counted(r)') = Cardinality(Counted(r)) + 1
        /\ Cardinality(Counted(r)) \in Nat
    BY <2>2, CountedFinite, FS_AddElement, FS_CardinalityType
  <2>4. CASE Counted(r) # {}
    <3>1. count <= Cardinality(Counted(r))
      BY <1>4, <2>4 DEF OwnKey
    <3> QED BY <1>0, <2>1, <2>3, <3>1
  <2>5. CASE Counted(r) = {} /\ count > 0
    <3>1. PICK q \in Sendings : /\ pipe[q].pc # "new"
                                /\ pipe[q].pc = "sent" \/ now - pipe[q].done < Expiry
      BY <2>5, FoundAwake DEF RateInv
    <3>2. q[1] # r /\ q # s /\ pipe'[q] = pipe[q]
      BY <1>4, <2>1, <2>5, <3>1 DEF Counted
    <3>3. s \in Counted(r)'
      BY <2>2
    <3> QED BY <2>1, <3>1, <3>2, <3>3 DEF Disturbs
  <2>6. CASE count = 0
    BY <2>1, <2>3, <2>6
  <2> QED BY <1>0, <2>4, <2>5, <2>6
<1> QED BY <1>1, <1>2, <1>3, <1>4

LEMMA ExcusedStep ==
  ASSUME TypeOK, RateInv, QuietInv, OwnKey', Answered', [Next]_vars,
         NEW s \in Sendings, pipe'[s].pc # "new"
  PROVE  Excused(s)'
<1> DEFINE r == s[1]
<1>0. /\ r \in Requests /\ pipe[s] \in Pipeline /\ TypeOK'
  BY TypeStep DEF TypeOK, Sendings
<1>1. CASE pipe[s].pc # "new"
  <2>1. pipe'[s].at = pipe[s].at /\ pipe'[s].seen = pipe[s].seen /\ s \in Counted(r)
    BY <1>1, CountedKept DEF Counted
  <2>2. CASE \E q \in Sendings : Disturbs(q, r) /\ pipe[q].at <= pipe[s].at
    <3>1. PICK q \in Sendings : Disturbs(q, r) /\ pipe[q].at <= pipe[s].at
      BY <2>2
    <3>2. Disturbs(q, r)' /\ pipe'[q].at = pipe[q].at
      BY <1>0, <2>1, <3>1, DisturbsStep DEF QuietInv
    <3> QED BY <2>1, <3>1, <3>2 DEF Excused
  <2>3. CASE pipe[s].seen <= Cardinality(CountedBy(r, pipe[s].at))
    <3>1. PICK t \in Nat : t = pipe[s].at
      BY <1>0 DEF Pipeline
    <3>2. CountedBy(r, t) \subseteq CountedBy(r, t)'
      BY CountedKept DEF CountedBy, Counted
    <3>3. IsFiniteSet(CountedBy(r, t)')
      <4>1. CountedBy(r, t)' \subseteq Counted(r)'
        BY DEF CountedBy
      <4> QED BY <1>0, <4>1, CountedFinite, FS_Subset
    <3>4. /\ Cardinality(CountedBy(r, t)) <= Cardinality(CountedBy(r, t)')
          /\ Cardinality(CountedBy(r, t)) \in Nat /\ Cardinality(CountedBy(r, t)') \in Nat
      BY <1>0, <3>2, <3>3, CountedFinite, FS_Subset, FS_CardinalityType
    <3>5. pipe[s].seen <= Cardinality(CountedBy(r, t)')
      BY <1>0, <2>3, <3>1, <3>4 DEF Pipeline
    <3>6. CountedBy(r, t)' = CountedBy(r, pipe[s].at)'
      BY <2>1, <3>1 DEF CountedBy
    <3> QED BY <2>1, <3>5, <3>6 DEF Excused
  <2> QED BY <1>1, <2>2, <2>3 DEF QuietInv, Excused
<1>2. CASE pipe[s].pc = "new"
  <2>1. Incr(s)
    BY <1>2, NotCounted
  <2>2. pipe'[s].at = now' /\ pipe'[s].seen = count' /\ s \in Counted(r)'
    BY <1>0, <2>1 DEF Incr, TypeOK, Counted
  <2>3. CountedBy(r, pipe[s].at)' = Counted(r)'
    BY <2>2 DEF CountedBy, Counted, Answered
  <2>4. (\E q \in Sendings : Disturbs(q, r)') \/ count' <= Cardinality(Counted(r)')
    BY <1>0, <2>2 DEF OwnKey
  <2>5. ASSUME NEW q \in Sendings, Disturbs(q, r)' PROVE Excused(s)'
    <3>1. pipe'[q].at <= pipe'[s].at
      BY <2>2 DEF Answered
    <3> QED BY <2>5, <3>1 DEF Excused
  <2>6. CASE count' <= Cardinality(Counted(r)')
    BY <2>2, <2>3, <2>6 DEF Excused
  <2> QED BY <2>4, <2>5, <2>6
<1> QED BY <1>1, <1>2

LEMMA QuietStep == TypeOK /\ RateInv /\ QuietInv /\ [Next]_vars => QuietInv'
<1> SUFFICES ASSUME TypeOK, RateInv, QuietInv, [Next]_vars PROVE QuietInv'
  OBVIOUS
<1>1. KeyOwed'
  BY OwedStep DEF RateInv, QuietInv
<1>2. Answered'
  BY AnsweredStep DEF QuietInv
<1>3. OwnKey'
  BY OwnStep DEF QuietInv
<1>4. \A s \in Sendings : pipe'[s].pc # "new" => Excused(s)'
  BY <1>2, <1>3, ExcusedStep
<1> QED BY <1>1, <1>2, <1>3, <1>4 DEF QuietInv

\* Only a client that was not quiet is limited, or a request that the Redis
\* client itself had counted more than Max times: a limited request saw a count
\* above Max, its own sendings are in it, and any other needs a request to which
\* the key owes its life.
THEOREM QuietAreAdmitted == Spec => []QuietClientIsAdmitted
<1>1. Init => QuietInv
  <2> SUFFICES ASSUME Init PROVE QuietInv
    OBVIOUS
  <2>1. \A s \in Sendings : /\ pipe[s].pc = "new" /\ pipe[s].at = 0
                            /\ pipe[s].answer = "pending"
    BY DEF Init
  <2> QED BY <2>1 DEF Init, QuietInv, KeyOwed, Answered, OwnKey, Counted
<1>2. TypeOK /\ RateInv /\ QuietInv => QuietClientIsAdmitted
  <2> SUFFICES ASSUME TypeOK, RateInv, QuietInv, NEW s \in Sendings, pipe[s].answer = "limited"
               PROVE  \/ Cardinality(CountedBy(s[1], pipe[s].at)) > Max
                      \/ \E q \in Sendings : Disturbs(q, s[1]) /\ pipe[q].at <= pipe[s].at
    BY DEF QuietClientIsAdmitted
  <2>1. pipe[s].seen > Max /\ pipe[s].seen \in Nat /\ pipe[s].pc # "new"
    BY DEF QuietInv, Answered, TypeOK, Pipeline, RateInv, SendingInv
  <2>2. Cardinality(CountedBy(s[1], pipe[s].at)) \in Nat
    BY CountedFinite, FS_CardinalityType DEF Sendings
  <2> QED BY <2>1, <2>2 DEF QuietInv, Excused
<1>3. QED BY <1>1, <1>2, QuietStep, TypeCorrect, RateCorrect, PTL DEF Spec

=============================================================================
