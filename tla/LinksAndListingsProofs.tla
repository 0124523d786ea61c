----------------------- MODULE LinksAndListingsProofs -----------------------
(***************************************************************************)
(* That a share link's count stays within its limit, and counts the        *)
(* downloads that did not overlap, for every number of links and of calls  *)
(* and for all limits; and what a client that follows the pages of a       *)
(* listing misses or meets twice, for every table and all page sizes.      *)
(* The two have no state in common.                                        *)
(***************************************************************************)
EXTENDS ShareLinks, Listings, FiniteSetTheorems, TLAPS

\* A download that has yet to write the count has read one below the limit of
\* its link, and that limit is there to stay.
ReadBelowLimit ==
  \A c \in Calls : call[c].pc \in {"file", "fetch", "count"} =>
    /\ link[call[c].token].state = "live"
    /\ link[call[c].token].max # NoLimit => call[c].uses < link[call[c].token].max

LimitInv == TypeOK /\ LimitKept /\ ReadBelowLimit

-----------------------------------------------------------------------------

LEMMA InitLimit == Init => LimitInv
<1> SUFFICES ASSUME Init PROVE LimitInv
  OBVIOUS
<1> DEFINE idle(l) == [op |-> "none", pc |-> "idle", kind |-> "file", token |-> l, uses |-> 0,
                       counted |-> FALSE, after |-> {}, reply |-> "pending"]
<1>1. PICK l \in Links : call = [c \in Calls |-> idle(l)]
  BY DEF Init
<1>2. idle(l) \in Call
  BY DEF Call, Steps, Kinds
<1>3. NoLink \in Link
  BY DEF NoLink, Link, Kinds
<1>4. TypeOK
  <2>1. link \in [Links -> Link] /\ call \in [Calls -> Call]
    BY <1>1, <1>2, <1>3 DEF Init
  <2>2. file \in File /\ object \in BOOLEAN
    <3>1. \/ file = [state |-> "ready", downloads |-> 0] /\ object = TRUE
          \/ file = [state |-> "processing", downloads |-> 0] /\ object = FALSE
      BY DEF Init
    <3>2. /\ [state |-> "ready", downloads |-> 0] \in File
          /\ [state |-> "processing", downloads |-> 0] \in File
      BY DEF File
    <3>3. file \in File
      BY <3>1, <3>2
    <3>4. object \in BOOLEAN
      BY <3>1
    <3> QED  BY <3>3, <3>4
  <2> QED  BY <2>1, <2>2 DEF TypeOK
<1>5. LimitKept
  BY DEF Init, LimitKept, NoLink
<1>6. ReadBelowLimit
  BY <1>1 DEF ReadBelowLimit
<1> QED  BY <1>4, <1>5, <1>6 DEF LimitInv

\* Calls that go on without writing the count keep the invariant.
LEMMA QuietStep ==
  ASSUME LimitInv, NEW c \in Calls, UNCHANGED link, call' \in [Calls -> Call],
         file' \in File, object' \in BOOLEAN,
         \A d \in Calls \ {c} : call'[d] = call[d],
         call'[c].token = call[c].token, call'[c].uses = call[c].uses,
         call'[c].pc \in {"fetch", "count"} => call[c].pc \in {"file", "fetch"},
         call'[c].pc # "file"
  PROVE  LimitInv'
<1>1. TypeOK'
  BY DEF LimitInv, TypeOK
<1>2. LimitKept'
  BY DEF LimitInv, LimitKept
<1>3. ReadBelowLimit'
  <2> SUFFICES ASSUME NEW d \in Calls, call'[d].pc \in {"file", "fetch", "count"}
               PROVE  /\ link'[call'[d].token].state = "live"
                      /\ link'[call'[d].token].max # NoLimit
                           => call'[d].uses < link'[call'[d].token].max
    BY DEF ReadBelowLimit
  <2>1. CASE d = c
    BY <2>1 DEF LimitInv, ReadBelowLimit
  <2>2. CASE d # c
    BY <2>2 DEF LimitInv, ReadBelowLimit
  <2> QED  BY <2>1, <2>2
<1> QED  BY <1>1, <1>2, <1>3 DEF LimitInv

LEMMA ShareStep ==
  ASSUME LimitInv, NEW c \in Calls, NEW kind \in Kinds, Share(c, kind)
  PROVE  LimitInv'
<1> DEFINE new == [call[c] EXCEPT !.op = "share", !.pc = "create", !.kind = kind]
<1>0. /\ new \in Call /\ new.pc = "create"
      /\ new.token = call[c].token /\ new.uses = call[c].uses
  <2>1. call[c] \in Call
    BY DEF LimitInv, TypeOK
  <2> QED  BY <2>1 DEF Call, Steps
<1>1. /\ call' \in [Calls -> Call] /\ call'[c].pc = "create"
      /\ call'[c].token = call[c].token /\ call'[c].uses = call[c].uses
      /\ \A d \in Calls \ {c} : call'[d] = call[d]
  <2>1. call' = [call EXCEPT ![c] = new]
    BY DEF Share
  <2> QED  BY <1>0, <2>1 DEF LimitInv, TypeOK
<1> QED  BY <1>1, QuietStep DEF Share, LimitInv, TypeOK

\* A link that is created is nobody's yet: live links keep theirs.
LEMMA CreateStep ==
  ASSUME LimitInv, NEW c \in Calls, NEW l \in Links, NEW max \in Limits \cup {NoLimit},
         CreateShareLink(c, l, max)
  PROVE  LimitInv'
<1>1. PICK o \in Outcomes :
        IF o = "ok"
          THEN /\ link' = [link EXCEPT ![l] =
                    [NoLink EXCEPT !.state = "live", !.kind = call[c].kind, !.max = max]]
               /\ Reply(c, "ok")
          ELSE Reply(c, "err") /\ UNCHANGED link
  BY DEF CreateShareLink
<1>2. /\ call' \in [Calls -> Call] /\ call'[c].pc = "done"
      /\ call'[c].token = call[c].token /\ call'[c].uses = call[c].uses
      /\ \A d \in Calls \ {c} : call'[d] = call[d]
  <2>1. PICK r \in {"ok", "err"} :
          call' = [call EXCEPT ![c] = [call[c] EXCEPT !.pc = "done", !.reply = r]]
    BY <1>1 DEF Reply
  <2>2. call \in [Calls -> Call] /\ call[c] \in Call
    BY DEF LimitInv, TypeOK
  <2> DEFINE new == [call[c] EXCEPT !.pc = "done", !.reply = r]
  <2>3. /\ new \in Call /\ new.pc = "done"
        /\ new.token = call[c].token /\ new.uses = call[c].uses
    BY <2>2 DEF Call, Steps
  <2> HIDE DEF new
  <2> QED  BY <2>1, <2>2, <2>3 DEF new
<1>3. CASE o # "ok"
  BY <1>1, <1>2, <1>3, QuietStep DEF CreateShareLink, LimitInv, TypeOK
<1>4. CASE o = "ok"
  <2> DEFINE new == [NoLink EXCEPT !.state = "live", !.kind = call[c].kind, !.max = max]
  <2>1. new \in Link /\ new.uses = 0 /\ new.max = max
    <3>1. call[c].kind \in Kinds
      BY DEF LimitInv, TypeOK, Call
    <3>2. NoLink \in Link /\ NoLink.uses = 0
      BY DEF NoLink, Link, Kinds
    <3> QED  BY <3>1, <3>2 DEF Link
  <2>2. link' = [link EXCEPT ![l] = new]
    BY <1>1, <1>4
  <2>3. TypeOK'
    BY <1>2, <2>1, <2>2 DEF CreateShareLink, LimitInv, TypeOK
  <2>4. LimitKept'
    BY <2>1, <2>2, ShareLinksAssumption DEF LimitInv, TypeOK, LimitKept
  <2>5. ReadBelowLimit'
    <3> SUFFICES ASSUME NEW d \in Calls, call'[d].pc \in {"file", "fetch", "count"}
                 PROVE  /\ link'[call'[d].token].state = "live"
                        /\ link'[call'[d].token].max # NoLimit
                             => call'[d].uses < link'[call'[d].token].max
      BY DEF ReadBelowLimit
    <3>1. d # c /\ call'[d] = call[d]
      BY <1>2
    <3>2. call[d].token \in Links /\ call[d].token # l
      BY <3>1 DEF CreateShareLink, LimitInv, TypeOK, Call, ReadBelowLimit
    <3> QED  BY <2>2, <3>1, <3>2 DEF LimitInv, TypeOK, ReadBelowLimit
  <2> QED  BY <2>3, <2>4, <2>5 DEF LimitInv
<1> QED  BY <1>3, <1>4

LEMMA OpenStep ==
  ASSUME LimitInv, NEW c \in Calls, NEW l \in Links, Open(c, l)
  PROVE  LimitInv'
<1> DEFINE new == [call[c] EXCEPT !.op = "use", !.pc = "file", !.token = l,
                                  !.uses = link[l].uses, !.after = Over]
<1>0. new \in Call /\ new.token = l /\ new.uses = link[l].uses
  <2>1. call[c] \in Call /\ link[l].uses \in Int /\ Over \subseteq Calls
    BY DEF LimitInv, TypeOK, Link, Over
  <2> QED  BY <2>1 DEF Call, Steps
<1>1. /\ call' \in [Calls -> Call] /\ call'[c].token = l /\ call'[c].uses = link[l].uses
      /\ \A d \in Calls \ {c} : call'[d] = call[d]
  <2>1. call' = [call EXCEPT ![c] = new]
    BY DEF Open
  <2> QED  BY <1>0, <2>1 DEF LimitInv, TypeOK
<1>2. TypeOK' /\ LimitKept'
  BY <1>1 DEF Open, LimitInv, TypeOK, LimitKept
<1>3. ReadBelowLimit'
  <2> SUFFICES ASSUME NEW d \in Calls, call'[d].pc \in {"file", "fetch", "count"}
               PROVE  /\ link'[call'[d].token].state = "live"
                      /\ link'[call'[d].token].max # NoLimit
                           => call'[d].uses < link'[call'[d].token].max
    BY DEF ReadBelowLimit
  <2>1. CASE d = c
    BY <1>1, <2>1 DEF Open, IsUsable
  <2>2. CASE d # c
    BY <1>1, <2>2 DEF Open, LimitInv, ReadBelowLimit
  <2> QED  BY <2>1, <2>2
<1> QED  BY <1>2, <1>3 DEF LimitInv

\* The one step that writes a count writes one more than it read.
LEMMA CountStep ==
  ASSUME LimitInv, NEW c \in Calls, UpdateShareLink(c)
  PROVE  LimitInv'
<1>1. PICK o \in Outcomes :
        IF o = "ok"
          THEN /\ link' = [link EXCEPT ![call[c].token].uses = call[c].uses + 1]
               /\ call' = [call EXCEPT ![c] = [@ EXCEPT !.pc = "downloads",
                                                        !.counted = TRUE]]
          ELSE Goto(c, "downloads") /\ UNCHANGED link
  BY DEF UpdateShareLink
<1>2. /\ call' \in [Calls -> Call] /\ call'[c].pc = "downloads"
      /\ call'[c].token = call[c].token /\ call'[c].uses = call[c].uses
      /\ \A d \in Calls \ {c} : call'[d] = call[d]
  <2>1. call \in [Calls -> Call] /\ call[c] \in Call
    BY DEF LimitInv, TypeOK
  <2> DEFINE one == [call[c] EXCEPT !.pc = "downloads", !.counted = TRUE]
             two == [call[c] EXCEPT !.pc = "downloads"]
  <2>2. call' = [call EXCEPT ![c] = one] \/ call' = [call EXCEPT ![c] = two]
    BY <1>1 DEF Goto
  <2>3. \A new \in {one, two} : /\ new \in Call /\ new.pc = "downloads"
                                /\ new.token = call[c].token /\ new.uses = call[c].uses
    BY <2>1 DEF Call, Steps
  <2> HIDE DEF one, two
  <2> QED  BY <2>1, <2>2, <2>3
<1>3. CASE o # "ok"
  BY <1>1, <1>2, <1>3, QuietStep DEF UpdateShareLink, LimitInv, TypeOK
<1>4. CASE o = "ok"
  <2> DEFINE t == call[c].token
             new == [link[t] EXCEPT !.uses = call[c].uses + 1]
  <2>1. t \in Links /\ call[c].uses \in Int /\ link[t] \in Link
    BY DEF LimitInv, TypeOK, Call
  <2>2. new \in Link
    BY <2>1 DEF Link
  <2>3. link' = [link EXCEPT ![t] = new]
    BY <1>1, <1>4
  <2>4. /\ new.state = link[t].state /\ new.max = link[t].max /\ new.uses = call[c].uses + 1
    BY <2>1 DEF Link
  <2>5. TypeOK'
    BY <1>2, <2>1, <2>2, <2>3 DEF UpdateShareLink, LimitInv, TypeOK
  <2>6. LimitKept'
    <3> SUFFICES ASSUME NEW l \in Links, link'[l].max # NoLimit
                 PROVE  link'[l].uses <= link'[l].max
      BY DEF LimitKept
    <3>1. CASE l = t
      <4>1. link'[l] = new
        BY <2>1, <2>3, <3>1 DEF LimitInv, TypeOK
      <4>2. call[c].uses < link[t].max /\ link[t].max \in Int
        BY <2>1, <2>4, <4>1, ShareLinksAssumption
           DEF UpdateShareLink, At, LimitInv, ReadBelowLimit, Link
      <4> QED  BY <2>1, <2>4, <4>1, <4>2
    <3>2. CASE l # t
      BY <2>3, <3>2 DEF LimitInv, TypeOK, LimitKept
    <3> QED  BY <3>1, <3>2
  <2>7. ReadBelowLimit'
    <3> SUFFICES ASSUME NEW d \in Calls, call'[d].pc \in {"file", "fetch", "count"}
                 PROVE  /\ link'[call'[d].token].state = "live"
                        /\ link'[call'[d].token].max # NoLimit
                             => call'[d].uses < link'[call'[d].token].max
      BY DEF ReadBelowLimit
    <3>1. d # c /\ call'[d] = call[d] /\ call[d].token \in Links
      BY <1>2 DEF LimitInv, TypeOK, Call
    <3>2. /\ link'[call[d].token].state = link[call[d].token].state
          /\ link'[call[d].token].max = link[call[d].token].max
      BY <2>1, <2>3, <2>4, <3>1 DEF LimitInv, TypeOK
    <3> QED  BY <3>1, <3>2 DEF LimitInv, ReadBelowLimit
  <2> QED  BY <2>5, <2>6, <2>7 DEF LimitInv
<1> QED  BY <1>3, <1>4

LEMMA ExpireStep ==
  ASSUME LimitInv, NEW l \in Links, Expire(l)
  PROVE  LimitInv'
<1> DEFINE new == [link[l] EXCEPT !.expired = TRUE]
<1>1. new \in Link /\ new.state = link[l].state /\ new.max = link[l].max /\ new.uses = link[l].uses
  BY DEF LimitInv, TypeOK, Link
<1>2. link' = [link EXCEPT ![l] = new]
  BY DEF Expire
<1>3. TypeOK' /\ LimitKept'
  BY <1>1, <1>2 DEF Expire, LimitInv, TypeOK, LimitKept
<1>4. ReadBelowLimit'
  BY <1>1, <1>2 DEF Expire, LimitInv, TypeOK, ReadBelowLimit, Call
<1> QED  BY <1>3, <1>4 DEF LimitInv

\* The state of a call that goes on, and of one that answers.
LEMMA GotoStep ==
  ASSUME TypeOK, NEW c \in Calls, NEW step \in Steps, Goto(c, step)
  PROVE  /\ call' \in [Calls -> Call] /\ call'[c].pc = step
         /\ call'[c].token = call[c].token /\ call'[c].uses = call[c].uses
         /\ call'[c].counted = call[c].counted /\ call'[c].after = call[c].after
         /\ \A d \in Calls \ {c} : call'[d] = call[d]
<1> DEFINE new == [call[c] EXCEPT !.pc = step]
<1>1. call[c] \in Call
  BY DEF TypeOK
<1>2. /\ new \in Call /\ new.pc = step
      /\ new.token = call[c].token /\ new.uses = call[c].uses
      /\ new.counted = call[c].counted /\ new.after = call[c].after
  BY <1>1 DEF Call
<1>3. call' = [call EXCEPT ![c] = new]
  BY DEF Goto
<1> QED  BY <1>2, <1>3 DEF TypeOK

LEMMA ReplyStep ==
  ASSUME TypeOK, NEW c \in Calls, NEW answer \in {"ok", "err"}, Reply(c, answer)
  PROVE  /\ call' \in [Calls -> Call] /\ call'[c].pc = "done"
         /\ call'[c].token = call[c].token /\ call'[c].uses = call[c].uses
         /\ call'[c].counted = call[c].counted /\ call'[c].after = call[c].after
         /\ \A d \in Calls \ {c} : call'[d] = call[d]
<1> DEFINE new == [call[c] EXCEPT !.pc = "done", !.reply = answer]
<1>1. call[c] \in Call
  BY DEF TypeOK
<1>2. /\ new \in Call /\ new.pc = "done"
      /\ new.token = call[c].token /\ new.uses = call[c].uses
      /\ new.counted = call[c].counted /\ new.after = call[c].after
  BY <1>1 DEF Call, Steps
<1>3. call' = [call EXCEPT ![c] = new]
  BY DEF Reply
<1> QED  BY <1>2, <1>3 DEF TypeOK

\* Every other step of a call leaves the links alone.
LEMMA OtherStep ==
  ASSUME LimitInv, NEW c \in Calls,
         \/ LoadFile(c) \/ Fetch(c) \/ IncrementDownloadCount(c) \/ DeleteObject(c)
         \/ SoftDelete(c)
  PROVE  LimitInv'
<1>0. TypeOK
  BY DEF LimitInv
<1>1. CASE LoadFile(c)
  <2>1. /\ Goto(c, "fetch") \/ Reply(c, "err")
        /\ call[c].pc = "file" /\ UNCHANGED <<link, file, object>>
    BY <1>1 DEF LoadFile, At
  <2>2. CASE Goto(c, "fetch")
    BY <1>0, <2>1, <2>2, GotoStep, QuietStep DEF Steps, TypeOK
  <2>3. CASE Reply(c, "err")
    BY <1>0, <2>1, <2>3, ReplyStep, QuietStep DEF TypeOK
  <2> QED  BY <2>1, <2>2, <2>3
<1>2. CASE Fetch(c)
  <2>1. /\ Goto(c, "count") \/ Reply(c, "err")
        /\ call[c].pc = "fetch" /\ UNCHANGED <<link, file, object>>
    BY <1>2 DEF Fetch, At
  <2>2. CASE Goto(c, "count")
    BY <1>0, <2>1, <2>2, GotoStep, QuietStep DEF Steps, TypeOK
  <2>3. CASE Reply(c, "err")
    BY <1>0, <2>1, <2>3, ReplyStep, QuietStep DEF TypeOK
  <2> QED  BY <2>1, <2>2, <2>3
<1>3. CASE IncrementDownloadCount(c)
  <2>1. Reply(c, "ok") /\ UNCHANGED <<link, object>>
    BY <1>3 DEF IncrementDownloadCount
  <2>2. file' \in File
    BY <1>0, <1>3 DEF IncrementDownloadCount, TypeOK, File
  <2> QED  BY <1>0, <2>1, <2>2, ReplyStep, QuietStep DEF TypeOK
<1>4. CASE DeleteObject(c)
  <2> DEFINE new == [call[c] EXCEPT !.op = "delete", !.pc = "purge"]
  <2>1. call' = [call EXCEPT ![c] = new] /\ UNCHANGED <<link, file>> /\ object' \in BOOLEAN
    BY <1>4 DEF DeleteObject
  <2>2. call[c] \in Call
    BY <1>0 DEF TypeOK
  <2>3. /\ new \in Call /\ new.pc = "purge"
        /\ new.token = call[c].token /\ new.uses = call[c].uses
    BY <2>2 DEF Call, Steps
  <2>4. /\ call' \in [Calls -> Call] /\ call'[c].pc = "purge"
        /\ call'[c].token = call[c].token /\ call'[c].uses = call[c].uses
        /\ \A d \in Calls \ {c} : call'[d] = call[d]
    BY <1>0, <2>1, <2>3 DEF TypeOK
  <2> QED  BY <1>0, <2>1, <2>4, QuietStep DEF TypeOK
<1>5. CASE SoftDelete(c)
  <2>1. (Reply(c, "ok") \/ Reply(c, "err")) /\ UNCHANGED <<link, object>>
    BY <1>5 DEF SoftDelete
  <2>2. file' \in File
    BY <1>0, <1>5 DEF SoftDelete, TypeOK, File
  <2>3. /\ call' \in [Calls -> Call] /\ call'[c].pc = "done"
        /\ call'[c].token = call[c].token /\ call'[c].uses = call[c].uses
        /\ \A d \in Calls \ {c} : call'[d] = call[d]
    BY <1>0, <2>1, ReplyStep
  <2> QED  BY <1>0, <2>1, <2>2, <2>3, QuietStep DEF TypeOK
<1> QED  BY <1>1, <1>2, <1>3, <1>4, <1>5

LEMMA NextLimit == LimitInv /\ [Next]_vars => LimitInv'
<1> SUFFICES ASSUME LimitInv, [Next]_vars PROVE LimitInv'
  OBVIOUS
<1>1. CASE UNCHANGED vars
  BY <1>1 DEF vars, LimitInv, TypeOK, LimitKept, ReadBelowLimit
<1>2. ASSUME NEW l \in Links, Expire(l) PROVE LimitInv'
  BY <1>2, ExpireStep
<1>3. ASSUME NEW c \in Calls, NEW kind \in Kinds, Share(c, kind) PROVE LimitInv'
  BY <1>3, ShareStep
<1>4. ASSUME NEW c \in Calls, NEW l \in Links, NEW max \in Limits \cup {NoLimit},
             CreateShareLink(c, l, max)
      PROVE  LimitInv'
  BY <1>4, CreateStep
<1>5. ASSUME NEW c \in Calls, NEW l \in Links, Open(c, l) PROVE LimitInv'
  BY <1>5, OpenStep
<1>6. ASSUME NEW c \in Calls, UpdateShareLink(c) PROVE LimitInv'
  BY <1>6, CountStep
<1>7. ASSUME NEW c \in Calls,
             \/ LoadFile(c) \/ Fetch(c) \/ IncrementDownloadCount(c) \/ DeleteObject(c)
             \/ SoftDelete(c)
      PROVE  LimitInv'
  BY <1>7, OtherStep
<1> QED  BY <1>1, <1>2, <1>3, <1>4, <1>5, <1>6, <1>7 DEF Next

-----------------------------------------------------------------------------

\* The invariant that is preserved by every step.
THEOREM LimitCorrect == Spec => []LimitInv
BY InitLimit, NextLimit, PTL DEF Spec

\* Every reachable state is well typed.
THEOREM TypeCorrect == Spec => []TypeOK
BY LimitCorrect, PTL DEF LimitInv

\* No interleaving of downloads makes UpdateShareLink store a count above the
\* limit of the link.
THEOREM CountWithinLimit == Spec => []LimitKept
BY LimitCorrect, PTL DEF LimitInv

-----------------------------------------------------------------------------
(* What the count of a link says                                           *)

\* The downloads of l that were counted, by the calls k.
Used(k, l) == {c \in Calls : k[c].token = l /\ k[c].counted}

\* Two calls of S overlapped.
Met(k, S) == \E c, d \in S : c # d /\ c \notin k[d].after /\ d \notin k[c].after

\* A count n of the downloads in S is right, or too low because two calls of T
\* overlapped.
Tally(n, k, S, T) == n <= Cardinality(S) /\ (n < Cardinality(S) => Met(k, T))

\* The count in a row, and the one a download has read and will write: that one
\* is outdated only by downloads it overlaps itself.
CountInv ==
  /\ \A c \in Calls : call[c].after \subseteq Over
  /\ \A c \in Calls : call[c].counted =>
       call[c].pc \in {"downloads", "done"} /\ link[call[c].token].state = "live"
  /\ \A l \in Links : Tally(link[l].uses, call, Used(call, l), Used(call, l))
  /\ \A c \in Calls : call[c].pc \in {"file", "fetch", "count"} =>
       LET S == Used(call, call[c].token) IN Tally(call[c].uses, call, S, S \cup {c})

LEMMA UsedFinite ==
  ASSUME NEW k, NEW l
  PROVE  IsFiniteSet(Used(k, l)) /\ Cardinality(Used(k, l)) \in Nat
<1>1. Used(k, l) \subseteq Calls
  BY DEF Used
<1> QED  BY <1>1, FS_Subset, FS_CardinalityType, ShareLinksAssumption

\* Steps that neither count nor read a count.
LEMMA StillStep ==
  ASSUME LimitInv, CountInv,
         \A c \in Calls :
           /\ call'[c].token = call[c].token /\ call'[c].uses = call[c].uses
           /\ call'[c].counted = call[c].counted /\ call'[c].after = call[c].after
           /\ call[c].pc = "done" => call'[c].pc = "done"
           /\ call[c].pc = "downloads" => call'[c].pc \in {"downloads", "done"}
           /\ call'[c].pc \in {"file", "fetch", "count"} => call[c].pc \in {"file", "fetch", "count"},
         \A l \in Links :
           /\ link[l].state = "live" => link'[l].state = "live" /\ link'[l].uses = link[l].uses
           /\ link[l].state # "live" => link'[l].uses \in {0, link[l].uses}
  PROVE  CountInv'
<1>1. \A l : Used(call', l) = Used(call, l)
  BY DEF Used
<1>2. \A S \in SUBSET Calls : Met(call', S) <=> Met(call, S)
  BY DEF Met
<1>3. \A l : Used(call, l) \subseteq Calls
  BY DEF Used
<1>4. ASSUME NEW c \in Calls PROVE call'[c].after \subseteq Over'
  BY DEF CountInv, Over
<1>5. ASSUME NEW c \in Calls, call'[c].counted
      PROVE  call'[c].pc \in {"downloads", "done"} /\ link'[call'[c].token].state = "live"
  <2>1. call[c].token \in Links
    BY DEF LimitInv, TypeOK, Call
  <2> QED  BY <1>5, <2>1 DEF CountInv
<1>6. ASSUME NEW l \in Links PROVE Tally(link'[l].uses, call', Used(call', l), Used(call', l))
  <2>1. CASE link[l].state = "live"
    BY <1>1, <1>2, <1>3, <2>1 DEF CountInv, Tally
  <2>2. CASE link[l].state # "live"
    <3>1. Used(call, l) = {}
      BY <2>2 DEF Used, CountInv
    <3>2. Cardinality(Used(call, l)) = 0
      BY <3>1, FS_EmptySet
    <3>3. Tally(link[l].uses, call, Used(call, l), Used(call, l))
      BY DEF CountInv
    <3>4. ~ Met(call, Used(call, l))
      BY <3>1 DEF Met
    <3>5. link[l].uses \in Int
      BY DEF LimitInv, TypeOK, Link
    <3>6. link[l].uses = 0
      BY <3>2, <3>3, <3>4, <3>5 DEF Tally
    <3> QED  BY <1>1, <2>2, <3>2, <3>6 DEF Tally
  <2> QED  BY <2>1, <2>2
<1>7. ASSUME NEW c \in Calls, call'[c].pc \in {"file", "fetch", "count"}
      PROVE  LET S == Used(call', call'[c].token) IN Tally(call'[c].uses, call', S, S \cup {c})
  <2> DEFINE S == Used(call, call[c].token)
  <2>1. Tally(call[c].uses, call, S, S \cup {c})
    BY <1>7 DEF CountInv
  <2>2. Met(call', S \cup {c}) <=> Met(call, S \cup {c})
    BY <1>2, <1>3
  <2> QED  BY <1>1, <2>1, <2>2 DEF Tally
<1> QED  BY <1>4, <1>5, <1>6, <1>7 DEF CountInv

\* A download that opens the link reads the count of that moment.
LEMMA OpenCounts ==
  ASSUME LimitInv, CountInv, NEW c \in Calls, NEW l \in Links, Open(c, l)
  PROVE  CountInv'
<1>0. call[c] \in Call /\ call \in [Calls -> Call]
  BY DEF LimitInv, TypeOK
<1>1. /\ call'[c].pc = "file" /\ call'[c].token = l /\ call'[c].uses = link[l].uses
      /\ call'[c].after = Over /\ call'[c].counted = call[c].counted
      /\ \A d \in Calls \ {c} : call'[d] = call[d]
      /\ link' = link /\ call[c].pc = "idle"
  BY <1>0 DEF Open, Call, At
<1>2. ~ call[c].counted
  BY <1>1 DEF CountInv
<1>3. \A m : Used(call', m) = Used(call, m)
  BY <1>1, <1>2 DEF Used
<1>4. \A m : c \notin Used(call, m)
  BY <1>2 DEF Used
<1>5. Over' = Over
  BY <1>1 DEF Over
<1>6. \A S \in SUBSET (Calls \ {c}) : Met(call', S) <=> Met(call, S)
  BY <1>1 DEF Met
<1>7. \A m : Used(call, m) \in SUBSET (Calls \ {c})
  BY <1>4 DEF Used
<1>8. ASSUME NEW d \in Calls PROVE call'[d].after \subseteq Over'
  BY <1>1, <1>5 DEF CountInv
<1>9. ASSUME NEW d \in Calls, call'[d].counted
      PROVE  call'[d].pc \in {"downloads", "done"} /\ link'[call'[d].token].state = "live"
  BY <1>1, <1>2, <1>9 DEF CountInv
<1>10. ASSUME NEW m \in Links PROVE Tally(link'[m].uses, call', Used(call', m), Used(call', m))
  BY <1>1, <1>3, <1>6, <1>7 DEF CountInv, Tally
<1>11. ASSUME NEW d \in Calls, call'[d].pc \in {"file", "fetch", "count"}
       PROVE  LET S == Used(call', call'[d].token) IN Tally(call'[d].uses, call', S, S \cup {d})
  <2> DEFINE S == Used(call, call'[d].token)
  <2>1. CASE d = c
    <3>1. Tally(link[l].uses, call', S, S)
      BY <1>1, <1>3, <1>10, <2>1
    <3>2. Met(call', S) => Met(call', S \cup {d})
      BY DEF Met
    <3> QED  BY <1>1, <1>3, <2>1, <3>1, <3>2 DEF Tally
  <2>2. CASE d # c
    <3>1. Tally(call[d].uses, call, S, S \cup {d})
      BY <1>1, <1>11, <2>2 DEF CountInv
    <3>2. S \cup {d} \in SUBSET (Calls \ {c})
      BY <1>7, <2>2
    <3>3. Met(call', S \cup {d}) <=> Met(call, S \cup {d})
      BY <1>6, <3>2
    <3> QED  BY <1>1, <1>3, <2>2, <3>1, <3>3 DEF Tally
  <2> QED  BY <2>1, <2>2
<1> QED  BY <1>8, <1>9, <1>10, <1>11 DEF CountInv

\* A count that is saved was read by a download that overlaps every other one
\* that is still running: theirs are outdated by it, and rightly so.
LEMMA SaveCounts ==
  ASSUME LimitInv, CountInv, NEW c \in Calls, call[c].pc = "count",
         link' = [link EXCEPT ![call[c].token].uses = call[c].uses + 1],
         call' = [call EXCEPT ![c] = [@ EXCEPT !.pc = "downloads", !.counted = TRUE]]
  PROVE  CountInv'
<1> DEFINE t == call[c].token
           S == Used(call, t)
<1>0. call[c] \in Call /\ call \in [Calls -> Call] /\ link \in [Links -> Link]
  BY DEF LimitInv, TypeOK
<1>1. t \in Links /\ link[t] \in Link /\ call[c].uses \in Int
  BY <1>0 DEF Call
<1>2. /\ call'[c].pc = "downloads" /\ call'[c].token = t /\ call'[c].counted
      /\ call'[c].after = call[c].after
      /\ \A d \in Calls \ {c} : call'[d] = call[d]
  BY <1>0 DEF Call
<1>3. /\ link'[t].uses = call[c].uses + 1 /\ link'[t].state = link[t].state
      /\ \A l \in Links \ {t} : link'[l] = link[l]
  BY <1>0, <1>1 DEF Link
<1>4. ~ call[c].counted
  BY DEF CountInv
<1>5. Used(call', t) = S \cup {c} /\ c \notin S
  BY <1>2, <1>4 DEF Used
<1>6. \A l \in Links \ {t} : Used(call', l) = Used(call, l)
  BY <1>2 DEF Used
<1>7. Cardinality(S) \in Nat /\ Cardinality(S \cup {c}) = Cardinality(S) + 1
  BY <1>5, UsedFinite, FS_AddElement
<1>8. Over' = Over
  BY <1>2 DEF Over
<1>9. \A T \in SUBSET Calls : Met(call', T) <=> Met(call, T)
  <2>1. \A d \in Calls : call'[d].after = call[d].after
    BY <1>2
  <2> QED  BY <2>1 DEF Met
<1>10. \A l : Used(call, l) \in SUBSET Calls
  BY DEF Used
<1>11. ASSUME NEW d \in Calls PROVE call'[d].after \subseteq Over'
  BY <1>2, <1>8 DEF CountInv
<1>12. ASSUME NEW d \in Calls, call'[d].counted
       PROVE  call'[d].pc \in {"downloads", "done"} /\ link'[call'[d].token].state = "live"
  <2>1. CASE d = c
    BY <1>2, <1>3, <2>1 DEF LimitInv, ReadBelowLimit
  <2>2. CASE d # c
    <3>1. call'[d] = call[d] /\ call[d].token \in Links
      BY <1>0, <1>2, <2>2 DEF Call
    <3>2. call[d].pc \in {"downloads", "done"} /\ link[call[d].token].state = "live"
      BY <1>12, <3>1 DEF CountInv
    <3> QED  BY <1>3, <3>1, <3>2
  <2> QED  BY <2>1, <2>2
<1>13. Tally(call[c].uses, call, S, S \cup {c})
  BY DEF CountInv
<1>14. ASSUME NEW l \in Links PROVE Tally(link'[l].uses, call', Used(call', l), Used(call', l))
  <2>1. CASE l = t
    <3>1. Met(call', S \cup {c}) <=> Met(call, S \cup {c})
      BY <1>9, <1>10
    <3> DEFINE n == call[c].uses
               T == S \cup {c}
    <3>2. n <= Cardinality(S) /\ (n < Cardinality(S) => Met(call', T))
      BY <1>13, <3>1 DEF Tally
    <3>3. link'[l].uses = n + 1 /\ Used(call', l) = T /\ n \in Int
      BY <1>1, <1>3, <1>5, <2>1
    <3>4. Cardinality(S) \in Nat /\ Cardinality(T) = Cardinality(S) + 1
      BY <1>7
    <3> HIDE DEF n, T, S
    <3>5. n + 1 <= Cardinality(T) /\ (n + 1 < Cardinality(T) => Met(call', T))
      BY <3>2, <3>3, <3>4
    <3> QED  BY <3>3, <3>5 DEF Tally
  <2>2. CASE l # t
    BY <1>3, <1>6, <1>9, <1>10, <2>2 DEF CountInv, Tally
  <2> QED  BY <2>1, <2>2
<1>15. ASSUME NEW d \in Calls, call'[d].pc \in {"file", "fetch", "count"}
       PROVE  LET D == Used(call', call'[d].token) IN Tally(call'[d].uses, call', D, D \cup {d})
  <2>1. d # c /\ call'[d] = call[d] /\ call[d] \in Call
    BY <1>0, <1>2, <1>15
  <2>2. LET D == Used(call, call[d].token) IN Tally(call[d].uses, call, D, D \cup {d})
    BY <1>15, <2>1 DEF CountInv
  <2>3. CASE call[d].token = t
    <3>1. c \notin call[d].after /\ d \notin call[c].after
      BY <1>15, <2>1 DEF CountInv, Over
    <3>2. Met(call', (S \cup {c}) \cup {d})
      BY <1>2, <2>1, <3>1 DEF Met
    <3>3. call[d].uses <= Cardinality(S \cup {c})
      <4>1. call[d].uses \in Int
        BY <2>1 DEF Call
      <4> QED  BY <1>7, <2>2, <2>3, <4>1 DEF Tally
    <3> QED  BY <1>5, <2>1, <2>3, <3>2, <3>3 DEF Tally
  <2>4. CASE call[d].token # t
    <3> DEFINE D == Used(call, call[d].token)
    <3>1. Used(call', call[d].token) = D
      BY <1>6, <2>1, <2>4 DEF Call
    <3>2. Met(call', D \cup {d}) <=> Met(call, D \cup {d})
      BY <1>9, <1>10
    <3> QED  BY <2>1, <2>2, <3>1, <3>2 DEF Tally
  <2> QED  BY <2>3, <2>4
<1> QED  BY <1>11, <1>12, <1>14, <1>15 DEF CountInv

LEMMA NextCounts == LimitInv /\ CountInv /\ [Next]_vars => CountInv'
<1> SUFFICES ASSUME LimitInv, CountInv, [Next]_vars PROVE CountInv'
  OBVIOUS
<1>0. /\ TypeOK /\ call \in [Calls -> Call] /\ link \in [Links -> Link]
  BY DEF LimitInv, TypeOK
<1>1. CASE UNCHANGED vars
  <2>1. call' = call /\ link' = link
    BY <1>1 DEF vars
  <2> QED  BY <2>1, StillStep
<1>2. ASSUME NEW l \in Links, Expire(l) PROVE CountInv'
  <2>1. call' = call /\ link' = [link EXCEPT ![l].expired = TRUE]
    BY <1>2 DEF Expire
  <2>2. \A m \in Links : link'[m].state = link[m].state /\ link'[m].uses = link[m].uses
    BY <1>0, <2>1 DEF Link
  <2> QED  BY <2>1, <2>2, StillStep
<1>3. ASSUME NEW c \in Calls, NEW kind \in Kinds, Share(c, kind) PROVE CountInv'
  <2>1. /\ call[c].pc = "idle" /\ link' = link
        /\ call' = [call EXCEPT ![c] = [@ EXCEPT !.op = "share", !.pc = "create",
                                                 !.kind = kind]]
    BY <1>3 DEF Share, At
  <2>2. /\ call'[c].pc = "create" /\ call'[c].token = call[c].token
        /\ call'[c].uses = call[c].uses /\ call'[c].counted = call[c].counted
        /\ call'[c].after = call[c].after
        /\ \A d \in Calls \ {c} : call'[d] = call[d]
    BY <1>0, <2>1 DEF Call
  <2> QED  BY <2>1, <2>2, StillStep
<1>4. ASSUME NEW c \in Calls, NEW l \in Links, NEW max \in Limits \cup {NoLimit},
             CreateShareLink(c, l, max)
      PROVE  CountInv'
  <2>1. /\ call[c].pc = "create" /\ link[l].state = "none" /\ \E a \in {"ok", "err"} : Reply(c, a)
        /\ \/ link' = link
           \/ link' = [link EXCEPT ![l] =
                [NoLink EXCEPT !.state = "live", !.kind = call[c].kind, !.max = max]]
    BY <1>4 DEF CreateShareLink, At
  <2>2. \A m \in Links : link'[m] = link[m] \/ (m = l /\ link'[m].uses = 0)
    BY <1>0, <2>1 DEF NoLink
  <2> QED  BY <1>0, <2>1, <2>2, ReplyStep, StillStep
<1>5. ASSUME NEW c \in Calls, NEW l \in Links, Open(c, l) PROVE CountInv'
  BY <1>5, OpenCounts
<1>6. ASSUME NEW c \in Calls, UpdateShareLink(c) PROVE CountInv'
  <2>1. CASE Goto(c, "downloads") /\ UNCHANGED link
    <3>1. call[c].pc = "count"
      BY <1>6 DEF UpdateShareLink, At
    <3> QED  BY <1>0, <2>1, <3>1, GotoStep, StillStep DEF Steps
  <2>2. CASE /\ link' = [link EXCEPT ![call[c].token].uses = call[c].uses + 1]
             /\ call' = [call EXCEPT ![c] = [@ EXCEPT !.pc = "downloads",
                                                      !.counted = TRUE]]
    BY <1>6, <2>2, SaveCounts DEF UpdateShareLink, At
  <2> QED  BY <1>6, <2>1, <2>2 DEF UpdateShareLink
<1>7. ASSUME NEW c \in Calls,
             LoadFile(c) \/ Fetch(c) \/ IncrementDownloadCount(c) \/ SoftDelete(c)
      PROVE  CountInv'
  <2>1. /\ call[c].pc \in {"file", "fetch", "downloads", "purge"} /\ link' = link
        /\ \/ call[c].pc = "file" /\ Goto(c, "fetch")
           \/ call[c].pc = "fetch" /\ Goto(c, "count")
           \/ \E a \in {"ok", "err"} : Reply(c, a)
    BY <1>7 DEF LoadFile, Fetch, IncrementDownloadCount, SoftDelete, At
  <2> QED  BY <1>0, <2>1, GotoStep, ReplyStep, StillStep DEF Steps
<1>8. ASSUME NEW c \in Calls, DeleteObject(c) PROVE CountInv'
  <2>1. /\ call[c].pc = "idle" /\ link' = link
        /\ call' = [call EXCEPT ![c] = [@ EXCEPT !.op = "delete", !.pc = "purge"]]
    BY <1>8 DEF DeleteObject, At
  <2>2. /\ call'[c].pc = "purge" /\ call'[c].token = call[c].token
        /\ call'[c].uses = call[c].uses /\ call'[c].counted = call[c].counted
        /\ call'[c].after = call[c].after
        /\ \A d \in Calls \ {c} : call'[d] = call[d]
    BY <1>0, <2>1 DEF Call
  <2> QED  BY <2>1, <2>2, StillStep
<1> QED  BY <1>1, <1>2, <1>3, <1>4, <1>5, <1>6, <1>7, <1>8 DEF Next

\* The count of a link misses a download only when two of them overlapped: each
\* wrote one more than it had read, and no later write went by an older read.
THEOREM CountMissesOverlapsOnly == Spec => []UsesCounted
<1>1. Init => CountInv
  <2> SUFFICES ASSUME Init PROVE CountInv
    OBVIOUS
  <2>1. \A c \in Calls : call[c].after = {} /\ ~ call[c].counted /\ call[c].pc = "idle"
    BY DEF Init
  <2>2. \A l : Used(call, l) = {}
    BY <2>1 DEF Used
  <2>3. \A l \in Links : link[l].uses = 0
    BY DEF Init, NoLink
  <2>4. \A l \in Links : Tally(link[l].uses, call, Used(call, l), Used(call, l))
    BY <2>2, <2>3, FS_EmptySet DEF Tally
  <2> QED  BY <2>1, <2>4 DEF CountInv
<1>2. LimitInv /\ CountInv => UsesCounted
  <2> SUFFICES ASSUME CountInv, NEW l \in Links
               PROVE  /\ link[l].uses <= Cardinality(Uses(l))
                      /\ link[l].uses < Cardinality(Uses(l)) => \E c, d \in Uses(l) : Overlap(c, d)
    BY DEF UsesCounted
  <2>1. Uses(l) = Used(call, l)
    BY DEF Uses, Used
  <2> QED  BY <2>1 DEF CountInv, Tally, Met, Overlap
<1> QED  BY <1>1, <1>2, LimitCorrect, NextCounts, PTL DEF Spec

-----------------------------------------------------------------------------
(* Listings                                                                *)

(* Ranks *)

\* The rows that come before r whatever order PostgreSQL chooses among ties.
Ahead(r) == {x \in Matching : Before(Key(x), Key(r))}
Rank(r)  == Cardinality(Ahead(r))

\* How many rows the pages shown so far had room for.
Covered == IF walk.pc \in {"answered", "done"} THEN walk.page * walk.size
           ELSE (walk.page - 1) * walk.size

\* A row that stayed, untied, and that no departure moved forward.
Unmoved(r) == ~ Shifts(walk.left, r) /\ ~ Tied(r)

\* Before the first request there is nothing to remember.
Fresh ==
  walk.pc = "idle" =>
    /\ walk.seen = [r \in Rows |-> 0] /\ walk.stays = {}
    /\ walk.left = {} /\ walk.entered = {} /\ walk.gap = {}

\* The parameters of the current request are normalised.
Normal ==
  walk.pc # "idle" =>
    /\ walk.of \in DOMAIN Listing /\ walk.page >= 1 /\ walk.size >= 1
    /\ walk.stays \subseteq Matching
    /\ IF walk.of \in OnePage THEN walk.page = 1 /\ walk.size = Cap ELSE walk.size <= MaxSize

\* A row not seen yet has all that was shown before it, so a later page has it.
UnseenComesLater ==
  \A r \in walk.stays : walk.seen[r] = 0 /\ Unmoved(r) => Rank(r) >= Covered

\* What COUNT counted has room for the row, as long as none enters before it.
CountHasRoom ==
  walk.pc = "find" => \A r \in walk.stays : ~ Shifts(walk.gap, r) => Rank(r) < walk.total

\* A row that none of the excuses holds for makes the client ask for another page.
AnotherPage ==
  walk.pc \in {"answered", "done"} =>
    \A r \in walk.stays :
      walk.seen[r] = 0 /\ Unmoved(r) /\ ~ Shifts(walk.gap, r) => walk.page * walk.size < walk.total

\* The walk ends where COUNT said that the rows end.
LastPage ==
  walk.pc = "done" => walk.of \in OnePage \/ walk.total <= walk.page * walk.size

\* A row that was seen is among those the pages had room for.
SeenComesEarlier ==
  \A r \in walk.stays :
    walk.seen[r] > 0 /\ ~ Shifts(walk.entered, r) /\ ~ Tied(r) =>
      walk.seen[r] = 1 /\ Rank(r) < Covered

\* The inductive invariant of a walk.
ListingsInv ==
  /\ WalkTypeOK /\ Fresh /\ Normal /\ UnseenComesLater /\ CountHasRoom
  /\ AnotherPage /\ LastPage /\ SeenComesEarlier

-----------------------------------------------------------------------------
(* Types *)

LEMMA ParametersType ==
  ASSUME ListingsAssumption, NEW of \in DOMAIN Listing, NEW page \in Nat, NEW size \in Nat
  PROVE  /\ Parameters(of, page, size).page \in Nat /\ Parameters(of, page, size).page >= 1
         /\ Parameters(of, page, size).size \in Nat /\ Parameters(of, page, size).size >= 1
         /\ of \in OnePage =>
              Parameters(of, page, size).page = 1 /\ Parameters(of, page, size).size = Cap
         /\ of \notin OnePage => Parameters(of, page, size).size <= MaxSize
<1>1. DefaultSize \in Nat /\ DefaultSize >= 1 /\ MaxSize \in Nat /\ MaxSize >= 1 /\ DefaultSize <= MaxSize
      /\ Cap \in Nat /\ Cap >= 1
  BY DEF ListingsAssumption
<1>2. of \in {"files", "users", "audit", "inbox", "search", "folders", "export"}
  BY DEF Listing
<1>3. CASE of \in {"files", "users", "audit"}
  BY <1>1, <1>3 DEF Parameters, FilesRequest, UsersRequest, AuditRequest, Normalize, OnePage
<1>4. CASE of = "inbox"
  BY <1>1, <1>4 DEF Parameters, InboxRequest, Normalize, OnePage
<1>5. CASE of \in OnePage
  BY <1>1, <1>5 DEF Parameters, SearchRequest, FoldersRequest, ExportRequest, OnePage
<1> QED  BY <1>2, <1>3, <1>4, <1>5 DEF OnePage

\* Asking for a page with the parameters of the page before it keeps its size.
LEMMA SameParameters ==
  ASSUME ListingsAssumption, NEW of \in DOMAIN Listing \ OnePage, NEW page \in Nat, NEW size \in Nat,
         page >= 1, size >= 1, size <= MaxSize
  PROVE  Parameters(of, page, size) = [page |-> page, size |-> size]
<1>1. MaxSize \in Nat
  BY DEF ListingsAssumption
<1>2. of \in {"files", "users", "audit", "inbox"}
  BY DEF Listing, OnePage
<1>3. Normalize(page, size) = [page |-> page, size |-> size]
  BY <1>1 DEF Normalize
<1> QED  BY <1>1, <1>2, <1>3 DEF Parameters, FilesRequest, UsersRequest, AuditRequest, InboxRequest

LEMMA WalkTypeInit == ASSUME ListingsAssumption, WalkInit PROVE WalkTypeOK
BY DEF ListingsAssumption, WalkInit, WalkTypeOK, Walk, Row

LEMMA ChangedType ==
  ASSUME ListingsAssumption, WalkTypeOK, NEW r \in Rows, NEW new \in Row, Changed(r, new)
  PROVE  WalkTypeOK'
<1> DEFINE key(x) == IF walk.by = "created" THEN x.created ELSE x.name
           before == IF row[r].there THEN {key(row[r])} ELSE {}
           now    == IF new.there THEN {key(new)} ELSE {}
<1>1. Names \subseteq Nat /\ MaxChanges \in Nat
  BY DEF ListingsAssumption
<1>2. row[r] \in Row /\ walk \in Walk
  BY DEF WalkTypeOK
<1>3. before \subseteq Nat /\ now \subseteq Nat
  BY <1>1, <1>2 DEF Row
<1>4. walk' = IF before = now THEN walk
              ELSE [walk EXCEPT !.stays = @ \ {r}, !.left = @ \cup before, !.entered = @ \cup now,
                                !.gap = IF walk.pc = "find" THEN @ \cup now ELSE @]
  BY DEF Changed
<1> HIDE DEF before, now
<1>5. walk' \in Walk
  BY <1>2, <1>3, <1>4 DEF Walk
<1>6. row' \in [Rows -> Row]
  BY DEF WalkTypeOK, Changed
<1>7. changes' \in 0..MaxChanges
  BY <1>1 DEF WalkTypeOK, Changed
<1> QED  BY <1>5, <1>6, <1>7 DEF WalkTypeOK

LEMMA RequestType ==
  ASSUME ListingsAssumption, WalkTypeOK, NEW of \in DOMAIN Listing, NEW page \in Nat, NEW size \in Nat
  PROVE  Request(of, page, size) \in Walk
<1> DEFINE p == Parameters(of, page, size)
<1>1. p.page \in Nat /\ p.size \in Nat
  BY ParametersType
<1>2. walk \in Walk
  BY DEF WalkTypeOK
<1>3. Request(of, page, size) = [walk EXCEPT !.pc = "count", !.of = of, !.page = p.page, !.size = p.size]
  BY DEF Request
<1> HIDE DEF p
<1> QED  BY <1>1, <1>2, <1>3 DEF Walk

\* A change of the table is one of these.
LEMMA TableStep ==
  ASSUME ListingsAssumption, WalkTypeOK, NEW q \in Rows, Enter(q) \/ Leave(q) \/ Rename(q)
  PROVE  \E new \in Row : Changed(q, new)
<1>1. row[q] \in Row /\ changes \in Nat
  BY DEF WalkTypeOK, ListingsAssumption
<1>2. CASE Enter(q)
  <2>1. PICK c \in {row[q].created, changes + 1}, n \in Names :
          Changed(q, [there |-> TRUE, created |-> c, name |-> n])
    BY <1>2 DEF Enter
  <2>2. [there |-> TRUE, created |-> c, name |-> n] \in Row
    BY <1>1 DEF Row
  <2> QED  BY <2>1, <2>2
<1>3. CASE Leave(q)
  <2>1. [row[q] EXCEPT !.there = FALSE] \in Row
    BY <1>1 DEF Row
  <2> QED  BY <1>3, <2>1 DEF Leave
<1>4. CASE Rename(q)
  <2>1. PICK n \in Names \ {row[q].name} : Changed(q, [row[q] EXCEPT !.name = n])
    BY <1>4 DEF Rename
  <2>2. [row[q] EXCEPT !.name = n] \in Row
    BY <1>1 DEF Row
  <2> QED  BY <2>1, <2>2
<1> QED  BY <1>2, <1>3, <1>4

LEMMA CountFinite ==
  ASSUME ListingsAssumption
  PROVE  IsFiniteSet(Matching) /\ Cardinality(Matching) \in Nat
<1>1. IsFiniteSet(Rows) /\ Matching \subseteq Rows
  BY DEF ListingsAssumption, Matching
<1>2. IsFiniteSet(Matching)
  BY <1>1, FS_Subset
<1> QED  BY <1>2, FS_CardinalityType

LEMMA BeginType == ASSUME ListingsAssumption, WalkTypeOK, Begin PROVE WalkTypeOK'
<1>1. PICK of \in DOMAIN Listing, size \in 0..MaxSize + 1, by \in {"created", "name"}, desc \in BOOLEAN :
        walk' = [Request(of, 0, size) EXCEPT !.by = by, !.desc = desc, !.stays = Matching]
  BY DEF Begin
<1>2. size \in Nat
  BY DEF ListingsAssumption
<1>3. Request(of, 0, size) \in Walk
  BY <1>2, RequestType
<1>4. walk' \in Walk
  BY <1>1, <1>3 DEF Walk, Matching
<1> QED  BY <1>4 DEF Begin, WalkTypeOK

LEMMA CountType == ASSUME ListingsAssumption, WalkTypeOK, Count PROVE WalkTypeOK'
<1>1. walk' = [walk EXCEPT !.pc = "find", !.total = Cardinality(Matching), !.gap = {}] /\ walk \in Walk
  BY DEF Count, WalkTypeOK
<1>2. walk' \in Walk
  BY <1>1, CountFinite DEF Walk
<1> QED  BY <1>2 DEF Count, WalkTypeOK

LEMMA FindType == ASSUME ListingsAssumption, WalkTypeOK, Find PROVE WalkTypeOK'
<1>1. PICK p \in Pages :
        walk' = [walk EXCEPT !.pc = "answered",
                             !.seen = [r \in Rows |-> IF r \in p THEN @[r] + 1 ELSE @[r]]]
  BY DEF Find
<1>2. walk \in Walk
  BY DEF WalkTypeOK
<1>3. walk' = [walk EXCEPT !.pc = "answered",
                           !.seen = [r \in Rows |-> IF r \in p THEN walk.seen[r] + 1 ELSE walk.seen[r]]]
  BY <1>1, <1>2 DEF Walk
<1>4. [r \in Rows |-> IF r \in p THEN walk.seen[r] + 1 ELSE walk.seen[r]] \in [Rows -> Nat]
  BY <1>2 DEF Walk
<1>5. walk' \in Walk
  BY <1>2, <1>3, <1>4 DEF Walk
<1> QED  BY <1>5 DEF Find, WalkTypeOK

LEMMA NextPageType == ASSUME ListingsAssumption, WalkTypeOK, Normal, NextPage PROVE WalkTypeOK'
<1>1. walk \in Walk /\ walk.pc = "answered" /\ walk.page + 1 \in Nat /\ walk.size \in Nat
  BY DEF NextPage, WalkTypeOK, Walk
<1>2. walk.of \in DOMAIN Listing
  BY <1>1 DEF Normal
<1>3. Request(walk.of, walk.page + 1, walk.size) \in Walk
  BY <1>1, <1>2, RequestType
<1>4. [walk EXCEPT !.pc = "done"] \in Walk
  BY <1>1 DEF Walk
<1>5. walk' \in Walk
  BY <1>3, <1>4 DEF NextPage
<1> QED  BY <1>5 DEF NextPage, WalkTypeOK

LEMMA WalkTypeStep == ASSUME ListingsAssumption, WalkTypeOK, Normal, [WalkNext]_walkVars PROVE WalkTypeOK'
<1>1. CASE UNCHANGED walkVars
  BY <1>1 DEF walkVars, WalkTypeOK
<1>2. ASSUME NEW q \in Rows, Enter(q) \/ Leave(q) \/ Rename(q) PROVE WalkTypeOK'
  BY <1>2, TableStep, ChangedType
<1> QED  BY <1>1, <1>2, BeginType, CountType, FindType, NextPageType DEF WalkNext

-----------------------------------------------------------------------------
(* A page *)

LEMMA BeforeOrder ==
  ASSUME NEW a \in Nat, NEW b \in Nat
  PROVE  (~ (Before(a, b) /\ Before(b, a))) /\ (Before(a, b) \/ Before(b, a) \/ a = b)
BY DEF Before

LEMMA KeyType == ASSUME ListingsAssumption, WalkTypeOK, NEW r \in Rows PROVE Key(r) \in Nat
<1>1. row[r] \in Row /\ Names \subseteq Nat
  BY DEF WalkTypeOK, ListingsAssumption
<1> QED  BY <1>1 DEF Key, Row

LEMMA AheadFinite ==
  ASSUME ListingsAssumption, NEW r
  PROVE  IsFiniteSet(Ahead(r)) /\ Rank(r) \in Nat /\ Rank(r) <= Cardinality(Matching)
<1>1. Ahead(r) \subseteq Matching
  BY DEF Ahead
<1>2. IsFiniteSet(Ahead(r)) /\ Cardinality(Ahead(r)) <= Cardinality(Matching)
  BY <1>1, CountFinite, FS_Subset
<1> QED  BY <1>2, FS_CardinalityType DEF Rank

\* A row of the listing comes after fewer rows than the listing has.
LEMMA RankBelow ==
  ASSUME ListingsAssumption, WalkTypeOK, NEW r \in Matching
  PROVE  Rank(r) < Cardinality(Matching)
<1>1. r \in Rows
  BY DEF Matching
<1>2. Key(r) \in Nat
  BY <1>1, KeyType
<1>3. r \notin Ahead(r)
  BY <1>2 DEF Ahead, Before
<1>4. Ahead(r) \subseteq Matching /\ Ahead(r) # Matching
  BY <1>3 DEF Ahead
<1>5. Cardinality(Ahead(r)) # Cardinality(Matching)
  BY <1>4, CountFinite, FS_Subset
<1> QED  BY <1>5, AheadFinite, CountFinite DEF Rank

LEMMA SplitCard ==
  ASSUME NEW S, NEW T, IsFiniteSet(S), IsFiniteSet(T), S \cap T = {}
  PROVE  Cardinality(S \cup T) = Cardinality(S) + Cardinality(T)
<1>1. Cardinality(S \cup T) = Cardinality(S) + Cardinality(T) - Cardinality(S \cap T)
  BY FS_Union
<1>2. Cardinality(S \cap T) = 0
  BY FS_EmptySet
<1>3. Cardinality(S) \in Nat /\ Cardinality(T) \in Nat
  BY FS_CardinalityType
<1> QED  BY <1>1, <1>2, <1>3

\* What a page of PostgreSQL is made of: the rows it skips and the rows it has
\* are the first ones in some order by the key.
LEMMA PageParts ==
  ASSUME ListingsAssumption, WalkTypeOK, walk.size >= 1, walk.page >= 1,
         NEW p \in Pages, NEW r \in Matching, Offset(walk.page, walk.size) < Cardinality(Matching)
  PROVE  \E S \in SUBSET (Matching \ p) :
           /\ Cardinality(S) = Offset(walk.page, walk.size)
           /\ IsFiniteSet(S) /\ IsFiniteSet(p) /\ p \subseteq Matching /\ S \cap p = {}
           /\ Cardinality(S \cup p) = Cardinality(Matching)
                \/ Cardinality(S \cup p) = Offset(walk.page, walk.size) + walk.size
           /\ Cardinality(S \cup p) <= Offset(walk.page, walk.size) + walk.size
           /\ \A s \in S, x \in Matching \ S : ~ Before(Key(x), Key(s))
           /\ \A y \in p, x \in Matching \ (S \cup p) : ~ Before(Key(x), Key(y))
<1> DEFINE from == Offset(walk.page, walk.size)
           n    == Cardinality(Matching)
           len  == IF n <= from THEN 0 ELSE IF n - from < walk.size THEN n - from ELSE walk.size
<1>1. p \in SUBSET Matching /\ Cardinality(p) = len
      /\ (p # {} => \E skipped \in SUBSET (Matching \ p) :
              /\ Cardinality(skipped) = from
              /\ \A s \in skipped, y \in Matching \ skipped : ~ Before(Key(y), Key(s))
              /\ \A y \in p, x \in Matching \ (skipped \cup p) : ~ Before(Key(x), Key(y)))
  BY DEF Pages
<1>2. walk.page \in Nat /\ walk.size \in Nat
  BY DEF WalkTypeOK, Walk
<1>3. from \in Nat
  BY <1>2 DEF Offset
<1>4. n \in Nat /\ IsFiniteSet(Matching)
  BY CountFinite
<1> HIDE DEF from, n
<1>5. from < n
  BY DEF from, n
<1>6. len \in Nat /\ len >= 1 /\ len <= walk.size /\ (from + len = n \/ len = walk.size)
  BY <1>2, <1>3, <1>4, <1>5
<1> HIDE DEF len
<1>7. p # {}
  BY <1>1, <1>6, FS_EmptySet
<1>8. PICK S \in SUBSET (Matching \ p) :
        /\ Cardinality(S) = from
        /\ \A s \in S, y \in Matching \ S : ~ Before(Key(y), Key(s))
        /\ \A y \in p, x \in Matching \ (S \cup p) : ~ Before(Key(x), Key(y))
  BY <1>1, <1>7
<1>9. IsFiniteSet(S) /\ IsFiniteSet(p)
  BY <1>1, <1>4, FS_Subset
<1>10. S \cap p = {}
  BY <1>1
<1>11. Cardinality(S \cup p) = from + len
  BY <1>1, <1>8, <1>9, <1>10, SplitCard
<1>12. Cardinality(S \cup p) = n \/ Cardinality(S \cup p) = from + walk.size
  BY <1>6, <1>11
<1>13. Cardinality(S \cup p) <= from + walk.size
  BY <1>2, <1>3, <1>6, <1>11
<1> QED  BY <1>1, <1>8, <1>9, <1>10, <1>12, <1>13 DEF from, n

\* An untied row is on the page of its rank.
LEMMA PageHasRank ==
  ASSUME ListingsAssumption, WalkTypeOK, walk.size >= 1, walk.page >= 1,
         NEW p \in Pages, NEW r \in Matching, ~ Tied(r),
         Rank(r) >= Offset(walk.page, walk.size), Rank(r) < Offset(walk.page, walk.size) + walk.size
  PROVE  r \in p
<1> DEFINE from == Offset(walk.page, walk.size)
<1>1. walk.page \in Nat /\ walk.size \in Nat /\ from \in Nat
  BY DEF WalkTypeOK, Walk, Offset
<1>2. Rank(r) < Cardinality(Matching) /\ Rank(r) \in Nat /\ Cardinality(Matching) \in Nat
  BY RankBelow, AheadFinite, CountFinite
<1>3. from < Cardinality(Matching)
  BY <1>1, <1>2
<1>4. PICK S \in SUBSET (Matching \ p) :
        /\ Cardinality(S) = from
        /\ IsFiniteSet(S) /\ IsFiniteSet(p) /\ p \subseteq Matching /\ S \cap p = {}
        /\ Cardinality(S \cup p) = Cardinality(Matching) \/ Cardinality(S \cup p) = from + walk.size
        /\ Cardinality(S \cup p) <= from + walk.size
        /\ \A s \in S, x \in Matching \ S : ~ Before(Key(x), Key(s))
        /\ \A y \in p, x \in Matching \ (S \cup p) : ~ Before(Key(x), Key(y))
  BY <1>3, PageParts
<1>5. \A x \in Matching : Key(x) \in Nat
  BY KeyType DEF Matching
<1>6. \A x \in Matching \ {r} : Key(x) # Key(r)
  BY DEF Tied
<1> HIDE DEF from
<1>7. SUFFICES ASSUME r \notin p PROVE FALSE
  OBVIOUS
<1>8. CASE r \in S
  <2>1. Ahead(r) \subseteq S
    BY <1>4, <1>8 DEF Ahead
  <2>2. r \notin Ahead(r)
    BY <1>5, BeforeOrder DEF Ahead
  <2>3. Cardinality(Ahead(r)) <= Cardinality(S) /\ Cardinality(Ahead(r)) # Cardinality(S)
    BY <1>4, <1>8, <2>1, <2>2, FS_Subset
  <2> QED  BY <1>1, <1>2, <1>4, <2>3 DEF Rank, from
<1>9. CASE r \notin S
  <2>1. \A y \in S \cup p : ~ Before(Key(r), Key(y)) /\ y # r /\ y \in Matching
    BY <1>4, <1>7, <1>9
  <2>2. S \cup p \subseteq Ahead(r)
    BY <1>5, <1>6, <2>1, BeforeOrder DEF Ahead
  <2>3. Cardinality(S \cup p) <= Rank(r)
    BY <2>2, AheadFinite, FS_Subset DEF Rank
  <2> QED  BY <1>1, <1>2, <1>4, <2>3 DEF from
<1> QED  BY <1>8, <1>9

\* And on no other.
LEMMA RankOfPage ==
  ASSUME ListingsAssumption, WalkTypeOK, walk.size >= 1, walk.page >= 1,
         NEW p \in Pages, NEW r \in p, ~ Tied(r)
  PROVE  /\ Rank(r) >= Offset(walk.page, walk.size)
         /\ Rank(r) < Offset(walk.page, walk.size) + walk.size
<1> DEFINE from == Offset(walk.page, walk.size)
<1>1. walk.page \in Nat /\ walk.size \in Nat /\ from \in Nat
  BY DEF WalkTypeOK, Walk, Offset
<1>2. r \in Matching /\ IsFiniteSet(p)
  BY CountFinite, FS_Subset DEF Pages
<1>3. Rank(r) \in Nat /\ Cardinality(Matching) \in Nat
  BY AheadFinite, CountFinite
<1>4. Cardinality(p) # 0
  BY <1>2, FS_EmptySet
<1>5. from < Cardinality(Matching)
  BY <1>1, <1>3, <1>4 DEF Pages
<1>6. PICK S \in SUBSET (Matching \ p) :
        /\ Cardinality(S) = from
        /\ IsFiniteSet(S) /\ IsFiniteSet(p) /\ p \subseteq Matching /\ S \cap p = {}
        /\ Cardinality(S \cup p) = Cardinality(Matching) \/ Cardinality(S \cup p) = from + walk.size
        /\ Cardinality(S \cup p) <= from + walk.size
        /\ \A s \in S, x \in Matching \ S : ~ Before(Key(x), Key(s))
        /\ \A y \in p, x \in Matching \ (S \cup p) : ~ Before(Key(x), Key(y))
  BY <1>2, <1>5, PageParts
<1>7. \A x \in Matching : Key(x) \in Nat
  BY KeyType DEF Matching
<1>8. \A x \in Matching \ {r} : Key(x) # Key(r)
  BY DEF Tied
<1> HIDE DEF from
<1>9. S \subseteq Ahead(r)
  <2>1. \A s \in S : ~ Before(Key(r), Key(s)) /\ s # r /\ s \in Matching
    BY <1>2, <1>6
  <2> QED  BY <1>2, <1>7, <1>8, <2>1, BeforeOrder DEF Ahead
<1>10. from <= Rank(r)
  BY <1>6, <1>9, AheadFinite, FS_Subset DEF Rank
<1>11. Ahead(r) \subseteq S \cup p /\ r \in S \cup p /\ r \notin Ahead(r)
  BY <1>2, <1>6, <1>7, BeforeOrder DEF Ahead
<1>12. IsFiniteSet(S \cup p)
  BY <1>6, FS_Union
<1>13. Cardinality(Ahead(r)) <= Cardinality(S \cup p) /\ Cardinality(Ahead(r)) # Cardinality(S \cup p)
       /\ Cardinality(S \cup p) \in Nat
  BY <1>11, <1>12, FS_Subset, FS_CardinalityType
<1>14. Rank(r) < from + walk.size
  BY <1>1, <1>3, <1>6, <1>13 DEF Rank
<1> QED  BY <1>10, <1>14 DEF from

-----------------------------------------------------------------------------
(* A change of the table *)

LEMMA ChangedWalk ==
  ASSUME WalkTypeOK, NEW q \in Rows, NEW new \in Row, Changed(q, new)
  PROVE  /\ walk.pc \in {"count", "find", "answered"}
         /\ walk'.pc = walk.pc /\ walk'.of = walk.of /\ walk'.by = walk.by /\ walk'.desc = walk.desc
         /\ walk'.page = walk.page /\ walk'.size = walk.size /\ walk'.total = walk.total
         /\ walk'.seen = walk.seen /\ walk'.stays \subseteq walk.stays
         /\ walk.left \subseteq walk'.left /\ walk.entered \subseteq walk'.entered
         /\ walk.gap \subseteq walk'.gap
<1>1. walk \in Walk
  BY DEF WalkTypeOK
<1> QED  BY <1>1 DEF Changed, Walk

\* Which rows a change of row q touches: q alone; and it is noted, at the keys
\* that q had and has, unless q stays where it is.
LEMMA ChangedRows ==
  ASSUME WalkTypeOK, NEW q \in Rows, NEW new \in Row, Changed(q, new)
  PROVE  /\ \A x \in Rows \ {q} : (x \in Matching' <=> x \in Matching) /\ Key(x)' = Key(x)
         /\ \/ /\ walk' = walk /\ (q \in Matching' <=> q \in Matching)
               /\ q \in Matching => Key(q)' = Key(q)
            \/ /\ q \notin walk'.stays
               /\ q \in Matching => Key(q) \in walk'.left
               /\ q \in Matching' =>
                    Key(q)' \in walk'.entered /\ (walk.pc = "find" => Key(q)' \in walk'.gap)
<1> DEFINE key(x) == IF walk.by = "created" THEN x.created ELSE x.name
           before == IF row[q].there THEN {key(row[q])} ELSE {}
           now    == IF new.there THEN {key(new)} ELSE {}
<1>1. walk \in Walk /\ row \in [Rows -> Row]
  BY DEF WalkTypeOK
<1>2. row' = [row EXCEPT ![q] = new] /\ row'[q] = new /\ \A x \in Rows \ {q} : row'[x] = row[x]
  BY <1>1 DEF Changed
<1>3. walk'.by = walk.by
  BY ChangedWalk
<1>4. \A x \in Rows \ {q} : (x \in Matching' <=> x \in Matching) /\ Key(x)' = Key(x)
  BY <1>2, <1>3 DEF Matching, Key
<1>5. (q \in Matching <=> row[q].there) /\ (q \in Matching' <=> new.there)
      /\ Key(q) = key(row[q]) /\ Key(q)' = key(new)
  BY <1>2, <1>3 DEF Matching, Key
<1>6. walk' = IF before = now THEN walk
              ELSE [walk EXCEPT !.stays = @ \ {q}, !.left = @ \cup before, !.entered = @ \cup now,
                                !.gap = IF walk.pc = "find" THEN @ \cup now ELSE @]
  BY DEF Changed
<1>7. /\ before = (IF q \in Matching THEN {Key(q)} ELSE {})
      /\ now = (IF q \in Matching' THEN {Key(q)'} ELSE {})
  BY <1>5
<1> HIDE DEF before, now
<1>8. CASE before = now
  <2>1. (q \in Matching' <=> q \in Matching) /\ (q \in Matching => Key(q)' = Key(q))
    BY <1>7, <1>8
  <2> QED  BY <1>4, <1>6, <1>8, <2>1
<1>9. CASE before # now
  <2>1. walk' = [walk EXCEPT !.stays = @ \ {q}, !.left = @ \cup before, !.entered = @ \cup now,
                             !.gap = IF walk.pc = "find" THEN @ \cup now ELSE @]
    BY <1>6, <1>9
  <2>2. q \notin walk'.stays /\ before \subseteq walk'.left /\ now \subseteq walk'.entered
        /\ (walk.pc = "find" => now \subseteq walk'.gap)
    BY <1>1, <2>1 DEF Walk
  <2> QED  BY <1>4, <1>7, <2>2
<1> QED  BY <1>8, <1>9

\* A row that stays keeps its key, and its ties are not forgotten.
LEMMA StayKeeps ==
  ASSUME WalkTypeOK, Normal, NEW q \in Rows, NEW new \in Row, Changed(q, new), NEW r \in walk'.stays
  PROVE  /\ r \in walk.stays /\ r \in Matching /\ r \in Matching' /\ Key(r)' = Key(r)
         /\ Tied(r) => Tied(r)'
         /\ Shifts(walk.left, r) => Shifts(walk.left, r)'
         /\ Shifts(walk.entered, r) => Shifts(walk.entered, r)'
         /\ Shifts(walk.gap, r) => Shifts(walk.gap, r)'
<1>1. r \in walk.stays /\ walk'.desc = walk.desc /\ walk.left \subseteq walk'.left
      /\ walk.entered \subseteq walk'.entered /\ walk.gap \subseteq walk'.gap
  BY ChangedWalk
<1>2. r \in Matching
  BY <1>1, ChangedWalk DEF Normal
<1>3. r \in Rows
  BY <1>2 DEF Matching
<1>4. r \in Matching' /\ Key(r)' = Key(r)
  BY <1>2, <1>3, ChangedRows
<1>5. ASSUME Tied(r) PROVE Tied(r)'
  <2>1. CASE Key(r) \in walk.left
    BY <1>1, <1>4, <2>1 DEF Tied
  <2>2. CASE \E x \in Matching \ {r} : Key(x) = Key(r)
    <3>1. PICK x \in Matching \ {r} : Key(x) = Key(r)
      BY <2>2
    <3>2. x \in Rows
      BY DEF Matching
    <3>3. (x \in Matching' /\ Key(x)' = Key(x)) \/ Key(x) \in walk'.left
      BY <3>2, ChangedRows
    <3>4. Key(r)' \in walk'.left \/ \E y \in Matching' \ {r} : Key(y)' = Key(r)'
      BY <1>4, <3>1, <3>3
    <3> QED  BY <3>4 DEF Tied
  <2> QED  BY <1>5, <2>1, <2>2 DEF Tied
<1>6. Shifts(walk.left, r) => Shifts(walk.left, r)'
  BY <1>1, <1>4 DEF Shifts, Before
<1>7. Shifts(walk.entered, r) => Shifts(walk.entered, r)'
  BY <1>1, <1>4 DEF Shifts, Before
<1>8. Shifts(walk.gap, r) => Shifts(walk.gap, r)'
  BY <1>1, <1>4 DEF Shifts, Before
<1> QED  BY <1>1, <1>2, <1>4, <1>5, <1>6, <1>7, <1>8

\* No departure before it: no fewer rows come before r than did.
LEMMA NotForward ==
  ASSUME ListingsAssumption, WalkTypeOK, WalkTypeOK', Normal, NEW q \in Rows, NEW new \in Row,
         Changed(q, new), NEW r \in walk'.stays, ~ Shifts(walk.left, r)'
  PROVE  Rank(r) <= Rank(r)'
<1>1. r \in Matching /\ r \in Rows /\ Key(r)' = Key(r) /\ walk'.desc = walk.desc
  BY StayKeeps, ChangedWalk DEF Matching
<1>2. \A x \in Rows : Key(x) \in Nat
  BY KeyType
<1>3. ASSUME NEW x \in Ahead(r) PROVE x \in Ahead(r)'
  <2>1. x \in Matching /\ x \in Rows /\ Before(Key(x), Key(r))
    BY DEF Ahead, Matching
  <2>2. ~ Before(Key(r), Key(x))
    BY <1>1, <1>2, <2>1, BeforeOrder
  <2>3. Key(x) \notin walk'.left
    BY <1>1, <2>2 DEF Shifts, Before
  <2>4. x \in Matching' /\ Key(x)' = Key(x)
    BY <2>1, <2>3, ChangedRows
  <2> QED  BY <1>1, <2>1, <2>4 DEF Ahead, Before
<1>4. Ahead(r) \subseteq Ahead(r)'
  BY <1>3
<1>5. IsFiniteSet(Ahead(r)')
  <2>1. Ahead(r)' \subseteq Rows
    BY DEF Ahead, Matching
  <2>2. IsFiniteSet(Rows)
    BY DEF ListingsAssumption
  <2> QED  BY <2>1, <2>2, FS_Subset
<1> QED  BY <1>4, <1>5, FS_Subset DEF Rank

\* No arrival before it: no more rows come before r than did.
LEMMA NotBackward ==
  ASSUME ListingsAssumption, WalkTypeOK, WalkTypeOK', Normal, NEW q \in Rows, NEW new \in Row,
         Changed(q, new), NEW r \in walk'.stays,
         \/ ~ Shifts(walk.entered, r)'
         \/ walk.pc = "find" /\ ~ Shifts(walk.gap, r)'
  PROVE  Rank(r)' <= Rank(r)
<1>1. r \in Matching /\ r \in Rows /\ Key(r)' = Key(r) /\ walk'.desc = walk.desc
  BY StayKeeps, ChangedWalk DEF Matching
<1>2. \A x \in Rows : Key(x)' \in Nat
  BY DEF ListingsAssumption, WalkTypeOK, Row, Key
<1>3. ASSUME NEW x \in Ahead(r)' PROVE x \in Ahead(r)
  <2>1. x \in Matching' /\ x \in Rows /\ Before(Key(x), Key(r))'
    BY DEF Ahead, Matching
  <2>2. ~ Before(Key(r), Key(x))'
    BY <1>1, <1>2, <2>1 DEF Before
  <2>3. Key(x)' \notin walk'.entered \/ (walk.pc = "find" /\ Key(x)' \notin walk'.gap)
    BY <2>2 DEF Shifts
  <2>4. x \in Matching /\ Key(x)' = Key(x)
    BY <2>1, <2>3, ChangedRows
  <2> QED  BY <1>1, <2>1, <2>4 DEF Ahead, Before
<1>4. Ahead(r)' \subseteq Ahead(r)
  BY <1>3
<1> QED  BY <1>4, AheadFinite, FS_Subset DEF Rank

-----------------------------------------------------------------------------
(* The invariant *)

LEMMA ListingsInit == ASSUME ListingsAssumption, WalkInit PROVE ListingsInv
<1>1. walk.pc = "idle" /\ walk.seen = [r \in Rows |-> 0] /\ walk.stays = {}
      /\ walk.left = {} /\ walk.entered = {} /\ walk.gap = {}
  BY DEF WalkInit
<1> QED  BY <1>1, WalkTypeInit DEF ListingsInv, Fresh, Normal, UnseenComesLater,
                                     CountHasRoom, AnotherPage, LastPage, SeenComesEarlier

LEMMA CoveredType ==
  ASSUME WalkTypeOK, Normal, walk.pc # "idle" PROVE Covered \in Nat
<1>1. walk.page \in Nat /\ walk.size \in Nat /\ walk.page >= 1
  BY DEF WalkTypeOK, Walk, Normal
<1>2. walk.page - 1 \in Nat
  BY <1>1
<1> QED  BY <1>1, <1>2 DEF Covered

\* A change of the table leaves what the client has been shown: rows that are
\* still to come do not move forward, those that were shown do not move back,
\* unless a departure or an arrival says so.
LEMMA TableKeeps ==
  ASSUME ListingsAssumption, ListingsInv, NEW q \in Rows, NEW new \in Row, Changed(q, new)
  PROVE  ListingsInv'
<1>1. WalkTypeOK /\ WalkTypeOK' /\ Normal
  BY ChangedType DEF ListingsInv
<1>2. /\ walk.pc \in {"count", "find", "answered"}
      /\ walk'.pc = walk.pc /\ walk'.of = walk.of /\ walk'.page = walk.page /\ walk'.size = walk.size
      /\ walk'.total = walk.total /\ walk'.seen = walk.seen /\ walk'.stays \subseteq walk.stays
  BY <1>1, ChangedWalk
<1>3. Covered' = Covered /\ Covered \in Nat
  BY <1>1, <1>2, CoveredType DEF Covered
<1>4. \A r \in walk'.stays :
        /\ r \in walk.stays /\ r \in Matching /\ r \in Matching' /\ Key(r)' = Key(r)
        /\ Tied(r) => Tied(r)'
        /\ Shifts(walk.left, r) => Shifts(walk.left, r)'
        /\ Shifts(walk.entered, r) => Shifts(walk.entered, r)'
        /\ Shifts(walk.gap, r) => Shifts(walk.gap, r)'
  BY <1>1, StayKeeps
<1>5. \A r \in Rows : Rank(r) \in Nat /\ Rank(r)' \in Nat
  <2>1. \A r \in Rows : Rank(r) \in Nat
    BY AheadFinite
  <2>2. ASSUME NEW r \in Rows PROVE Rank(r)' \in Nat
    <3>1. Ahead(r)' \subseteq Rows /\ IsFiniteSet(Rows)
      BY DEF Ahead, Matching, ListingsAssumption
    <3>2. IsFiniteSet(Ahead(r)')
      BY <3>1, FS_Subset
    <3> QED  BY <3>2, FS_CardinalityType DEF Rank
  <2> QED  BY <2>1, <2>2
<1>6. walk'.stays \subseteq Rows /\ walk.seen \in [Rows -> Nat] /\ walk.total \in Nat
  BY <1>1 DEF WalkTypeOK, Walk
<1>7. Fresh' /\ LastPage'
  BY <1>2 DEF Fresh, LastPage
<1>8. Normal'
  BY <1>1, <1>2, <1>4 DEF Normal
<1>9. UnseenComesLater'
  <2>1. SUFFICES ASSUME NEW r \in walk'.stays, walk'.seen[r] = 0, ~ Shifts(walk.left, r)', ~ Tied(r)'
                 PROVE  Rank(r)' >= Covered'
    BY DEF UnseenComesLater, Unmoved
  <2>2. Rank(r) >= Covered
    BY <1>2, <1>4, <2>1 DEF ListingsInv, UnseenComesLater, Unmoved
  <2>3. Rank(r) <= Rank(r)'
    BY <1>1, <2>1, NotForward
  <2> QED  BY <1>3, <1>5, <1>6, <2>2, <2>3
<1>10. CountHasRoom'
  <2>1. SUFFICES ASSUME walk'.pc = "find", NEW r \in walk'.stays, ~ Shifts(walk.gap, r)'
                 PROVE  Rank(r)' < walk'.total
    BY DEF CountHasRoom
  <2>2. Rank(r) < walk.total
    BY <1>2, <1>4, <2>1 DEF ListingsInv, CountHasRoom
  <2>3. Rank(r)' <= Rank(r)
    BY <1>1, <1>2, <2>1, NotBackward
  <2> QED  BY <1>2, <1>5, <1>6, <2>2, <2>3
<1>11. AnotherPage'
  <2>1. SUFFICES ASSUME walk'.pc \in {"answered", "done"}, NEW r \in walk'.stays, walk'.seen[r] = 0,
                        ~ Shifts(walk.left, r)', ~ Tied(r)', ~ Shifts(walk.gap, r)'
                 PROVE  walk'.page * walk'.size < walk'.total
    BY DEF AnotherPage, Unmoved
  <2> QED  BY <1>2, <1>4, <2>1 DEF ListingsInv, AnotherPage, Unmoved
<1>12. SeenComesEarlier'
  <2>1. SUFFICES ASSUME NEW r \in walk'.stays, walk'.seen[r] > 0, ~ Shifts(walk.entered, r)', ~ Tied(r)'
                 PROVE  walk'.seen[r] = 1 /\ Rank(r)' < Covered'
    BY DEF SeenComesEarlier
  <2>2. walk.seen[r] = 1 /\ Rank(r) < Covered
    BY <1>2, <1>4, <2>1 DEF ListingsInv, SeenComesEarlier
  <2>3. Rank(r)' <= Rank(r)
    BY <1>1, <2>1, NotBackward
  <2> QED  BY <1>2, <1>3, <1>5, <1>6, <2>2, <2>3
<1> QED  BY <1>1, <1>7, <1>8, <1>9, <1>10, <1>11, <1>12 DEF ListingsInv

\* A step of the client leaves the rows where they are.
LEMMA RowsStay ==
  ASSUME row' = row, walk'.by = walk.by, walk'.desc = walk.desc,
         walk'.left = walk.left, walk'.entered = walk.entered
  PROVE  /\ Matching' = Matching
         /\ \A r : /\ Rank(r)' = Rank(r) /\ (Tied(r)' <=> Tied(r))
                   /\ Shifts(walk.left, r)' <=> Shifts(walk.left, r)
                   /\ Shifts(walk.entered, r)' <=> Shifts(walk.entered, r)
         /\ walk'.gap = walk.gap => \A r : Shifts(walk.gap, r)' <=> Shifts(walk.gap, r)
<1>1. Matching' = Matching /\ \A r : Key(r)' = Key(r)
  BY DEF Matching, Key
<1>2. \A a, b : Before(a, b)' <=> Before(a, b)
  BY DEF Before
<1>3. \A r : Ahead(r)' = Ahead(r)
  BY <1>1, <1>2 DEF Ahead
<1>4. \A r : Rank(r)' = Rank(r)
  BY <1>3 DEF Rank
<1>5. \A r : Tied(r)' <=> Tied(r)
  BY <1>1 DEF Tied
<1>6. \A r : /\ Shifts(walk.left, r)' <=> Shifts(walk.left, r)
             /\ Shifts(walk.entered, r)' <=> Shifts(walk.entered, r)
  BY <1>1, <1>2 DEF Shifts
<1>7. walk'.gap = walk.gap => \A r : Shifts(walk.gap, r)' <=> Shifts(walk.gap, r)
  BY <1>1, <1>2 DEF Shifts
<1> QED  BY <1>1, <1>4, <1>5, <1>6, <1>7

LEMMA BeginKeeps == ASSUME ListingsAssumption, ListingsInv, Begin PROVE ListingsInv'
<1>1. PICK of \in DOMAIN Listing, size \in 0..MaxSize + 1, by \in {"created", "name"}, desc \in BOOLEAN :
        walk' = [Request(of, 0, size) EXCEPT !.by = by, !.desc = desc, !.stays = Matching]
  BY DEF Begin
<1> DEFINE p == Parameters(of, 0, size)
<1>2. walk \in Walk /\ WalkTypeOK' /\ row' = row /\ walk.pc = "idle"
  BY BeginType DEF ListingsInv, WalkTypeOK, Begin
<1>3. size \in Nat
  BY DEF ListingsAssumption
<1>4. /\ p.page \in Nat /\ p.page >= 1 /\ p.size \in Nat /\ p.size >= 1
      /\ of \in OnePage => p.page = 1 /\ p.size = Cap
      /\ of \notin OnePage => p.size <= MaxSize
  BY <1>3, ParametersType
<1>5. p.page = 1
  <2>1. of \in {"files", "users", "audit", "inbox", "search", "folders", "export"}
    BY DEF Listing
  <2> QED  BY <2>1 DEF Parameters, FilesRequest, UsersRequest, AuditRequest, InboxRequest,
                       SearchRequest, FoldersRequest, ExportRequest, Normalize
<1>6. Request(of, 0, size) = [walk EXCEPT !.pc = "count", !.of = of, !.page = p.page, !.size = p.size]
  BY DEF Request
<1> HIDE DEF p
<1>7. /\ walk'.pc = "count" /\ walk'.of = of /\ walk'.page = p.page /\ walk'.size = p.size
      /\ walk'.stays = Matching /\ walk'.seen = walk.seen
  BY <1>1, <1>2, <1>6 DEF Walk
<1>8. walk'.stays = Matching' /\ walk'.seen = [r \in Rows |-> 0] /\ Matching \subseteq Rows
  BY <1>2, <1>7 DEF Matching, ListingsInv, Fresh
<1>9. Fresh' /\ CountHasRoom' /\ AnotherPage' /\ LastPage'
  BY <1>7 DEF Fresh, CountHasRoom, AnotherPage, LastPage
<1>10. Normal'
  BY <1>4, <1>7, <1>8 DEF Normal
<1>11. Covered' = 0
  BY <1>4, <1>5, <1>7 DEF Covered
<1>12. \A r \in Rows : Rank(r)' \in Nat
  <2>1. SUFFICES ASSUME NEW r \in Rows PROVE Rank(r)' \in Nat
    OBVIOUS
  <2>2. Ahead(r)' \subseteq Rows /\ IsFiniteSet(Rows)
    BY DEF Ahead, Matching, ListingsAssumption
  <2>3. IsFiniteSet(Ahead(r)')
    BY <2>2, FS_Subset
  <2> QED  BY <2>3, FS_CardinalityType DEF Rank
<1>13. UnseenComesLater'
  BY <1>7, <1>8, <1>11, <1>12 DEF UnseenComesLater
<1>14. SeenComesEarlier'
  BY <1>7, <1>8 DEF SeenComesEarlier
<1> QED  BY <1>2, <1>9, <1>10, <1>13, <1>14 DEF ListingsInv

LEMMA CountKeeps == ASSUME ListingsAssumption, ListingsInv, Count PROVE ListingsInv'
<1>1. walk \in Walk /\ WalkTypeOK /\ WalkTypeOK' /\ row' = row /\ walk.pc = "count" /\ Normal
  BY CountType DEF ListingsInv, WalkTypeOK, Count
<1>2. walk' = [walk EXCEPT !.pc = "find", !.total = Cardinality(Matching), !.gap = {}]
  BY DEF Count
<1>3. /\ walk'.pc = "find" /\ walk'.total = Cardinality(Matching) /\ walk'.of = walk.of
      /\ walk'.by = walk.by /\ walk'.desc = walk.desc /\ walk'.page = walk.page /\ walk'.size = walk.size
      /\ walk'.seen = walk.seen /\ walk'.stays = walk.stays
      /\ walk'.left = walk.left /\ walk'.entered = walk.entered
  BY <1>1, <1>2 DEF Walk
<1>4. /\ Matching' = Matching
      /\ \A r : /\ Rank(r)' = Rank(r) /\ (Tied(r)' <=> Tied(r))
                /\ Shifts(walk.left, r)' <=> Shifts(walk.left, r)
                /\ Shifts(walk.entered, r)' <=> Shifts(walk.entered, r)
  BY <1>1, <1>3, RowsStay
<1>5. Covered' = Covered
  BY <1>1, <1>3 DEF Covered
<1>6. Fresh' /\ AnotherPage' /\ LastPage'
  BY <1>3 DEF Fresh, AnotherPage, LastPage
<1>7. Normal'
  BY <1>1, <1>3, <1>4 DEF Normal
<1>8. UnseenComesLater'
  BY <1>3, <1>4, <1>5 DEF ListingsInv, UnseenComesLater, Unmoved
<1>9. SeenComesEarlier'
  BY <1>3, <1>4, <1>5 DEF ListingsInv, SeenComesEarlier
<1>10. CountHasRoom'
  <2>1. walk.stays \subseteq Matching
    BY <1>1 DEF Normal
  <2>2. \A r \in walk.stays : Rank(r) < Cardinality(Matching)
    BY <1>1, <2>1, RankBelow
  <2> QED  BY <1>3, <1>4, <2>2 DEF CountHasRoom
<1> QED  BY <1>1, <1>6, <1>7, <1>8, <1>9, <1>10 DEF ListingsInv

LEMMA FindKeeps == ASSUME ListingsAssumption, ListingsInv, Find PROVE ListingsInv'
<1>1. walk \in Walk /\ WalkTypeOK /\ WalkTypeOK' /\ row' = row /\ walk.pc = "find" /\ Normal
  BY FindType DEF ListingsInv, WalkTypeOK, Find
<1>2. PICK p \in Pages :
        walk' = [walk EXCEPT !.pc = "answered",
                             !.seen = [r \in Rows |-> IF r \in p THEN @[r] + 1 ELSE @[r]]]
  BY DEF Find
<1>3. /\ walk'.pc = "answered" /\ walk'.total = walk.total /\ walk'.of = walk.of
      /\ walk'.by = walk.by /\ walk'.desc = walk.desc /\ walk'.page = walk.page /\ walk'.size = walk.size
      /\ walk'.seen = [r \in Rows |-> IF r \in p THEN walk.seen[r] + 1 ELSE walk.seen[r]]
      /\ walk'.stays = walk.stays
      /\ walk'.left = walk.left /\ walk'.entered = walk.entered /\ walk'.gap = walk.gap
  BY <1>1, <1>2 DEF Walk
<1>4. /\ Matching' = Matching
      /\ \A r : /\ Rank(r)' = Rank(r) /\ (Tied(r)' <=> Tied(r))
                /\ Shifts(walk.left, r)' <=> Shifts(walk.left, r)
                /\ Shifts(walk.entered, r)' <=> Shifts(walk.entered, r)
      /\ \A r : Shifts(walk.gap, r)' <=> Shifts(walk.gap, r)
  BY <1>1, <1>3, RowsStay
<1>5. /\ walk.page \in Nat /\ walk.size \in Nat /\ walk.page >= 1 /\ walk.size >= 1
      /\ walk.stays \subseteq Matching /\ walk.stays \subseteq Rows /\ walk.seen \in [Rows -> Nat]
      /\ walk.total \in Nat
  BY <1>1 DEF Walk, Normal
<1>6. Offset(walk.page, walk.size) \in Nat /\ walk.page * walk.size \in Nat
      /\ Offset(walk.page, walk.size) + walk.size = walk.page * walk.size
  BY <1>5 DEF Offset
<1>7. Covered = Offset(walk.page, walk.size) /\ Covered' = Offset(walk.page, walk.size) + walk.size
  BY <1>1, <1>3, <1>6 DEF Covered, Offset
<1>8. \A r : Rank(r) \in Nat
  BY AheadFinite
<1>9. \A r \in p : ~ Tied(r) => Rank(r) >= Covered /\ Rank(r) < Covered'
  BY <1>1, <1>5, <1>7, RankOfPage
<1>10. \A r \in walk.stays : ~ Tied(r) /\ Rank(r) >= Covered /\ Rank(r) < Covered' => r \in p
  BY <1>1, <1>5, <1>7, PageHasRank
<1>11. Fresh' /\ CountHasRoom' /\ LastPage'
  BY <1>3 DEF Fresh, CountHasRoom, LastPage
<1>12. Normal'
  BY <1>1, <1>3, <1>4 DEF Normal
<1>13. UnseenComesLater'
  <2>1. SUFFICES ASSUME NEW r \in walk.stays, walk'.seen[r] = 0, Unmoved(r) PROVE Rank(r) >= Covered'
    BY <1>3, <1>4 DEF UnseenComesLater, Unmoved
  <2>2. r \notin p /\ walk.seen[r] = 0
    BY <1>3, <1>5, <2>1
  <2>3. Rank(r) >= Covered
    BY <2>1, <2>2 DEF ListingsInv, UnseenComesLater
  <2>4. ~ (Rank(r) < Covered')
    BY <1>10, <2>1, <2>2, <2>3 DEF Unmoved
  <2> QED  BY <1>6, <1>7, <1>8, <2>4
<1>14. AnotherPage'
  <2>1. SUFFICES ASSUME NEW r \in walk'.stays, walk'.seen[r] = 0, Unmoved(r)', ~ Shifts(walk.gap, r)'
                 PROVE  walk'.page * walk'.size < walk'.total
    BY DEF AnotherPage
  <2>2. Rank(r) >= Covered'
    BY <1>4, <1>13, <2>1 DEF UnseenComesLater
  <2>3. Rank(r) < walk.total
    BY <1>1, <1>3, <1>4, <2>1 DEF ListingsInv, CountHasRoom
  <2>4. Covered' < walk.total
    BY <1>5, <1>6, <1>7, <1>8, <2>2, <2>3
  <2> QED  BY <1>3, <1>6, <1>7, <2>4
<1>15. SeenComesEarlier'
  <2>1. SUFFICES ASSUME NEW r \in walk.stays, walk'.seen[r] > 0, ~ Shifts(walk.entered, r), ~ Tied(r)
                 PROVE  walk'.seen[r] = 1 /\ Rank(r) < Covered'
    BY <1>3, <1>4 DEF SeenComesEarlier
  <2>2. walk.seen[r] > 0 => walk.seen[r] = 1 /\ Rank(r) < Covered
    BY <2>1 DEF ListingsInv, SeenComesEarlier
  <2>3. CASE r \in p
    <3>1. Rank(r) >= Covered /\ Rank(r) < Covered'
      BY <1>9, <2>1, <2>3
    <3>2. ~ (walk.seen[r] > 0)
      BY <1>6, <1>7, <1>8, <2>2, <3>1
    <3>3. walk.seen[r] = 0 /\ walk'.seen[r] = walk.seen[r] + 1
      BY <1>3, <1>5, <2>3, <3>2
    <3> QED  BY <3>1, <3>3
  <2>4. CASE r \notin p
    <3>1. walk'.seen[r] = walk.seen[r]
      BY <1>3, <1>5, <2>4
    <3>2. walk.seen[r] = 1 /\ Rank(r) < Covered
      BY <2>1, <2>2, <3>1
    <3> QED  BY <1>5, <1>6, <1>7, <1>8, <3>1, <3>2
  <2> QED  BY <2>3, <2>4
<1> QED  BY <1>1, <1>11, <1>12, <1>13, <1>14, <1>15 DEF ListingsInv

\* TotalPages counts every page that still has a row.
LEMMA TotalPagesEnough ==
  ASSUME NEW page \in Nat, NEW size \in Nat, size >= 1, NEW total \in Nat, page >= TotalPages(size, total)
  PROVE  total <= page * size
<1> DEFINE a == total + size - 1
           d == a \div size
<1>1. a \in Nat
  OBVIOUS
<1>2. d \in Nat /\ a % size \in Nat /\ a % size < size /\ a = (size * d) + (a % size)
  BY <1>1
<1>3. page >= d
  BY DEF TotalPages
<1> HIDE DEF d
<1>4. size * d <= page * size
  BY <1>2, <1>3
<1>5. page * size \in Nat /\ size * d \in Nat
  BY <1>2
<1> QED  BY <1>2, <1>4, <1>5

LEMMA NextPageKeeps == ASSUME ListingsAssumption, ListingsInv, NextPage PROVE ListingsInv'
<1>1. walk \in Walk /\ WalkTypeOK /\ WalkTypeOK' /\ row' = row /\ walk.pc = "answered" /\ Normal
  BY NextPageType DEF ListingsInv, WalkTypeOK, NextPage
<1>2. /\ walk.page \in Nat /\ walk.size \in Nat /\ walk.page >= 1 /\ walk.size >= 1 /\ walk.total \in Nat
      /\ walk.of \in DOMAIN Listing
      /\ IF walk.of \in OnePage THEN walk.page = 1 /\ walk.size = Cap ELSE walk.size <= MaxSize
  BY <1>1 DEF Walk, Normal
<1>3. CASE walk.of \in OnePage \/ walk.page >= TotalPages(walk.size, walk.total)
  <2>1. walk' = [walk EXCEPT !.pc = "done"]
    BY <1>3 DEF NextPage
  <2>2. /\ walk'.pc = "done" /\ walk'.total = walk.total /\ walk'.of = walk.of
        /\ walk'.by = walk.by /\ walk'.desc = walk.desc /\ walk'.page = walk.page /\ walk'.size = walk.size
        /\ walk'.seen = walk.seen /\ walk'.stays = walk.stays
        /\ walk'.left = walk.left /\ walk'.entered = walk.entered /\ walk'.gap = walk.gap
    BY <1>1, <2>1 DEF Walk
  <2>3. /\ Matching' = Matching
        /\ \A r : /\ Rank(r)' = Rank(r) /\ (Tied(r)' <=> Tied(r))
                  /\ Shifts(walk.left, r)' <=> Shifts(walk.left, r)
                  /\ Shifts(walk.entered, r)' <=> Shifts(walk.entered, r)
        /\ \A r : Shifts(walk.gap, r)' <=> Shifts(walk.gap, r)
    BY <1>1, <2>2, RowsStay
  <2>4. Covered' = Covered
    BY <1>1, <2>2 DEF Covered
  <2>5. Fresh' /\ CountHasRoom'
    BY <2>2 DEF Fresh, CountHasRoom
  <2>6. Normal'
    BY <1>1, <2>2, <2>3 DEF Normal
  <2>7. UnseenComesLater' /\ SeenComesEarlier'
    BY <2>2, <2>3, <2>4 DEF ListingsInv, UnseenComesLater, SeenComesEarlier, Unmoved
  <2>8. AnotherPage'
    BY <1>1, <2>2, <2>3 DEF ListingsInv, AnotherPage, Unmoved
  <2>9. walk.of \in OnePage \/ walk.total <= walk.page * walk.size
    BY <1>2, <1>3, TotalPagesEnough
  <2>10. LastPage'
    BY <2>2, <2>9 DEF LastPage
  <2> QED  BY <1>1, <2>5, <2>6, <2>7, <2>8, <2>10 DEF ListingsInv
<1>4. CASE ~ (walk.of \in OnePage \/ walk.page >= TotalPages(walk.size, walk.total))
  <2>1. Parameters(walk.of, walk.page + 1, walk.size) = [page |-> walk.page + 1, size |-> walk.size]
    BY <1>2, <1>4, SameParameters
  <2>2. walk' = [walk EXCEPT !.pc = "count", !.of = walk.of, !.page = walk.page + 1, !.size = walk.size]
    <3> DEFINE p == Parameters(walk.of, walk.page + 1, walk.size)
    <3>1. walk' = [walk EXCEPT !.pc = "count", !.of = walk.of, !.page = p.page, !.size = p.size]
      BY <1>4 DEF NextPage, Request
    <3>2. p.page = walk.page + 1 /\ p.size = walk.size
      BY <2>1
    <3> HIDE DEF p
    <3> QED  BY <3>1, <3>2
  <2>3. /\ walk'.pc = "count" /\ walk'.total = walk.total /\ walk'.of = walk.of
        /\ walk'.by = walk.by /\ walk'.desc = walk.desc
        /\ walk'.page = walk.page + 1 /\ walk'.size = walk.size
        /\ walk'.seen = walk.seen /\ walk'.stays = walk.stays
        /\ walk'.left = walk.left /\ walk'.entered = walk.entered
    BY <1>1, <2>2 DEF Walk
  <2>4. /\ Matching' = Matching
        /\ \A r : /\ Rank(r)' = Rank(r) /\ (Tied(r)' <=> Tied(r))
                  /\ Shifts(walk.left, r)' <=> Shifts(walk.left, r)
                  /\ Shifts(walk.entered, r)' <=> Shifts(walk.entered, r)
    BY <1>1, <2>3, RowsStay
  <2>5. Covered' = Covered
    <3>1. (walk.page + 1) - 1 = walk.page
      BY <1>2
    <3> QED  BY <1>1, <2>3, <3>1 DEF Covered
  <2>6. Fresh' /\ CountHasRoom' /\ AnotherPage' /\ LastPage'
    BY <2>3 DEF Fresh, CountHasRoom, AnotherPage, LastPage
  <2>7. Normal'
    BY <1>1, <1>2, <1>4, <2>3, <2>4 DEF Normal
  <2>8. UnseenComesLater' /\ SeenComesEarlier'
    BY <2>3, <2>4, <2>5 DEF ListingsInv, UnseenComesLater, SeenComesEarlier, Unmoved
  <2> QED  BY <1>1, <2>6, <2>7, <2>8 DEF ListingsInv
<1> QED  BY <1>3, <1>4

LEMMA ListingsStep == ASSUME ListingsAssumption, ListingsInv, [WalkNext]_walkVars PROVE ListingsInv'
<1>1. CASE UNCHANGED walkVars
  BY <1>1 DEF walkVars, ListingsInv, WalkTypeOK, Fresh, Normal, UnseenComesLater, CountHasRoom, AnotherPage,
              LastPage, SeenComesEarlier, Unmoved, Covered, Rank, Ahead, Matching, Key, Before, Tied, Shifts
<1>2. ASSUME NEW q \in Rows, Enter(q) \/ Leave(q) \/ Rename(q) PROVE ListingsInv'
  <2>1. WalkTypeOK
    BY DEF ListingsInv
  <2>2. PICK new \in Row : Changed(q, new)
    BY <1>2, <2>1, TableStep
  <2> QED  BY <2>2, TableKeeps
<1> QED  BY <1>1, <1>2, BeginKeeps, CountKeeps, FindKeeps, NextPageKeeps DEF WalkNext

LEMMA MissedFollows == ASSUME ListingsAssumption, ListingsInv PROVE MissedOnlyByShift
<1>1. SUFFICES ASSUME walk.pc = "done", NEW r \in walk.stays, walk.seen[r] = 0, Unmoved(r),
                      ~ Shifts(walk.gap, r)
               PROVE  walk.of \in OnePage /\ walk.total > Cap
  BY DEF MissedOnlyByShift, Unmoved
<1>2. walk.page * walk.size < walk.total
  BY <1>1 DEF ListingsInv, AnotherPage
<1>3. /\ walk.page \in Nat /\ walk.size \in Nat /\ walk.total \in Nat /\ Cap \in Nat
      /\ walk.page * walk.size \in Nat
  BY DEF ListingsInv, WalkTypeOK, Walk, ListingsAssumption
<1>4. walk.of \in OnePage
  BY <1>1, <1>2, <1>3 DEF ListingsInv, LastPage
<1>5. walk.page = 1 /\ walk.size = Cap
  BY <1>1, <1>4 DEF ListingsInv, Normal
<1> QED  BY <1>2, <1>3, <1>4, <1>5

LEMMA RepeatedFollows == ASSUME ListingsAssumption, ListingsInv PROVE RepeatedOnlyByShift
<1>1. SUFFICES ASSUME NEW r \in walk.stays, walk.seen[r] > 1, ~ Shifts(walk.entered, r), ~ Tied(r)
               PROVE  FALSE
  BY DEF RepeatedOnlyByShift
<1>2. walk.seen[r] \in Nat
  BY <1>1 DEF ListingsInv, WalkTypeOK, Walk
<1>3. walk.seen[r] = 1
  BY <1>1, <1>2 DEF ListingsInv, SeenComesEarlier
<1> QED  BY <1>1, <1>3

\* Whoever follows every page of a listing misses a row that was there all the
\* time only because of a departure or an arrival before it, of a row with the
\* same key, or of what one page cannot hold.
THEOREM PagesMissOnlyShifted == WalkSpec => []MissedOnlyByShift
<1>1. WalkInit => ListingsInv
  BY ListingsInit, ListingsAssumption
<1>2. ListingsInv /\ [WalkNext]_walkVars => ListingsInv'
  BY ListingsStep, ListingsAssumption
<1>3. ListingsInv => MissedOnlyByShift
  BY MissedFollows, ListingsAssumption
<1> QED  BY <1>1, <1>2, <1>3, PTL DEF WalkSpec

\* A row is shown twice only because of an arrival before it, or because
\* PostgreSQL orders rows with the same key differently for the next page.
THEOREM PagesRepeatOnlyShifted == WalkSpec => []RepeatedOnlyByShift
<1>1. WalkInit => ListingsInv
  BY ListingsInit, ListingsAssumption
<1>2. ListingsInv /\ [WalkNext]_walkVars => ListingsInv'
  BY ListingsStep, ListingsAssumption
<1>3. ListingsInv => RepeatedOnlyByShift
  BY RepeatedFollows, ListingsAssumption
<1> QED  BY <1>1, <1>2, <1>3, PTL DEF WalkSpec

=============================================================================
