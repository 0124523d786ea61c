------------------------- MODULE PermissionsProofs -------------------------
(***************************************************************************)
(* That grants descend from managers, that a row is revoked once, and that *)
(* a resource without a manager stays as it is, for every number of users, *)
(* rows, actions and calls.                                                *)
(***************************************************************************)
EXTENDS Permissions, TLAPS

\* A Grant that was checked was checked against some row, in force then.
InsertersManaged ==
  \A c \in Calls : call[c].pc = "insert" =>
    \E q \in Ids : /\ perm[q].state # "none"
                   /\ perm[q].user = call[c].user /\ perm[q].action = Manage

\* The row of an acknowledged Revoke is gone.
RevokedGone ==
  \A c \in Calls : call[c].op = "revoke" /\ call[c].reply = "ok" =>
    perm[call[c].id].state = "revoked"

\* What a call has done yet, by its program counter.
RepliesAtEnd ==
  \A c \in Calls : /\ call[c].reply = "ok" => call[c].pc = "done"
                   /\ call[c].pc = "insert" => call[c].op = "grant"
                   /\ call[c].pc \in {"check", "delete"} => call[c].op = "revoke"

PermInv == TypeOK /\ GrantsDescend /\ InsertersManaged /\ RevokedOnce /\ RevokedGone
           /\ RepliesAtEnd

-----------------------------------------------------------------------------

LEMMA InitPerm == Init => PermInv
<1> SUFFICES ASSUME Init PROVE PermInv
  OBVIOUS
<1> DEFINE idle(p) == [pc |-> "idle", op |-> "none", user |-> Owner, id |-> p,
                       reply |-> "pending"]
<1>1. PICK p \in Ids : call = [c \in Calls |-> idle(p)]
  BY DEF Init
<1>2. idle(p) \in Call
  BY PermissionsAssumption DEF Call
<1>3. TypeOK
  BY <1>1, <1>2 DEF Init, TypeOK
<1>4. GrantsDescend
  BY DEF Init, GrantsDescend
<1>5. InsertersManaged /\ RevokedOnce /\ RevokedGone /\ RepliesAtEnd
  BY <1>1 DEF InsertersManaged, RevokedOnce, RevokedGone, RepliesAtEnd
<1> QED  BY <1>3, <1>4, <1>5 DEF PermInv

\* A step that changes no row, and after which the call is nowhere an
\* acknowledgement or an insertion counts, keeps the invariant.
LEMMA QuietStep ==
  ASSUME PermInv, NEW c \in Calls, NEW new \in Call, UNCHANGED perm,
         call' = [call EXCEPT ![c] = new],
         new.pc # "insert",
         new.reply = "ok" => new.op = "grant" /\ new.pc = "done",
         new.pc \in {"check", "delete"} => new.op = "revoke"
  PROVE  PermInv'
<1>1. call'[c] = new /\ \A d \in Calls \ {c} : call'[d] = call[d]
  BY DEF PermInv, TypeOK
<1>2. TypeOK' /\ GrantsDescend'
  BY DEF PermInv, TypeOK, GrantsDescend
<1>3. InsertersManaged'
  BY <1>1 DEF PermInv, InsertersManaged
<1>4. RevokedOnce'
  BY <1>1 DEF PermInv, RevokedOnce
<1>5. RevokedGone'
  BY <1>1 DEF PermInv, RevokedGone
<1>6. RepliesAtEnd'
  BY <1>1 DEF PermInv, RepliesAtEnd
<1> QED  BY <1>2, <1>3, <1>4, <1>5, <1>6 DEF PermInv

LEMMA GrantStep ==
  ASSUME PermInv, NEW c \in Calls, NEW u \in Users, Grant(c, u)
  PROVE  PermInv'
<1> DEFINE new == [call[c] EXCEPT !.op = "grant", !.pc = "insert", !.user = u]
<1>1. call[c] \in Call /\ call[c].reply # "ok"
  BY DEF Grant, At, PermInv, TypeOK, RepliesAtEnd
<1>2. new \in Call /\ new.reply # "ok" /\ new.pc = "insert" /\ new.user = u /\ new.op = "grant"
  BY <1>1 DEF Call
<1>3. call' = [call EXCEPT ![c] = new] /\ UNCHANGED perm
  BY DEF Grant
<1>4. call'[c] = new /\ \A d \in Calls \ {c} : call'[d] = call[d]
  BY <1>3 DEF PermInv, TypeOK
<1>5. TypeOK' /\ GrantsDescend'
  BY <1>2, <1>3 DEF PermInv, TypeOK, GrantsDescend
<1>6. InsertersManaged'
  <2>1. \E q \in Ids : perm[q].state # "none" /\ perm[q].user = u /\ perm[q].action = Manage
    BY DEF Grant, Holds, Granted
  <2> QED  BY <1>2, <1>3, <1>4, <2>1 DEF PermInv, InsertersManaged
<1>7. RevokedOnce' /\ RevokedGone' /\ RepliesAtEnd'
  BY <1>2, <1>3, <1>4 DEF PermInv, RevokedOnce, RevokedGone, RepliesAtEnd
<1> QED  BY <1>5, <1>6, <1>7 DEF PermInv

\* The rows inserted name a granter who had managed by a row that is not among
\* them.
LEMMA InsertStep ==
  ASSUME PermInv, NEW c \in Calls, Insert(c)
  PROVE  PermInv'
<1>1. call[c] \in Call /\ call[c].pc = "insert" /\ call[c].op = "grant" /\ call[c].user \in Users
  BY DEF Insert, At, PermInv, TypeOK, RepliesAtEnd, Call
<1>2. CASE Reply(c, "err") /\ UNCHANGED perm
  <2> DEFINE new == [call[c] EXCEPT !.pc = "done", !.reply = "err"]
  <2>1. new \in Call /\ new.pc = "done" /\ new.reply = "err"
    BY <1>1 DEF Call
  <2>2. call' = [call EXCEPT ![c] = new]
    BY <1>2 DEF Reply
  <2> QED  BY <1>2, <2>1, <2>2, QuietStep
<1>3. CASE Reply(c, "ok") /\ ~ (Reply(c, "err") /\ UNCHANGED perm)
  <2> DEFINE new == [call[c] EXCEPT !.pc = "done", !.reply = "ok"]
             row(u, a) == [state |-> "granted", user |-> u, action |-> a, by |-> call[c].user,
                           expired |-> FALSE]
  <2>1. /\ new \in Call /\ new.pc = "done" /\ new.reply = "ok" /\ new.op = "grant"
    BY <1>1 DEF Call
  <2>2. call' = [call EXCEPT ![c] = new]
    BY <1>3 DEF Reply
  <2>3. call'[c] = new /\ \A d \in Calls \ {c} : call'[d] = call[d]
    BY <2>2 DEF PermInv, TypeOK
  <2>0. PICK ids \in SUBSET Unused : \E entry \in [ids -> Users \X Actions] :
          perm' = [p \in Ids |-> IF p \notin ids THEN perm[p] ELSE row(entry[p][1], entry[p][2])]
    BY <1>3 DEF Insert
  <2>4. PICK entry \in [ids -> Users \X Actions] :
          perm' = [p \in Ids |-> IF p \notin ids THEN perm[p] ELSE row(entry[p][1], entry[p][2])]
    BY <2>0
  <2>5. \A p \in ids : /\ p \in Ids /\ perm[p].state = "none"
                       /\ entry[p][1] \in Users /\ entry[p][2] \in Actions
    BY DEF Unused
  <2>6. \A u \in Users, a \in Actions : row(u, a) \in Row
    BY <1>1 DEF Row
  <2>7. TypeOK'
    <3>1. perm' \in [Ids -> Row]
      BY <2>4, <2>5, <2>6 DEF PermInv, TypeOK
    <3> QED  BY <2>1, <2>2, <3>1 DEF PermInv, TypeOK
  <2>8. \A p \in Ids : perm[p].state # "none" => perm'[p] = perm[p]
    BY <2>4, <2>5
  <2>9. PICK m \in Ids : perm[m].state # "none" /\ perm[m].user = call[c].user
                         /\ perm[m].action = Manage
    BY <1>1 DEF PermInv, InsertersManaged
  <2>10. GrantsDescend'
    <3> SUFFICES ASSUME NEW p \in Ids, perm'[p].state # "none", perm'[p].by # Owner
                 PROVE  \E q \in Ids \ {p} : /\ perm'[q].state # "none"
                          /\ perm'[q].user = perm'[p].by /\ perm'[q].action = Manage
      BY DEF GrantsDescend
    <3>1. CASE p \in ids
      <4>1. perm'[p].by = call[c].user
        BY <2>4, <3>1
      <4>2. m # p /\ perm'[m] = perm[m]
        BY <2>5, <2>8, <2>9, <3>1
      <4> QED  BY <2>9, <4>1, <4>2
    <3>2. CASE p \notin ids
      <4>1. perm'[p] = perm[p]
        BY <2>4, <3>2
      <4>2. PICK q \in Ids \ {p} : /\ perm[q].state # "none"
                                   /\ perm[q].user = perm[p].by /\ perm[q].action = Manage
        BY <4>1 DEF PermInv, GrantsDescend
      <4>3. perm'[q] = perm[q]
        BY <2>8, <4>2
      <4> QED  BY <4>1, <4>2, <4>3
    <3> QED  BY <3>1, <3>2
  <2>11. InsertersManaged'
    <3> SUFFICES ASSUME NEW d \in Calls, call'[d].pc = "insert"
                 PROVE  \E q \in Ids : /\ perm'[q].state # "none"
                          /\ perm'[q].user = call'[d].user /\ perm'[q].action = Manage
      BY DEF InsertersManaged
    <3>1. call'[d] = call[d]
      BY <2>1, <2>3
    <3>2. PICK q \in Ids : /\ perm[q].state # "none"
                           /\ perm[q].user = call[d].user /\ perm[q].action = Manage
      BY <3>1 DEF PermInv, InsertersManaged
    <3>3. perm'[q] = perm[q]
      BY <2>8, <3>2
    <3> QED  BY <3>1, <3>2, <3>3
  <2>12. RevokedOnce' /\ RepliesAtEnd'
    <3>1. \A d \in Calls : call'[d].op = "revoke" => call'[d] = call[d]
      BY <2>1, <2>3
    <3>2. RevokedOnce'
      BY <3>1 DEF PermInv, RevokedOnce
    <3>3. RepliesAtEnd'
      BY <2>1, <2>3 DEF PermInv, RepliesAtEnd
    <3> QED  BY <3>2, <3>3
  <2>13. RevokedGone'
    <3> SUFFICES ASSUME NEW d \in Calls, call'[d].op = "revoke", call'[d].reply = "ok"
                 PROVE  perm'[call'[d].id].state = "revoked"
      BY DEF RevokedGone
    <3>1. call'[d] = call[d]
      BY <2>1, <2>3
    <3>2. call[d].id \in Ids /\ perm[call[d].id].state = "revoked"
      BY <3>1 DEF PermInv, RevokedGone, TypeOK, Call
    <3> QED  BY <2>8, <3>1, <3>2
  <2> QED  BY <2>7, <2>10, <2>11, <2>12, <2>13 DEF PermInv
<1> QED  BY <1>2, <1>3 DEF Insert

\* A row that is deleted or expires keeps its user, action and granter.
LEMMA RowStep ==
  ASSUME PermInv, NEW p \in Ids, NEW new \in Row, perm' = [perm EXCEPT ![p] = new],
         new.user = perm[p].user, new.action = perm[p].action, new.by = perm[p].by,
         new.state # "none", perm[p].state # "none"
  PROVE  GrantsDescend' /\ \A q \in Ids : /\ perm'[q].user = perm[q].user
           /\ perm'[q].action = perm[q].action
           /\ (perm[q].state # "none" => perm'[q].state # "none")
<1>1. \A q \in Ids : /\ perm'[q].user = perm[q].user /\ perm'[q].action = perm[q].action
                     /\ perm'[q].by = perm[q].by
                     /\ perm'[q].state = "none" <=> perm[q].state = "none"
  BY DEF PermInv, TypeOK
<1>2. GrantsDescend'
  BY <1>1 DEF PermInv, GrantsDescend
<1> QED  BY <1>1, <1>2

LEMMA DeleteStep ==
  ASSUME PermInv, NEW c \in Calls, Delete(c)
  PROVE  PermInv'
<1>1. call[c] \in Call /\ call[c].pc = "delete" /\ call[c].op = "revoke" /\ call[c].id \in Ids
  BY DEF Delete, At, PermInv, TypeOK, RepliesAtEnd, Call
<1>2. CASE Reply(c, "err") /\ UNCHANGED perm
  <2> DEFINE new == [call[c] EXCEPT !.pc = "done", !.reply = "err"]
  <2>1. new \in Call /\ new.pc = "done" /\ new.reply = "err"
    BY <1>1 DEF Call
  <2>2. call' = [call EXCEPT ![c] = new]
    BY <1>2 DEF Reply
  <2> QED  BY <1>2, <2>1, <2>2, QuietStep
<1>3. CASE /\ call[c].id \in Granted /\ Reply(c, "ok")
           /\ perm' = [perm EXCEPT ![call[c].id].state = "revoked"]
  <2> DEFINE p == call[c].id
             gone == [perm[p] EXCEPT !.state = "revoked"]
             new == [call[c] EXCEPT !.pc = "done", !.reply = "ok"]
  <2>1. /\ new \in Call /\ new.pc = "done" /\ new.reply = "ok" /\ new.op = "revoke" /\ new.id = p
    BY <1>1 DEF Call
  <2>2. call' = [call EXCEPT ![c] = new]
    BY <1>3 DEF Reply
  <2>3. call'[c] = new /\ \A d \in Calls \ {c} : call'[d] = call[d]
    BY <2>2 DEF PermInv, TypeOK
  <2>4. perm[p] \in Row /\ perm[p].state = "granted"
    BY <1>1, <1>3 DEF PermInv, TypeOK, Granted
  <2>5. /\ gone \in Row /\ gone.state = "revoked" /\ gone.user = perm[p].user
        /\ gone.action = perm[p].action /\ gone.by = perm[p].by
    BY <2>4 DEF Row
  <2>6. perm' = [perm EXCEPT ![p] = gone]
    BY <1>3
  <2>7. TypeOK'
    BY <1>1, <2>1, <2>2, <2>5, <2>6 DEF PermInv, TypeOK
  <2>8. GrantsDescend' /\ \A q \in Ids : /\ perm'[q].user = perm[q].user
          /\ perm'[q].action = perm[q].action
          /\ (perm[q].state # "none" => perm'[q].state # "none")
    BY <1>1, <2>4, <2>5, <2>6, RowStep
  <2>9. InsertersManaged'
    <3>1. \A d \in Calls : call'[d].pc = "insert" => call'[d] = call[d]
      BY <2>1, <2>3
    <3>2. \A q \in Ids : perm[q].state # "none" => perm'[q].state # "none"
      BY <2>8
    <3>3. SUFFICES ASSUME NEW d \in Calls, call'[d].pc = "insert"
                   PROVE  \E q \in Ids : /\ perm'[q].state # "none"
                            /\ perm'[q].user = call'[d].user /\ perm'[q].action = Manage
      BY DEF InsertersManaged
    <3>4. PICK q \in Ids : /\ perm[q].state # "none"
                           /\ perm[q].user = call[d].user /\ perm[q].action = Manage
      BY <3>1, <3>3 DEF PermInv, InsertersManaged
    <3> QED  BY <2>8, <3>1, <3>2, <3>3, <3>4
  <2>10. \A d \in Calls \ {c} : call[d].op = "revoke" /\ call[d].reply = "ok" => call[d].id # p
    BY <2>4 DEF PermInv, RevokedGone
  <2>11. RevokedOnce'
    <3> SUFFICES ASSUME NEW d \in Calls, NEW e \in Calls, d # e,
                        call'[d].op = "revoke", call'[d].reply = "ok",
                        call'[e].op = "revoke", call'[e].reply = "ok", call'[d].id = call'[e].id
                 PROVE  FALSE
      BY DEF RevokedOnce
    <3>1. CASE d # c /\ e # c
      <4>1. call'[d] = call[d] /\ call'[e] = call[e]
        BY <2>3, <3>1
      <4> QED  BY <4>1 DEF PermInv, RevokedOnce
    <3>2. CASE d = c
      <4>1. call'[e] = call[e] /\ call'[d].id = p
        BY <2>1, <2>3, <3>2
      <4> QED  BY <2>10, <3>2, <4>1
    <3>3. CASE e = c
      <4>1. call'[d] = call[d] /\ call'[e].id = p
        BY <2>1, <2>3, <3>3
      <4> QED  BY <2>10, <3>3, <4>1
    <3> QED  BY <3>1, <3>2, <3>3
  <2>12. RevokedGone'
    <3> SUFFICES ASSUME NEW d \in Calls, call'[d].op = "revoke", call'[d].reply = "ok"
                 PROVE  perm'[call'[d].id].state = "revoked"
      BY DEF RevokedGone
    <3>1. CASE d = c
      BY <1>1, <2>1, <2>3, <2>5, <2>6, <3>1 DEF PermInv, TypeOK
    <3>2. CASE d # c
      <4>1. /\ call'[d] = call[d] /\ call[d].id \in Ids /\ call[d].id # p
            /\ perm[call[d].id].state = "revoked"
        BY <2>3, <2>10, <3>2 DEF PermInv, RevokedGone, TypeOK, Call
      <4> QED  BY <2>6, <4>1 DEF PermInv, TypeOK
    <3> QED  BY <3>1, <3>2
  <2>13. RepliesAtEnd'
    BY <2>1, <2>3 DEF PermInv, RepliesAtEnd
  <2> QED  BY <2>7, <2>8, <2>9, <2>11, <2>12, <2>13 DEF PermInv
<1> QED  BY <1>2, <1>3 DEF Delete

LEMMA ExpireStep ==
  ASSUME PermInv, NEW p \in Ids, Expire(p)
  PROVE  PermInv'
<1> DEFINE old == [perm[p] EXCEPT !.expired = TRUE]
<1>1. perm[p] \in Row /\ perm[p].state = "granted"
  BY DEF Expire, Granted, PermInv, TypeOK
<1>2. /\ old \in Row /\ old.state = "granted" /\ old.user = perm[p].user
      /\ old.action = perm[p].action /\ old.by = perm[p].by
  BY <1>1 DEF Row
<1>3. perm' = [perm EXCEPT ![p] = old] /\ UNCHANGED call
  BY DEF Expire
<1>4. TypeOK'
  BY <1>2, <1>3 DEF PermInv, TypeOK
<1>5. GrantsDescend' /\ \A q \in Ids : /\ perm'[q].user = perm[q].user
        /\ perm'[q].action = perm[q].action
        /\ (perm[q].state # "none" => perm'[q].state # "none")
  BY <1>1, <1>2, <1>3, RowStep
<1>6. InsertersManaged'
  BY <1>3, <1>5 DEF PermInv, InsertersManaged
<1>7. RevokedOnce' /\ RepliesAtEnd'
  BY <1>3 DEF PermInv, RevokedOnce, RepliesAtEnd
<1>8. RevokedGone'
  <2> SUFFICES ASSUME NEW d \in Calls, call'[d].op = "revoke", call'[d].reply = "ok"
               PROVE  perm'[call'[d].id].state = "revoked"
    BY DEF RevokedGone
  <2>1. call[d].id \in Ids /\ perm[call[d].id].state = "revoked"
    BY <1>3 DEF PermInv, RevokedGone, TypeOK, Call
  <2> QED  BY <1>1, <1>3, <2>1 DEF PermInv, TypeOK
<1> QED  BY <1>4, <1>5, <1>6, <1>7, <1>8 DEF PermInv

LEMMA CheckStep ==
  ASSUME PermInv, NEW c \in Calls, NEW u \in Users, NEW p \in Ids,
         GrantForbidden(c, u) \/ Revoke(c, u, p) \/ MayRevoke(c)
  PROVE  PermInv'
<1>1. call[c] \in Call /\ (call[c].pc \in {"idle", "check"} => call[c].reply # "ok")
  BY DEF PermInv, TypeOK, RepliesAtEnd
<1>2. CASE GrantForbidden(c, u)
  <2> DEFINE new == [call[c] EXCEPT !.op = "grant", !.pc = "done", !.user = u, !.reply = "err"]
  <2>1. new \in Call /\ new.pc = "done" /\ new.reply = "err"
    BY <1>1 DEF Call
  <2>2. call' = [call EXCEPT ![c] = new] /\ UNCHANGED perm
    BY <1>2 DEF GrantForbidden
  <2> QED  BY <2>1, <2>2, QuietStep
<1>3. CASE Revoke(c, u, p)
  <2> DEFINE new == [call[c] EXCEPT !.op = "revoke", !.pc = "check", !.user = u, !.id = p]
  <2>1. new \in Call /\ new.pc = "check" /\ new.op = "revoke" /\ new.reply # "ok"
    BY <1>1, <1>3 DEF Call, Revoke, At
  <2>2. call' = [call EXCEPT ![c] = new] /\ UNCHANGED perm
    BY <1>3 DEF Revoke
  <2> QED  BY <2>1, <2>2, QuietStep
<1>4. CASE MayRevoke(c)
  <2>1. call[c].pc = "check" /\ call[c].op = "revoke" /\ call[c].reply # "ok" /\ UNCHANGED perm
    BY <1>1, <1>4 DEF MayRevoke, At, PermInv, RepliesAtEnd
  <2>2. CASE Reply(c, "err")
    <3> DEFINE new == [call[c] EXCEPT !.pc = "done", !.reply = "err"]
    <3>1. new \in Call /\ new.pc = "done" /\ new.reply = "err"
      BY <1>1 DEF Call
    <3>2. call' = [call EXCEPT ![c] = new]
      BY <2>2 DEF Reply
    <3> QED  BY <2>1, <3>1, <3>2, QuietStep
  <2>3. CASE call' = [call EXCEPT ![c].pc = "delete"]
    <3> DEFINE new == [call[c] EXCEPT !.pc = "delete"]
    <3>1. new \in Call /\ new.pc = "delete" /\ new.op = "revoke" /\ new.reply # "ok"
      BY <1>1, <2>1 DEF Call
    <3>2. call' = [call EXCEPT ![c] = new]
      BY <2>3
    <3> QED  BY <2>1, <3>1, <3>2, QuietStep
  <2> QED  BY <1>4, <2>2, <2>3 DEF MayRevoke
<1> QED  BY <1>2, <1>3, <1>4

LEMMA NextPerm ==
  ASSUME PermInv, [Next]_vars
  PROVE  PermInv'
<1>1. CASE UNCHANGED vars
  BY <1>1 DEF vars, PermInv, TypeOK, GrantsDescend, InsertersManaged, RevokedOnce, RevokedGone,
    RepliesAtEnd
<1>2. CASE \E c \in Calls, u \in Users : Grant(c, u)
  BY <1>2, GrantStep
<1>3. CASE \E c \in Calls, u \in Users : GrantForbidden(c, u)
  <2>1. PICK c \in Calls, u \in Users : GrantForbidden(c, u)
    BY <1>3
  <2>2. call[c].id \in Ids
    BY DEF PermInv, TypeOK, Call
  <2> QED  BY <2>1, <2>2, CheckStep
<1>4. CASE \E c \in Calls, u \in Users, p \in Ids : Revoke(c, u, p)
  BY <1>4, CheckStep
<1>5. CASE \E c \in Calls : Insert(c)
  BY <1>5, InsertStep
<1>6. CASE \E c \in Calls : MayRevoke(c)
  <2>1. PICK c \in Calls : MayRevoke(c)
    BY <1>6
  <2>2. call[c].id \in Ids /\ Owner \in Users
    BY PermissionsAssumption DEF PermInv, TypeOK, Call
  <2> QED  BY <2>1, <2>2, CheckStep
<1>7. CASE \E c \in Calls : Delete(c)
  BY <1>7, DeleteStep
<1>8. CASE \E p \in Ids : Expire(p)
  BY <1>8, ExpireStep
<1> QED  BY <1>1, <1>2, <1>3, <1>4, <1>5, <1>6, <1>7, <1>8 DEF Next

-----------------------------------------------------------------------------

\* The inductive invariant holds in every behaviour of the permission calls.
THEOREM PermCorrect == Spec => []PermInv
<1>1. PermInv /\ [Next]_vars => PermInv'
  BY NextPerm
<1> QED  BY InitPerm, <1>1, PTL DEF Spec

\* The table and the calls keep their types.
THEOREM TypeCorrect == Spec => []TypeOK
<1>1. PermInv => TypeOK
  BY DEF PermInv
<1> QED  BY PermCorrect, <1>1, PTL

\* Every row was granted by somebody who had been granted manage_permissions, or
\* by the owner, however grants, revocations and expiries overlap.
THEOREM Descent == Spec => []GrantsDescend
<1>1. PermInv => GrantsDescend
  BY DEF PermInv
<1> QED  BY PermCorrect, <1>1, PTL

\* Of the Revokes of one row at most one is acknowledged.
THEOREM OneRevoke == Spec => []RevokedOnce
<1>1. PermInv => RevokedOnce
  BY DEF PermInv
<1> QED  BY PermCorrect, <1>1, PTL

-----------------------------------------------------------------------------

\* A step that grants nothing and inserts nothing leaves a sealed resource
\* sealed.
LEMMA StaysSealed ==
  ASSUME Sealed, TypeOK, TypeOK',
         \A p \in Ids : perm'[p].state = "granted" =>
           /\ perm[p].state = "granted" /\ perm'[p].user = perm[p].user
           /\ perm'[p].action = perm[p].action /\ (perm[p].expired => perm'[p].expired),
         \A c \in Calls : call'[c].pc = "insert" => call[c].pc = "insert"
  PROVE  Sealed' /\ {p \in Ids : perm[p].state = "granted"}' \subseteq Granted
<1>1. {p \in Ids : perm[p].state = "granted"}' \subseteq Granted
  BY DEF Granted
<1>2. \A c \in Calls : call'[c].pc # "insert"
  BY DEF Sealed, At
<1>3. ASSUME NEW u \in Users, NEW p \in Ids, perm'[p].state = "granted", perm'[p].user = u,
             perm'[p].action = Manage, ~ perm'[p].expired
      PROVE  FALSE
  <2>1. perm[p].state = "granted" /\ perm[p].user = u /\ perm[p].action = Manage /\ ~ perm[p].expired
    BY <1>3
  <2> QED  BY <2>1 DEF Sealed, Holds, Granted
<1>4. \A u \in Users : (~ Holds(u, Manage))'
  BY <1>3 DEF Holds, Granted
<1> QED  BY <1>1, <1>2, <1>4 DEF Sealed, At

\* A resource that has lost its last manager, by revocation or by expiry, stays
\* without one, and no permission on it is granted any more.
THEOREM Sealing == Spec => SealedForever
<1> DEFINE Stays == Sealed' /\ {p \in Ids : perm[p].state = "granted"}' \subseteq Granted
<1>1. ASSUME TypeOK, TypeOK', [Next]_vars, Sealed PROVE Stays
  <2>1. ASSUME NEW c \in Calls, NEW u \in Users, Grant(c, u) PROVE FALSE
    BY <1>1, <2>1 DEF Grant, Sealed
  <2>2. ASSUME NEW c \in Calls, Insert(c) PROVE FALSE
    BY <1>1, <2>2 DEF Insert, Sealed
  <2>3. CASE UNCHANGED vars
    BY <1>1, <2>3, StaysSealed DEF vars
  <2>4. ASSUME NEW c \in Calls, NEW u \in Users, GrantForbidden(c, u) PROVE Stays
    BY <1>1, <2>4, StaysSealed DEF GrantForbidden, TypeOK
  <2>5. ASSUME NEW c \in Calls, NEW u \in Users, NEW p \in Ids, Revoke(c, u, p) PROVE Stays
    BY <1>1, <2>5, StaysSealed DEF Revoke, TypeOK
  <2>6. ASSUME NEW c \in Calls, MayRevoke(c) PROVE Stays
    <3>1. UNCHANGED perm
      BY <2>6 DEF MayRevoke
    <3>2. \/ call' = [call EXCEPT ![c].pc = "delete"]
          \/ call' = [call EXCEPT ![c] = [@ EXCEPT !.pc = "done", !.reply = "err"]]
      BY <2>6 DEF MayRevoke, Reply
    <3>3. \A d \in Calls : call'[d].pc = "insert" => call[d].pc = "insert"
      BY <1>1, <3>2 DEF TypeOK, Call
    <3> QED  BY <1>1, <3>1, <3>3, StaysSealed
  <2>7. ASSUME NEW c \in Calls, Delete(c) PROVE Stays
    <3>0. \/ call' = [call EXCEPT ![c] = [@ EXCEPT !.pc = "done", !.reply = "ok"]]
          \/ call' = [call EXCEPT ![c] = [@ EXCEPT !.pc = "done", !.reply = "err"]]
      BY <2>7 DEF Delete, Reply
    <3>1. \A d \in Calls : call'[d].pc = "insert" => call[d].pc = "insert"
      BY <1>1, <3>0 DEF TypeOK, Call
    <3>2. \A p \in Ids : perm'[p].state = "granted" => perm'[p] = perm[p]
      <4>1. perm' = perm \/ perm' = [perm EXCEPT ![call[c].id].state = "revoked"]
        BY <2>7 DEF Delete
      <4>2. perm \in [Ids -> Row]
        BY <1>1 DEF TypeOK
      <4>3. \A p \in Ids : perm'[p] = perm[p] \/ perm'[p].state = "revoked"
        BY <4>1, <4>2 DEF Row
      <4> QED  BY <4>3
    <3> QED  BY <1>1, <3>1, <3>2, StaysSealed
  <2>8. ASSUME NEW p \in Ids, Expire(p) PROVE Stays
    <3>1. perm[p] \in Row /\ perm' = [perm EXCEPT ![p].expired = TRUE] /\ UNCHANGED call
      BY <1>1, <2>8 DEF Expire, TypeOK
    <3>2. \A q \in Ids : /\ perm'[q].state = perm[q].state /\ perm'[q].user = perm[q].user
                          /\ perm'[q].action = perm[q].action
                          /\ (perm[q].expired => perm'[q].expired)
      BY <1>1, <3>1 DEF TypeOK, Row
    <3> QED  BY <1>1, <3>1, <3>2, StaysSealed
  <2> QED  BY <1>1, <2>1, <2>2, <2>3, <2>4, <2>5, <2>6, <2>7, <2>8 DEF Next
<1>2. TypeOK /\ TypeOK' /\ [Next]_vars => [Sealed => Stays]_vars
  BY <1>1
<1> QED  BY TypeCorrect, <1>2, PTL DEF Spec, SealedForever
=============================================================================
