--------------------------- MODULE SessionsProofs ---------------------------
(***************************************************************************)
(* That sessions end, that revoked and rotated tokens stay dead, what a    *)
(* revocation of all tokens closes, and what a ban or a demotion is worth, *)
(* for every number of calls, every clock and all lives of tokens.         *)
(***************************************************************************)
EXTENDS Sessions, TLAPS

\* The calls that write the users row, and those that revoke all tokens.
Savers    == {"password", "profile", "admin"}
RevokeOps == {"logoutall", "password"}

\* What each place in the code says of a call that is there.
InOrder(x) ==
  /\ x.pc = "idle" <=> x.op = "none"
  /\ x.pc = "done" <=> x.reply # "pending"
  /\ x.pc = "idle" => x.before = {} /\ x.during = {}
  /\ x.op \in RevokeOps /\ x.pc # "done" => x.before = {}
  /\ x.pc = "create" => x.op = "register"
  /\ x.pc = "generate" => x.op = "login"
  /\ x.pc \in {"loaduser", "rotate"} => x.op = "refresh"
  /\ x.pc = "store" => x.op \in {"login", "refresh"}
  /\ x.pc = "saveuser" => x.op \in Savers
  /\ x.pc = "revokeall" => x.op \in RevokeOps
  /\ x.pc = "saveuser" => x.copy.state = "live"
  /\ x.rotated => x.op = "refresh" /\ x.pc \in {"store", "done"}
  /\ x.pc \in {"idle", "generate", "loaduser", "rotate"} => x.new.role = "viewer"

CallsInOrder == \A c \in Calls : InOrder(call[c])

\* Once the row is there it never becomes a row that was never inserted.
AccountIsThere == \A c \in Calls : call[c].op \in Savers => user.state # "none"

\* The rows, and the copies of rows that refreshes in progress hold, expire
\* RowTTL after the login they descend from.
Bounded(r) == r.expires = r.root.at + RowTTL

RowsBounded ==
  /\ \A t \in Tokens : row[t].state # "none" => Bounded(row[t])
  /\ \A c \in Calls : Refreshing(c) => Bounded(call[c].stored)

\* A refresh presents a token that has a row, revoked once it was rotated.
TokensHaveRows ==
  \A c \in Calls : /\ call[c].op = "refresh" => row[call[c].token].state # "none"
                   /\ call[c].rotated => row[call[c].token].state = "revoked"

\* A call that had started and was not running had been answered.
DuringCoversRunning ==
  \A p, c \in Calls : call[p].op \in Savers \cup RevokeOps /\ c \in call[p].before \ call[p].during
    => call[c].reply # "pending"

\* A refresh that began after a revocation of all tokens read a row that
\* does not lead through calls of before, unless one was running then.
LaterCopiesClosed ==
  \A p, c \in Calls :
    /\ call[p].op \in RevokeOps /\ Refreshing(c) /\ c \notin call[p].before
    /\ call[c].stored.path \cap call[p].before # {}
    => call[c].stored.path \cap call[p].during # {}

\* The users row has since been saved by another admin call, or by a call
\* that was running when b saved it.
Undone(b) == \E s \in Calls : SavedAfter(s, b) /\ (call[s].op = "admin" \/ s \in call[b].during)

AdminDone(b) == call[b].op = "admin" /\ call[b].reply = "ok"
Same(u, v)   == u.status = v.status /\ u.role = v.role

\* Calls that will still use the users row they have read.
HoldsCopy(c) == \/ call[c].op \in {"password", "profile"} /\ call[c].pc = "saveuser"
                \/ call[c].pc \in {"generate", "rotate"}

\* Until it is undone, what an admin saved is in the row, and in every copy
\* that was read since.
UpdatesKept ==
  \A b \in Calls : AdminDone(b) => \/ Undone(b)
    \/ /\ Same(user, call[b].copy)
       /\ \A c \in Calls \ call[b].before : HoldsCopy(c) => Same(call[c].copy, call[b].copy)

\* A login or refresh that was running when d was saved has an admin's token.
Overtaken(d) == \E g \in call[d].during : call[g].op \in {"login", "refresh"} /\ call[g].new.role = "admin"

\* The tokens that clients were given, or are about to be given.
Made(t) == t \in issued \/ \E c \in Calls : call[c].pc = "store" /\ call[c].new = t

\* Tokens come from the past; those of an admin that were made after a demotion
\* are explained by it.
TokensExplained ==
  \A t \in Tokens : Made(t) =>
    /\ t.at <= now
    /\ \A d \in Calls : /\ AdminDone(d) /\ call[d].copy.role = "viewer"
                        /\ t.role = "admin" /\ t.at > call[d].at
         => Undone(d) \/ Overtaken(d)

SessionsInv ==
  /\ TypeOK /\ CallsInOrder /\ AccountIsThere /\ RowsBounded /\ TokensHaveRows
  /\ RotatedTokenIsDead /\ DuringCoversRunning /\ RevokeAllClosesSessions /\ LaterCopiesClosed
  /\ UpdatesKept /\ TokensExplained

-----------------------------------------------------------------------------
(* What a step of a call changes *)

\* The record x of the call becomes y.
Works(x, y) ==
  /\ InOrder(y) /\ x.pc # "done" /\ y.pc # "idle"
  /\ x.pc # "idle" => y.op = x.op /\ y.token = x.token /\ y.stored = x.stored
  /\ x.pc = "idle" /\ y.op = "refresh" => y.stored = row[y.token] /\ row[y.token].state = "valid"
  /\ y.pc \in {"generate", "rotate"} \/ (y.pc = "saveuser" /\ y.op # "admin") => y.copy = user
  /\ x.pc \in {"saveuser", "revokeall"} => y.pc \in {"revokeall", "done"}
  /\ y.rotated # x.rotated => x.pc = "rotate" /\ y.before = Started
  /\ \/ y.before = x.before /\ y.during = x.during
     \/ x.pc = "rotate" /\ y.before = Started
     \/ x.pc \in {"saveuser", "revokeall"} /\ y.before = Started /\ y.during = Running
  /\ \/ y.new = x.new /\ y.pc # "store"
     \/ x.pc \in {"generate", "rotate"} /\ y.new = [at |-> now, role |-> x.copy.role]
  /\ y.op = "admin" /\ y.reply = "ok" => y.at = now /\ y.before = Started /\ y.during = Running

CallEffect(c) ==
  /\ \A d \in Calls \ {c} : call'[d] = call[d]
  /\ Works(call[c], call'[c])

\* Rows are revoked, or inserted where there was none; a rotation revokes the
\* token, and a revocation that is recorded leaves no valid row.
RowEffect(c) ==
  /\ \A t \in Tokens :
       \/ row'[t] = row[t]
       \/ row[t].state # "none" /\ row'[t] = [row[t] EXCEPT !.state = "revoked"]
       \/ call[c].pc = "store" /\ t = call[c].new /\ row[t].state = "none" /\ row'[t] = NewRow(c)
  /\ call'[c].rotated /\ ~ call[c].rotated /\ row[call[c].token].state # "none"
       => row'[call[c].token].state = "revoked"
  /\ call[c].op \in RevokeOps /\ call'[c].before # call[c].before
       => \A t \in Tokens : row'[t].state # "valid"

\* The users row keeps status and role but for the Save of a copy, and for an
\* insert where there was none.
UserEffect(c) ==
  /\ \/ user.state # "none" /\ user'.state # "none" /\ Same(user', user)
     \/ user.state # "none" /\ user'.state # "none" /\ call[c].pc = "saveuser" /\ Same(user', call[c].copy)
     \/ user.state = "none"
  /\ AdminDone(c)' => Same(user', call'[c].copy)
  /\ call'[c].op \in Savers => user'.state # "none"

IssueEffect(c) ==
  issued' \subseteq issued \cup {[at |-> now, role |-> "viewer"]} \cup
                    (IF call[c].pc = "store" THEN {call[c].new} ELSE {})

Effect(c) ==
  /\ TypeOK' /\ now' = now
  /\ CallEffect(c) /\ RowEffect(c) /\ UserEffect(c) /\ IssueEffect(c)

LEMMA EffectOfCall ==
  ASSUME call \in [Calls -> Call], NEW c \in Calls, NEW new \in Call,
         call' = [call EXCEPT ![c] = new], Works(call[c], new)
  PROVE  call' \in [Calls -> Call] /\ call'[c] = new /\ CallEffect(c)
<1>1. call' \in [Calls -> Call] /\ call'[c] = new /\ \A d \in Calls \ {c} : call'[d] = call[d]
  OBVIOUS
<1> QED  BY <1>1 DEF CallEffect

\* What a step may rely on.
LEMMA InCall ==
  ASSUME SessionsInv, NEW c \in Calls
  PROVE  /\ call \in [Calls -> Call] /\ call[c] \in Call /\ InOrder(call[c])
         /\ now \in 0 .. MaxTime /\ user \in User /\ row \in [Tokens -> Row] /\ issued \subseteq Tokens
         /\ Started \subseteq Calls /\ Running \subseteq Calls /\ NoToken \in Tokens
BY SessionsAssumption DEF SessionsInv, TypeOK, CallsInOrder, Started, Running, NoToken, Tokens, Roles

LEMMA SameRows ==
  ASSUME NEW c \in Calls, UNCHANGED row, call'[c].rotated = call[c].rotated,
         call[c].op \in RevokeOps => call'[c].before = call[c].before
  PROVE  RowEffect(c)
BY DEF RowEffect

LEMMA SameUser ==
  ASSUME NEW c \in Calls, UNCHANGED user, AccountIsThere,
         call'[c].op # "admin" \/ call'[c].reply # "ok",
         \/ call[c].pc # "idle" /\ call'[c].op = call[c].op
         \/ call'[c].op \notin Savers
         \/ user.state # "none"
  PROVE  UserEffect(c)
BY DEF UserEffect, AccountIsThere, Same, AdminDone

\* A step that changes nothing but the record of its call.
LEMMA LocalStep ==
  ASSUME SessionsInv, NEW c \in Calls, NEW new \in Call, UNCHANGED <<now, user, row, issued>>,
         call' = [call EXCEPT ![c] = new], Works(call[c], new), new.rotated = call[c].rotated,
         call[c].op \in RevokeOps => new.before = call[c].before,
         new.op # "admin" \/ new.reply # "ok",
         call[c].pc = "idle" /\ new.op \in Savers => user.state # "none"
  PROVE  Effect(c)
<1>1. call \in [Calls -> Call]
  BY InCall
<1>2. call' \in [Calls -> Call] /\ call'[c] = new /\ CallEffect(c)
  BY <1>1, EffectOfCall
<1>3. TypeOK'
  BY <1>2 DEF SessionsInv, TypeOK
<1>4. RowEffect(c)
  BY <1>2, SameRows
<1>5. UserEffect(c)
  <2>1. AccountIsThere /\ (call[c].pc # "idle" => new.op = call[c].op)
    BY DEF SessionsInv, Works
  <2> QED  BY <1>2, <2>1, SameUser
<1>6. IssueEffect(c)
  BY DEF IssueEffect
<1> QED  BY <1>2, <1>3, <1>4, <1>5, <1>6 DEF Effect

\* A call that reads the account or a row, and starts.
LEMMA StartStep ==
  ASSUME SessionsInv, NEW c \in Calls, NEW op \in Ops, NEW step \in Steps, NEW t \in Tokens,
         Start(c, op, step, t), UNCHANGED <<now, user, row, issued>>,
         <<op, step>> \in {<<"register", "create">>, <<"login", "generate">>, <<"refresh", "loaduser">>,
                           <<"logoutall", "revokeall">>, <<"password", "saveuser">>, <<"profile", "saveuser">>},
         op = "refresh" => row[t].state = "valid",
         op \in Savers => user.state = "live"
  PROVE  Effect(c)
<1> DEFINE new == [call[c] EXCEPT !.op = op, !.pc = step, !.copy = user, !.token = t, !.stored = row[t]]
<1>1. /\ call \in [Calls -> Call] /\ call[c] \in Call /\ InOrder(call[c]) /\ user \in User
      /\ row[t] \in Row /\ op \in AllOps
  BY InCall, SessionsAssumption
<1>2. call[c].pc = "idle" /\ call[c].reply = "pending" /\ call' = [call EXCEPT ![c] = new]
  BY DEF Start, At
<1>3. /\ new \in Call /\ new.op = op /\ new.pc = step /\ new.copy = user /\ new.token = t /\ new.stored = row[t]
      /\ new.rotated = call[c].rotated /\ new.before = call[c].before /\ new.during = call[c].during
      /\ new.new = call[c].new /\ new.reply = "pending"
  BY <1>1, <1>2 DEF Call
<1>0. InOrder(new)
  BY <1>1, <1>2, <1>3 DEF InOrder, Savers, RevokeOps
<1>4. Works(call[c], new)
  BY <1>0, <1>1, <1>2, <1>3 DEF Works
<1> QED  BY <1>2, <1>3, <1>4, LocalStep

LEMMA StartsStep ==
  ASSUME SessionsInv, NEW c \in Calls,
         \/ Register(c) \/ LogoutAll(c) \/ UpdateProfile(c)
         \/ \E p \in Passwords : Login(c, p) \/ ChangePassword(c, p)
         \/ \E t \in issued : Refresh(c, t)
  PROVE  Effect(c)
<1>1. NoToken \in Tokens /\ issued \subseteq Tokens
  BY InCall
<1>2. {"create", "generate", "loaduser", "revokeall", "saveuser"} \subseteq Steps
  BY DEF Steps
<1>3. CASE Register(c)
  BY <1>1, <1>2, <1>3, StartStep DEF Register, Start, Savers
<1>4. CASE LogoutAll(c)
  BY <1>1, <1>2, <1>4, StartStep DEF LogoutAll, Start, Savers
<1>5. CASE UpdateProfile(c)
  BY <1>1, <1>2, <1>5, StartStep DEF UpdateProfile, Start, Savers
<1>6. CASE \E p \in Passwords : Login(c, p)
  <2>1. Start(c, "login", "generate", NoToken) /\ UNCHANGED <<now, user, row, issued>>
    BY <1>6 DEF Login
  <2>2. "login" \in Ops
    BY <2>1 DEF Start
  <2> QED  BY <1>1, <1>2, <2>1, <2>2, StartStep DEF Savers
<1>7. CASE \E p \in Passwords : ChangePassword(c, p)
  <2>1. /\ Start(c, "password", "saveuser", NoToken) /\ UNCHANGED <<now, user, row, issued>>
        /\ user.state = "live"
    BY <1>7 DEF ChangePassword
  <2>2. "password" \in Ops
    BY <2>1 DEF Start
  <2> QED  BY <1>1, <1>2, <2>1, <2>2, StartStep
<1>8. CASE \E t \in issued : Refresh(c, t)
  <2>1. PICK t \in issued : /\ Start(c, "refresh", "loaduser", t) /\ row[t].state = "valid"
                           /\ UNCHANGED <<now, user, row, issued>>
    BY <1>8 DEF Refresh, GetRefreshToken
  <2>2. "refresh" \in Ops /\ t \in Tokens
    BY <1>1, <2>1 DEF Start
  <2> QED  BY <1>2, <2>1, <2>2, StartStep DEF Savers
<1> QED  BY <1>3, <1>4, <1>5, <1>6, <1>7, <1>8

LEMMA AdminUpdateStep ==
  ASSUME SessionsInv, NEW c \in Calls, NEW status \in Statuses, NEW role \in Roles,
         AdminUpdate(c, status, role)
  PROVE  Effect(c)
<1> DEFINE copy == [user EXCEPT !.status = status, !.role = role]
           new  == [call[c] EXCEPT !.op = "admin", !.pc = "saveuser", !.copy = copy]
<1>1. /\ call \in [Calls -> Call] /\ call[c] \in Call /\ InOrder(call[c]) /\ user \in User
  BY InCall
<1>2. /\ call[c].pc = "idle" /\ call[c].reply = "pending" /\ call' = [call EXCEPT ![c] = new]
      /\ user.state = "live" /\ UNCHANGED <<now, user, row, issued>>
  BY DEF AdminUpdate, At
<1>3. copy \in User /\ copy.state = "live"
  BY <1>1, <1>2 DEF User
<1>4. /\ new \in Call /\ new.op = "admin" /\ new.pc = "saveuser" /\ new.copy = copy
      /\ new.rotated = call[c].rotated /\ new.before = call[c].before /\ new.during = call[c].during
      /\ new.new = call[c].new /\ new.reply = "pending"
  BY <1>1, <1>2, <1>3 DEF Call, AllOps, Steps
<1>5. InOrder(new)
  BY <1>1, <1>2, <1>3, <1>4 DEF InOrder, Savers, RevokeOps
<1>6. Works(call[c], new)
  BY <1>1, <1>2, <1>4, <1>5 DEF Works
<1> QED  BY <1>1, <1>2, <1>4, <1>6, LocalStep

LEMMA GenerateStep ==
  ASSUME SessionsInv, NEW c \in Calls, Generate(c)
  PROVE  Effect(c)
<1> DEFINE token == [at |-> now, role |-> call[c].copy.role]
           new   == [call[c] EXCEPT !.pc = "store", !.new = token]
<1>1. /\ call \in [Calls -> Call] /\ call[c] \in Call /\ InOrder(call[c]) /\ now \in 0 .. MaxTime
  BY InCall
<1>2. /\ call[c].pc = "generate" /\ call[c].reply = "pending" /\ call' = [call EXCEPT ![c] = new]
      /\ UNCHANGED <<now, user, row, issued>>
  BY DEF Generate, At
<1>3. token \in Tokens
  BY <1>1 DEF Tokens, Call, User
<1>4. /\ new \in Call /\ new.op = call[c].op /\ new.pc = "store" /\ new.new = token
      /\ new.rotated = call[c].rotated /\ new.before = call[c].before /\ new.during = call[c].during
      /\ new.reply = "pending" /\ new.token = call[c].token /\ new.stored = call[c].stored
  BY <1>1, <1>2, <1>3 DEF Call, Steps
<1>5. InOrder(new)
  BY <1>1, <1>2, <1>4 DEF InOrder, Savers, RevokeOps
<1>6. Works(call[c], new)
  BY <1>1, <1>2, <1>4, <1>5 DEF Works
<1> QED  BY <1>1, <1>2, <1>4, <1>6, LocalStep

\* A call that ends with an error, and did no more.
LEMMA RefuseStep ==
  ASSUME SessionsInv, NEW c \in Calls, call[c].pc \notin {"idle", "done"}, Reply(c, "err"),
         UNCHANGED <<now, user, row, issued>>
  PROVE  Effect(c)
<1> DEFINE new == [call[c] EXCEPT !.pc = "done", !.reply = "err"]
<1>1. call \in [Calls -> Call] /\ call[c] \in Call /\ InOrder(call[c])
  BY InCall
<1>2. call' = [call EXCEPT ![c] = new]
  BY DEF Reply
<1>3. /\ new \in Call /\ new.op = call[c].op /\ new.pc = "done" /\ new.new = call[c].new
      /\ new.rotated = call[c].rotated /\ new.before = call[c].before /\ new.during = call[c].during
      /\ new.reply = "err" /\ new.token = call[c].token /\ new.stored = call[c].stored
  BY <1>1 DEF Call, Steps
<1>4. InOrder(new)
  BY <1>1, <1>3 DEF InOrder
<1>5. Works(call[c], new)
  BY <1>1, <1>3, <1>4 DEF Works
<1> QED  BY <1>1, <1>2, <1>3, <1>5, LocalStep

LEMMA LoadUserStep ==
  ASSUME SessionsInv, NEW c \in Calls, LoadUser(c)
  PROVE  Effect(c)
<1> DEFINE new == [call[c] EXCEPT !.pc = "rotate", !.copy = user]
<1>1. /\ call \in [Calls -> Call] /\ call[c] \in Call /\ InOrder(call[c]) /\ user \in User
  BY InCall
<1>2. call[c].pc = "loaduser" /\ call[c].reply = "pending" /\ UNCHANGED <<now, user, row, issued>>
  BY DEF LoadUser, At
<1>3. CASE Reply(c, "err")
  BY <1>2, <1>3, RefuseStep
<1>4. CASE call' = [call EXCEPT ![c] = new]
  <2>1. /\ new \in Call /\ new.op = call[c].op /\ new.pc = "rotate" /\ new.new = call[c].new
        /\ new.rotated = call[c].rotated /\ new.before = call[c].before /\ new.during = call[c].during
        /\ new.reply = "pending" /\ new.token = call[c].token /\ new.stored = call[c].stored
        /\ new.copy = user
    BY <1>1, <1>2 DEF Call, Steps
  <2>2. InOrder(new)
    BY <1>1, <1>2, <2>1 DEF InOrder, Savers, RevokeOps
  <2>3. Works(call[c], new)
    BY <1>1, <1>2, <2>1, <2>2 DEF Works
  <2> QED  BY <1>1, <1>2, <1>4, <2>1, <2>3, LocalStep
<1> QED  BY <1>3, <1>4 DEF LoadUser

\* A call that is answered, with nothing to record.
LEMMA AnswerEffect ==
  ASSUME SessionsInv, NEW c \in Calls, call[c].pc \notin {"idle", "done"}, NEW answer \in {"ok", "err"},
         call[c].op # "admin" \/ answer = "err", Reply(c, answer)
  PROVE  /\ call' \in [Calls -> Call] /\ CallEffect(c)
         /\ call'[c].op = call[c].op /\ call'[c].rotated = call[c].rotated
         /\ call'[c].before = call[c].before /\ call'[c].during = call[c].during
         /\ call'[c].op # "admin" \/ call'[c].reply # "ok"
<1> DEFINE new == [call[c] EXCEPT !.pc = "done", !.reply = answer]
<1>1. call \in [Calls -> Call] /\ call[c] \in Call /\ InOrder(call[c])
  BY InCall
<1>2. call' = [call EXCEPT ![c] = new]
  BY DEF Reply
<1>3. /\ new \in Call /\ new.op = call[c].op /\ new.pc = "done" /\ new.new = call[c].new
      /\ new.rotated = call[c].rotated /\ new.before = call[c].before /\ new.during = call[c].during
      /\ new.reply = answer /\ new.token = call[c].token /\ new.stored = call[c].stored
  BY <1>1 DEF Call, Steps
<1>4. InOrder(new)
  BY <1>1, <1>3 DEF InOrder
<1>5. Works(call[c], new)
  BY <1>1, <1>3, <1>4 DEF Works
<1>6. call' \in [Calls -> Call] /\ call'[c] = new /\ CallEffect(c)
  BY <1>1, <1>2, <1>3, <1>5, EffectOfCall
<1> QED  BY <1>3, <1>6

\* A call that is done with its first step, with nothing to record.
LEMMA AtOnceEffect ==
  ASSUME SessionsInv, NEW c \in Calls, At(c, "idle"), NEW answer \in {"ok", "err"},
         NEW op \in {"createuser", "deleteuser", "logout"},
         call' = [call EXCEPT ![c] = [@ EXCEPT !.op = op, !.pc = "done",
                                               !.reply = answer]]
  PROVE  /\ call' \in [Calls -> Call] /\ CallEffect(c)
         /\ call'[c].op = op /\ call[c].op = "none" /\ call'[c].rotated = call[c].rotated
         /\ call'[c].before = call[c].before /\ call'[c].during = call[c].during
<1> DEFINE new == [call[c] EXCEPT !.op = op, !.pc = "done", !.reply = answer]
<1>1. call \in [Calls -> Call] /\ call[c] \in Call /\ InOrder(call[c])
  BY InCall
<1>2. call' = [call EXCEPT ![c] = new] /\ call[c].pc = "idle"
  BY DEF At
<1>3. /\ new \in Call /\ new.op = op /\ new.pc = "done" /\ new.new = call[c].new
      /\ new.rotated = call[c].rotated /\ new.before = call[c].before /\ new.during = call[c].during
      /\ new.reply = answer /\ new.token = call[c].token /\ new.stored = call[c].stored
  BY <1>1 DEF Call, Steps, AllOps
<1>4. InOrder(new)
  BY <1>1, <1>2, <1>3 DEF InOrder
<1>5. Works(call[c], new)
  BY <1>1, <1>2, <1>3, <1>4 DEF Works
<1>6. call' \in [Calls -> Call] /\ call'[c] = new /\ CallEffect(c)
  BY <1>1, <1>2, <1>3, <1>5, EffectOfCall
<1> QED  BY <1>1, <1>2, <1>3, <1>6 DEF InOrder

LEMMA CreateUserStep ==
  ASSUME SessionsInv, NEW c \in Calls, CreateUser(c)
  PROVE  Effect(c)
<1> DEFINE account == [state |-> "live", status |-> "active", role |-> "viewer", password |-> c]
           token   == [at |-> now, role |-> "viewer"]
<1>1. /\ call[c].pc = "create" /\ UNCHANGED <<now, row>> /\ call[c].op = "register"
      /\ user \in User /\ issued \subseteq Tokens /\ now \in 0 .. MaxTime
  BY InCall DEF CreateUser, At, InOrder
<1>2. CASE user.state # "none"
  BY <1>1, <1>2, RefuseStep DEF CreateUser
<1>3. CASE user.state = "none"
  <2>1. PICK answer \in {"ok", "err"} :
          /\ user' \in {user, account} /\ issued' \in {issued, issued \cup {token}} /\ Reply(c, answer)
    BY <1>3 DEF CreateUser
  <2>2. account \in User /\ token \in Tokens
    BY <1>1 DEF User, Statuses, Roles, Passwords, Tokens
  <2>3. /\ call' \in [Calls -> Call] /\ CallEffect(c) /\ call'[c].op = "register"
        /\ call'[c].rotated = call[c].rotated /\ call'[c].before = call[c].before
    BY <1>1, <2>1, AnswerEffect
  <2>4. TypeOK'
    BY <1>1, <2>1, <2>2, <2>3 DEF SessionsInv, TypeOK
  <2>5. RowEffect(c)
    BY <1>1, <2>3, SameRows
  <2>6. UserEffect(c) /\ IssueEffect(c)
    BY <1>3, <2>1, <2>3 DEF UserEffect, IssueEffect, AdminDone, Savers
  <2> QED  BY <1>1, <2>3, <2>4, <2>5, <2>6 DEF Effect
<1> QED  BY <1>2, <1>3

LEMMA AdminCreateStep ==
  ASSUME SessionsInv, NEW c \in Calls, NEW role \in Roles, AdminCreate(c, role)
  PROVE  Effect(c)
<1> DEFINE account == [state |-> "live", status |-> "active", role |-> role, password |-> "unset"]
<1>1. At(c, "idle") /\ UNCHANGED <<now, row, issued>> /\ user \in User
  BY InCall DEF AdminCreate
<1>2. PICK answer \in {"ok", "err"} :
        /\ user' = user \/ (user.state = "none" /\ user' = account)
        /\ call' = [call EXCEPT ![c] = [@ EXCEPT !.op = "createuser", !.pc = "done",
                                                 !.reply = answer]]
  BY DEF AdminCreate
<1>3. account \in User
  BY DEF User, Statuses
<1>4. /\ call' \in [Calls -> Call] /\ CallEffect(c) /\ call'[c].op = "createuser"
      /\ call'[c].rotated = call[c].rotated /\ call'[c].before = call[c].before
  BY <1>1, <1>2, AtOnceEffect
<1>5. TypeOK'
  BY <1>1, <1>2, <1>3, <1>4 DEF SessionsInv, TypeOK
<1>6. RowEffect(c)
  BY <1>1, <1>4, SameRows
<1>7. UserEffect(c) /\ IssueEffect(c)
  BY <1>1, <1>2, <1>4 DEF UserEffect, IssueEffect, AdminDone, Savers, Same
<1> QED  BY <1>1, <1>4, <1>5, <1>6, <1>7 DEF Effect

LEMMA DeleteUserStep ==
  ASSUME SessionsInv, NEW c \in Calls, DeleteUser(c)
  PROVE  Effect(c)
<1>1. /\ At(c, "idle") /\ UNCHANGED <<now, row, issued>> /\ user \in User /\ user.state = "live"
      /\ user' = [user EXCEPT !.state = "deleted"]
      /\ call' = [call EXCEPT ![c] = [@ EXCEPT !.op = "deleteuser", !.pc = "done",
                                               !.reply = "ok"]]
  BY InCall DEF DeleteUser
<1>2. user' \in User /\ user'.state = "deleted" /\ Same(user', user)
  BY <1>1 DEF User, Same
<1>3. /\ call' \in [Calls -> Call] /\ CallEffect(c) /\ call'[c].op = "deleteuser"
      /\ call'[c].rotated = call[c].rotated /\ call'[c].before = call[c].before
  BY <1>1, AtOnceEffect
<1>4. TypeOK'
  BY <1>1, <1>2, <1>3 DEF SessionsInv, TypeOK
<1>5. RowEffect(c)
  BY <1>1, <1>3, SameRows
<1>6. UserEffect(c) /\ IssueEffect(c)
  BY <1>1, <1>2, <1>3 DEF UserEffect, IssueEffect, AdminDone, Savers
<1> QED  BY <1>1, <1>3, <1>4, <1>5, <1>6 DEF Effect

\* The Save writes the status and role of the copy, or fails.
LEMMA SaveUserStep ==
  ASSUME SessionsInv, NEW c \in Calls, SaveUser(c)
  PROVE  Effect(c)
<1>1. /\ call \in [Calls -> Call] /\ call[c] \in Call /\ InOrder(call[c]) /\ user \in User
      /\ now \in 0 .. MaxTime /\ Started \subseteq Calls /\ Running \subseteq Calls
  BY InCall
<1>2. /\ call[c].pc = "saveuser" /\ call[c].reply = "pending" /\ UNCHANGED <<now, row, issued>>
      /\ call[c].op \in Savers /\ call[c].copy.state = "live" /\ ~ call[c].rotated
  BY <1>1 DEF SaveUser, At, InOrder
<1>3. user.state # "none"
  BY <1>2 DEF SessionsInv, AccountIsThere
<1>4. Saved(c) \in User /\ Saved(c).state = "live" /\ Same(Saved(c), call[c].copy)
  BY <1>1, <1>2 DEF Saved, Call, User, Passwords, Same
<1>5. user' \in User /\ user'.state # "none" /\ (Same(user', user) \/ Same(user', call[c].copy))
  <2>1. user' = user \/ user' = Saved(c)
    BY DEF SaveUser
  <2> QED  BY <1>1, <1>3, <1>4, <2>1 DEF Same
<1>6. /\ call' \in [Calls -> Call] /\ CallEffect(c) /\ call'[c].op = call[c].op
      /\ call'[c].rotated = call[c].rotated
      /\ call'[c].op = "password" => call'[c].before = call[c].before
      /\ AdminDone(c)' => user' = call'[c].copy
  <2>1. CASE Reply(c, "err")
    BY <1>2, <2>1, AnswerEffect DEF AdminDone
  <2>2. CASE call[c].op = "password" /\ Goto(c, "revokeall")
    <3> DEFINE new == [call[c] EXCEPT !.pc = "revokeall"]
    <3>1. call' = [call EXCEPT ![c] = new]
      BY <2>2 DEF Goto
    <3>2. /\ new \in Call /\ new.op = call[c].op /\ new.pc = "revokeall" /\ new.new = call[c].new
          /\ new.rotated = call[c].rotated /\ new.before = call[c].before /\ new.during = call[c].during
          /\ new.reply = "pending" /\ new.token = call[c].token /\ new.stored = call[c].stored
      BY <1>1, <1>2 DEF Call, Steps
    <3>3. InOrder(new)
      BY <1>1, <1>2, <2>2, <3>2 DEF InOrder, RevokeOps
    <3>4. Works(call[c], new)
      BY <1>1, <1>2, <2>2, <3>2, <3>3 DEF Works
    <3> QED  BY <1>1, <2>2, <3>1, <3>2, <3>4, EffectOfCall DEF AdminDone
  <2>3. CASE /\ call[c].op # "password" /\ user' = call[c].copy
             /\ call' = [call EXCEPT ![c] = [@ EXCEPT !.pc = "done", !.reply = "ok",
                                                      !.before = Started,
                                                      !.during = Running, !.at = now]]
    <3> DEFINE new == [call[c] EXCEPT !.pc = "done", !.reply = "ok", !.before = Started,
                                      !.during = Running, !.at = now]
    <3>1. call' = [call EXCEPT ![c] = new]
      BY <2>3
    <3>2. /\ new \in Call /\ new.op = call[c].op /\ new.pc = "done" /\ new.new = call[c].new
          /\ new.rotated = call[c].rotated /\ new.before = Started /\ new.during = Running /\ new.at = now
          /\ new.reply = "ok" /\ new.token = call[c].token /\ new.stored = call[c].stored
          /\ new.copy = call[c].copy
      BY <1>1, <1>2 DEF Call, Steps
    <3>3. InOrder(new)
      BY <1>1, <1>2, <2>3, <3>2 DEF InOrder
    <3>4. Works(call[c], new)
      BY <1>1, <1>2, <2>3, <3>2, <3>3 DEF Works
    <3>5. call' \in [Calls -> Call] /\ call'[c] = new /\ CallEffect(c)
      BY <1>1, <3>1, <3>2, <3>4, EffectOfCall
    <3> QED  BY <2>3, <3>2, <3>5
  <2>4. call[c].op # "password" /\ ~ Reply(c, "err") => user' = call[c].copy
    BY DEF SaveUser, Saved
  <2> QED  BY <2>1, <2>2, <2>3, <2>4 DEF SaveUser
<1>7. TypeOK'
  BY <1>2, <1>5, <1>6 DEF SessionsInv, TypeOK
<1>8. RowEffect(c)
  BY <1>2, <1>6, SameRows DEF Savers, RevokeOps
<1>9. UserEffect(c) /\ IssueEffect(c)
  BY <1>2, <1>3, <1>5, <1>6 DEF UserEffect, IssueEffect, Same
<1> QED  BY <1>2, <1>6, <1>7, <1>8, <1>9 DEF Effect

\* A row that is there becomes a revoked one.
Revoked(t) == [row[t] EXCEPT !.state = "revoked"]

LEMMA LogoutStep ==
  ASSUME SessionsInv, NEW c \in Calls, NEW t \in issued, Logout(c, t)
  PROVE  Effect(c)
<1>1. /\ row \in [Tokens -> Row] /\ t \in Tokens /\ UNCHANGED <<now, user, issued>> /\ At(c, "idle")
      /\ row' = row \/ Revoke(t)
      /\ call' = [call EXCEPT ![c] = [@ EXCEPT !.op = "logout", !.pc = "done",
                                               !.reply = "ok"]]
  BY InCall DEF Logout
<1>2. /\ call' \in [Calls -> Call] /\ CallEffect(c) /\ call'[c].op = "logout" /\ call[c].op = "none"
      /\ call'[c].rotated = call[c].rotated /\ call'[c].before = call[c].before
  BY <1>1, AtOnceEffect
<1>3. /\ row' \in [Tokens -> Row]
      /\ \A x \in Tokens : row'[x] = row[x] \/ (row[x].state # "none" /\ row'[x] = Revoked(x))
  <2>1. CASE row' = row
    BY <1>1, <2>1
  <2>2. CASE Revoke(t)
    <3>1. Revoked(t) \in Row /\ row[t] \in Row /\ [row[t] EXCEPT !.state = row[t].state] = row[t]
      BY <1>1 DEF Revoked, Row
    <3>2. row' = [row EXCEPT ![t] = IF row[t].state = "none" THEN row[t] ELSE Revoked(t)]
      BY <2>2, <3>1 DEF Revoke, Revoked
    <3> QED  BY <1>1, <3>1, <3>2
  <2> QED  BY <1>1, <2>1, <2>2
<1>4. TypeOK'
  BY <1>1, <1>2, <1>3 DEF SessionsInv, TypeOK
<1>5. RowEffect(c)
  BY <1>2, <1>3 DEF RowEffect, Revoked, RevokeOps
<1>6. UserEffect(c) /\ IssueEffect(c)
  BY <1>1, <1>2 DEF UserEffect, IssueEffect, AdminDone, Savers, Same
<1> QED  BY <1>1, <1>2, <1>4, <1>5, <1>6 DEF Effect

LEMMA NewRowType ==
  ASSUME SessionsInv, NEW c \in Calls
  PROVE  NewRow(c) \in Row /\ NewRow(c).state = "valid"
<1>1. call[c] \in Call
  BY InCall
<1>2. call[c].new \in Tokens /\ call[c].new.at \in Nat /\ call[c].stored \in Row /\ RowTTL \in Nat
  BY <1>1, SessionsAssumption DEF Call, Tokens
<1>3. CASE call[c].op = "login"
  BY <1>2, <1>3 DEF NewRow, Row
<1>4. CASE call[c].op # "login"
  BY <1>2, <1>4 DEF NewRow, Row
<1> QED  BY <1>3, <1>4

LEMMA StoreTokenStep ==
  ASSUME SessionsInv, NEW c \in Calls, StoreToken(c)
  PROVE  Effect(c)
<1>1. /\ call[c] \in Call /\ row \in [Tokens -> Row] /\ issued \subseteq Tokens /\ call[c].pc = "store"
      /\ UNCHANGED <<now, user>> /\ call[c].op \in {"login", "refresh"}
  BY InCall DEF StoreToken, At, InOrder
<1>2. CASE row[call[c].new].state # "none" /\ Reply(c, "err") /\ UNCHANGED <<row, issued>>
  BY <1>1, <1>2, RefuseStep
<1>3. CASE row[call[c].new].state = "none"
  <2>1. PICK answer \in {"ok", "err"} :
          /\ row' = row \/ row' = [row EXCEPT ![call[c].new] = NewRow(c)]
          /\ issued' = issued \/ issued' = issued \cup {call[c].new}
          /\ Reply(c, answer)
    BY <1>3 DEF StoreToken
  <2>2. call[c].new \in Tokens /\ NewRow(c) \in Row
    BY <1>1, NewRowType DEF Call
  <2>3. /\ call' \in [Calls -> Call] /\ CallEffect(c) /\ call'[c].op = call[c].op
        /\ call'[c].rotated = call[c].rotated /\ call'[c].before = call[c].before
    BY <1>1, <2>1, AnswerEffect
  <2>4. TypeOK'
    BY <1>1, <2>1, <2>2, <2>3 DEF SessionsInv, TypeOK
  <2>5. RowEffect(c)
    <3>1. \A t \in Tokens : row'[t] = row[t] \/ (t = call[c].new /\ row'[t] = NewRow(c))
      BY <1>1, <2>1, <2>2
    <3> QED  BY <1>1, <1>3, <2>3, <3>1 DEF RowEffect
  <2>6. UserEffect(c) /\ IssueEffect(c)
    BY <1>1, <2>1, <2>3 DEF UserEffect, IssueEffect, AdminDone, Savers, Same
  <2> QED  BY <1>1, <2>3, <2>4, <2>5, <2>6 DEF Effect
<1> QED  BY <1>2, <1>3 DEF StoreToken

LEMMA RotateStep ==
  ASSUME SessionsInv, NEW c \in Calls, Rotate(c)
  PROVE  Effect(c)
<1> DEFINE t     == call[c].token
           token == [at |-> now, role |-> call[c].copy.role]
           new(r) == [call[c] EXCEPT !.pc = "store", !.new = token, !.rotated = r, !.before = Started]
<1>1. /\ call \in [Calls -> Call] /\ call[c] \in Call /\ InOrder(call[c]) /\ row \in [Tokens -> Row]
      /\ now \in 0 .. MaxTime /\ Started \subseteq Calls
  BY InCall
<1>2. /\ call[c].pc = "rotate" /\ call[c].reply = "pending" /\ UNCHANGED <<now, user, issued>>
      /\ call[c].op = "refresh" /\ ~ call[c].rotated
  BY <1>1 DEF Rotate, At, InOrder
<1>3. t \in Tokens /\ token \in Tokens /\ row[t].state # "none"
  BY <1>1, <1>2 DEF Tokens, Call, User, SessionsInv, TokensHaveRows
<1>4. PICK r \in BOOLEAN : /\ call' = [call EXCEPT ![c] = new(r)]
                           /\ (~ r /\ row' = row) \/ (r /\ Revoke(t))
  BY DEF Rotate
<1>5. /\ new(r) \in Call /\ new(r).op = call[c].op /\ new(r).pc = "store" /\ new(r).new = token
      /\ new(r).rotated = r /\ new(r).before = Started /\ new(r).during = call[c].during
      /\ new(r).reply = "pending" /\ new(r).token = t /\ new(r).stored = call[c].stored
  BY <1>1, <1>2, <1>3 DEF Call, Steps
<1>6. InOrder(new(r))
  BY <1>1, <1>2, <1>5 DEF InOrder, Savers, RevokeOps
<1>7. Works(call[c], new(r))
  BY <1>1, <1>2, <1>5, <1>6 DEF Works
<1>8. call' \in [Calls -> Call] /\ call'[c] = new(r) /\ CallEffect(c)
  BY <1>1, <1>4, <1>5, <1>7, EffectOfCall
<1>9. /\ row' \in [Tokens -> Row] /\ (r => row'[t].state = "revoked")
      /\ \A x \in Tokens : row'[x] = row[x] \/ (row[x].state # "none" /\ row'[x] = Revoked(x))
  <2>1. CASE ~ r /\ row' = row
    BY <1>1, <2>1
  <2>2. CASE r /\ Revoke(t)
    <3>1. Revoked(t) \in Row /\ Revoked(t).state = "revoked"
      BY <1>1, <1>3 DEF Revoked, Row
    <3>2. row' = [row EXCEPT ![t] = Revoked(t)]
      BY <1>3, <2>2 DEF Revoke, Revoked
    <3> QED  BY <1>1, <1>3, <3>1, <3>2
  <2> QED  BY <1>4, <2>1, <2>2
<1>10. TypeOK'
  BY <1>2, <1>8, <1>9 DEF SessionsInv, TypeOK
<1>11. RowEffect(c)
  BY <1>2, <1>5, <1>8, <1>9 DEF RowEffect, Revoked, RevokeOps
<1>12. UserEffect(c) /\ IssueEffect(c)
  BY <1>2, <1>5, <1>8 DEF UserEffect, IssueEffect, AdminDone, Savers, Same
<1> QED  BY <1>2, <1>8, <1>10, <1>11, <1>12 DEF Effect

LEMMA RevokeAllStep ==
  ASSUME SessionsInv, NEW c \in Calls, RevokeAll(c)
  PROVE  Effect(c)
<1> DEFINE all == [t \in Tokens |-> IF row[t].state = "valid" THEN Revoked(t) ELSE row[t]]
           new == [call[c] EXCEPT !.pc = "done", !.reply = "ok", !.before = Started, !.during = Running]
<1>1. /\ call \in [Calls -> Call] /\ call[c] \in Call /\ InOrder(call[c]) /\ row \in [Tokens -> Row]
      /\ Started \subseteq Calls /\ Running \subseteq Calls
  BY InCall
<1>2. /\ call[c].pc = "revokeall" /\ call[c].reply = "pending" /\ UNCHANGED <<now, user, issued>>
      /\ call[c].op \in RevokeOps /\ call[c].op # "admin"
  BY <1>1 DEF RevokeAll, At, InOrder, RevokeOps
<1>3. /\ row' = row \/ row' = all
      /\ \/ row' = all /\ call' = [call EXCEPT ![c] = new]
         \/ \E answer \in {"ok", "err"} : Reply(c, answer)
  BY DEF RevokeAll, Revoked
<1>4. \A t \in Tokens : Revoked(t) \in Row /\ Revoked(t).state = "revoked" /\ row[t] \in Row
  BY <1>1 DEF Revoked, Row
<1>5. /\ row' \in [Tokens -> Row]
      /\ \A t \in Tokens : row'[t] = row[t] \/ (row[t].state # "none" /\ row'[t] = Revoked(t))
      /\ row' = all => \A t \in Tokens : row'[t].state # "valid"
  BY <1>1, <1>3, <1>4
<1>6. /\ call' \in [Calls -> Call] /\ CallEffect(c) /\ call'[c].op = call[c].op
      /\ call'[c].rotated = call[c].rotated /\ (call'[c].before = call[c].before \/ row' = all)
  <2>1. CASE row' = all /\ call' = [call EXCEPT ![c] = new]
    <3>1. /\ new \in Call /\ new.op = call[c].op /\ new.pc = "done" /\ new.new = call[c].new
          /\ new.rotated = call[c].rotated /\ new.before = Started /\ new.during = Running
          /\ new.reply = "ok" /\ new.token = call[c].token /\ new.stored = call[c].stored
      BY <1>1, <1>2 DEF Call, Steps
    <3>2. InOrder(new)
      BY <1>1, <1>2, <3>1 DEF InOrder
    <3>3. Works(call[c], new)
      BY <1>1, <1>2, <3>1, <3>2 DEF Works
    <3>4. call' \in [Calls -> Call] /\ call'[c] = new /\ CallEffect(c)
      BY <1>1, <2>1, <3>1, <3>3, EffectOfCall
    <3> QED  BY <2>1, <3>1, <3>4
  <2>2. CASE \E answer \in {"ok", "err"} : Reply(c, answer)
    BY <1>2, <2>2, AnswerEffect
  <2> QED  BY <1>3, <2>1, <2>2
<1>7. TypeOK'
  BY <1>2, <1>5, <1>6 DEF SessionsInv, TypeOK
<1>8. RowEffect(c)
  BY <1>2, <1>5, <1>6 DEF RowEffect, Revoked
<1>9. UserEffect(c) /\ IssueEffect(c)
  <2>1. AccountIsThere
    BY DEF SessionsInv
  <2> QED  BY <1>2, <1>6, <2>1, SameUser DEF IssueEffect
<1> QED  BY <1>2, <1>6, <1>7, <1>8, <1>9 DEF Effect

\* Every step of a call has that effect.
LEMMA StepEffect ==
  ASSUME SessionsInv, NEW c \in Calls, Request(c) \/ Continue(c)
  PROVE  Effect(c)
BY StartsStep, AdminUpdateStep, AdminCreateStep, DeleteUserStep, LogoutStep, CreateUserStep, GenerateStep,
   StoreTokenStep, LoadUserStep, RotateStep, RevokeAllStep, SaveUserStep DEF Request, Continue

-----------------------------------------------------------------------------
(* The invariant *)

LEMMA InitSessions == Init => SessionsInv
<1> SUFFICES ASSUME Init PROVE SessionsInv
  OBVIOUS
<1>1. NoToken \in Tokens /\ NoUser \in User /\ NoRow \in Row /\ 0 \in 0 .. MaxTime
  BY SessionsAssumption DEF NoToken, Tokens, NoUser, User, NoRow, Row, Statuses, Roles, Passwords
<1>2. /\ TypeOK
  BY <1>1 DEF Init, TypeOK, Call, Steps, User, NoUser
<1>3. \A c \in Calls : /\ call[c].op = "none" /\ call[c].pc = "idle" /\ call[c].reply = "pending"
                       /\ call[c].before = {} /\ call[c].during = {} /\ ~ call[c].rotated
                       /\ call[c].new.role = "viewer"
  BY DEF Init, NoToken
<1>4. CallsInOrder
  BY <1>3 DEF CallsInOrder, InOrder
<1>5. AccountIsThere /\ DuringCoversRunning /\ LaterCopiesClosed /\ UpdatesKept /\ RotatedTokenIsDead
  BY <1>3 DEF AccountIsThere, DuringCoversRunning, LaterCopiesClosed, UpdatesKept, RotatedTokenIsDead,
    Savers, RevokeOps, AdminDone
<1>6. RowsBounded /\ TokensHaveRows /\ RevokeAllClosesSessions
  BY <1>3 DEF Init, NoRow, RowsBounded, TokensHaveRows, RevokeAllClosesSessions, Refreshing
<1>7. TokensExplained
  BY <1>3 DEF Init, TokensExplained, Made
<1> QED  BY <1>2, <1>4, <1>5, <1>6, <1>7 DEF SessionsInv

\* What the step of c leaves of the other calls, and of those that are done.
LEMMA Others ==
  ASSUME SessionsInv, NEW c \in Calls, Effect(c)
  PROVE  /\ \A d \in Calls \ {c} : call'[d] = call[d]
         /\ \A d \in Calls : call[d].reply # "pending" => call'[d] = call[d]
         /\ c \in Calls \ {d \in Calls : call[d].reply # "pending"}
         /\ call[c].pc # "idle" => c \in Started /\ c \in Running
         /\ CallsInOrder /\ CallsInOrder' /\ call[c] \in Call /\ call'[c] \in Call
<1>1. /\ \A d \in Calls \ {c} : call'[d] = call[d]
      /\ call[c].pc # "done" /\ InOrder(call'[c])
  BY DEF Effect, CallEffect, Works
<1>2. CallsInOrder /\ call[c] \in Call /\ call'[c] \in Call
  BY DEF SessionsInv, Effect, TypeOK
<1>3. call[c].reply = "pending"
  BY <1>1, <1>2 DEF CallsInOrder, InOrder
<1>4. CallsInOrder'
  BY <1>1, <1>2 DEF CallsInOrder
<1> QED  BY <1>1, <1>2, <1>3, <1>4 DEF Started, Running

LEMMA AccountStep ==
  ASSUME SessionsInv, NEW c \in Calls, Effect(c)
  PROVE  AccountIsThere'
<1> SUFFICES ASSUME NEW d \in Calls, call'[d].op \in Savers PROVE user'.state # "none"
  BY DEF AccountIsThere
<1>1. CASE d = c
  BY <1>1 DEF Effect, UserEffect
<1>2. CASE d # c
  <2>1. user.state # "none"
    BY <1>2, Others DEF SessionsInv, AccountIsThere
  <2> QED  BY <2>1 DEF Effect, UserEffect
<1> QED  BY <1>1, <1>2

\* A refresh in progress was one before, or has just read a valid row.
LEMMA StoredStep ==
  ASSUME SessionsInv, NEW c \in Calls, Effect(c), NEW d \in Calls, Refreshing(d)'
  PROVE  \/ /\ Refreshing(d) /\ call'[d].stored = call[d].stored /\ call'[d].token = call[d].token
         \/ /\ d = c /\ call[c].pc = "idle" /\ call'[c].stored = row[call'[c].token]
            /\ row[call'[c].token].state = "valid" /\ call'[c].token \in Tokens
<1>1. call'[d].op = "refresh" /\ call'[d].pc \in {"loaduser", "rotate", "store"}
  BY DEF Refreshing
<1>2. CASE d # c
  BY <1>1, <1>2, Others DEF Refreshing
<1>3. CASE d = c
  <2>1. Works(call[c], call'[c]) /\ call'[c] \in Call /\ call[c] \in Call /\ InOrder(call[c])
    BY Others DEF Effect, CallEffect, CallsInOrder
  <2>2. call[c].pc # "idle" => call[c].pc \in {"loaduser", "rotate", "store"}
    BY <1>1, <1>3, <2>1 DEF Works, InOrder, Call, Steps, Savers, RevokeOps
  <2> QED  BY <1>1, <1>3, <2>1, <2>2 DEF Works, Refreshing, Call
<1> QED  BY <1>2, <1>3

LEMMA BoundedStep ==
  ASSUME SessionsInv, NEW c \in Calls, Effect(c)
  PROVE  RowsBounded'
<1>1. RowsBounded /\ call[c] \in Call /\ row \in [Tokens -> Row] /\ InOrder(call[c])
  BY InCall DEF SessionsInv
<1>2. \A d \in Calls : Refreshing(d)' => Bounded(call'[d].stored)
  BY <1>1, StoredStep DEF RowsBounded
<1>3. ASSUME NEW t \in Tokens, row'[t].state # "none" PROVE Bounded(row'[t])
  <2>1. CASE row'[t] = row[t]
    BY <1>1, <1>3, <2>1 DEF RowsBounded
  <2>2. CASE row[t].state # "none" /\ row'[t] = [row[t] EXCEPT !.state = "revoked"]
    <3>1. row[t] \in Row /\ Bounded(row[t])
      BY <1>1, <2>2 DEF RowsBounded
    <3> QED  BY <2>2, <3>1 DEF Bounded, Row
  <2>3. CASE call[c].pc = "store" /\ t = call[c].new /\ row'[t] = NewRow(c)
    <3>1. CASE call[c].op = "login"
      BY <2>3, <3>1 DEF NewRow, Bounded
    <3>2. CASE call[c].op = "refresh"
      <4>1. Bounded(call[c].stored) /\ call[c].stored \in Row
        BY <1>1, <2>3, <3>2 DEF RowsBounded, Refreshing, Call
      <4> QED  BY <2>3, <3>2, <4>1 DEF NewRow, Bounded, Row
    <3> QED  BY <1>1, <2>3, <3>1, <3>2 DEF InOrder
  <2> QED  BY <2>1, <2>2, <2>3 DEF Effect, RowEffect
<1> QED  BY <1>2, <1>3 DEF RowsBounded

\* A revoked row stays as it is, and no row disappears.
LEMMA RowsFinal ==
  ASSUME SessionsInv, NEW c \in Calls, Effect(c), NEW t \in Tokens
  PROVE  /\ row[t].state = "revoked" => row'[t] = row[t]
         /\ row[t].state # "none" => row'[t].state # "none"
<1>1. row[t] \in Row
  BY InCall
<1>2. [row[t] EXCEPT !.state = "revoked"].state = "revoked"
  BY <1>1 DEF Row
<1>3. row[t].state = "revoked" => [row[t] EXCEPT !.state = "revoked"] = row[t]
  BY <1>1 DEF Row
<1> QED  BY <1>2, <1>3 DEF Effect, RowEffect

LEMMA TokensStep ==
  ASSUME SessionsInv, NEW c \in Calls, Effect(c)
  PROVE  TokensHaveRows'
<1> SUFFICES ASSUME NEW d \in Calls
             PROVE  /\ call'[d].op = "refresh" => row'[call'[d].token].state # "none"
                    /\ call'[d].rotated => row'[call'[d].token].state = "revoked"
  BY DEF TokensHaveRows
<1>1. /\ call[d] \in Call /\ call'[d] \in Call /\ InOrder(call'[d]) /\ InOrder(call[d])
      /\ call[d].token \in Tokens /\ call'[d].token \in Tokens
  BY Others, InCall DEF CallsInOrder, Effect, TypeOK, Call
<1>2. /\ call[d].op = "refresh" => row[call[d].token].state # "none"
      /\ call[d].rotated => row[call[d].token].state = "revoked"
  BY DEF SessionsInv, TokensHaveRows
<1>3. CASE d # c
  BY <1>1, <1>2, <1>3, Others, RowsFinal
<1>4. CASE d = c
  <2>1. Works(call[c], call'[c])
    BY DEF Effect, CallEffect
  <2>2. CASE call[c].pc = "idle"
    <3>1. call'[c].op = "refresh" => row[call'[c].token].state # "none"
      BY <2>1, <2>2 DEF Works
    <3>2. ~ call'[c].rotated
      BY <1>1, <1>4, <2>1, <2>2 DEF Works, InOrder
    <3> QED  BY <1>1, <1>4, <3>1, <3>2, RowsFinal
  <2>3. CASE call[c].pc # "idle"
    <3>1. call'[c].op = call[c].op /\ call'[c].token = call[c].token
      BY <2>1, <2>3 DEF Works
    <3>2. call'[c].rotated => call'[c].op = "refresh"
      BY <1>1, <1>4 DEF InOrder
    <3> QED  BY <1>1, <1>2, <1>4, <3>1, <3>2, RowsFinal DEF Effect, RowEffect
  <2> QED  BY <2>2, <2>3
<1> QED  BY <1>3, <1>4

LEMMA RotatedStep ==
  ASSUME SessionsInv, NEW c \in Calls, Effect(c)
  PROVE  RotatedTokenIsDead'
<1> SUFFICES ASSUME NEW p \in Calls, NEW d \in Calls, call'[p].rotated,
                    call'[d].op = "refresh", call'[d].token = call'[p].token
             PROVE  d \in call'[p].before
  BY DEF RotatedTokenIsDead
<1>1. /\ Works(call[c], call'[c]) /\ InOrder(call[c]) /\ InOrder(call'[c])
      /\ call[c] \in Call /\ call'[c] \in Call /\ TokensHaveRows /\ RotatedTokenIsDead
  BY Others DEF Effect, CallEffect, CallsInOrder, SessionsInv
<1>2. CASE call[p].rotated
  <2>1. call[p].pc \in {"store", "done"} /\ call[p].op = "refresh"
    BY <1>2, Others DEF CallsInOrder, InOrder
  <2>2. call'[p].before = call[p].before /\ call'[p].token = call[p].token
    BY <1>1, <2>1, Others DEF Works
  <2>3. row[call[p].token].state = "revoked"
    BY <1>1, <1>2 DEF TokensHaveRows
  <2>4. call[d].op = "refresh" /\ call[d].token = call'[d].token
    BY <1>1, <2>2, <2>3, Others DEF Works, InOrder
  <2> QED  BY <1>1, <1>2, <2>2, <2>4 DEF RotatedTokenIsDead
<1>3. CASE ~ call[p].rotated
  <2>1. p = c /\ call[c].pc = "rotate" /\ call'[c].before = Started
    BY <1>1, <1>3, Others DEF Works
  <2>2. call[d].pc # "idle"
    BY <2>1, Others DEF CallsInOrder, InOrder
  <2> QED  BY <2>1, <2>2 DEF Started
<1> QED  BY <1>2, <1>3

\* A call of the kinds that record whom they overlap has recorded it before, or
\* has nothing to record yet, or does so now.
LEMMA RecordStep ==
  ASSUME SessionsInv, NEW c \in Calls, Effect(c), NEW p \in Calls, call'[p].op \in Savers \cup RevokeOps
  PROVE  \/ call'[p].before = {} /\ call'[p].during = {}
         \/ /\ call[p].op = call'[p].op
            /\ call'[p].before = call[p].before /\ call'[p].during = call[p].during
         \/ /\ p = c /\ call[p].op = call'[p].op
            /\ call'[p].before = Started /\ call'[p].during = Running
<1>1. /\ Works(call[c], call'[c]) /\ InOrder(call[c]) /\ InOrder(call'[c])
  BY Others DEF Effect, CallEffect, CallsInOrder
<1>2. CASE p # c
  BY <1>2, Others
<1>3. CASE p = c
  BY <1>1, <1>3 DEF Works, InOrder, Savers, RevokeOps
<1> QED  BY <1>2, <1>3

LEMMA DuringStep ==
  ASSUME SessionsInv, NEW c \in Calls, Effect(c)
  PROVE  DuringCoversRunning'
<1> SUFFICES ASSUME NEW p \in Calls, NEW d \in Calls, call'[p].op \in Savers \cup RevokeOps,
                    d \in call'[p].before \ call'[p].during
             PROVE  call'[d].reply # "pending"
  BY DEF DuringCoversRunning
<1>1. call[d].reply # "pending"
  BY RecordStep DEF SessionsInv, DuringCoversRunning, Running
<1> QED  BY <1>1, Others

LEMMA LaterStep ==
  ASSUME SessionsInv, NEW c \in Calls, Effect(c)
  PROVE  LaterCopiesClosed'
<1> SUFFICES ASSUME NEW p \in Calls, NEW d \in Calls, call'[p].op \in RevokeOps, Refreshing(d)',
                    d \notin call'[p].before, call'[d].stored.path \cap call'[p].before # {}
             PROVE  call'[d].stored.path \cap call'[p].during # {}
  BY DEF LaterCopiesClosed
<1>1. RevokeAllClosesSessions /\ LaterCopiesClosed /\ CallsInOrder
  BY DEF SessionsInv
<1>2. /\ call[p].op = call'[p].op
      /\ \/ call'[p].before = call[p].before /\ call'[p].during = call[p].during
         \/ p = c /\ call'[p].before = Started
  BY RecordStep
<1>3. CASE Refreshing(d) /\ call'[d].stored = call[d].stored
  <2>1. d \in Started
    BY <1>3 DEF Refreshing, Started
  <2> QED  BY <1>1, <1>2, <1>3, <2>1 DEF LaterCopiesClosed
<1>4. CASE /\ d = c /\ call[c].pc = "idle" /\ call'[c].stored = row[call'[c].token]
           /\ row[call'[c].token].state = "valid" /\ call'[c].token \in Tokens
  <2>1. p # c
    BY <1>1, <1>2, <1>4 DEF CallsInOrder, InOrder, RevokeOps
  <2> QED  BY <1>1, <1>2, <1>4, <2>1 DEF RevokeAllClosesSessions, RevokeOps
<1> QED  BY <1>3, <1>4, StoredStep

\* A token that is stored after a revocation of all tokens leads through a call
\* that was running then, or through none of before.
LEMMA ClosesStep ==
  ASSUME SessionsInv, NEW c \in Calls, Effect(c)
  PROVE  RevokeAllClosesSessions'
<1> SUFFICES ASSUME NEW p \in Calls, NEW t \in Tokens, call'[p].op \in RevokeOps, row'[t].state = "valid",
                    row'[t].path \cap call'[p].before # {}
             PROVE  row'[t].path \cap call'[p].during # {}
  BY DEF RevokeAllClosesSessions, RevokeOps
<1>1. /\ RevokeAllClosesSessions /\ LaterCopiesClosed /\ DuringCoversRunning /\ row[t] \in Row
      /\ call[c] \in Call /\ InOrder(call[c])
  BY InCall DEF SessionsInv
<1>2. /\ call[p].op = call'[p].op
      /\ call'[p].before = call[p].before /\ call'[p].during = call[p].during
  <2>1. call[c].op \in RevokeOps /\ call'[c].before # call[c].before => \A u \in Tokens : row'[u].state # "valid"
    BY DEF Effect, RowEffect
  <2>2. p # c \/ call'[c].before # Started \/ call[c].op \notin RevokeOps
    <3>1. call[c].pc # "done" /\ (call[c].op \in RevokeOps => c \in Started /\ call[c].before = {})
      BY <1>1, Others DEF Effect, CallEffect, Works, InOrder, RevokeOps, Started
    <3> QED  BY <2>1, <3>1
  <2> QED  BY <2>2, RecordStep
<1>3. CASE row'[t] = row[t]
  BY <1>1, <1>2, <1>3 DEF RevokeAllClosesSessions, RevokeOps
<1>4. CASE row'[t] = [row[t] EXCEPT !.state = "revoked"]
  BY <1>1, <1>4 DEF Row
<1>5. CASE call[c].pc = "store" /\ t = call[c].new /\ row'[t] = NewRow(c)
  <2>1. row'[t].path = (IF call[c].op = "login" THEN {} ELSE call[c].stored.path) \cup {c}
    <3>1. call[c].stored \in Row
      BY <1>1 DEF Call
    <3> QED  BY <1>5, <3>1 DEF NewRow, Row
  <2>2. CASE c \in call[p].before
    BY <1>1, <1>2, <2>1, <2>2, Others DEF DuringCoversRunning
  <2>3. CASE c \notin call[p].before
    <3>1. call[c].op = "refresh" /\ call[c].stored.path \cap call[p].before # {}
      BY <1>1, <1>2, <1>5, <2>1, <2>3 DEF InOrder
    <3>2. Refreshing(c)
      BY <1>5, <3>1 DEF Refreshing
    <3> QED  BY <1>1, <1>2, <2>1, <2>3, <3>1, <3>2 DEF LaterCopiesClosed
  <2> QED  BY <2>2, <2>3
<1> QED  BY <1>3, <1>4, <1>5 DEF Effect, RowEffect


\* What undoes an admin's Save, and what overtakes it, remains.
LEMMA UndoneStays ==
  ASSUME SessionsInv, NEW c \in Calls, Effect(c), NEW b \in Calls, AdminDone(b)
  PROVE  /\ call'[b] = call[b] /\ AdminDone(b)' /\ b # c
         /\ Undone(b) => Undone(b)'
         /\ Overtaken(b) => Overtaken(b)'
<1>1. /\ Works(call[c], call'[c]) /\ InOrder(call[c]) /\ call[c].reply = "pending"
      /\ call[c] \in Call /\ call'[c] \in Call
  BY Others DEF Effect, CallEffect, CallsInOrder
<1>2. call'[b] = call[b] /\ AdminDone(b)' /\ b # c
  BY <1>1, Others DEF AdminDone
<1>3. ASSUME NEW s \in Calls, SavedAfter(s, b), call[s].op = "admin" \/ s \in call[b].during
      PROVE  SavedAfter(s, b)' /\ (call'[s].op = "admin" \/ s \in call'[b].during)
  <2>1. CASE s # c
    BY <1>2, <1>3, <2>1, Others DEF SavedAfter
  <2>2. CASE s = c
    <3>1. call[c].pc = "revokeall"
      BY <1>1, <1>3, <2>2 DEF SavedAfter, InOrder
    <3>2. call'[c].op = call[c].op /\ call'[c].pc \in {"revokeall", "done"}
      BY <1>1, <3>1 DEF Works
    <3> QED  BY <1>2, <1>3, <2>2, <3>2 DEF SavedAfter
  <2> QED  BY <2>1, <2>2
<1>4. ASSUME NEW g \in call[b].during, call[g].op \in {"login", "refresh"}, call[g].new.role = "admin"
      PROVE  call'[g].op \in {"login", "refresh"} /\ call'[g].new.role = "admin"
  <2>1. g \in Calls
    BY InCall DEF Call
  <2>2. CASE g # c
    BY <1>4, <2>1, <2>2, Others
  <2>3. CASE g = c
    BY <1>1, <1>4, <2>3 DEF Works, InOrder
  <2> QED  BY <2>2, <2>3
<1>5. Undone(b) => Undone(b)'
  BY <1>3 DEF Undone
<1>6. Overtaken(b) => Overtaken(b)'
  BY <1>2, <1>4 DEF Overtaken
<1> QED  BY <1>2, <1>5, <1>6

\* A Save by a call that was not running when b saved writes back what b left.
LEMMA KeptStep ==
  ASSUME SessionsInv, NEW c \in Calls, Effect(c)
  PROVE  UpdatesKept'
<1> SUFFICES ASSUME NEW b \in Calls, AdminDone(b)', ~ Undone(b)'
             PROVE  /\ Same(user', call'[b].copy)
                    /\ \A d \in Calls \ call'[b].before : HoldsCopy(d)' => Same(call'[d].copy, call'[b].copy)
  BY DEF UpdatesKept
<1>1. /\ Works(call[c], call'[c]) /\ InOrder(call[c]) /\ InOrder(call'[c]) /\ call[c].reply = "pending"
  BY Others DEF Effect, CallEffect, CallsInOrder
<1>2. CASE ~ AdminDone(b)
  <2>1. b = c
    BY <1>2, Others DEF AdminDone
  <2>2. Same(user', call'[c].copy) /\ call'[c].before = Started
    BY <1>1, <2>1 DEF Effect, UserEffect, Works, AdminDone
  <2>3. ASSUME NEW d \in Calls \ Started PROVE ~ HoldsCopy(d)'
    <3>1. CASE d # c
      BY <2>3, <3>1, Others DEF Started, HoldsCopy
    <3>2. CASE d = c
      BY <1>1, <2>1, <3>2 DEF AdminDone, InOrder, HoldsCopy
    <3> QED  BY <3>1, <3>2
  <2> QED  BY <2>1, <2>2, <2>3
<1>3. CASE AdminDone(b)
  <2>1. call'[b] = call[b] /\ b # c /\ ~ Undone(b)
    BY <1>3, UndoneStays
  <2>2. /\ Same(user, call[b].copy)
        /\ \A d \in Calls \ call[b].before : HoldsCopy(d) => Same(call[d].copy, call[b].copy)
    BY <1>3, <2>1 DEF SessionsInv, UpdatesKept
  <2>3. Same(user', call[b].copy)
    <3>1. user.state # "none"
      BY <1>3 DEF SessionsInv, AccountIsThere, AdminDone, Savers
    <3>2. CASE Same(user', user)
      BY <2>2, <3>2 DEF Same
    <3>3. CASE call[c].pc = "saveuser" /\ Same(user', call[c].copy)
      <4>1. /\ call[c].op \in Savers /\ call'[c].op = call[c].op
            /\ call'[c].pc \in {"revokeall", "done"}
        BY <1>1, <3>3 DEF Works, InOrder
      <4>2. c \notin call[b].before \ call[b].during
        BY <1>1, <1>3 DEF SessionsInv, DuringCoversRunning, AdminDone, Savers
      <4>3. SavedAfter(c, b)'
        BY <2>1, <4>1, <4>2 DEF SavedAfter, Savers
      <4>4. call[c].op # "admin" /\ c \notin call[b].during
        BY <2>1, <4>1, <4>3 DEF Undone
      <4>5. HoldsCopy(c) /\ c \notin call[b].before
        BY <3>3, <4>1, <4>2, <4>4 DEF HoldsCopy, Savers
      <4> QED  BY <2>2, <3>3, <4>5 DEF Same
    <3> QED  BY <3>1, <3>2, <3>3 DEF Effect, UserEffect
  <2>4. ASSUME NEW d \in Calls \ call[b].before, HoldsCopy(d)' PROVE Same(call'[d].copy, call[b].copy)
    <3>1. CASE d # c
      BY <2>2, <2>4, <3>1, Others DEF HoldsCopy
    <3>2. CASE d = c
      <4>1. call'[c].copy = user
        BY <1>1, <2>4, <3>2 DEF HoldsCopy, Works
      <4> QED  BY <2>2, <3>2, <4>1
    <3> QED  BY <3>1, <3>2
  <2> QED  BY <2>1, <2>3, <2>4
<1> QED  BY <1>2, <1>3

\* The tokens that a step adds.
LEMMA MadeStep ==
  ASSUME SessionsInv, NEW c \in Calls, Effect(c), NEW t \in Tokens, Made(t)'
  PROVE  \/ Made(t)
         \/ t.at = now /\ t.role = "viewer"
         \/ /\ call[c].pc \in {"generate", "rotate"} /\ call'[c].new = t
            /\ t.at = now /\ t.role = call[c].copy.role
<1>1. CASE t \in issued'
  BY <1>1 DEF Effect, IssueEffect, Made
<1>2. ASSUME NEW d \in Calls, call'[d].pc = "store", call'[d].new = t, d # c PROVE Made(t)
  BY <1>2, Others DEF Made
<1>3. CASE call'[c].pc = "store" /\ call'[c].new = t
  BY <1>3 DEF Effect, CallEffect, Works
<1> QED  BY <1>1, <1>2, <1>3 DEF Made

\* An admin's token is made from a copy that was read before the demotion.
LEMMA ExplainedStep ==
  ASSUME SessionsInv, NEW c \in Calls, Effect(c)
  PROVE  TokensExplained'
<1> SUFFICES ASSUME NEW t \in Tokens, Made(t)'
             PROVE  /\ t.at <= now
                    /\ \A d \in Calls : /\ AdminDone(d)' /\ call'[d].copy.role = "viewer"
                                        /\ t.role = "admin" /\ t.at > call'[d].at
                         => Undone(d)' \/ Overtaken(d)'
  BY DEF TokensExplained, Effect
<1>1. /\ Works(call[c], call'[c]) /\ InOrder(call[c]) /\ call[c].reply = "pending" /\ now \in Nat
      /\ t.at \in Nat
  BY Others, InCall, SessionsAssumption DEF Effect, CallEffect, CallsInOrder, Tokens
<1>2. Made(t) => /\ t.at <= now
                 /\ \A d \in Calls : /\ AdminDone(d) /\ call[d].copy.role = "viewer"
                                     /\ t.role = "admin" /\ t.at > call[d].at
                      => Undone(d) \/ Overtaken(d)
  BY DEF SessionsInv, TokensExplained
<1>3. t.at <= now
  BY <1>1, <1>2, MadeStep
<1>4. ASSUME NEW d \in Calls, AdminDone(d)', call'[d].copy.role = "viewer",
             t.role = "admin", t.at > call'[d].at
      PROVE  Undone(d)' \/ Overtaken(d)'
  <2>1. AdminDone(d)
    <3> SUFFICES ASSUME ~ AdminDone(d) PROVE FALSE
      OBVIOUS
    <3>1. d = c
      BY <1>4, Others DEF AdminDone
    <3>2. call'[d].at = now
      BY <1>1, <1>4, <3>1 DEF Works, AdminDone
    <3> QED  BY <1>1, <1>3, <1>4, <3>2
  <2>2. call'[d] = call[d] /\ (Undone(d) => Undone(d)') /\ (Overtaken(d) => Overtaken(d)')
    BY <2>1, UndoneStays
  <2>3. CASE Made(t)
    BY <1>2, <1>4, <2>1, <2>2, <2>3
  <2>4. CASE call[c].pc \in {"generate", "rotate"} /\ call'[c].new = t /\ t.role = call[c].copy.role
    <3>1. /\ call'[c].op = call[c].op /\ call[c].op \in {"login", "refresh"} /\ HoldsCopy(c)
      BY <1>1, <2>4 DEF Works, InOrder, HoldsCopy
    <3>2. CASE Undone(d)
      BY <2>2, <3>2
    <3>3. CASE c \in call[d].before
      <4>1. c \in call[d].during
        BY <1>1, <2>1, <3>3 DEF SessionsInv, DuringCoversRunning, AdminDone, Savers
      <4> QED  BY <1>4, <2>2, <2>4, <3>1, <4>1 DEF Overtaken
    <3>4. CASE ~ Undone(d) /\ c \notin call[d].before
      <4>1. Same(call[c].copy, call[d].copy)
        BY <2>1, <3>1, <3>4 DEF SessionsInv, UpdatesKept
      <4> QED  BY <1>4, <2>2, <2>4, <4>1 DEF Same
    <3> QED  BY <3>2, <3>3, <3>4
  <2> QED  BY <1>4, <2>3, <2>4, MadeStep
<1> QED  BY <1>3, <1>4


\* The clock, and steps that do nothing, leave all that is about the calls.
LEMMA ClockStep ==
  ASSUME SessionsInv, Tick \/ UNCHANGED vars
  PROVE  SessionsInv'
<1>1. UNCHANGED <<user, row, issued, call>> /\ now \in Int /\ now' \in 0 .. MaxTime /\ now <= now'
  BY SessionsAssumption DEF SessionsInv, TypeOK, Tick, vars
<1>2. TypeOK'
  BY <1>1 DEF SessionsInv, TypeOK
<1>3. CallsInOrder' /\ AccountIsThere' /\ RowsBounded' /\ TokensHaveRows' /\ RotatedTokenIsDead'
  BY <1>1 DEF SessionsInv, CallsInOrder, AccountIsThere, RowsBounded, Refreshing, TokensHaveRows,
    RotatedTokenIsDead
<1>4. DuringCoversRunning' /\ RevokeAllClosesSessions' /\ LaterCopiesClosed'
  BY <1>1 DEF SessionsInv, DuringCoversRunning, RevokeAllClosesSessions, LaterCopiesClosed, Refreshing
<1>5. \A d \in Calls : /\ AdminDone(d)' <=> AdminDone(d)
                       /\ Undone(d)' <=> Undone(d)
                       /\ Overtaken(d)' <=> Overtaken(d)
                       /\ HoldsCopy(d)' <=> HoldsCopy(d)
  BY <1>1 DEF AdminDone, Undone, SavedAfter, Overtaken, HoldsCopy
<1>6. UpdatesKept'
  BY <1>1, <1>5 DEF SessionsInv, UpdatesKept
<1>7. TokensExplained'
  <2>1. \A t \in Tokens : t.at \in Int /\ (Made(t)' <=> Made(t))
    BY <1>1 DEF Tokens, Made
  <2>2. \A t \in Tokens : Made(t) => t.at <= now'
    BY <1>1, <2>1 DEF SessionsInv, TokensExplained
  <2> QED  BY <1>1, <1>5, <2>1, <2>2 DEF SessionsInv, TokensExplained
<1> QED  BY <1>2, <1>3, <1>4, <1>6, <1>7 DEF SessionsInv

LEMMA NextSessions ==
  ASSUME SessionsInv, [Next]_vars
  PROVE  SessionsInv'
<1>1. CASE Tick \/ UNCHANGED vars
  BY <1>1, ClockStep
<1>2. ASSUME NEW c \in Calls, Request(c) \/ Continue(c) PROVE SessionsInv'
  <2>1. Effect(c)
    BY <1>2, StepEffect
  <2>2. TypeOK' /\ CallsInOrder'
    BY <2>1, Others DEF Effect
  <2>3. AccountIsThere' /\ RowsBounded' /\ TokensHaveRows'
    BY <2>1, AccountStep, BoundedStep, TokensStep
  <2>4. RotatedTokenIsDead' /\ DuringCoversRunning' /\ RevokeAllClosesSessions' /\ LaterCopiesClosed'
    BY <2>1, RotatedStep, DuringStep, ClosesStep, LaterStep
  <2>5. UpdatesKept' /\ TokensExplained'
    BY <2>1, KeptStep, ExplainedStep
  <2> QED  BY <2>2, <2>3, <2>4, <2>5 DEF SessionsInv
<1> QED  BY <1>1, <1>2 DEF Next

-----------------------------------------------------------------------------

\* The inductive invariant holds in every behaviour of the calls.
THEOREM SessionsCorrect == Spec => []SessionsInv
<1>1. SessionsInv /\ [Next]_vars => SessionsInv'
  BY NextSessions
<1> QED  BY InitSessions, <1>1, PTL DEF Spec

\* The account, its tokens and the calls keep their types.
THEOREM TypeCorrect == Spec => []TypeOK
<1>1. SessionsInv => TypeOK
  BY DEF SessionsInv
<1> QED  BY SessionsCorrect, <1>1, PTL

\* A session ends RowTTL after its login: RefreshToken passes the expiry of the
\* row it replaces on.
THEOREM SessionsEnd == Spec => []SessionBounded
<1>1. SessionsInv => SessionBounded
  BY DEF SessionsInv, SessionBounded, RowsBounded, Bounded
<1> QED  BY SessionsCorrect, <1>1, PTL

\* No call starts from a refresh token once a refresh has revoked it.
THEOREM RotationKills == Spec => []RotatedTokenIsDead
<1>1. SessionsInv => RotatedTokenIsDead
  BY DEF SessionsInv
<1> QED  BY SessionsCorrect, <1>1, PTL

\* LogoutAll and ChangePassword close all sessions but those that lead through a
\* login or refresh that was running.
THEOREM LogoutAllCloses == Spec => []RevokeAllClosesSessions
<1>1. SessionsInv => RevokeAllClosesSessions
  BY DEF SessionsInv
<1> QED  BY SessionsCorrect, <1>1, PTL

\* An acknowledged ban holds until an admin, or a Save that was running, ends it.
THEOREM BansHold == Spec => []BanHolds
<1>1. ASSUME SessionsInv, NEW b \in Calls, call[b].op = "admin", call[b].copy.status = "banned",
             call[b].reply = "ok", user.status # "banned"
      PROVE  Undone(b)
  BY <1>1 DEF SessionsInv, UpdatesKept, AdminDone, Same
<1>2. SessionsInv => BanHolds
  BY <1>1 DEF BanHolds, Undone
<1> QED  BY SessionsCorrect, <1>2, PTL

\* A demotion takes the admin routes when the life of an access token is over,
\* but for the exceptions that DemotionHolds names.
THEOREM DemotionsHold == Spec => []DemotionHolds
<1>1. ASSUME SessionsInv, NEW d \in Calls, call[d].op = "admin", call[d].copy.role = "viewer",
             call[d].reply = "ok", RequireAdmin, now >= call[d].at + AccessTTL
      PROVE  Undone(d) \/ Overtaken(d)
  <2>1. PICK t \in issued : t.role = "admin" /\ now < t.at + AccessTTL
    BY <1>1 DEF RequireAdmin
  <2>2. t \in Tokens /\ t.at \in Int /\ call[d].at \in Int /\ now \in Int /\ AccessTTL \in Int
    BY <1>1, InCall, SessionsAssumption DEF Tokens, Call
  <2>3. t.at > call[d].at
    BY <1>1, <2>1, <2>2
  <2> QED  BY <1>1, <2>1, <2>2, <2>3 DEF SessionsInv, TokensExplained, Made, AdminDone
<1>2. SessionsInv => DemotionHolds
  BY <1>1 DEF DemotionHolds, Undone, Overtaken
<1> QED  BY SessionsCorrect, <1>2, PTL

\* The row of a revoked refresh token never changes again, whatever is stored,
\* rotated or revoked later.
THEOREM RevocationStays == Spec => RevocationIsFinal
<1> DEFINE Stays == \A t \in Tokens : row[t].state = "revoked" => row'[t] = row[t]
<1>1. ASSUME SessionsInv, Next PROVE Stays
  <2>1. CASE Tick
    BY <2>1 DEF Tick
  <2>2. ASSUME NEW c \in Calls, Request(c) \/ Continue(c) PROVE Stays
    BY <1>1, <2>2, StepEffect, RowsFinal
  <2> QED  BY <1>1, <2>1, <2>2 DEF Next
<1>2. SessionsInv /\ [Next]_vars => [Stays]_vars
  BY <1>1
<1> QED  BY SessionsCorrect, <1>2, PTL DEF Spec, RevocationIsFinal

-----------------------------------------------------------------------------
(* Sessions implement SessionLedger *)

\* What a refresh has read of its row is still in it, but for a revocation.
CopiesFaithful ==
  \A c \in Calls : Refreshing(c) =>
    call[c].stored = [row[call[c].token] EXCEPT !.state = "valid"]

LEMMA FaithfulStep ==
  ASSUME SessionsInv, CopiesFaithful, NEW c \in Calls, Effect(c)
  PROVE  CopiesFaithful'
<1> SUFFICES ASSUME NEW d \in Calls, Refreshing(d)'
             PROVE  call'[d].stored = [row'[call'[d].token] EXCEPT !.state = "valid"]
  BY DEF CopiesFaithful
<1> DEFINE t == call'[d].token
<1>1. t \in Tokens /\ row[t] \in Row
  BY InCall DEF Effect, TypeOK, Call
<1>2. call'[d].stored = [row[t] EXCEPT !.state = "valid"] /\ row[t].state # "none"
  <2>1. CASE /\ Refreshing(d) /\ call'[d].stored = call[d].stored /\ t = call[d].token
    BY <2>1 DEF CopiesFaithful, SessionsInv, TokensHaveRows, Refreshing
  <2>2. CASE call'[d].stored = row[t] /\ row[t].state = "valid"
    BY <1>1, <2>2 DEF Row
  <2> QED  BY <2>1, <2>2, StoredStep
<1>3. CASE row'[t] = row[t]
  BY <1>2, <1>3
<1>4. CASE row'[t] = [row[t] EXCEPT !.state = "revoked"]
  BY <1>1, <1>2, <1>4 DEF Row
<1> QED  BY <1>1, <1>2, <1>3, <1>4 DEF Effect, RowEffect

\* The refreshes of other calls stay where they are.
LEMMA AdmittedOthers ==
  ASSUME SessionsInv, NEW c \in Calls, Effect(c)
  PROVE  Admitted' = [Admitted EXCEPT ![c] = IF Refreshing(c)' THEN {call'[c].token} ELSE {}]
<1>1. \A d \in Calls \ {c} : call'[d] = call[d]
  BY Others
<1>2. \A d \in Calls \ {c} : Admitted'[d] = Admitted[d]
  BY <1>1 DEF Admitted, Refreshing
<1> QED  BY <1>2 DEF Admitted

\* What a step that is about no refresh leaves alone.
LEMMA AdmittedKept ==
  ASSUME SessionsInv, NEW c \in Calls, Effect(c), Refreshing(c)' <=> Refreshing(c)
  PROVE  UNCHANGED Admitted
<1>1. Refreshing(c) => call'[c].token = call[c].token
  BY DEF Effect, CallEffect, Works, Refreshing
<1>2. Admitted[c] = IF Refreshing(c)' THEN {call'[c].token} ELSE {}
  BY <1>1 DEF Admitted
<1>3. [Admitted EXCEPT ![c] = Admitted[c]] = Admitted
  BY DEF Admitted
<1> QED  BY <1>2, <1>3, AdmittedOthers

LEMMA NoRefresh ==
  ASSUME SessionsInv, NEW c \in Calls, Effect(c), call'[c].op # "refresh"
  PROVE  UNCHANGED Admitted
<1>1. ~ Refreshing(c)' /\ ~ Refreshing(c)
  BY Others DEF Effect, CallEffect, Works, Refreshing
<1> QED  BY <1>1, AdmittedKept

\* A refresh that ends without a new token.
LEMMA LedgerLeave ==
  ASSUME SessionsInv, NEW c \in Calls, Effect(c), UNCHANGED row, ~ Refreshing(c)'
  PROVE  Ledger!Visit \/ UNCHANGED Ledger!ledgerVars
<1>1. Admitted' = [Admitted EXCEPT ![c] = {}] /\ now' = now
  BY AdmittedOthers DEF Effect
<1> QED  BY <1>1 DEF Ledger!Visit, Ledger!Leave, Ledger!ledgerVars

LEMMA LedgerRefresh ==
  ASSUME SessionsInv, NEW c \in Calls, NEW t \in Tokens, Effect(c), Refresh(c, t)
  PROVE  Ledger!Visit
<1>1. /\ call[c].pc = "idle" /\ row[t].state = "valid" /\ now < row[t].expires /\ UNCHANGED <<now, row>>
  BY DEF Refresh, GetRefreshToken, Start, At
<1>2. call'[c].op = "refresh" /\ call'[c].pc = "loaduser" /\ call'[c].token = t
  BY InCall DEF Refresh, Start, Call
<1>3. Admitted[c] = {}
  BY <1>1 DEF Admitted, Refreshing
<1>4. Admitted' = [Admitted EXCEPT ![c] = {t}]
  BY <1>2, AdmittedOthers DEF Refreshing
<1>5. Admitted' # Admitted
  BY <1>3, <1>4 DEF Admitted
<1>6. Ledger!Present(c, t)
  BY <1>1, <1>3, <1>4 DEF Ledger!Present
<1> QED  BY <1>1, <1>5, <1>6 DEF Ledger!Visit

\* The revocation of one token, with or without a row.
LEMMA LedgerRevoke ==
  ASSUME SessionsInv, NEW t \in Tokens, Revoke(t), UNCHANGED <<now, Admitted>>
  PROVE  Ledger!Write \/ UNCHANGED Ledger!ledgerVars
<1>1. row \in [Tokens -> Row] /\ row[t] \in Row
  BY DEF SessionsInv, TypeOK
<1>2. CASE row[t].state # "valid"
  <2>1. row[t].state = IF row[t].state = "none" THEN "none" ELSE "revoked"
    BY <1>1, <1>2 DEF Row
  <2>2. [row[t] EXCEPT !.state = row[t].state] = row[t]
    BY <1>1 DEF Row
  <2>3. row' = [row EXCEPT ![t] = row[t]]
    BY <2>1, <2>2 DEF Revoke
  <2> QED  BY <1>1, <2>3 DEF Ledger!ledgerVars
<1>3. CASE row[t].state = "valid"
  <2>1. row' = [row EXCEPT ![t] = [row[t] EXCEPT !.state = "revoked"]]
    BY <1>3 DEF Revoke
  <2>2. row' = [x \in Tokens |-> IF x \in {t} THEN [row[x] EXCEPT !.state = "revoked"] ELSE row[x]]
    BY <1>1, <2>1
  <2>3. Ledger!Revoke({t}) /\ t \in Ledger!Valid
    BY <1>3, <2>2 DEF Ledger!Revoke, Ledger!Valid
  <2>4. row'[t].state = "revoked"
    BY <1>1, <2>1 DEF Row
  <2> QED  BY <1>3, <2>3, <2>4 DEF Ledger!Write
<1> QED  BY <1>2, <1>3

LEMMA LedgerRevokeAll ==
  ASSUME SessionsInv, NEW c \in Calls, Effect(c), RevokeAll(c)
  PROVE  Ledger!Write \/ UNCHANGED Ledger!ledgerVars
<1>1. call[c].op \in RevokeOps /\ call[c].pc = "revokeall" /\ call[c] \in Call
  BY InCall DEF RevokeAll, At, InOrder
<1>2. UNCHANGED <<now, Admitted>>
  <2>1. call'[c].op # "refresh"
    BY <1>1 DEF Effect, CallEffect, Works, RevokeOps
  <2> QED  BY <2>1, NoRefresh DEF Effect
<1>3. CASE row' = row
  BY <1>2, <1>3 DEF Ledger!ledgerVars
<1>4. CASE row' # row /\ row' = [t \in Tokens |-> IF row[t].state = "valid"
                                                    THEN [row[t] EXCEPT !.state = "revoked"] ELSE row[t]]
  <2>1. row' = [t \in Tokens |-> IF t \in Ledger!Valid
                                   THEN [row[t] EXCEPT !.state = "revoked"] ELSE row[t]]
    BY <1>4 DEF Ledger!Valid
  <2>2. Ledger!Revoke(Ledger!Valid)
    BY <1>2, <2>1 DEF Ledger!Revoke
  <2> QED  BY <1>2, <1>4, <2>2 DEF Ledger!Write
<1> QED  BY <1>3, <1>4 DEF RevokeAll

\* A token that is stored begins a session, or continues the one of the token
\* that let its refresh in.
LEMMA LedgerStore ==
  ASSUME SessionsInv, CopiesFaithful, NEW c \in Calls, Effect(c), StoreToken(c)
  PROVE  Ledger!Next \/ UNCHANGED Ledger!ledgerVars
<1>1. /\ call[c].pc = "store" /\ call[c].op \in {"login", "refresh"} /\ call[c] \in Call
      /\ row \in [Tokens -> Row] /\ now' = now
  BY InCall DEF StoreToken, At, InOrder
<1>2. ~ Refreshing(c)' /\ Admitted' = [Admitted EXCEPT ![c] = {}]
  <2>1. call'[c].pc = "done"
    <3>1. PICK r \in {"ok", "err"} :
            call' = [call EXCEPT ![c] = [call[c] EXCEPT !.pc = "done", !.reply = r]]
      BY DEF StoreToken, Reply
    <3>2. call \in [Calls -> Call]
      BY InCall
    <3> QED  BY <1>1, <3>1, <3>2 DEF Call
  <2>2. ~ Refreshing(c)'
    BY <2>1 DEF Refreshing
  <2> QED  BY <2>2, AdmittedOthers
<1>3. CASE row' = row
  BY <1>2, <1>3, LedgerLeave DEF Ledger!Next
<1>4. CASE row[call[c].new].state = "none" /\ row' = [row EXCEPT ![call[c].new] = NewRow(c)]
  <2>1. PICK n \in Tokens : n = call[c].new
    BY <1>1 DEF Call
  <2>2. n.at <= now
    BY <1>1, <2>1 DEF SessionsInv, TokensExplained, Made
  <2>3. NewRow(c).state = "valid" /\ row' # row
    <3>1. NewRow(c).state = "valid"
      BY <1>1 DEF NewRow, Call, Row
    <3> QED  BY <1>1, <1>4, <2>1, <3>1
  <2>4. CASE call[c].op = "login"
    <3>1. UNCHANGED Admitted
      BY <1>1, <1>2, <2>4 DEF Admitted, Refreshing
    <3>2. NewRow(c) = [state |-> "valid", expires |-> n.at + RowTTL, root |-> n, path |-> {c}]
      BY <2>1, <2>4 DEF NewRow
    <3>3. Ledger!Login(c, n)
      BY <1>4, <2>1, <2>2, <3>1, <3>2 DEF Ledger!Login, Ledger!Record
    <3> QED  BY <1>1, <2>3, <3>3 DEF Ledger!Next, Ledger!Write
  <2>5. CASE call[c].op = "refresh"
    <3>1. PICK t \in Tokens : t = call[c].token
      BY <1>1 DEF Call
    <3>2. Admitted[c] = {t} /\ call[c].stored = [row[t] EXCEPT !.state = "valid"]
      BY <1>1, <2>5, <3>1 DEF Admitted, Refreshing, CopiesFaithful
    <3>3. NewRow(c) = [row[t] EXCEPT !.state = "valid", !.path = @ \cup {c}]
      BY <1>1, <2>5, <3>2 DEF NewRow, Row
    <3>4. Ledger!Record(n, [row[t] EXCEPT !.state = "valid", !.path = @ \cup {c}])
      BY <1>4, <2>1, <2>2, <3>3 DEF Ledger!Record
    <3>5. Ledger!Renew(c, n)
      BY <1>2, <3>2, <3>4 DEF Ledger!Renew, Ledger!Leave
    <3> QED  BY <1>1, <2>3, <3>5 DEF Ledger!Next, Ledger!Write
  <2> QED  BY <1>1, <2>4, <2>5
<1> QED  BY <1>3, <1>4 DEF StoreToken

\* Every step of a call is one of the ledger, or none.
LEMMA LedgerCall ==
  ASSUME SessionsInv, CopiesFaithful, NEW c \in Calls, Request(c) \/ Continue(c)
  PROVE  Ledger!Next \/ UNCHANGED Ledger!ledgerVars
<1>1. Effect(c)
  BY StepEffect
<1>2. /\ call[c] \in Call /\ InOrder(call[c]) /\ issued \subseteq Tokens
      /\ call \in [Calls -> Call] /\ now' = now
  BY <1>1, InCall DEF Effect
<1>3. ASSUME UNCHANGED row, call'[c].op # "refresh" PROVE UNCHANGED Ledger!ledgerVars
  BY <1>1, <1>2, <1>3, NoRefresh DEF Ledger!ledgerVars
<1>4. ASSUME NEW op, NEW step, NEW t, Start(c, op, step, t) PROVE call'[c].op = op
  BY <1>2, <1>4 DEF Start, Call
<1>5. CASE Register(c) \/ LogoutAll(c) \/ UpdateProfile(c)
  <2>1. call'[c].op \in {"register", "logoutall", "profile"}
    BY <1>4, <1>5 DEF Register, LogoutAll, UpdateProfile
  <2> QED  BY <1>3, <1>5, <2>1 DEF Register, LogoutAll, UpdateProfile
<1>6. CASE \E p \in Passwords : Login(c, p) \/ ChangePassword(c, p)
  <2>1. call'[c].op \in {"login", "password"}
    BY <1>4, <1>6 DEF Login, ChangePassword
  <2> QED  BY <1>3, <1>6, <2>1 DEF Login, ChangePassword
<1>7. CASE DeleteUser(c)
  BY <1>2, <1>3, <1>7 DEF DeleteUser, Call
<1>8. CASE \E r \in Roles : AdminCreate(c, r) \/ \E s \in Statuses : AdminUpdate(c, s, r)
  <2>1. ASSUME NEW r \in Roles, AdminCreate(c, r) PROVE call'[c].op = "createuser" /\ UNCHANGED row
    BY <1>2, <2>1 DEF AdminCreate, Call
  <2>2. ASSUME NEW r \in Roles, NEW s \in Statuses, AdminUpdate(c, s, r)
        PROVE  call'[c].op = "admin" /\ UNCHANGED row
    BY <1>2, <2>2 DEF AdminUpdate, Call
  <2> QED  BY <1>3, <1>8, <2>1, <2>2
<1>9. CASE \E t \in issued : Refresh(c, t)
  BY <1>1, <1>2, <1>9, LedgerRefresh DEF Ledger!Next
<1>10. ASSUME NEW t \in issued, Logout(c, t) PROVE Ledger!Next \/ UNCHANGED Ledger!ledgerVars
  <2>1. call'[c].op # "refresh"
    BY <1>2, <1>10 DEF Logout, Call
  <2>2. UNCHANGED Admitted
    BY <1>1, <2>1, NoRefresh
  <2> QED  BY <1>2, <1>3, <1>10, <2>1, <2>2, LedgerRevoke DEF Logout, Ledger!Next
<1>11. CASE CreateUser(c) \/ Generate(c) \/ SaveUser(c)
  <2>1. call[c].pc \in {"create", "generate", "saveuser"} /\ UNCHANGED row
    BY <1>11 DEF CreateUser, Generate, SaveUser, At
  <2>2. call'[c].op # "refresh"
    BY <1>1, <1>2, <2>1 DEF Effect, CallEffect, Works, InOrder, Savers
  <2> QED  BY <1>3, <2>1, <2>2
<1>12. CASE LoadUser(c)
  <2>1. call[c].pc = "loaduser" /\ call[c].op = "refresh" /\ UNCHANGED row
    BY <1>2, <1>12 DEF LoadUser, At, InOrder
  <2>2. CASE Refreshing(c)'
    BY <1>1, <1>2, <2>1, <2>2, AdmittedKept DEF Refreshing, Ledger!ledgerVars
  <2> QED  BY <1>1, <2>1, <2>2, LedgerLeave DEF Ledger!Next
<1>13. CASE Rotate(c)
  <2>1. call[c].pc = "rotate" /\ call[c].op = "refresh" /\ call[c].token \in Tokens
    BY <1>2, <1>13 DEF Rotate, At, InOrder, Call
  <2>2. call'[c].pc = "store" /\ call'[c].op = "refresh"
    BY <1>2, <1>13, <2>1 DEF Rotate, Call
  <2>3. UNCHANGED Admitted
    BY <1>1, <2>1, <2>2, AdmittedKept DEF Refreshing
  <2>4. PICK t \in Tokens : t = call[c].token
    BY <2>1
  <2> QED  BY <1>2, <1>13, <2>3, <2>4, LedgerRevoke DEF Rotate, Ledger!Next, Ledger!ledgerVars
<1>14. CASE StoreToken(c)
  BY <1>1, <1>14, LedgerStore
<1>15. CASE RevokeAll(c)
  BY <1>1, <1>15, LedgerRevokeAll DEF Ledger!Next
<1> QED  BY <1>5, <1>6, <1>7, <1>8, <1>9, <1>10, <1>11, <1>12, <1>13, <1>14, <1>15 DEF Request, Continue

\* Calls that interleave in any way, write late or fail keep a ledger of
\* sessions: a token that is stored begins one, or continues that of a token
\* that was valid when it was presented, with the same end.
THEOREM LedgerImplemented == Spec => ImplementsLedger
<1>0. ASSUME Init PROVE \A c \in Calls : ~ Refreshing(c)
  BY <1>0 DEF Init, Refreshing
<1>1. Init => Ledger!Init
  <2> SUFFICES ASSUME Init PROVE Ledger!Init
    OBVIOUS
  <2>1. now = 0 /\ \A t \in Tokens : row[t].state = "none"
    BY DEF Init, NoRow
  <2>2. Admitted = [c \in Calls |-> {}]
    BY <1>0 DEF Admitted
  <2> QED  BY <2>1, <2>2 DEF Ledger!Init
<1>2. Init => CopiesFaithful
  BY <1>0 DEF CopiesFaithful
<1>3. SessionsInv /\ CopiesFaithful /\ [Next]_vars
        => CopiesFaithful' /\ (Ledger!Next \/ UNCHANGED Ledger!ledgerVars)
  <2> SUFFICES ASSUME SessionsInv, CopiesFaithful, [Next]_vars
               PROVE  CopiesFaithful' /\ (Ledger!Next \/ UNCHANGED Ledger!ledgerVars)
    OBVIOUS
  <2>1. CASE Tick \/ UNCHANGED vars
    <3>1. UNCHANGED <<row, call>> /\ (now' = now + 1 \/ now' = now)
      BY <2>1 DEF Tick, vars
    <3>2. UNCHANGED Admitted
      BY <3>1 DEF Admitted, Refreshing
    <3>3. CopiesFaithful'
      BY <3>1 DEF CopiesFaithful, Refreshing
    <3> QED  BY <3>1, <3>2, <3>3 DEF Ledger!Next, Ledger!Tick, Ledger!ledgerVars
  <2>2. ASSUME NEW c \in Calls, Request(c) \/ Continue(c)
        PROVE  CopiesFaithful' /\ (Ledger!Next \/ UNCHANGED Ledger!ledgerVars)
    BY <2>2, StepEffect, FaithfulStep, LedgerCall
  <2> QED  BY <2>1, <2>2 DEF Next
<1> QED  BY <1>1, <1>2, <1>3, SessionsCorrect, PTL DEF Spec, ImplementsLedger, Ledger!Spec

=============================================================================
