------------------------------ MODULE Sessions ------------------------------
(***************************************************************************)
(* The auth use case and the admin's user handlers for one account: its    *)
(* users row and its refresh_tokens rows.  Each HTTP call is a goroutine   *)
(* that makes a few database calls one after the other, each a step here;  *)
(* steps of different calls interleave.  (A call that a crash cuts short   *)
(* is one that takes no further step.)                                     *)
(*                                                                         *)
(* A token pair is a signed function of the account, its role and the      *)
(* second it is issued in, so a token is that second and that role.  Of    *)
(* the roles only those with and without access to the admin routes are    *)
(* told apart.  Clients can present only tokens they were given.           *)
(***************************************************************************)
EXTENDS Integers

CONSTANTS
  Calls,        \* the HTTP calls of a behaviour, each handled once
  Ops,          \* the operations the clients use
  Faults,       \* how a database write may go wrong, see Outcomes
  AccessTTL,    \* life of an access token, in ticks
  RefreshTTL,   \* life of a refresh token as a JWT
  RowTTL,       \* life of the row of a refresh token, from the login on
  MaxTime       \* the clock stops here

AllOps == {"register", "login", "refresh", "logout", "logoutall", "password",
           "profile", "createuser", "admin", "deleteuser"}
Statuses == {"active", "inactive", "banned"}
Roles    == {"admin", "viewer"}

ASSUME SessionsAssumption ==
  /\ Ops \subseteq AllOps
  /\ Faults \subseteq {"failed", "unacked"}
  /\ {AccessTTL, RefreshTTL, RowTTL, MaxTime} \subseteq Nat

Tokens    == [at: 0 .. MaxTime, role: Roles]
Passwords == Calls \cup {"initial"}     \* a new password is named by its call
User == [state: {"none", "live", "deleted"}, status: Statuses, role: Roles, password: Passwords \cup {"unset"}]

VARIABLES
  now,
  user,         \* the users row
  row,          \* row[t]: the refresh_tokens row of token t
  issued,       \* the tokens that clients were given
  call          \* call[c]: the local state of the goroutine handling c

vars == <<now, user, row, issued, call>>

\* root is the login a token descends from, path the calls that led to it
\* (history).
Row == [state: {"none", "valid", "revoked"}, expires: Nat, root: Tokens,
        path: SUBSET Calls]

Steps == {"idle", "create", "generate", "loaduser", "rotate", "store", "saveuser",
          "revokeall", "done"}

\* token is the one presented, new the one generated, copy the users row read,
\* stored the token row read.  before and during: the calls that had started,
\* and those that were running, when c wrote what it is for; at: that second
\* (history).
Call == [op: AllOps \cup {"none"}, pc: Steps, token: Tokens, new: Tokens, copy: User,
         stored: Row, rotated: BOOLEAN, before: SUBSET Calls, during: SUBSET Calls,
         at: 0 .. MaxTime, reply: {"pending", "ok", "err"}]

TypeOK ==
  /\ now \in 0 .. MaxTime /\ user \in User /\ issued \subseteq Tokens
  /\ row \in [Tokens -> Row]
  /\ call \in [Calls -> Call]

NoUser  == [state |-> "none", status |-> "active", role |-> "viewer", password |-> "initial"]
NoToken == [at |-> 0, role |-> "viewer"]
NoRow   == [state |-> "none", expires |-> 0, root |-> NoToken, path |-> {}]

\* The account may be there from the seed, or register later.
Init ==
  /\ now = 0
  /\ user \in {NoUser} \cup {[NoUser EXCEPT !.state = "live", !.role = r] : r \in Roles}
  /\ row = [t \in Tokens |-> NoRow]
  /\ issued = {}
  /\ call = [c \in Calls |->
        [op |-> "none", pc |-> "idle", token |-> NoToken, new |-> NoToken, copy |-> NoUser,
         stored |-> NoRow, rotated |-> FALSE, before |-> {}, during |-> {}, at |-> 0,
         reply |-> "pending"]]

At(c, step) == call[c].pc = step /\ call[c].reply = "pending"
Started     == {c \in Calls : call[c].pc # "idle"}
Running     == {c \in Started : call[c].reply = "pending"}
Outcomes    == {"ok"} \cup Faults
Active(u)   == u.state = "live" /\ u.status = "active"

\* A call that starts reads the users row, or a token row, with its first step.
Start(c, op, step, t) ==
  /\ At(c, "idle") /\ op \in Ops
  /\ call' = [call EXCEPT ![c] = [@ EXCEPT !.op = op, !.pc = step, !.copy = user,
                                           !.token = t, !.stored = row[t]]]

Goto(c, step)    == call' = [call EXCEPT ![c].pc = step]
Reply(c, answer) == call' = [call EXCEPT ![c] = [@ EXCEPT !.pc = "done",
                                                          !.reply = answer]]

\* The auth middleware looks at the access token only, and so does the gate of
\* the admin routes, which takes the role from it.
Authenticated == \E t \in issued : now < t.at + AccessTTL
RequireAdmin  == \E t \in issued : t.role = "admin" /\ now < t.at + AccessTTL

-----------------------------------------------------------------------------
(* Register, Login *)

\* GetByEmail and GetByUsername do not see deleted rows.
Register(c) ==
  /\ user.state # "live"
  /\ Start(c, "register", "create", NoToken)
  /\ UNCHANGED <<now, user, row, issued>>

\* The unique index on the email does.  The refresh token is not stored.
CreateUser(c) ==
  /\ At(c, "create")
  /\ \/ /\ user.state = "none"
        /\ \E o \in Outcomes :
             /\ user' = IF o = "failed" THEN user
                        ELSE [state |-> "live", status |-> "active", role |-> "viewer", password |-> c]
             /\ issued' = IF o = "ok" THEN issued \cup {[at |-> now, role |-> "viewer"]} ELSE issued
             /\ Reply(c, IF o = "ok" THEN "ok" ELSE "err")
     \/ user.state # "none" /\ Reply(c, "err") /\ UNCHANGED <<user, issued>>
  /\ UNCHANGED <<now, row>>

Login(c, password) ==
  /\ Active(user) /\ user.password = password
  /\ Start(c, "login", "generate", NoToken)
  /\ UNCHANGED <<now, user, row, issued>>

\* UpdateLastLogin, then the pair is generated, with the role read at the start.
Generate(c) ==
  /\ At(c, "generate")
  /\ call' = [call EXCEPT ![c] = [@ EXCEPT !.pc = "store",
                                           !.new = [at |-> now, role |-> call[c].copy.role]]]
  /\ UNCHANGED <<now, user, row, issued>>

\* Faulty variant: a refreshed token gets a new life.
NewRowExtended(c) ==
  IF call[c].op = "login"
    THEN [state |-> "valid", expires |-> call[c].new.at + RowTTL, root |-> call[c].new,
          path |-> {c}]
    ELSE [call[c].stored EXCEPT !.state = "valid", !.path = @ \cup {c},
                                !.expires = call[c].new.at + RowTTL]

\* What CreateRefreshToken inserts for c.
NewRow(c) ==
  IF call[c].op = "login"
    THEN [state |-> "valid", expires |-> call[c].new.at + RowTTL, root |-> call[c].new,
          path |-> {c}]
    ELSE [call[c].stored EXCEPT !.state = "valid", !.path = @ \cup {c}]

\* Faulty variant: the token hash is not unique, a second insert overwrites.
StoreTokenTwice(c) ==
  /\ At(c, "store")
  /\ row' = [row EXCEPT ![call[c].new] = NewRow(c)]
  /\ issued' = issued \cup {call[c].new}
  /\ Reply(c, "ok")
  /\ UNCHANGED <<now, user>>

StoreToken(c) ==
  /\ At(c, "store")
  /\ \/ /\ row[call[c].new].state = "none"
        /\ \E o \in Outcomes :
             /\ row' = IF o = "failed" THEN row
                       ELSE [row EXCEPT ![call[c].new] = NewRow(c)]
             /\ issued' = IF o = "ok" THEN issued \cup {call[c].new} ELSE issued
             /\ Reply(c, IF o = "ok" THEN "ok" ELSE "err")
     \/ row[call[c].new].state # "none" /\ Reply(c, "err") /\ UNCHANGED <<row, issued>>
  /\ UNCHANGED <<now, user>>

-----------------------------------------------------------------------------
(* RefreshToken *)

\* The JWT is one the server signed and has not expired.
ValidateToken(t) == t \in issued /\ now < t.at + RefreshTTL

\* Faulty variant: a revoked row is as good as a valid one.
GetAnyRefreshToken(t) == row[t].state # "none" /\ now < row[t].expires

GetRefreshToken(t) == row[t].state = "valid" /\ now < row[t].expires

Refresh(c, t) ==
  /\ ValidateToken(t) /\ GetRefreshToken(t)
  /\ Start(c, "refresh", "loaduser", t)
  /\ UNCHANGED <<now, user, row, issued>>

\* Faulty variant: the role is taken from the old token's claims.
LoadUserOfClaims(c) ==
  /\ At(c, "loaduser")
  /\ IF Active(user)
       THEN call' = [call EXCEPT ![c] = [@ EXCEPT
                       !.pc = "rotate", !.copy = [user EXCEPT !.role = call[c].token.role]]]
       ELSE Reply(c, "err")
  /\ UNCHANGED <<now, user, row, issued>>

LoadUser(c) ==
  /\ At(c, "loaduser")
  /\ IF Active(user) THEN call' = [call EXCEPT ![c] = [@ EXCEPT !.pc = "rotate",
                                                                !.copy = user]] ELSE Reply(c, "err")
  /\ UNCHANGED <<now, user, row, issued>>

Revoke(t) == row' = [row EXCEPT ![t].state = IF @ = "none" THEN @ ELSE "revoked"]

\* RevokeRefreshToken, whose error is only logged, then the new pair.
Rotate(c) ==
  /\ At(c, "rotate")
  /\ \E o \in Outcomes :
       /\ IF o = "failed" THEN UNCHANGED row ELSE Revoke(call[c].token)
       /\ call' = [call EXCEPT ![c] = [@ EXCEPT !.pc = "store",
                                                !.new = [at |-> now, role |-> call[c].copy.role],
                                                !.rotated = o # "failed",
                                                !.before = Started]]
  /\ UNCHANGED <<now, user, issued>>

-----------------------------------------------------------------------------
(* Logout, LogoutAll, ChangePassword *)

\* An error of the revocation is only logged.
Logout(c, t) ==
  /\ Authenticated /\ t \in issued
  /\ At(c, "idle") /\ "logout" \in Ops
  /\ Revoke(t) \/ (Faults # {} /\ UNCHANGED row)
  /\ call' = [call EXCEPT ![c] = [@ EXCEPT !.op = "logout", !.pc = "done",
                                           !.reply = "ok"]]
  /\ UNCHANGED <<now, user, issued>>

LogoutAll(c) ==
  /\ Authenticated
  /\ Start(c, "logoutall", "revokeall", NoToken)
  /\ UNCHANGED <<now, user, row, issued>>

ChangePassword(c, old) ==
  /\ Authenticated
  /\ user.state = "live" /\ user.password = old
  /\ Start(c, "password", "saveuser", NoToken)
  /\ UNCHANGED <<now, user, row, issued>>

\* Faulty variant: only the tokens that the caller logged in with.
RevokeOwnTokens(c) ==
  /\ At(c, "revokeall")
  /\ row' = [t \in Tokens |-> IF c \in row[t].path THEN [row[t] EXCEPT !.state = "revoked"]
                              ELSE row[t]]
  /\ call' = [call EXCEPT ![c] = [@ EXCEPT !.pc = "done", !.reply = "ok",
                                           !.before = Started, !.during = Running]]
  /\ UNCHANGED <<now, user, issued>>

\* RevokeAllUserTokens; ChangePassword only logs its error.
RevokeAll(c) ==
  /\ At(c, "revokeall")
  /\ \E o \in Outcomes :
       /\ row' = IF o = "failed" THEN row
                 ELSE [t \in Tokens |-> IF row[t].state = "valid"
                                          THEN [row[t] EXCEPT !.state = "revoked"]
                                          ELSE row[t]]
       /\ IF o = "ok"
            THEN call' = [call EXCEPT ![c] = [@ EXCEPT !.pc = "done", !.reply = "ok",
                                                       !.before = Started,
                                                       !.during = Running]]
            ELSE Reply(c, IF call[c].op = "password" THEN "ok" ELSE "err")
  /\ UNCHANGED <<now, user, issued>>

-----------------------------------------------------------------------------
(* The writes of the users row. *)

UpdateProfile(c) ==
  /\ Authenticated
  /\ user.state = "live"
  /\ Start(c, "profile", "saveuser", NoToken)
  /\ UNCHANGED <<now, user, row, issued>>

\* CreateUser of the admin handler stores no password hash.
AdminCreate(c, role) ==
  /\ At(c, "idle") /\ "createuser" \in Ops
  /\ \E o \in Outcomes :
       /\ user' = IF o = "failed" \/ user.state # "none" THEN user
                  ELSE [state |-> "live", status |-> "active", role |-> role, password |-> "unset"]
       /\ call' = [call EXCEPT ![c] = [@ EXCEPT
                     !.op = "createuser", !.pc = "done",
                     !.reply = IF o = "ok" /\ user.state = "none" THEN "ok" ELSE "err"]]
  /\ UNCHANGED <<now, row, issued>>

\* UpdateUser and BanUser of the admin handler, called by any admin.
AdminUpdate(c, status, role) ==
  /\ user.state = "live"
  /\ At(c, "idle") /\ "admin" \in Ops
  /\ call' = [call EXCEPT ![c] = [@ EXCEPT !.op = "admin", !.pc = "saveuser",
                                           !.copy = [user EXCEPT !.status = status, !.role = role]]]
  /\ UNCHANGED <<now, user, row, issued>>

\* Faulty variant: the row saved is built anew, with the default status.
SaveUserDefaults(c) ==
  /\ At(c, "saveuser")
  /\ user' = CASE call[c].op = "password" -> [call[c].copy EXCEPT !.password = c]
               [] call[c].op = "profile"  -> [call[c].copy EXCEPT !.status = "active"]
               [] OTHER                   -> call[c].copy
  /\ call' = [call EXCEPT ![c] = [@ EXCEPT
                !.pc = IF call[c].op = "password" THEN "revokeall" ELSE "done",
                !.reply = IF call[c].op = "password" THEN "pending" ELSE "ok",
                !.before = Started, !.during = Running]]
  /\ UNCHANGED <<now, row, issued>>

\* The copy that a call saves.
Saved(c) == IF call[c].op = "password" THEN [call[c].copy EXCEPT !.password = c] ELSE call[c].copy

\* userRepository.Update: GORM's Save writes every column of the copy, and
\* inserts it again (ON CONFLICT DO UPDATE) when the row was deleted meanwhile.
SaveUser(c) ==
  /\ At(c, "saveuser")
  /\ \E o \in Outcomes :
       /\ user' = IF o = "failed" THEN user ELSE Saved(c)
       /\ \/ o # "ok" /\ Reply(c, "err")
          \/ o = "ok" /\ call[c].op = "password" /\ Goto(c, "revokeall")
          \/ /\ o = "ok" /\ call[c].op # "password"
             /\ call' = [call EXCEPT ![c] = [@ EXCEPT !.pc = "done", !.reply = "ok",
                                                      !.before = Started,
                                                      !.during = Running, !.at = now]]
  /\ UNCHANGED <<now, row, issued>>

DeleteUser(c) ==
  /\ user.state = "live"
  /\ At(c, "idle") /\ "deleteuser" \in Ops
  /\ user' = [user EXCEPT !.state = "deleted"]
  /\ call' = [call EXCEPT ![c] = [@ EXCEPT !.op = "deleteuser", !.pc = "done",
                                           !.reply = "ok"]]
  /\ UNCHANGED <<now, row, issued>>

-----------------------------------------------------------------------------

Tick == now < MaxTime /\ now' = now + 1 /\ UNCHANGED <<user, row, issued, call>>

Request(c) ==
  \/ Register(c) \/ LogoutAll(c) \/ UpdateProfile(c) \/ DeleteUser(c)
  \/ \E p \in Passwords : Login(c, p) \/ ChangePassword(c, p)
  \/ \E t \in issued : Refresh(c, t) \/ Logout(c, t)
  \/ \E r \in Roles : AdminCreate(c, r) \/ \E s \in Statuses : AdminUpdate(c, s, r)

Continue(c) ==
  \/ CreateUser(c) \/ Generate(c) \/ StoreToken(c) \/ LoadUser(c) \/ Rotate(c)
  \/ RevokeAll(c) \/ SaveUser(c)

Next == Tick \/ \E c \in Calls : Request(c) \/ Continue(c)

Spec == Init /\ [][Next]_vars

-----------------------------------------------------------------------------
(* Properties. *)

\* A revoked refresh token never becomes valid again, not even when the same
\* token is generated once more in its second, and no write changes its expiry.
RevocationIsFinal ==
  [][\A t \in Tokens : row[t].state = "revoked" => row'[t] = row[t]]_vars

\* However often it is refreshed, a session ends RowTTL after its login.
SessionBounded ==
  \A t \in Tokens : row[t].state = "valid" /\ now < row[t].expires =>
     now < row[t].root.at + RowTTL

\* Once a refresh has revoked its token, no call can start from that token any
\* more: a token is used twice only by refreshes that overlap.
RotatedTokenIsDead ==
  \A c, d \in Calls :
    /\ call[c].rotated /\ call[d].op = "refresh" /\ call[d].token = call[c].token
    => d \in call[c].before

\* After an acknowledged LogoutAll or ChangePassword (whose revocation went
\* through) the sessions that are still valid began later, or lead through a
\* login or refresh that was running at that moment.
RevokeAllClosesSessions ==
  \A p \in Calls, t \in Tokens :
    /\ call[p].op \in {"logoutall", "password"} /\ row[t].state = "valid"
    /\ row[t].path \cap call[p].before # {}
    => row[t].path \cap call[p].during # {}

\* Call s is a later Save of the users row than that of b.
SavedAfter(s, b) == /\ call[s].op \in {"password", "profile", "admin"}
                    /\ s # b /\ call[s].pc \in {"revokeall", "done"}
                    /\ s \notin call[b].before \ call[b].during

\* A ban that was acknowledged holds until the admin lifts it, or a whole-row
\* Save that was already running writes back the status it had read: no login,
\* profile update or password change that starts later ends it.
BanHolds ==
  \A b \in Calls :
    /\ call[b].op = "admin" /\ call[b].copy.status = "banned" /\ call[b].reply = "ok"
    /\ user.status # "banned"
    => \E s \in Calls : SavedAfter(s, b) /\ (call[s].op = "admin" \/ s \in call[b].during)

\* An account that was demoted has lost the admin routes when the life of an
\* access token is over, however often it logs in or refreshes.  The exceptions
\* are a login or refresh that had started before the demotion was acknowledged,
\* a whole-row Save that was running then, and another decision of an admin.
DemotionHolds ==
  \A d \in Calls :
    /\ call[d].op = "admin" /\ call[d].copy.role = "viewer" /\ call[d].reply = "ok"
    /\ RequireAdmin /\ now >= call[d].at + AccessTTL
    => \/ \E s \in Calls : SavedAfter(s, d) /\ (call[s].op = "admin" \/ s \in call[d].during)
       \/ \E g \in call[d].during : call[g].op \in {"login", "refresh"} /\ call[g].new.role = "admin"

\* A refresh that is under way, and the tokens that let calls in: a refresh has
\* found its row valid.
Refreshing(c) == call[c].op = "refresh" /\ call[c].pc \in {"loaduser", "rotate", "store"}
Admitted      == [c \in Calls |-> IF Refreshing(c) THEN {call[c].token} ELSE {}]

Ledger == INSTANCE SessionLedger WITH
            Bearers <- Calls, Life <- RowTTL, ledger <- row, holds <- Admitted

\* Sessions implement SessionLedger: every token that is stored continues the
\* session of one that was valid when it was presented, up to the same end, and
\* overlapping refreshes, failing writes and revocations add no other way in.
ImplementsLedger == Ledger!Spec

=============================================================================
