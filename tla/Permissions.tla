---------------------------- MODULE Permissions ----------------------------
(***************************************************************************)
(* The permission use case for one resource: the rows of the permissions   *)
(* table, and Grant, GrantBulk and Revoke.  Each HTTP call is a goroutine  *)
(* that makes a few database calls one after the other, each a step here;  *)
(* steps of different calls interleave.  The table has no unique index     *)
(* (AutoMigrate makes none), so a user can hold an action by several rows. *)
(***************************************************************************)
EXTENDS Integers, FiniteSets

CONSTANTS
  Users,
  Owner,        \* the owner of the resource
  Actions,      \* the actions that can be granted
  Manage,       \* manage_permissions
  Share,        \* share
  Ids,          \* the ids that rows can get
  Calls,        \* the HTTP calls of a behaviour, each handled once
  MaxBulk       \* a bulk grant has at most this many entries

ASSUME PermissionsAssumption ==
  /\ Owner \in Users /\ {Manage, Share} \subseteq Actions /\ MaxBulk \in Nat \ {0}

VARIABLES
  perm,         \* the permissions table
  call          \* call[c]: the local state of the goroutine handling c

vars == <<perm, call>>

\* A revoked row is gone from the table (its contents are history).
Row == [state: {"none", "granted", "revoked"}, user: Users, action: Actions, by: Users,
        expired: BOOLEAN]

\* id is the row that Revoke has read.
Call == [pc: {"idle", "insert", "check", "delete", "done"},
         op: {"none", "grant", "revoke"}, user: Users, id: Ids,
         reply: {"pending", "ok", "err"}]

TypeOK == perm \in [Ids -> Row] /\ call \in [Calls -> Call]

Granted == {p \in Ids : perm[p].state = "granted"}
Unused  == {p \in Ids : perm[p].state = "none"}

\* HasPermission
Holds(u, a) == \E p \in Granted : perm[p].user = u /\ perm[p].action = a /\ ~ perm[p].expired

\* A user has an action on the resource by one row.  The migration's unique
\* index would keep it; AutoMigrate, which the service runs, makes no such index.
OneRowPerAction ==
  \A p, q \in Granted :
    perm[p].user = perm[q].user /\ perm[p].action = perm[q].action => p = q

\* Rows that were inserted by hand, by the owner: no call of the service makes
\* the first one.
Init ==
  /\ perm \in [Ids -> Row] /\ OneRowPerAction
  /\ \A p \in Ids :
       /\ perm[p].state # "revoked" /\ ~ perm[p].expired /\ perm[p].by = Owner
       /\ perm[p].state = "none" => perm[p].user = Owner /\ perm[p].action = Manage
  /\ \E p \in Ids : call = [c \in Calls |->
       [pc |-> "idle", op |-> "none", user |-> Owner, id |-> p,
        reply |-> "pending"]]

At(c, step) == call[c].pc = step
Outcomes    == {"ok", "failed"}

Reply(c, answer) == call' = [call EXCEPT ![c] = [@ EXCEPT !.pc = "done",
                                                          !.reply = answer]]

-----------------------------------------------------------------------------
(* Grant, GrantBulk *)

\* Faulty variant: any permission on the resource will do.
GrantAny(c, u) ==
  /\ At(c, "idle")
  /\ \E a \in Actions : Holds(u, a)
  /\ call' = [call EXCEPT ![c] = [@ EXCEPT !.op = "grant", !.pc = "insert", !.user = u]]
  /\ UNCHANGED perm

Grant(c, u) ==
  /\ At(c, "idle")
  /\ Holds(u, Manage)
  /\ call' = [call EXCEPT ![c] = [@ EXCEPT !.op = "grant", !.pc = "insert", !.user = u]]
  /\ UNCHANGED perm

\* Also the owner of the resource, unless he has a row like any other.
GrantForbidden(c, u) ==
  /\ At(c, "idle")
  /\ ~ Holds(u, Manage)
  /\ call' = [call EXCEPT ![c] = [@ EXCEPT !.op = "grant", !.pc = "done", !.user = u,
                                           !.reply = "err"]]
  /\ UNCHANGED perm

\* One INSERT for all entries.
Insert(c) ==
  /\ At(c, "insert")
  /\ \/ Reply(c, "err") /\ UNCHANGED perm
     \/ \E ids \in SUBSET Unused :
          /\ Cardinality(ids) \in 1 .. MaxBulk
          /\ \E entry \in [ids -> Users \X Actions] :
               perm' = [p \in Ids |-> IF p \notin ids THEN perm[p]
                 ELSE [state |-> "granted", user |-> entry[p][1], action |-> entry[p][2],
                       by |-> call[c].user, expired |-> FALSE]]
          /\ Reply(c, "ok")

-----------------------------------------------------------------------------
(* Revoke *)

Revoke(c, u, p) ==
  /\ At(c, "idle") /\ p \in Granted
  /\ call' = [call EXCEPT ![c] = [@ EXCEPT !.op = "revoke", !.pc = "check", !.user = u,
                                           !.id = p]]
  /\ UNCHANGED perm

\* A manager, or the user the row names as its granter.
MayRevoke(c) ==
  /\ At(c, "check")
  /\ IF Holds(call[c].user, Manage) \/ perm[call[c].id].by = call[c].user
       THEN call' = [call EXCEPT ![c].pc = "delete"]
       ELSE Reply(c, "err")
  /\ UNCHANGED perm

\* Faulty variant: RowsAffected is not looked at.
DeleteUnchecked(c) ==
  /\ At(c, "delete")
  /\ perm' = [perm EXCEPT ![call[c].id].state = "revoked"]
  /\ Reply(c, "ok")

Delete(c) ==
  /\ At(c, "delete")
  /\ \E o \in Outcomes :
       IF o = "ok" /\ call[c].id \in Granted
         THEN perm' = [perm EXCEPT ![call[c].id].state = "revoked"] /\ Reply(c, "ok")
         ELSE Reply(c, "err") /\ UNCHANGED perm

-----------------------------------------------------------------------------

\* The clock passes a row's expires_at.
Expire(p) ==
  /\ p \in Granted /\ ~ perm[p].expired
  /\ perm' = [perm EXCEPT ![p].expired = TRUE]
  /\ UNCHANGED call

Next ==
  \/ \E c \in Calls :
       \/ \E u \in Users : Grant(c, u) \/ GrantForbidden(c, u)
       \/ \E u \in Users, p \in Ids : Revoke(c, u, p)
       \/ Insert(c) \/ MayRevoke(c) \/ Delete(c)
  \/ \E p \in Ids : Expire(p)

Spec == Init /\ [][Next]_vars

-----------------------------------------------------------------------------
(* Properties. *)

\* Whoever granted a row, whatever was revoked since, had been granted
\* manage_permissions before, or is the owner, who stands behind the first rows.
GrantsDescend ==
  \A p \in Ids : perm[p].state # "none" =>
    \/ perm[p].by = Owner
    \/ \E q \in Ids \ {p} : /\ perm[q].state # "none"
                            /\ perm[q].user = perm[p].by /\ perm[q].action = Manage

\* Nobody manages the resource, and no Grant that was checked is running.
Sealed == /\ \A u \in Users : ~ Holds(u, Manage)
          /\ \A c \in Calls : ~ At(c, "insert")

\* Once a resource has no manager left, it never has one again, and nobody gets
\* a permission on it any more, the owner's wishes notwithstanding.
SealedForever ==
  [][Sealed => Sealed' /\ {p \in Ids : perm[p].state = "granted"}' \subseteq Granted]_vars

\* A row is revoked once: of overlapping Revokes one is told so.
RevokedOnce ==
  \A c, d \in Calls :
    /\ call[c].op = "revoke" /\ call[d].op = "revoke" /\ call[c].id = call[d].id
    /\ call[c].reply = "ok" /\ call[d].reply = "ok"
    => c = d

=============================================================================
