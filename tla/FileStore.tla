----------------------------- MODULE FileStore -----------------------------
(***************************************************************************)
(* The file use case over its two stores and the owner's quota.  One HTTP  *)
(* call is a goroutine that makes a few database and object-store calls    *)
(* one after the other, without a transaction around them; each of those   *)
(* is one step here, and steps of different calls interleave freely.       *)
(*                                                                         *)
(* A call that creates a file draws a fresh uuid for the row and a fresh   *)
(* random storage key for the object.  Both are named by the call that     *)
(* drew them, so a file is an element of Calls, and the owner and the size *)
(* of file f, which no operation changes, are those of call f.             *)
(***************************************************************************)
EXTENDS Integers, FiniteSets

CONSTANTS
  Calls,        \* the HTTP calls of a behaviour, each handled once
  Users,
  Quota,        \* Quota[u]: users.storage_quota
  Sizes,        \* the sizes an upload may have
  Granted,      \* the <<user, action>> pairs a permission row allows on files
  Ops,          \* the operations the clients of this behaviour use
  Faults,       \* how a write to the database or the object store may go wrong
  MaxCrashes,   \* how often the server process may die
  MaxInFlight   \* how many calls the server handles at the same time

AllOps == {"upload", "copy", "complete", "delete", "edit", "download", "profile"}
Actions == {"read", "write", "delete", "download"}

ASSUME ConstantsAssumption ==
  /\ Users # {}
  /\ Quota \in [Users -> Nat]
  /\ Sizes \subseteq Nat \ {0}
  /\ \E n \in Sizes : \A m \in Sizes : m <= n    \* the server's BodyLimit
  /\ Granted \subseteq Users \X Actions
  /\ Ops \subseteq AllOps
  /\ Faults \subseteq {"failed", "unacked"}
  /\ MaxCrashes \in Nat
  /\ MaxInFlight \in Nat \ {0}

VARIABLES
  status,       \* status[f]: the files row, "live" while deleted_at IS NULL
  downloads,    \* downloads[f]: its download_count column
  objects,      \* the storage keys that hold an object
  used,         \* used[u]: users.storage_used
  call,         \* call[c]: the local state of the goroutine handling c
  crashes       \* number of crashes so far

vars == <<status, downloads, objects, used, call, crashes>>

Steps == {"idle", "check", "put", "copyobject", "create", "rollback", "charge",
          "charged", "created", "purge", "softdelete", "notfound", "refund",
          "refunded", "save", "saved", "get", "count", "saveuser"}

\* pc is the step the goroutine is at, or the one it ended in; file is the
\* file a call works on, seen the column value it read and still holds.
CallState == [op: AllOps \cup {"none"}, pc: Steps, user: Users, file: Calls,
              size: Nat, seen: Int, reply: {"pending", "ok", "err", "lost"}]

TypeOK ==
  /\ status \in [Calls -> {"absent", "live", "deleted"}]
  /\ downloads \in [Calls -> Int]
  /\ objects \subseteq Calls
  /\ used \in [Users -> Int]
  /\ call \in [Calls -> CallState]
  /\ crashes \in Nat

Init ==
  /\ status = [f \in Calls |-> "absent"]
  /\ downloads = [f \in Calls |-> 0]
  /\ objects = {}
  /\ used = [u \in Users |-> 0]
  /\ call = [c \in Calls |->
        [op |-> "none", pc |-> "idle", user |-> CHOOSE u \in Users : TRUE,
         file |-> c, size |-> 0, seen |-> 0, reply |-> "pending"]]
  /\ crashes = 0

At(c, step) == call[c].pc = step /\ call[c].reply = "pending"
Pending(c)  == call[c].pc # "idle" /\ call[c].reply = "pending"
InFlight    == {c \in Calls : Pending(c)}

Goto(c, step)       == call' = [call EXCEPT ![c].pc = step]
Reply(c, answer)    == call' = [call EXCEPT ![c].reply = answer]
End(c, step, answer) == call' = [call EXCEPT ![c] = [@ EXCEPT !.pc = step,
                                                              !.reply = answer]]

\* A write takes effect and succeeds, or reports an error: without effect
\* ("failed") or although it took effect ("unacked": the answer was lost).
Outcomes == {"ok"} \cup Faults

\* The server takes call c: operation op by user u on file f, next at step.
Accept(c, op, u, f, n, x, step, answer) ==
  /\ At(c, "idle") /\ op \in Ops
  /\ Cardinality(InFlight) < MaxInFlight
  /\ call' = [call EXCEPT ![c] = [op |-> op, pc |-> step, user |-> u, file |-> f,
                                  size |-> n, seen |-> x, reply |-> answer]]

\* resolveFileWithAccess: the row exists and u owns it or holds the action.
Resolved(u, f, action) ==
  /\ status[f] = "live"
  /\ call[f].user = u \/ <<u, action>> \in Granted

HasStorageSpace(u, n) == used[u] + n <= Quota[u]

-----------------------------------------------------------------------------
(* Upload: the quota check reads storage_used, the charge comes last.      *)

\* The call is refused for lack of space or for a bad folder id.
Upload(c, u, n) ==
  /\ \E answer \in {"pending", "err"} :
       /\ answer = "pending" => HasStorageSpace(u, n)
       /\ Accept(c, "upload", u, c, n, 0, "put", answer)
  /\ UNCHANGED <<status, downloads, objects, used, crashes>>

PutObject(c) ==
  /\ At(c, "put")
  /\ \E o \in Outcomes :
       /\ objects' = IF o = "failed" THEN objects ELSE objects \cup {c}
       /\ IF o = "ok" THEN Goto(c, "create") ELSE Reply(c, "err")
  /\ UNCHANGED <<status, downloads, used, crashes>>

\* Faulty variant: an error of the insert is ignored.
CreateRowIgnoringErrors(c) ==
  /\ At(c, "create")
  /\ \E o \in Outcomes :
       status' = IF o = "failed" THEN status ELSE [status EXCEPT ![c] = "live"]
  /\ IF call[c].op = "complete" THEN End(c, "created", "ok") ELSE Goto(c, "charge")
  /\ UNCHANGED <<downloads, objects, used, crashes>>

\* A chunked upload is completed without any object behind it, a size of 0
\* and no charge; the row insert is its last step.
CreateRow(c) ==
  /\ At(c, "create")
  /\ \E o \in Outcomes :
       /\ status' = IF o = "failed" THEN status ELSE [status EXCEPT ![c] = "live"]
       /\ IF call[c].op = "complete"
            THEN End(c, "created", IF o = "ok" THEN "ok" ELSE "err")
            ELSE Goto(c, IF o = "ok" THEN "charge" ELSE "rollback")
  /\ UNCHANGED <<downloads, objects, used, crashes>>

\* The insert failed: the object is removed, and an error of that is ignored.
Rollback(c) ==
  /\ At(c, "rollback")
  /\ \E o \in Outcomes : objects' = IF o = "failed" THEN objects ELSE objects \ {c}
  /\ Reply(c, "err")
  /\ UNCHANGED <<status, downloads, used, crashes>>

\* storage_used + delta in SQL.  An error is only logged: the answer is "ok".
UpdateStorageUsed(c, delta, step) ==
  \E o \in Outcomes :
    /\ used' = IF o = "failed" THEN used
               ELSE [used EXCEPT ![call[c].user] = @ + delta]
    /\ IF o = "ok" THEN End(c, step, "ok") ELSE Reply(c, "ok")

\* Faulty variant: when the quota update fails the object is removed after all.
ChargeOrUndo(c) ==
  /\ At(c, "charge")
  /\ UpdateStorageUsed(c, call[c].size, "charged")
  /\ objects' = IF call'[c].pc = "charged" THEN objects ELSE objects \ {c}
  /\ UNCHANGED <<status, downloads, crashes>>

\* Faulty variant: a charge whose answer is lost is made once more.
ChargeRetried(c) ==
  /\ At(c, "charge")
  /\ \E o \in Outcomes :
       used' = [used EXCEPT ![call[c].user] =
                  @ + (IF o = "unacked" THEN 2 ELSE 1) * call[c].size]
  /\ End(c, "charged", "ok")
  /\ UNCHANGED <<status, downloads, objects, crashes>>

Charge(c) ==
  /\ At(c, "charge")
  /\ UpdateStorageUsed(c, call[c].size, "charged")
  /\ UNCHANGED <<status, downloads, objects, crashes>>

-----------------------------------------------------------------------------
(* Copy: the source row, the caller's quota and the object, one at a time. *)

Copy(c, u, f) ==
  /\ Resolved(u, f, "read")
  /\ Accept(c, "copy", u, f, call[f].size, 0, "check", "pending")
  /\ UNCHANGED <<status, downloads, objects, used, crashes>>

CopyCheck(c) ==
  /\ At(c, "check")
  /\ IF HasStorageSpace(call[c].user, call[c].size)
       THEN Goto(c, "copyobject")
       ELSE Reply(c, "err")
  /\ UNCHANGED <<status, downloads, objects, used, crashes>>

\* Faulty variant: a missing source object is not an error.
CopyObjectUnchecked(c) ==
  /\ At(c, "copyobject")
  /\ objects' = IF call[c].file \in objects THEN objects \cup {c} ELSE objects
  /\ Goto(c, "create")
  /\ UNCHANGED <<status, downloads, used, crashes>>

CopyObject(c) ==
  /\ At(c, "copyobject")
  /\ IF call[c].file \in objects
       THEN \E o \in Outcomes :
              /\ objects' = IF o = "failed" THEN objects ELSE objects \cup {c}
              /\ IF o = "ok" THEN Goto(c, "create") ELSE Reply(c, "err")
       ELSE Reply(c, "err") /\ UNCHANGED objects
  /\ UNCHANGED <<status, downloads, used, crashes>>

\* The target folder id is parsed only now; a bad one leaves the new object.
CopyBadTarget(c) ==
  /\ At(c, "create") /\ call[c].op = "copy"
  /\ Reply(c, "err")
  /\ UNCHANGED <<status, downloads, objects, used, crashes>>

-----------------------------------------------------------------------------
(* CompleteChunkUpload: the multipart calls of the adapter do nothing.     *)

CompleteChunkUpload(c, u) ==
  /\ Accept(c, "complete", u, c, 0, 0, "create", "pending")
  /\ UNCHANGED <<status, downloads, objects, used, crashes>>

-----------------------------------------------------------------------------
(* Delete: the object first, then the row, then the quota of the caller.   *)

Delete(c, u, f) ==
  /\ Resolved(u, f, "delete")
  /\ Accept(c, "delete", u, f, call[f].size, 0, "purge", "pending")
  /\ UNCHANGED <<status, downloads, objects, used, crashes>>

\* Faulty variant: the row is deleted although the object was not.
PurgeIgnoringErrors(c) ==
  /\ At(c, "purge")
  /\ \E o \in Outcomes :
       objects' = IF o = "failed" THEN objects ELSE objects \ {call[c].file}
  /\ Goto(c, "softdelete")
  /\ UNCHANGED <<status, downloads, used, crashes>>

\* Removing an object that is not there is not an error.
Purge(c) ==
  /\ At(c, "purge")
  /\ \E o \in Outcomes :
       /\ objects' = IF o = "failed" THEN objects ELSE objects \ {call[c].file}
       /\ IF o = "ok" THEN Goto(c, "softdelete") ELSE Reply(c, "err")
  /\ UNCHANGED <<status, downloads, used, crashes>>

\* Faulty variant: RowsAffected is not looked at.
SoftDeleteUnchecked(c) ==
  /\ At(c, "softdelete")
  /\ status' = [status EXCEPT ![call[c].file] = "deleted"]
  /\ Goto(c, "refund")
  /\ UNCHANGED <<downloads, objects, used, crashes>>

\* UPDATE ... WHERE deleted_at IS NULL; no row affected is an error.
SoftDelete(c) ==
  /\ At(c, "softdelete")
  /\ IF status[call[c].file] = "live"
       THEN \E o \in Outcomes :
              /\ status' = IF o = "failed" THEN status
                           ELSE [status EXCEPT ![call[c].file] = "deleted"]
              /\ IF o = "ok" THEN Goto(c, "refund") ELSE Reply(c, "err")
       ELSE End(c, "notfound", "err") /\ UNCHANGED status
  /\ UNCHANGED <<downloads, objects, used, crashes>>

\* Faulty variant: the row is restored when the quota update fails.
RefundOrRestore(c) ==
  /\ At(c, "refund")
  /\ UpdateStorageUsed(c, - call[c].size, "refunded")
  /\ status' = IF call'[c].pc = "refunded" THEN status
               ELSE [status EXCEPT ![call[c].file] = "live"]
  /\ UNCHANGED <<downloads, objects, crashes>>

Refund(c) ==
  /\ At(c, "refund")
  /\ UpdateStorageUsed(c, - call[c].size, "refunded")
  /\ UNCHANGED <<status, downloads, objects, crashes>>

-----------------------------------------------------------------------------
(* Rename and Move: read the row, set a column of the copy, Save the copy. *)

Edit(c, u, f) ==
  /\ Resolved(u, f, "write")
  /\ Accept(c, "edit", u, f, 0, downloads[f], "save", "pending")
  /\ UNCHANGED <<status, downloads, objects, used, crashes>>

\* GORM's Save updates every column WHERE deleted_at IS NULL and, when no row
\* was affected, inserts the copy ON CONFLICT (id) DO UPDATE: either way the
\* row ends up as it was when it was read, live.
SaveRow(c) ==
  /\ At(c, "save")
  /\ \E o \in Outcomes :
       IF o = "failed"
         THEN Reply(c, "err") /\ UNCHANGED <<status, downloads>>
         ELSE /\ status' = [status EXCEPT ![call[c].file] = "live"]
              /\ downloads' = [downloads EXCEPT ![call[c].file] = call[c].seen]
              /\ End(c, "saved", IF o = "ok" THEN "ok" ELSE "err")
  /\ UNCHANGED <<objects, used, crashes>>

-----------------------------------------------------------------------------
(* Download: the object is opened, then the counter is incremented in SQL. *)

Download(c, u, f) ==
  /\ Resolved(u, f, "download")
  /\ Accept(c, "download", u, f, 0, 0, "get", "pending")
  /\ UNCHANGED <<status, downloads, objects, used, crashes>>

GetObject(c) ==
  /\ At(c, "get")
  /\ \/ call[c].file \in objects /\ Goto(c, "count")
     \/ (Faults # {} \/ call[c].file \notin objects) /\ Reply(c, "err")
  /\ UNCHANGED <<status, downloads, objects, used, crashes>>

IncrementDownloadCount(c) ==
  /\ At(c, "count")
  /\ \E o \in Outcomes :
       downloads' = IF o = "failed" \/ status[call[c].file] # "live" THEN downloads
                    ELSE [downloads EXCEPT ![call[c].file] = @ + 1]
  /\ Reply(c, "ok")
  /\ UNCHANGED <<status, objects, used, crashes>>

-----------------------------------------------------------------------------
(* A whole-row Save of the user: UpdateProfile, ChangePassword and the     *)
(* admin's edits read the row, set other columns and write all of it back. *)

UpdateProfile(c, u) ==
  /\ Accept(c, "profile", u, c, 0, used[u], "saveuser", "pending")
  /\ UNCHANGED <<status, downloads, objects, used, crashes>>

SaveUser(c) ==
  /\ At(c, "saveuser")
  /\ \E o \in Outcomes :
       IF o = "failed"
         THEN Reply(c, "err") /\ UNCHANGED used
         ELSE /\ used' = [used EXCEPT ![call[c].user] = call[c].seen]
              /\ End(c, "saved", IF o = "ok" THEN "ok" ELSE "err")
  /\ UNCHANGED <<status, downloads, objects, crashes>>

-----------------------------------------------------------------------------

\* The file does not resolve: not found, or forbidden.
Refuse(c, u, f, op, action) ==
  /\ At(c, "idle") /\ op \in Ops
  /\ ~ Resolved(u, f, action)
  /\ Reply(c, "err")
  /\ UNCHANGED <<status, downloads, objects, used, crashes>>

\* The server process dies and every call it was handling with it.
Crash ==
  /\ crashes < MaxCrashes /\ InFlight # {}
  /\ crashes' = crashes + 1
  /\ call' = [c \in Calls |-> IF Pending(c) THEN [call[c] EXCEPT !.reply = "lost"]
                                            ELSE call[c]]
  /\ UNCHANGED <<status, downloads, objects, used>>

NewFile(c, u) ==
  \/ \E n \in Sizes : Upload(c, u, n)
  \/ CompleteChunkUpload(c, u)

FileRequest(c, u) ==
  \E f \in Calls \ {c} :
    \/ Copy(c, u, f)     \/ Refuse(c, u, f, "copy", "read")
    \/ Delete(c, u, f)   \/ Refuse(c, u, f, "delete", "delete")
    \/ Edit(c, u, f)     \/ Refuse(c, u, f, "edit", "write")
    \/ Download(c, u, f) \/ Refuse(c, u, f, "download", "download")

Request(c) ==
  \E u \in Users : NewFile(c, u) \/ FileRequest(c, u) \/ UpdateProfile(c, u)

Continue(c) ==
  \/ PutObject(c) \/ CreateRow(c) \/ Rollback(c) \/ Charge(c)
  \/ CopyCheck(c) \/ CopyObject(c) \/ CopyBadTarget(c)
  \/ Purge(c) \/ SoftDelete(c) \/ Refund(c)
  \/ SaveRow(c) \/ GetObject(c) \/ IncrementDownloadCount(c) \/ SaveUser(c)

Next == Crash \/ \E c \in Calls : Request(c) \/ Continue(c)

Spec == Init /\ [][Next]_vars

-----------------------------------------------------------------------------
(* Properties.                                                             *)

\* Delete call d has removed the object of f, or got an error for that.
Purged(d, f) == /\ call[d].op = "delete" /\ call[d].file = f
                /\ \/ call[d].pc \in {"softdelete", "notfound", "refund", "refunded"}
                   \/ call[d].pc = "purge" /\ call[d].reply = "err"

\* Delete call d has soft-deleted the row of f and owns the refund of it.
Removed(d, f) == /\ call[d].op = "delete" /\ call[d].file = f
                 /\ call[d].pc \in {"refund", "refunded"}

\* A Save of a copy of the row of f went through.
Saved(f) == \E s \in Calls : /\ call[s].op = "edit" /\ call[s].file = f
                             /\ call[s].pc = "saved"

\* A listed file (row not deleted) has its object in the store, unless a
\* Delete got as far as removing the object, the row's insert was applied but
\* reported as an error, or the file came from CompleteChunkUpload.  A Copy
\* racing the deletion of its source never commits a row without an object.
LiveRowHasObject ==
  \A f \in Calls : status[f] = "live" /\ f \notin objects =>
     \/ call[f].op = "complete" \/ call[f].pc = "rollback"
     \/ \E d \in Calls : Purged(d, f)

\* An object without a live row belongs to a call between its write of the
\* object and its insert of the row, or to one that stopped there and did not
\* answer "ok": a crash, an error whose cleanup failed too, a bad copy target.
\* A deleted row never leaves its object behind, whatever fails or races.
NoOrphanObject ==
  \A f \in objects : status[f] # "live" =>
     /\ status[f] = "absent"
     /\ call[f].pc \in {"put", "copyobject", "create", "rollback"}
     /\ call[f].reply # "ok"

\* A file the server reported as created is listed and has its object for as
\* long as no Delete of it got as far as removing the object: no crash, failed
\* step or other call takes an acknowledged file away.
AcknowledgedFileIsServed ==
  \A f \in Calls :
     /\ call[f].op \in {"upload", "copy"} /\ call[f].reply = "ok"
     /\ \A d \in Calls : ~ Purged(d, f)
     => status[f] = "live" /\ f \in objects

\* SoftDelete's WHERE deleted_at IS NULL lets one of several racing Deletes
\* through, so the quota of a file is given back once; a second time only
\* after a stale whole-row Save (Rename, Move) has brought the row back.
SecondRefundNeedsSave ==
  \A f, d, e \in Calls : d # e /\ Removed(d, f) /\ Removed(e, f) => Saved(f)

\* Only a whole-row Save undoes what another call wrote to a files row: it
\* alone turns a deleted row live again or lowers a download count.
OnlySaveUndoes ==
  [][\A f \in Calls :
       \/ status[f] = "deleted" /\ status'[f] # "deleted"
       \/ downloads'[f] < downloads[f]
       => \E s \in Calls : At(s, "save") /\ call[s].file = f]_vars

\* The steps a call of each operation can be at.
StepsOf(op) ==
  CASE op = "none"     -> {"idle"}
    [] op = "upload"   -> {"put", "create", "rollback", "charge", "charged"}
    [] op = "copy"     -> {"check", "copyobject", "create", "rollback", "charge", "charged"}
    [] op = "complete" -> {"create", "created"}
    [] op = "delete"   -> {"purge", "softdelete", "notfound", "refund", "refunded"}
    [] op = "edit"     -> {"save", "saved"}
    [] op = "download" -> {"get", "count"}
    [] op = "profile"  -> {"saveuser", "saved"}

\* How far the creating call of f, its row and its object have got.
CreationInv(f) ==
  /\ call[f].pc \in StepsOf(call[f].op)
  /\ call[f].reply = "ok" => call[f].pc \in {"charge", "charged", "created", "refund",
                                            "refunded", "saved", "count"}
  /\ status[f] # "absent" => call[f].pc \in {"rollback", "charge", "charged", "created"}
  /\ call[f].pc \in {"charge", "charged"} => status[f] # "absent"
  /\ f \in objects =>
       /\ call[f].op # "complete"
       /\ call[f].pc \in {"put", "copyobject", "create", "rollback", "charge", "charged"}
  /\ call[f].op # "complete" /\ call[f].pc \in {"create", "charge", "charged"} =>
       f \in objects \/ \E d \in Calls : Purged(d, f)
  /\ call[f].pc = "create" => status[f] = "absent"
  /\ status[f] = "deleted" => f \notin objects /\ \E d \in Calls : Purged(d, f)

\* What a call that resolved a file may rely on about that file.
WorkInv(d) ==
  /\ call[d].op \in {"delete", "edit"} => status[call[d].file] # "absent"
  /\ call[d].pc \in {"softdelete", "notfound", "refund", "refunded"} =>
       call[d].file \notin objects
  /\ call[d].pc \in {"refund", "refunded"} =>
       status[call[d].file] = "deleted" \/ Saved(call[d].file)

\* The inductive invariant behind the safety properties above.
FileStoreInv ==
  /\ \A f \in Calls : CreationInv(f)
  /\ \A d \in Calls : WorkInv(d)
  /\ SecondRefundNeedsSave

\* A file can be downloaded while its row is live and its object is there.
Served == {f \in objects : status[f] = "live"}

\* A Delete, or the rollback of its creation, went for the object of f.
Gone(f) == \/ call[f].pc = "rollback" /\ call[f].reply = "err"
           \/ \E d \in Calls : Purged(d, f)

Withdrawn == {f \in Calls \ objects : Gone(f)}

Catalogue == INSTANCE FileCatalogue
               WITH Files <- Calls, served <- Served, withdrawn <- Withdrawn

\* Seen through Served, every step of the service is one of the catalogue's or
\* none: files appear and disappear atomically although object and row are
\* written by separate calls to separate stores, crashes and failing steps
\* never take a file away, and not even a row that a stale Save brought back
\* is ever served again.
ImplementsCatalogue == Catalogue!Spec

=============================================================================
