-------------------------- MODULE FileStoreProofs ---------------------------
(***************************************************************************)
(* TLAPS proofs about FileStore: its type invariant, its safety invariants *)
(* (how far the quota can be exceeded and what storage_used adds up to     *)
(* among them) and that it implements FileCatalogue, for any set of calls  *)
(* and users, any fault model and any number of crashes.                   *)
(***************************************************************************)
EXTENDS FileStoreLedger, FiniteSetTheorems, WellFoundedInduction, TLAPS

-----------------------------------------------------------------------------
(* How the helpers that update one call change the type of call.           *)

LEMMA GotoType ==
  ASSUME call \in [Calls -> CallState], NEW c \in Calls, NEW s \in Steps, Goto(c, s)
  PROVE  call' \in [Calls -> CallState]
BY DEF Goto, CallState

LEMMA ReplyType ==
  ASSUME call \in [Calls -> CallState], NEW c \in Calls,
         NEW a \in {"ok", "err", "lost"}, Reply(c, a)
  PROVE  call' \in [Calls -> CallState]
BY DEF Reply, CallState

LEMMA EndType ==
  ASSUME call \in [Calls -> CallState], NEW c \in Calls, NEW s \in Steps,
         NEW a \in {"ok", "err"}, End(c, s, a)
  PROVE  call' \in [Calls -> CallState]
BY DEF End, CallState

LEMMA AcceptType ==
  ASSUME call \in [Calls -> CallState], NEW c \in Calls, NEW op \in AllOps,
         NEW u \in Users, NEW f \in Calls, NEW n \in Nat, NEW x \in Int,
         NEW s \in Steps, NEW a \in {"pending", "err"},
         Accept(c, op, u, f, n, x, s, a)
  PROVE  call' \in [Calls -> CallState]
BY DEF Accept, CallState

\* The type invariant, for every value of the constants.
LEMMA TypeStep == ASSUME TypeOK, [Next]_vars PROVE TypeOK'
<1> USE ConstantsAssumption DEF TypeOK
<1>1. ASSUME NEW c \in Calls, Continue(c) PROVE TypeOK'
  <2>0. call[c] \in CallState OBVIOUS
  <2>1. CASE PutObject(c)
    BY <2>1, GotoType, ReplyType DEF PutObject, Steps
  <2>2. CASE CreateRow(c)
    BY <2>2, GotoType, ReplyType, EndType DEF CreateRow, Steps
  <2>3. CASE Rollback(c)
    BY <2>3, ReplyType DEF Rollback
  <2>4. CASE Charge(c)
    BY <2>0, <2>4, ReplyType, EndType DEF Charge, UpdateStorageUsed, Steps, CallState
  <2>5. CASE CopyCheck(c)
    BY <2>5, GotoType, ReplyType DEF CopyCheck, Steps
  <2>6. CASE CopyObject(c)
    BY <2>6, GotoType, ReplyType DEF CopyObject, Steps
  <2>7. CASE CopyBadTarget(c)
    BY <2>7, ReplyType DEF CopyBadTarget
  <2>8. CASE Purge(c)
    BY <2>8, GotoType, ReplyType DEF Purge, Steps
  <2>9. CASE SoftDelete(c)
    BY <2>9, GotoType, ReplyType, EndType DEF SoftDelete, Steps
  <2>10. CASE Refund(c)
    BY <2>0, <2>10, ReplyType, EndType DEF Refund, UpdateStorageUsed, Steps, CallState
  <2>11. CASE SaveRow(c)
    <3>1. call' \in [Calls -> CallState]
      BY <2>11, ReplyType, EndType DEF SaveRow, Steps
    <3>2. QED BY <2>0, <2>11, <3>1 DEF SaveRow, CallState
  <2>12. CASE GetObject(c)
    BY <2>12, GotoType, ReplyType DEF GetObject, Steps
  <2>13. CASE IncrementDownloadCount(c)
    <3>1. call[c].file \in Calls BY DEF CallState
    <3>2. QED BY <2>13, <3>1, ReplyType DEF IncrementDownloadCount
  <2>14. CASE SaveUser(c)
    <3>1. call' \in [Calls -> CallState]
      BY <2>14, ReplyType, EndType DEF SaveUser, Steps
    <3>2. QED BY <2>0, <2>14, <3>1 DEF SaveUser, CallState
  <2>15. QED
    BY <1>1, <2>1, <2>2, <2>3, <2>4, <2>5, <2>6, <2>7, <2>8, <2>9, <2>10,
       <2>11, <2>12, <2>13, <2>14 DEF Continue
<1>2. ASSUME NEW c \in Calls, Request(c) PROVE TypeOK'
  <2>1. UNCHANGED <<status, downloads, objects, used, crashes>>
    BY <1>2 DEF Request, NewFile, FileRequest, Upload, CompleteChunkUpload, UpdateProfile, Copy,
                Delete, Edit, Download, Refuse
  <2>2. PICK u \in Users : NewFile(c, u) \/ FileRequest(c, u) \/ UpdateProfile(c, u)
    BY <1>2 DEF Request
  <2>3. used[u] \in Int OBVIOUS
  <2>4. ASSUME NEW n \in Sizes, Upload(c, u, n) PROVE call' \in [Calls -> CallState]
    BY <2>4 DEF Upload, Accept, CallState, Steps, AllOps
  <2>5. CASE CompleteChunkUpload(c, u)
    BY <2>1, <2>5 DEF CompleteChunkUpload, Accept, CallState, Steps, AllOps
  <2>6. CASE UpdateProfile(c, u)
    BY <2>1, <2>3, <2>6, AcceptType DEF UpdateProfile, Steps, AllOps
  <2>7. ASSUME NEW f \in Calls PROVE call[f].size \in Nat /\ downloads[f] \in Int
    BY DEF CallState
  <2>8. ASSUME NEW f \in Calls, Copy(c, u, f) PROVE call' \in [Calls -> CallState]
    BY <2>7, <2>8 DEF Copy, Accept, CallState, Steps, AllOps
  <2>9. ASSUME NEW f \in Calls, Delete(c, u, f) PROVE call' \in [Calls -> CallState]
    BY <2>7, <2>9 DEF Delete, Accept, CallState, Steps, AllOps
  <2>10. ASSUME NEW f \in Calls, Edit(c, u, f) PROVE call' \in [Calls -> CallState]
    BY <2>7, <2>10, AcceptType DEF Edit, Steps, AllOps
  <2>11. ASSUME NEW f \in Calls, Download(c, u, f) PROVE call' \in [Calls -> CallState]
    BY <2>11 DEF Download, Accept, CallState, Steps, AllOps
  <2>12. ASSUME NEW f \in Calls, NEW op, NEW a, Refuse(c, u, f, op, a)
         PROVE call' \in [Calls -> CallState]
    BY <2>12, ReplyType DEF Refuse
  <2>13. QED BY <2>1, <2>2, <2>4, <2>5, <2>6, <2>8, <2>9, <2>10, <2>11, <2>12
            DEF NewFile, FileRequest
<1>3. CASE Crash
  BY <1>3 DEF Crash, CallState
<1>4. CASE UNCHANGED vars
  BY <1>4 DEF vars
<1>5. QED BY <1>1, <1>2, <1>3, <1>4 DEF Next

\* Every reachable state is well typed.
THEOREM TypeCorrect == Spec => []TypeOK
<1>1. Init => TypeOK
  BY ConstantsAssumption DEF Init, TypeOK, CallState, Steps
<1>2. QED BY <1>1, TypeStep, PTL DEF Spec

-----------------------------------------------------------------------------
(* What a step of call c does to the state of the calls.                   *)

\* Only the pc and the reply of c may change.
Frame(c) == \A d \in Calls :
  /\ call'[d].op = call[d].op /\ call'[d].file = call[d].file
  /\ call'[d].user = call[d].user /\ call'[d].size = call[d].size
  /\ d # c => call'[d].pc = call[d].pc /\ call'[d].reply = call[d].reply

LEMMA GotoEffect ==
  ASSUME TypeOK, NEW c \in Calls, NEW s, Goto(c, s)
  PROVE  Frame(c) /\ call'[c].pc = s /\ call'[c].reply = call[c].reply
BY DEF Goto, TypeOK, CallState, Frame

LEMMA ReplyEffect ==
  ASSUME TypeOK, NEW c \in Calls, NEW a, Reply(c, a)
  PROVE  Frame(c) /\ call'[c].pc = call[c].pc /\ call'[c].reply = a
BY DEF Reply, TypeOK, CallState, Frame

LEMMA EndEffect ==
  ASSUME TypeOK, NEW c \in Calls, NEW s, NEW a, End(c, s, a)
  PROVE  Frame(c) /\ call'[c].pc = s /\ call'[c].reply = a
BY DEF End, TypeOK, CallState, Frame

\* A delete call that removed an object, or a row, stays one that did.
LEMMA Monotone ==
  ASSUME NEW c \in Calls, Frame(c), call[c].reply = "pending",
         call[c].pc \in {"refund", "refunded"} => call'[c].pc \in {"refund", "refunded"},
         call[c].pc \in {"softdelete", "notfound", "refund", "refunded"} =>
           call'[c].pc \in {"softdelete", "notfound", "refund", "refunded"},
         call[c].pc # "saved"
  PROVE  /\ \A d, f \in Calls : Purged(d, f) => Purged(d, f)'
         /\ \A f \in Calls : Saved(f) => Saved(f)'
BY DEF Frame, Purged, Saved

LEMMA OpOfStep ==
  ASSUME TypeOK, NEW c \in Calls, CreationInv(c)
  PROVE  /\ call[c].pc = "idle" => call[c].op = "none"
         /\ call[c].pc = "put" => call[c].op = "upload"
         /\ call[c].pc \in {"check", "copyobject"} => call[c].op = "copy"
         /\ call[c].pc = "create" => call[c].op \in {"upload", "copy", "complete"}
         /\ call[c].pc \in {"rollback", "charge", "charged"} =>
              call[c].op \in {"upload", "copy"}
         /\ call[c].pc \in {"purge", "softdelete", "notfound", "refund", "refunded"} =>
              call[c].op = "delete"
         /\ call[c].pc = "save" => call[c].op = "edit"
         /\ call[c].pc \in {"get", "count"} => call[c].op = "download"
         /\ call[c].pc = "saveuser" => call[c].op = "profile"
<1>1. call[c].op \in AllOps \cup {"none"} /\ call[c].pc \in StepsOf(call[c].op)
  BY DEF TypeOK, CallState, CreationInv
<1>2. QED BY <1>1 DEF AllOps, StepsOf

\* A step of c that touches no file but c itself keeps the invariant if it
\* keeps the part of it that is about c.
LEMMA OwnStep ==
  ASSUME TypeOK, FileStoreInv, NEW c \in Calls, Frame(c), call[c].reply = "pending",
         call[c].pc \notin {"softdelete", "notfound", "saved"},
         call[c].pc \in {"refund", "refunded"} <=> call'[c].pc \in {"refund", "refunded"},
         \A g \in Calls \ {c} : status'[g] = status[g] /\ (g \in objects' <=> g \in objects),
         status[c] # "absent" => status'[c] = status[c] /\ (c \in objects' => c \in objects),
         CreationInv(c)', WorkInv(c)'
  PROVE  FileStoreInv'
<1>1. /\ \A d, g \in Calls : Purged(d, g) => Purged(d, g)'
      /\ \A g \in Calls : Saved(g) => Saved(g)'
  BY Monotone
<1>2. ASSUME NEW g \in Calls, g # c PROVE CreationInv(g)'
  BY <1>1, <1>2 DEF FileStoreInv, CreationInv, Frame
<1>3. ASSUME NEW d \in Calls, d # c PROVE WorkInv(d)'
  <2>1. WorkInv(d) /\ call[d].file \in Calls
    BY DEF FileStoreInv, TypeOK, CallState
  <2>2. CreationInv(d) /\ call[d].op \in AllOps \cup {"none"}
    BY DEF FileStoreInv, TypeOK, CallState
  <2>3. call[d].pc \in {"softdelete", "notfound", "refund", "refunded"} =>
          call[d].op = "delete"
    BY <2>2, OpOfStep
  <2>4. QED BY <1>1, <1>3, <2>1, <2>3 DEF WorkInv, Frame
<1>4. SecondRefundNeedsSave'
  <2>1. ASSUME NEW d \in Calls, NEW g \in Calls, Removed(d, g)' PROVE Removed(d, g)
    BY <2>1 DEF Removed, Frame
  <2>2. QED BY <1>1, <2>1 DEF FileStoreInv, SecondRefundNeedsSave
<1>5. QED BY <1>2, <1>3, <1>4 DEF FileStoreInv

\* Calls that create nothing have no row and no object of their own.
LEMMA NoOwnFile ==
  ASSUME TypeOK, FileStoreInv, NEW c \in Calls,
         call[c].pc \notin {"put", "copyobject", "create", "rollback", "charge",
                           "charged", "created"}
  PROVE  status[c] = "absent" /\ c \notin objects
BY DEF FileStoreInv, CreationInv

LEMMA PutObjectInv ==
  ASSUME TypeOK, FileStoreInv, NEW c \in Calls, PutObject(c) PROVE FileStoreInv'
<1>1. /\ call[c].pc = "put" /\ call[c].reply = "pending"
      /\ Frame(c) /\ UNCHANGED status
      /\ objects' \in {objects, objects \cup {c}}
      /\ \/ call'[c].pc = "put" /\ call'[c].reply = "err"
         \/ call'[c].pc = "create" /\ call'[c].reply = "pending" /\ c \in objects'
  BY GotoEffect, ReplyEffect DEF PutObject, At, Outcomes
<1>2. CreationInv(c) /\ WorkInv(c) /\ call[c].op = "upload" /\ status[c] = "absent"
  BY <1>1, OpOfStep DEF FileStoreInv, CreationInv, TypeOK
<1>3. CreationInv(c)'
  BY <1>1, <1>2 DEF CreationInv, StepsOf, Frame
<1>4. WorkInv(c)'
  BY <1>1, <1>2 DEF WorkInv, Frame
<1>5. QED BY <1>1, <1>2, <1>3, <1>4, OwnStep

LEMMA CreateRowInv ==
  ASSUME TypeOK, FileStoreInv, NEW c \in Calls, CreateRow(c) PROVE FileStoreInv'
<1>1. /\ call[c].pc = "create" /\ call[c].reply = "pending"
      /\ Frame(c) /\ UNCHANGED objects
      /\ \A g \in Calls \ {c} : status'[g] = status[g]
      /\ status'[c] \in {status[c], "live"}
      /\ IF call[c].op = "complete"
           THEN call'[c].pc = "created" /\ call'[c].reply \in {"ok", "err"}
           ELSE /\ call'[c].reply = "pending"
                /\ \/ call'[c].pc = "rollback"
                   \/ call'[c].pc = "charge" /\ status'[c] = "live"
  BY GotoEffect, EndEffect DEF CreateRow, At, Outcomes, TypeOK
<1>2. /\ CreationInv(c) /\ WorkInv(c)
      /\ call[c].op \in {"upload", "copy", "complete"} /\ status[c] = "absent"
  BY <1>1, OpOfStep DEF FileStoreInv, CreationInv
<1>3. /\ \A d, g \in Calls : Purged(d, g) => Purged(d, g)'
  BY <1>1, Monotone
<1>4. CreationInv(c)'
  <2>1. call'[c].pc \in StepsOf(call'[c].op)
    BY <1>1, <1>2 DEF StepsOf, Frame
  <2>2. call'[c].op # "complete" => c \in objects' \/ \E d \in Calls : Purged(d, c)'
    BY <1>1, <1>2, <1>3 DEF CreationInv, Frame
  <2>3. QED BY <1>1, <1>2, <2>1, <2>2 DEF CreationInv, Frame
<1>5. WorkInv(c)'
  BY <1>1, <1>2 DEF WorkInv, Frame
<1>6. QED BY <1>1, <1>2, <1>4, <1>5, OwnStep

LEMMA RollbackInv ==
  ASSUME TypeOK, FileStoreInv, NEW c \in Calls, Rollback(c) PROVE FileStoreInv'
<1>1. /\ call[c].pc = "rollback" /\ call[c].reply = "pending"
      /\ Frame(c) /\ UNCHANGED status
      /\ objects' \in {objects, objects \ {c}}
      /\ call'[c].pc = "rollback" /\ call'[c].reply = "err"
  BY ReplyEffect DEF Rollback, At, Outcomes
<1>2. CreationInv(c) /\ WorkInv(c) /\ call[c].op \in {"upload", "copy"}
  BY <1>1, OpOfStep DEF FileStoreInv
<1>3. /\ \A d, g \in Calls : Purged(d, g) => Purged(d, g)'
  BY <1>1, Monotone
<1>4. CreationInv(c)'
  BY <1>1, <1>2, <1>3 DEF CreationInv, Frame
<1>5. WorkInv(c)'
  BY <1>1, <1>2 DEF WorkInv, Frame
<1>6. QED BY <1>1, <1>4, <1>5, OwnStep

LEMMA ChargeInv ==
  ASSUME TypeOK, FileStoreInv, NEW c \in Calls, Charge(c) PROVE FileStoreInv'
<1>1. /\ call[c].pc = "charge" /\ call[c].reply = "pending"
      /\ Frame(c) /\ UNCHANGED <<status, objects>>
      /\ call'[c].pc \in {"charge", "charged"} /\ call'[c].reply = "ok"
  BY ReplyEffect, EndEffect DEF Charge, UpdateStorageUsed, At
<1>2. CreationInv(c) /\ WorkInv(c) /\ call[c].op \in {"upload", "copy"}
  BY <1>1, OpOfStep DEF FileStoreInv
<1>3. /\ \A d, g \in Calls : Purged(d, g) => Purged(d, g)'
  BY <1>1, Monotone
<1>4. CreationInv(c)'
  <2>1. call'[c].pc \in StepsOf(call'[c].op)
    BY <1>1, <1>2 DEF StepsOf, Frame
  <2>2. QED BY <1>1, <1>2, <1>3, <2>1 DEF CreationInv, Frame
<1>5. WorkInv(c)'
  BY <1>1, <1>2 DEF WorkInv, Frame
<1>6. QED BY <1>1, <1>4, <1>5, OwnStep

LEMMA CopyObjectInv ==
  ASSUME TypeOK, FileStoreInv, NEW c \in Calls, CopyObject(c) PROVE FileStoreInv'
<1>1. /\ call[c].pc = "copyobject" /\ call[c].reply = "pending"
      /\ Frame(c) /\ UNCHANGED status
      /\ objects' \in {objects, objects \cup {c}}
      /\ \/ call'[c].pc = "copyobject" /\ call'[c].reply = "err"
         \/ call'[c].pc = "create" /\ call'[c].reply = "pending" /\ c \in objects'
  BY GotoEffect, ReplyEffect DEF CopyObject, At, Outcomes
<1>2. CreationInv(c) /\ WorkInv(c) /\ call[c].op = "copy" /\ status[c] = "absent"
  BY <1>1, OpOfStep DEF FileStoreInv, CreationInv, TypeOK
<1>3. CreationInv(c)'
  BY <1>1, <1>2 DEF CreationInv, StepsOf, Frame
<1>4. WorkInv(c)'
  BY <1>1, <1>2 DEF WorkInv, Frame
<1>5. QED BY <1>1, <1>2, <1>3, <1>4, OwnStep

LEMMA CopyStepsInv ==
  ASSUME TypeOK, FileStoreInv, NEW c \in Calls, CopyCheck(c) \/ CopyBadTarget(c)
  PROVE  FileStoreInv'
<1>1. /\ call[c].pc \in {"check", "create"} /\ call[c].reply = "pending"
      /\ Frame(c) /\ UNCHANGED <<status, objects>>
      /\ \/ call'[c].pc = call[c].pc /\ call'[c].reply = "err"
         \/ /\ call[c].pc = "check"
            /\ call'[c].pc = "copyobject" /\ call'[c].reply = "pending"
  BY GotoEffect, ReplyEffect DEF CopyCheck, CopyBadTarget, At
<1>2. CreationInv(c) /\ WorkInv(c) /\ call[c].op \in {"upload", "copy", "complete"}
  BY <1>1, OpOfStep DEF FileStoreInv
<1>3. call[c].pc = "check" => call[c].op = "copy"
  BY <1>1, <1>2, OpOfStep
<1>4. /\ \A d, g \in Calls : Purged(d, g) => Purged(d, g)'
  BY <1>1, Monotone
<1>5. CreationInv(c)'
  <2>1. call'[c].pc \in StepsOf(call'[c].op)
    BY <1>1, <1>2, <1>3 DEF StepsOf, Frame
  <2>2. QED BY <1>1, <1>2, <1>4, <2>1 DEF CreationInv, Frame
<1>6. WorkInv(c)'
  BY <1>1, <1>2 DEF WorkInv, Frame
<1>7. QED BY <1>1, <1>5, <1>6, OwnStep

\* Refund, GetObject, IncrementDownloadCount and SaveUser: no row, no object.
LEMMA QuietInv ==
  ASSUME TypeOK, FileStoreInv, NEW c \in Calls,
         \/ Refund(c) \/ GetObject(c) \/ IncrementDownloadCount(c) \/ SaveUser(c)
  PROVE  FileStoreInv'
<1>1. /\ call[c].reply = "pending" /\ Frame(c) /\ UNCHANGED <<status, objects>>
      /\ \/ /\ call[c].pc = "refund"
            /\ call'[c].pc \in {"refund", "refunded"} /\ call'[c].reply = "ok"
         \/ /\ call[c].pc = "get"
            /\ \/ call'[c].pc = "count" /\ call'[c].reply = "pending"
               \/ call'[c].pc = "get" /\ call'[c].reply = "err"
         \/ call[c].pc = "count" /\ call'[c].pc = "count" /\ call'[c].reply = "ok"
         \/ /\ call[c].pc = "saveuser"
            /\ \/ call'[c].pc = "saveuser" /\ call'[c].reply = "err"
               \/ call'[c].pc = "saved" /\ call'[c].reply \in {"ok", "err"}
  BY GotoEffect, ReplyEffect, EndEffect
     DEF Refund, UpdateStorageUsed, GetObject, IncrementDownloadCount, SaveUser, At
<1>2. CreationInv(c) /\ WorkInv(c) /\ status[c] = "absent" /\ c \notin objects
  BY <1>1, NoOwnFile DEF FileStoreInv
<1>3. /\ call[c].pc = "refund" => call[c].op = "delete"
      /\ call[c].pc \in {"get", "count"} => call[c].op = "download"
      /\ call[c].pc = "saveuser" => call[c].op = "profile"
  BY <1>2, OpOfStep
<1>4. \A g \in Calls : Saved(g) => Saved(g)'
  BY <1>1, Monotone
<1>5. CreationInv(c)'
  <2>1. call'[c].pc \in StepsOf(call'[c].op)
    BY <1>1, <1>3 DEF StepsOf, Frame
  <2>2. QED BY <1>1, <1>2, <2>1 DEF CreationInv, Frame
<1>6. WorkInv(c)'
  <2>1. call[c].file \in Calls /\ call'[c].file = call[c].file
    BY <1>1 DEF TypeOK, CallState, Frame
  <2>2. QED BY <1>1, <1>2, <1>4, <2>1 DEF WorkInv, Frame
<1>7. QED BY <1>1, <1>2, <1>5, <1>6, OwnStep

LEMMA SoftDeleteInv ==
  ASSUME TypeOK, FileStoreInv, NEW c \in Calls, SoftDelete(c) PROVE FileStoreInv'
<1> DEFINE f == call[c].file
<1>0. f \in Calls BY DEF TypeOK, CallState
<1>1. /\ call[c].pc = "softdelete" /\ call[c].reply = "pending"
      /\ Frame(c) /\ UNCHANGED objects
      /\ \/ /\ status' = status \/ status' = [status EXCEPT ![f] = "deleted"]
            /\ call'[c].pc = "softdelete" /\ call'[c].reply = "err"
         \/ /\ status[f] = "live" /\ status' = [status EXCEPT ![f] = "deleted"]
            /\ call'[c].pc = "refund" /\ call'[c].reply = "pending"
         \/ /\ status' = status
            /\ call'[c].pc = "notfound" /\ call'[c].reply = "err"
  BY GotoEffect, ReplyEffect, EndEffect DEF SoftDelete, At, Outcomes
<1>2. CreationInv(c) /\ WorkInv(c) /\ call[c].op = "delete"
  BY <1>1, OpOfStep DEF FileStoreInv
<1>3. /\ \A d, g \in Calls : Purged(d, g) => Purged(d, g)'
      /\ \A g \in Calls : Saved(g) => Saved(g)'
  BY <1>1, Monotone
<1>4. ASSUME NEW g \in Calls PROVE CreationInv(g)'
  <2>1. CreationInv(g) BY DEF FileStoreInv
  <2>2. CASE g = c
    <3>1. call'[c].op = "delete" /\ call'[c].pc \in {"softdelete", "notfound", "refund"}
      BY <1>1, <1>2 DEF Frame
    <3>2. status[c] = "absent" /\ c \notin objects
      BY <1>1, <1>2 DEF CreationInv
    <3>3. status'[c] = "absent" /\ c \notin objects'
      BY <1>0, <1>1, <1>2, <3>2 DEF TypeOK, WorkInv
    <3>4. call'[c].reply # "ok"
      BY <1>1
    <3>5. call'[c].pc \in StepsOf(call'[c].op)
      BY <3>1 DEF StepsOf
    <3>6. QED BY <2>2, <3>1, <3>3, <3>4, <3>5 DEF CreationInv
  <2>3. CASE g # c
    BY <1>0, <1>1, <1>2, <1>3, <2>1, <2>3 DEF CreationInv, WorkInv, Frame, TypeOK, Purged
  <2>4. QED BY <2>2, <2>3
<1>5. ASSUME NEW d \in Calls PROVE WorkInv(d)'
  BY <1>0, <1>1, <1>2, <1>3 DEF FileStoreInv, WorkInv, Frame, TypeOK, CallState
<1>6. SecondRefundNeedsSave'
  <2>1. ASSUME NEW d \in Calls, NEW g \in Calls, Removed(d, g)', d # c
        PROVE  Removed(d, g)
    BY <1>1, <2>1 DEF Removed, Frame
  <2>2. ASSUME NEW d \in Calls, d # c, Removed(c, f)', Removed(d, f)
        PROVE  Saved(f)
    BY <1>0, <1>1, <2>2 DEF FileStoreInv, WorkInv, Removed
  <2>3. ASSUME NEW g \in Calls, Removed(c, g)' PROVE g = f /\ status[f] = "live"
    BY <1>1, <2>3 DEF Removed, Frame
  <2>4. ASSUME NEW g \in Calls, NEW d \in Calls, NEW e \in Calls, d # e,
               Removed(d, g)', Removed(e, g)'
        PROVE  Saved(g)'
    <3>1. CASE d = c
      BY <1>3, <2>1, <2>2, <2>3, <2>4, <3>1 DEF Removed
    <3>2. CASE e = c
      BY <1>3, <2>1, <2>2, <2>3, <2>4, <3>2 DEF Removed
    <3>3. CASE d # c /\ e # c
      BY <1>3, <2>1, <2>4, <3>3 DEF FileStoreInv, SecondRefundNeedsSave
    <3>4. QED BY <3>1, <3>2, <3>3
  <2>5. QED BY <2>4 DEF SecondRefundNeedsSave
<1>7. QED BY <1>4, <1>5, <1>6 DEF FileStoreInv

LEMMA PurgeInv ==
  ASSUME TypeOK, FileStoreInv, NEW c \in Calls, Purge(c) PROVE FileStoreInv'
<1> DEFINE f == call[c].file
<1>0. f \in Calls BY DEF TypeOK, CallState
<1>1. /\ call[c].pc = "purge" /\ call[c].reply = "pending"
      /\ Frame(c) /\ UNCHANGED status
      /\ objects' \in {objects, objects \ {f}}
      /\ \/ call'[c].pc = "purge" /\ call'[c].reply = "err"
         \/ /\ objects' = objects \ {f}
            /\ call'[c].pc = "softdelete" /\ call'[c].reply = "pending"
  BY GotoEffect, ReplyEffect DEF Purge, At, Outcomes
<1>2. /\ CreationInv(c) /\ WorkInv(c) /\ call[c].op = "delete"
      /\ status[c] = "absent" /\ c \notin objects
  BY <1>1, OpOfStep, NoOwnFile DEF FileStoreInv
<1>3. /\ \A d, g \in Calls : Purged(d, g) => Purged(d, g)'
      /\ \A g \in Calls : Saved(g) => Saved(g)'
  BY <1>1, Monotone
<1>4. ASSUME NEW g \in Calls, g = f PROVE Purged(c, g)'
  BY <1>1, <1>2, <1>4 DEF Purged, Frame
<1>5. ASSUME NEW g \in Calls PROVE CreationInv(g)'
  <2>1. CreationInv(g) BY DEF FileStoreInv
  <2>2. CASE g = c
    <3>1. call'[c].pc \in StepsOf(call'[c].op)
      BY <1>1, <1>2 DEF StepsOf, Frame
    <3>2. QED BY <1>1, <1>2, <2>2, <3>1 DEF CreationInv
  <2>3. CASE g # c
    <3>1. g \in objects /\ g \notin objects' => Purged(c, g)'
      BY <1>1, <1>4
    <3>2. QED BY <1>1, <1>3, <2>1, <2>3, <3>1 DEF CreationInv, Frame
  <2>4. QED BY <2>2, <2>3
<1>6. ASSUME NEW d \in Calls PROVE WorkInv(d)'
  BY <1>0, <1>1, <1>2, <1>3 DEF FileStoreInv, WorkInv, Frame, TypeOK, CallState
<1>7. SecondRefundNeedsSave'
  <2>1. ASSUME NEW d \in Calls, NEW g \in Calls, Removed(d, g)' PROVE Removed(d, g)
    BY <1>1, <2>1 DEF Removed, Frame
  <2>2. QED BY <1>3, <2>1 DEF FileStoreInv, SecondRefundNeedsSave
<1>8. QED BY <1>5, <1>6, <1>7 DEF FileStoreInv

LEMMA SaveRowInv ==
  ASSUME TypeOK, FileStoreInv, NEW c \in Calls, SaveRow(c) PROVE FileStoreInv'
<1> DEFINE f == call[c].file
<1>0. f \in Calls BY DEF TypeOK, CallState
<1>1. /\ call[c].pc = "save" /\ call[c].reply = "pending"
      /\ Frame(c) /\ UNCHANGED objects
      /\ \/ status' = status /\ call'[c].pc = "save" /\ call'[c].reply = "err"
         \/ /\ status' = [status EXCEPT ![f] = "live"]
            /\ call'[c].pc = "saved" /\ call'[c].reply \in {"ok", "err"}
  BY ReplyEffect, EndEffect DEF SaveRow, At
<1>2. /\ CreationInv(c) /\ WorkInv(c) /\ call[c].op = "edit"
      /\ status[c] = "absent" /\ c \notin objects
  BY <1>1, OpOfStep, NoOwnFile DEF FileStoreInv
<1>3. /\ \A d, g \in Calls : Purged(d, g) => Purged(d, g)'
      /\ \A g \in Calls : Saved(g) => Saved(g)'
  BY <1>1, Monotone
<1>4. f # c /\ status[f] # "absent"
  BY <1>2 DEF WorkInv
<1>5. status' # status => Saved(f)'
  BY <1>1, <1>2 DEF Saved, Frame
<1>6. ASSUME NEW g \in Calls PROVE CreationInv(g)'
  <2>1. CreationInv(g) BY DEF FileStoreInv
  <2>2. CASE g = c
    <3>1. call'[c].pc \in StepsOf(call'[c].op)
      BY <1>1, <1>2 DEF StepsOf, Frame
    <3>2. status'[c] = "absent"
      BY <1>1, <1>2, <1>4 DEF TypeOK
    <3>3. call'[c].reply = "ok" => call'[c].pc = "saved"
      BY <1>1
    <3>4. call'[c].pc \in {"save", "saved"}
      BY <1>1
    <3>5. QED BY <1>1, <1>2, <2>2, <3>1, <3>2, <3>3, <3>4 DEF CreationInv
  <2>3. CASE g # c
    <3>1. status'[g] = status[g] \/ (g = f /\ status'[g] = "live")
      BY <1>0, <1>1 DEF TypeOK
    <3>2. QED BY <1>1, <1>3, <1>4, <2>1, <2>3, <3>1 DEF CreationInv, Frame
  <2>4. QED BY <2>2, <2>3
<1>7. ASSUME NEW d \in Calls PROVE WorkInv(d)'
  <2>1. WorkInv(d) /\ call[d].file \in Calls
    BY DEF FileStoreInv, TypeOK, CallState
  <2>2. \/ status'[call[d].file] = status[call[d].file]
        \/ /\ call[d].file = f /\ status'[call[d].file] = "live" /\ Saved(f)'
    BY <1>0, <1>1, <1>5, <2>1 DEF TypeOK
  <2>3. d # c => WorkInv(d)'
    BY <1>1, <1>3, <2>1, <2>2 DEF WorkInv, Frame, Saved
  <2>4. d = c => WorkInv(d)'
    BY <1>1, <1>2, <1>4, <2>2 DEF WorkInv, Frame
  <2>5. QED BY <2>3, <2>4
<1>8. SecondRefundNeedsSave'
  <2>1. ASSUME NEW d \in Calls, NEW g \in Calls, Removed(d, g)' PROVE Removed(d, g)
    BY <1>1, <2>1 DEF Removed, Frame
  <2>2. QED BY <1>3, <2>1 DEF FileStoreInv, SecondRefundNeedsSave
<1>9. QED BY <1>6, <1>7, <1>8 DEF FileStoreInv

-----------------------------------------------------------------------------
(* The invariant of the whole specification.                               *)

LEMMA RequestInv ==
  ASSUME TypeOK, FileStoreInv, NEW c \in Calls, Request(c) PROVE FileStoreInv'
<1>1. UNCHANGED <<status, objects>>
  BY DEF Request, NewFile, FileRequest, Upload, CompleteChunkUpload, UpdateProfile, Copy, Delete, Edit,
         Download, Refuse
<1>2. /\ call[c].pc = "idle" /\ call[c].reply = "pending"
      /\ \A d \in Calls \ {c} : call'[d] = call[d]
      /\ call'[c].reply \in {"pending", "err"}
      /\ \/ call'[c].pc = "idle" /\ call'[c].op = call[c].op /\ call'[c].file = call[c].file
         \/ call'[c].pc = "put" /\ call'[c].op = "upload"
         \/ call'[c].pc = "create" /\ call'[c].op = "complete"
         \/ call'[c].pc = "saveuser" /\ call'[c].op = "profile"
         \/ call'[c].pc = "check" /\ call'[c].op = "copy"
         \/ call'[c].pc = "get" /\ call'[c].op = "download"
         \/ /\ call'[c].pc = "purge" /\ call'[c].op = "delete"
            /\ call'[c].reply = "pending"
            /\ call'[c].file \in Calls /\ status[call'[c].file] = "live"
         \/ /\ call'[c].pc = "save" /\ call'[c].op = "edit"
            /\ call'[c].file \in Calls /\ status[call'[c].file] = "live"
  BY DEF Request, NewFile, FileRequest, Upload, CompleteChunkUpload, UpdateProfile, Copy, Delete, Edit,
         Download, Refuse, Accept, Reply, At, Resolved, TypeOK, CallState
<1>3. CreationInv(c) /\ WorkInv(c) /\ call[c].op = "none" /\ status[c] = "absent" /\ c \notin objects
  BY <1>2, OpOfStep, NoOwnFile DEF FileStoreInv
<1>4. /\ \A d, g \in Calls : Purged(d, g) <=> Purged(d, g)'
      /\ \A d, g \in Calls : Removed(d, g) <=> Removed(d, g)'
      /\ \A g \in Calls : Saved(g) <=> Saved(g)'
  BY <1>2, <1>3 DEF Purged, Removed, Saved
<1>5. CreationInv(c)'
  <2>1. call'[c].pc \in StepsOf(call'[c].op)
    BY <1>2, <1>3 DEF StepsOf
  <2>2. QED BY <1>1, <1>2, <1>3, <2>1 DEF CreationInv
<1>6. ASSUME NEW g \in Calls, g # c PROVE CreationInv(g)'
  BY <1>1, <1>2, <1>4, <1>6 DEF FileStoreInv, CreationInv
<1>7. WorkInv(c)'
  BY <1>1, <1>2, <1>3 DEF WorkInv
<1>8. ASSUME NEW d \in Calls, d # c PROVE WorkInv(d)'
  BY <1>1, <1>2, <1>4, <1>8 DEF FileStoreInv, WorkInv, TypeOK, CallState
<1>9. SecondRefundNeedsSave'
  BY <1>4 DEF FileStoreInv, SecondRefundNeedsSave
<1>10. QED BY <1>5, <1>6, <1>7, <1>8, <1>9 DEF FileStoreInv

LEMMA CrashInv == ASSUME TypeOK, FileStoreInv, Crash PROVE FileStoreInv'
<1>1. /\ UNCHANGED <<status, objects>>
      /\ \A d \in Calls : /\ call'[d].op = call[d].op /\ call'[d].pc = call[d].pc
                          /\ call'[d].file = call[d].file
                          /\ \/ call'[d].reply = call[d].reply
                             \/ call[d].reply = "pending" /\ call'[d].reply = "lost"
  BY DEF Crash, TypeOK, CallState, Pending
<1>2. /\ \A d, g \in Calls : Purged(d, g) <=> Purged(d, g)'
      /\ \A d, g \in Calls : Removed(d, g) <=> Removed(d, g)'
      /\ \A g \in Calls : Saved(g) <=> Saved(g)'
  BY <1>1 DEF Purged, Removed, Saved
<1>3. ASSUME NEW g \in Calls PROVE CreationInv(g)'
  BY <1>1, <1>2 DEF FileStoreInv, CreationInv
<1>4. ASSUME NEW d \in Calls PROVE WorkInv(d)'
  BY <1>1, <1>2 DEF FileStoreInv, WorkInv, TypeOK, CallState
<1>5. QED BY <1>2, <1>3, <1>4 DEF FileStoreInv, SecondRefundNeedsSave

LEMMA FileStoreInvStep ==
  ASSUME TypeOK, FileStoreInv, [Next]_vars PROVE FileStoreInv'
<1>1. ASSUME NEW c \in Calls, Continue(c) PROVE FileStoreInv'
  BY <1>1, PutObjectInv, CreateRowInv, RollbackInv, ChargeInv, CopyObjectInv,
     CopyStepsInv, QuietInv, PurgeInv, SoftDeleteInv, SaveRowInv DEF Continue
<1>2. CASE UNCHANGED vars
  BY <1>2 DEF vars, FileStoreInv, CreationInv, WorkInv, SecondRefundNeedsSave,
              Purged, Removed, Saved
<1>3. QED BY <1>1, <1>2, RequestInv, CrashInv DEF Next

\* The inductive invariant holds in every reachable state.
THEOREM FileStoreCorrect == Spec => []FileStoreInv
<1>1. Init => FileStoreInv
  BY DEF Init, FileStoreInv, CreationInv, WorkInv, SecondRefundNeedsSave, Purged,
         Removed, Saved, StepsOf
<1>2. QED BY <1>1, FileStoreInvStep, TypeCorrect, PTL DEF Spec

\* A listed file has its object: no race, failure or crash commits a row
\* without one, apart from the three cases LiveRowHasObject names.
THEOREM LiveRowsHaveObjects == Spec => []LiveRowHasObject
<1>1. TypeOK /\ FileStoreInv => LiveRowHasObject
  <2> SUFFICES ASSUME TypeOK, FileStoreInv, NEW f \in Calls,
                      status[f] = "live", f \notin objects,
                      call[f].op # "complete", call[f].pc # "rollback"
               PROVE  \E d \in Calls : Purged(d, f)
    BY DEF LiveRowHasObject
  <2>1. CreationInv(f) /\ call[f].op \in AllOps \cup {"none"}
    BY DEF FileStoreInv, TypeOK, CallState
  <2>2. call[f].pc \in {"charge", "charged", "created"}
    BY <2>1 DEF CreationInv
  <2>3. call[f].pc # "created"
    BY <2>1 DEF CreationInv, StepsOf, AllOps
  <2>4. QED BY <2>1, <2>2, <2>3 DEF CreationInv
<1>2. QED BY <1>1, FileStoreCorrect, TypeCorrect, PTL

\* A deleted row leaves no object; an object without a row is an unfinished,
\* lost or failed creation that the client was not told had succeeded.
THEOREM NoOrphanObjects == Spec => []NoOrphanObject
<1>1. TypeOK /\ FileStoreInv => NoOrphanObject
  BY DEF FileStoreInv, CreationInv, NoOrphanObject, TypeOK
<1>2. QED BY <1>1, FileStoreCorrect, TypeCorrect, PTL

\* What was acknowledged as created stays listed and stored until deleted.
THEOREM AcknowledgedFilesAreServed == Spec => []AcknowledgedFileIsServed
<1>1. TypeOK /\ FileStoreInv => AcknowledgedFileIsServed
  <2> SUFFICES ASSUME TypeOK, FileStoreInv, NEW f \in Calls,
                      call[f].op \in {"upload", "copy"}, call[f].reply = "ok",
                      \A d \in Calls : ~ Purged(d, f)
               PROVE  status[f] = "live" /\ f \in objects
    BY DEF AcknowledgedFileIsServed
  <2>1. CreationInv(f) BY DEF FileStoreInv
  <2>2. call[f].pc \in {"charge", "charged"}
    BY <2>1 DEF CreationInv, StepsOf
  <2>3. QED BY <2>1, <2>2 DEF CreationInv, TypeOK
<1>2. QED BY <1>1, FileStoreCorrect, TypeCorrect, PTL

\* The quota of a file is given back at most once, unless a stale Save brought
\* the deleted row back in between.
THEOREM RefundedOnce == Spec => []SecondRefundNeedsSave
<1>1. FileStoreInv => SecondRefundNeedsSave
  BY DEF FileStoreInv
<1>2. QED BY <1>1, FileStoreCorrect, PTL

\* Only a whole-row Save undoes what another call wrote to a files row.
THEOREM OnlySavesUndo == Spec => OnlySaveUndoes
<1> DEFINE Undone(f) == \/ status[f] = "deleted" /\ status'[f] # "deleted"
                        \/ downloads'[f] < downloads[f]
           SaveOf(f) == \E s \in Calls : At(s, "save") /\ call[s].file = f
<1>1. ASSUME TypeOK, FileStoreInv, Next, NEW f \in Calls, Undone(f) PROVE SaveOf(f)
  <2>0. downloads[f] \in Int BY <1>1 DEF TypeOK
  <2>1. ~ UNCHANGED <<status, downloads>>
    BY <2>0, <1>1
  <2>2. PICK c \in Calls : \/ CreateRow(c) \/ SoftDelete(c) \/ SaveRow(c)
                           \/ IncrementDownloadCount(c)
    BY <1>1, <2>1 DEF Next, Crash, Request, NewFile, FileRequest, Continue, Upload, CompleteChunkUpload,
       UpdateProfile, Copy, Delete, Edit, Download, Refuse, PutObject, Rollback, Charge,
       CopyCheck, CopyObject, CopyBadTarget, Purge, Refund, GetObject, SaveUser
  <2>3. call[c].file \in Calls BY <1>1 DEF TypeOK, CallState
  <2>4. CASE CreateRow(c)
    <3>1. status[c] = "absent"
      BY <2>4, <1>1 DEF CreateRow, At, FileStoreInv, CreationInv
    <3>2. QED BY <2>0, <2>4, <3>1, <1>1 DEF CreateRow, TypeOK
  <2>5. CASE SoftDelete(c)
    BY <2>0, <2>3, <2>5, <1>1 DEF SoftDelete, TypeOK
  <2>6. CASE SaveRow(c)
    <3>1. call[c].file = f
      BY <2>0, <2>3, <2>6, <1>1 DEF SaveRow, TypeOK
    <3>2. QED BY <2>6, <3>1 DEF SaveRow
  <2>7. CASE IncrementDownloadCount(c)
    BY <2>0, <2>3, <2>7, <1>1 DEF IncrementDownloadCount, TypeOK
  <2>8. QED BY <2>2, <2>4, <2>5, <2>6, <2>7
<1>2. TypeOK /\ FileStoreInv /\ [Next]_vars => [\A f \in Calls : Undone(f) => SaveOf(f)]_vars
  BY <1>1
<1>3. QED BY <1>2, TypeCorrect, FileStoreCorrect, PTL DEF Spec, OnlySaveUndoes

-----------------------------------------------------------------------------
(* FileStore implements FileCatalogue.                                     *)

\* Only Purge and Rollback put a file up for withdrawal.
LEMMA GoneSame ==
  ASSUME TypeOK, FileStoreInv, NEW c \in Calls, Continue(c), ~ Purge(c), ~ Rollback(c)
  PROVE  \A f \in Calls : Gone(f)' <=> Gone(f)
<1>1. CASE PutObject(c) \/ CopyCheck(c) \/ CopyObject(c) \/ CopyBadTarget(c) \/ CreateRow(c)
  <2>1. /\ call[c].pc \in {"put", "check", "copyobject", "create"}
        /\ Frame(c) /\ (call'[c].pc = "rollback" => call'[c].reply = "pending")
    BY <1>1, GotoEffect, ReplyEffect, EndEffect
       DEF PutObject, CopyCheck, CopyObject, CopyBadTarget, CreateRow, At
  <2>2. call[c].op \in {"upload", "copy", "complete"}
    BY <2>1, OpOfStep DEF FileStoreInv
  <2>3. QED BY <2>1, <2>2 DEF Gone, Purged, Frame
<1>2. CASE Charge(c) \/ SaveRow(c) \/ GetObject(c) \/ IncrementDownloadCount(c) \/ SaveUser(c)
  <2>1. /\ call[c].pc \in {"charge", "save", "get", "count", "saveuser"}
        /\ Frame(c) /\ call'[c].pc # "rollback"
    BY <1>2, GotoEffect, ReplyEffect, EndEffect
       DEF Charge, UpdateStorageUsed, SaveRow, GetObject, IncrementDownloadCount,
           SaveUser, At
  <2>2. call[c].op # "delete"
    BY <2>1, OpOfStep DEF FileStoreInv
  <2>3. QED BY <2>1, <2>2 DEF Gone, Purged, Frame
<1>3. CASE SoftDelete(c) \/ Refund(c)
  <2>1. /\ call[c].pc \in {"softdelete", "refund"} /\ Frame(c)
        /\ call'[c].pc \in {"softdelete", "notfound", "refund", "refunded"}
    BY <1>3, GotoEffect, ReplyEffect, EndEffect
       DEF SoftDelete, Refund, UpdateStorageUsed, At
  <2>2. QED BY <2>1 DEF Gone, Purged, Frame
<1>4. QED BY <1>1, <1>2, <1>3 DEF Continue

\* What a Purge or a Rollback of file f is in the catalogue.
LEMMA WithdrawStep ==
  ASSUME TypeOK, NEW f \in Calls, UNCHANGED status,
         objects' \in {objects, objects \ {f}}, Gone(f)',
         \A g \in Calls \ {f} : Gone(g)' <=> Gone(g)
  PROVE  [Catalogue!Next]_<<Served, Withdrawn>>
<1>1. CASE f \in objects'
  BY <1>1 DEF Served, Withdrawn
<1>2. CASE f \notin objects'
  <2>1. Withdrawn' = Withdrawn \cup {f}
    BY <1>2 DEF Withdrawn
  <2>2. Served' = Served \ {f}
    BY <1>2 DEF Served
  <2>3. QED BY <2>1, <2>2 DEF Catalogue!Next, Catalogue!Withdraw
<1>3. QED BY <1>1, <1>2

LEMMA CatalogueContinue ==
  ASSUME TypeOK, FileStoreInv, NEW c \in Calls, Continue(c)
  PROVE  [Catalogue!Next]_<<Served, Withdrawn>>
<1>0. call[c].file \in Calls BY DEF TypeOK, CallState
<1>1. CASE Purge(c)
  <2>1. /\ call[c].pc = "purge" /\ call[c].reply = "pending" /\ Frame(c)
        /\ UNCHANGED status /\ objects' \in {objects, objects \ {call[c].file}}
        /\ \/ call'[c].pc = "purge" /\ call'[c].reply = "err"
           \/ call'[c].pc = "softdelete"
    BY <1>1, GotoEffect, ReplyEffect DEF Purge, At
  <2>2. call[c].op = "delete"
    BY <2>1, OpOfStep DEF FileStoreInv
  <2>3. \A g \in Calls : g # call[c].file => (Gone(g)' <=> Gone(g))
    BY <2>1, <2>2 DEF Gone, Purged, Frame
  <2>4. ASSUME NEW g \in Calls, g = call[c].file PROVE Gone(g)'
    BY <2>1, <2>2, <2>4 DEF Gone, Purged, Frame
  <2>5. PICK g \in Calls : g = call[c].file
    BY <1>0
  <2>6. QED BY <2>1, <2>3, <2>4, <2>5, WithdrawStep
<1>2. CASE Rollback(c)
  <2>1. /\ call[c].pc = "rollback" /\ call[c].reply = "pending" /\ Frame(c)
        /\ UNCHANGED status /\ objects' \in {objects, objects \ {c}}
        /\ call'[c].pc = "rollback" /\ call'[c].reply = "err"
    BY <1>2, ReplyEffect DEF Rollback, At
  <2>2. call[c].op # "delete"
    BY <2>1, OpOfStep DEF FileStoreInv
  <2>3. Gone(c)'
    BY <2>1 DEF Gone
  <2>4. \A g \in Calls \ {c} : Gone(g)' <=> Gone(g)
    BY <2>1, <2>2 DEF Gone, Purged, Frame
  <2>5. QED BY <2>1, <2>3, <2>4, WithdrawStep
<1>3. CASE ~ Purge(c) /\ ~ Rollback(c)
  <2>1. \A f \in Calls : Gone(f)' <=> Gone(f)
    BY <1>3, GoneSame
  <2>2. CASE UNCHANGED <<status, objects>>
    BY <2>1, <2>2 DEF Served, Withdrawn
  <2>3. CASE PutObject(c) \/ CopyObject(c)
    <3>1. /\ call[c].pc \in {"put", "copyobject"} /\ UNCHANGED status
          /\ objects' \in {objects, objects \cup {c}}
      BY <2>3 DEF PutObject, CopyObject, At
    <3>2. status[c] = "absent" /\ ~ Gone(c)
      <4>1. status[c] = "absent"
        BY <3>1 DEF FileStoreInv, CreationInv
      <4>2. \A d \in Calls : ~ Purged(d, c)
        BY <4>1 DEF FileStoreInv, WorkInv, Purged
      <4>3. QED BY <3>1, <4>1, <4>2 DEF Gone
    <3>3. UNCHANGED <<Served, Withdrawn>>
      BY <2>1, <3>1, <3>2 DEF Served, Withdrawn
    <3>4. QED BY <3>3
  <2>4. CASE CreateRow(c)
    <3>1. /\ call[c].pc = "create" /\ UNCHANGED objects
          /\ status' \in {status, [status EXCEPT ![c] = "live"]}
      BY <2>4 DEF CreateRow, At
    <3>2. status[c] = "absent"
      BY <3>1 DEF FileStoreInv, CreationInv
    <3>3. UNCHANGED Withdrawn
      BY <2>1, <3>1 DEF Withdrawn
    <3>4. Served' = Served \/ (c \in objects /\ Served' = Served \cup {c})
      BY <3>1, <3>2 DEF Served, TypeOK
    <3>5. c \in objects => c \notin Served \cup Withdrawn
      BY <3>2 DEF Served, Withdrawn
    <3>6. QED BY <3>3, <3>4, <3>5 DEF Catalogue!Next, Catalogue!Publish
  <2>5. CASE SoftDelete(c) \/ SaveRow(c)
    <3>1. /\ UNCHANGED objects
          /\ \/ status' = status
             \/ /\ call[c].pc = "softdelete" /\ status[call[c].file] = "live"
                /\ status' = [status EXCEPT ![call[c].file] = "deleted"]
             \/ /\ call[c].pc = "save"
                /\ status' = [status EXCEPT ![call[c].file] = "live"]
      BY <2>5 DEF SoftDelete, SaveRow, At
    <3>2. /\ call[c].pc = "softdelete" => call[c].file \notin objects
          /\ call[c].pc = "save" => status[call[c].file] # "absent"
      BY OpOfStep DEF FileStoreInv, WorkInv
    <3>3. status[call[c].file] = "deleted" => call[c].file \notin objects
      BY <1>0 DEF FileStoreInv, CreationInv
    <3>4. UNCHANGED Served
      BY <1>0, <3>1, <3>2, <3>3 DEF Served, TypeOK
    <3>5. UNCHANGED Withdrawn
      BY <2>1, <3>1 DEF Withdrawn
    <3>6. QED BY <3>4, <3>5
  <2>6. QED
    BY <1>3, <2>2, <2>3, <2>4, <2>5 DEF Continue, Charge, Refund, UpdateStorageUsed,
       CopyCheck, CopyBadTarget, GetObject, IncrementDownloadCount, SaveUser
<1>4. QED BY <1>1, <1>2, <1>3

LEMMA CatalogueOther ==
  ASSUME TypeOK, FileStoreInv,
         Crash \/ UNCHANGED vars \/ \E c \in Calls : Request(c)
  PROVE  UNCHANGED <<Served, Withdrawn>>
<1>1. UNCHANGED <<status, objects>>
  BY DEF Crash, vars, Request, NewFile, FileRequest, Upload, CompleteChunkUpload, UpdateProfile, Copy, Delete,
         Edit, Download, Refuse
<1>2. ASSUME NEW f \in Calls PROVE Gone(f)' <=> Gone(f)
  <2>1. CASE Crash
    <3>1. \A d \in Calls : /\ call'[d].op = call[d].op /\ call'[d].pc = call[d].pc
                          /\ call'[d].file = call[d].file
                          /\ \/ call'[d].reply = call[d].reply
                             \/ call[d].reply = "pending" /\ call'[d].reply = "lost"
      BY <2>1 DEF Crash, TypeOK, CallState, Pending
    <3>2. ASSUME NEW d \in Calls PROVE Purged(d, f)' <=> Purged(d, f)
      BY <3>1 DEF Purged
    <3>3. (call[f].pc = "rollback" /\ call[f].reply = "err")'
            <=> (call[f].pc = "rollback" /\ call[f].reply = "err")
      BY <3>1
    <3>4. QED BY <3>2, <3>3 DEF Gone
  <2>2. CASE UNCHANGED vars
    BY <2>2 DEF vars, Gone, Purged
  <2>3. ASSUME NEW c \in Calls, Request(c) PROVE Gone(f)' <=> Gone(f)
    <3>1. /\ call[c].pc = "idle" /\ \A d \in Calls \ {c} : call'[d] = call[d]
          /\ call'[c].pc \in {"idle", "put", "create", "saveuser", "check", "get",
                             "purge", "save"}
          /\ call'[c].pc = "purge" => call'[c].reply = "pending"
      BY <2>3 DEF Request, NewFile, FileRequest, Upload, CompleteChunkUpload, UpdateProfile, Copy, Delete, Edit,
         Download, Refuse, Accept, Reply, At, TypeOK, CallState
    <3>2. ASSUME NEW d \in Calls PROVE Purged(d, f)' <=> Purged(d, f)
      BY <3>1 DEF Purged
    <3>3. (call[f].pc = "rollback" /\ call[f].reply = "err")'
            <=> (call[f].pc = "rollback" /\ call[f].reply = "err")
      BY <3>1
    <3>4. QED BY <3>2, <3>3 DEF Gone
  <2>4. QED BY <2>1, <2>2, <2>3
<1>3. QED BY <1>1, <1>2 DEF Served, Withdrawn

\* Every step of the service is one step of the catalogue, or none: object
\* and row, though written separately, publish a file atomically, and what
\* was withdrawn is never served again.
THEOREM Implementation == Spec => ImplementsCatalogue
<1>1. Init => Catalogue!Init
  <2>1. ASSUME Init, NEW f \in Calls PROVE call[f].pc = "idle"
    BY <2>1 DEF Init
  <2>2. ASSUME Init PROVE Served = {}
    BY <2>2 DEF Init, Served
  <2>3. ASSUME Init PROVE Withdrawn = {}
    BY <2>3, <2>1 DEF Withdrawn, Gone, Purged
  <2>4. QED BY <2>2, <2>3 DEF Catalogue!Init
<1>2. TypeOK /\ FileStoreInv /\ [Next]_vars => [Catalogue!Next]_<<Served, Withdrawn>>
  BY CatalogueContinue, CatalogueOther DEF Next
<1>3. QED
  BY <1>1, <1>2, TypeCorrect, FileStoreCorrect, PTL
     DEF Spec, ImplementsCatalogue, Catalogue!Spec, Catalogue!catalogueVars


-----------------------------------------------------------------------------
(* How far the quota can be exceeded                                       *)

\* The calls of u that the quota check let through and that have yet to charge.
Checked == {"put", "copyobject", "create", "charge"}
Owing(u) ==
  {c \in Calls : /\ call[c].user = u /\ call[c].op \in {"upload", "copy"}
                 /\ call[c].pc \in Checked /\ call[c].reply = "pending"}

\* When the calls in P owe what k says of them and none more than m, then x,
\* which they are going to charge, ends up within the bound b.  One of them,
\* the last that was checked, counts with what it owes, the others with m.
Fits(P, x, k, m, b) ==
  IF P = {} THEN x <= b
  ELSE \E c \in P : x + k[c].size + m * (Cardinality(P) - 1) <= b

\* Sizes m at the most, and any number of calls.
LEMMA Times ==
  ASSUME NEW m \in Nat, NEW a \in Nat, NEW b \in Nat, a <= b
  PROVE  m * a \in Nat /\ m * a <= m * b /\ m * (b + 1) = m * b + m
OBVIOUS

\* Fewer calls owe no more.
LEMMA FitsFewer ==
  ASSUME NEW P, IsFiniteSet(P), NEW Q \in SUBSET P, NEW x \in Int, NEW y \in Int, y <= x,
         NEW m \in Nat, NEW b \in Int, NEW k, NEW l,
         \A c \in P : k[c].size \in 0 .. m /\ l[c].size = k[c].size,
         Fits(P, x, k, m, b)
  PROVE  Fits(Q, y, l, m, b)
<1>1. /\ IsFiniteSet(Q) /\ Cardinality(Q) \in Nat /\ Cardinality(P) \in Nat
      /\ Cardinality(Q) <= Cardinality(P) /\ (Cardinality(P) = Cardinality(Q) => P = Q)
  BY FS_Subset, FS_CardinalityType
<1>2. CASE P = {}
  <2>1. Q = {} /\ x <= b
    BY <1>2 DEF Fits
  <2> QED  BY <2>1 DEF Fits
<1>3. CASE P # {}
  <2>1. PICK c \in P : x + k[c].size + m * (Cardinality(P) - 1) <= b
    BY <1>3 DEF Fits
  <2>2. Cardinality(P) # 0
    BY <1>3, FS_EmptySet
  <2> DEFINE p == Cardinality(P) - 1
             q == Cardinality(Q) - 1
  <2>3. p \in Nat /\ m * p \in Nat
    BY <1>1, <2>2, Times
  <2>4. CASE Q = {}
    BY <2>1, <2>3, <2>4 DEF Fits
  <2>5. CASE Q # {} /\ c \in Q
    <3>1. Cardinality(Q) # 0
      BY <1>1, <2>5, FS_EmptySet
    <3>2. q \in Nat /\ q <= p
      BY <1>1, <3>1
    <3>3. m * q <= m * p /\ m * q \in Nat
      BY <2>3, <3>2, Times
    <3>4. y + l[c].size + m * q <= b
      BY <2>1, <2>3, <3>3
    <3> QED  BY <2>5, <3>4 DEF Fits
  <2>6. CASE Q # {} /\ c \notin Q
    <3>1. PICK e \in Q : TRUE
      BY <2>6
    <3>2. Cardinality(Q) # 0 /\ Cardinality(Q) # Cardinality(P)
      BY <1>1, <2>1, <2>6, FS_EmptySet
    <3>3. q \in Nat /\ q + 1 \in Nat /\ q + 1 <= p
      BY <1>1, <3>2
    <3>4. m * (q + 1) <= m * p /\ m * (q + 1) = m * q + m /\ m * q \in Nat
      BY <2>3, <3>3, Times
    <3>5. l[e].size <= m /\ l[e].size \in Nat /\ k[c].size \in Nat
      BY <2>1, <3>1
    <3>6. y + l[e].size + m * q <= b
      BY <2>1, <2>3, <3>4, <3>5
    <3> QED  BY <2>6, <3>1, <3>6 DEF Fits
  <2> QED  BY <2>4, <2>5, <2>6
<1> QED  BY <1>2, <1>3

\* A call that charges what it owes takes it over from the bound.
LEMMA FitsCharge ==
  ASSUME NEW P, IsFiniteSet(P), NEW c \in P, NEW x \in Int, NEW y \in Int,
         NEW m \in Nat, NEW b \in Int, NEW k, NEW l,
         \A d \in P : k[d].size \in 0 .. m /\ l[d].size = k[d].size,
         y <= x + k[c].size, Fits(P, x, k, m, b)
  PROVE  Fits(P \ {c}, y, l, m, b)
<1> DEFINE Q == P \ {c}
           q == Cardinality(Q) - 1
<1>1. /\ Cardinality(P) \in Nat /\ IsFiniteSet(Q) /\ Cardinality(Q) \in Nat
      /\ Cardinality(Q) = Cardinality(P) - 1
  BY FS_RemoveElement, FS_CardinalityType
<1>2. PICK d \in P : x + k[d].size + m * Cardinality(Q) <= b
  BY <1>1 DEF Fits
<1>3. m * Cardinality(Q) \in Nat
  BY <1>1, Times
<1>4. k[c].size \in Nat /\ k[d].size \in Nat /\ k[c].size <= m
  OBVIOUS
<1>5. CASE Q = {}
  <2>1. d = c
    BY <1>5
  <2>2. y <= b
    BY <1>2, <1>3, <1>4, <2>1
  <2> QED  BY <1>5, <2>2 DEF Fits
<1>6. CASE Q # {}
  <2>1. Cardinality(Q) # 0
    BY <1>1, <1>6, FS_EmptySet
  <2>2. q \in Nat /\ q + 1 = Cardinality(Q)
    BY <1>1, <2>1
  <2>3. m * Cardinality(Q) = m * q + m /\ m * q \in Nat
    BY <2>2, Times
  <2>4. \E e \in Q : y + l[e].size + m * q <= b
    <3>1. CASE d = c
      <4>1. PICK e \in Q : TRUE
        BY <1>6
      <4>2. l[e].size \in Nat /\ l[e].size <= m
        BY <4>1
      <4>3. y + l[e].size + m * q <= b
        BY <1>2, <1>4, <2>3, <3>1, <4>2
      <4> QED  BY <4>1, <4>3
    <3>2. CASE d # c
      <4>1. l[d].size = k[d].size /\ d \in Q
        BY <3>2
      <4>2. y + l[d].size + m * q <= b
        BY <1>2, <1>4, <2>3, <4>1
      <4> QED  BY <4>1, <4>2
    <3> QED  BY <3>1, <3>2
  <2> QED  BY <1>6, <2>4 DEF Fits
<1> QED  BY <1>5, <1>6

\* A call that passes the check puts the others, however many, on one scale.
LEMMA FitsCheck ==
  ASSUME NEW Q, IsFiniteSet(Q), NEW c \in Q, NEW x \in Int, NEW m \in Nat, NEW k,
         NEW quota \in Int, NEW n \in Nat, Cardinality(Q) <= n,
         k[c].size \in Nat, x + k[c].size <= quota
  PROVE  Fits(Q, x, k, m, quota + (n - 1) * m)
<1> DEFINE q == Cardinality(Q) - 1
           p == n - 1
<1>1. Cardinality(Q) \in Nat /\ Cardinality(Q) # 0
  BY FS_EmptySet, FS_CardinalityType
<1>2. q \in Nat /\ p \in Nat /\ q <= p
  BY <1>1
<1>3. m * q <= m * p /\ m * q \in Nat /\ m * p = p * m
  BY <1>2, Times
<1>4. x + k[c].size + m * q <= quota + p * m
  BY <1>2, <1>3
<1> QED  BY <1>4 DEF Fits

-----------------------------------------------------------------------------

Largest == Max(Sizes)

LEMMA LargestSize ==
  Largest \in Nat /\ Largest \in Sizes /\ \A n \in Sizes \cup {0} : n \in 0 .. Largest
<1>1. Largest \in Sizes /\ \A n \in Sizes : n <= Largest
  <2>1. \E n \in Sizes : \A m \in Sizes : n >= m
    BY ConstantsAssumption
  <2>2. Largest \in Sizes /\ \A m \in Sizes : Largest >= m
    BY <2>1 DEF Largest, Max
  <2> QED  BY <2>2, ConstantsAssumption
<1> QED  BY <1>1, ConstantsAssumption

Bound(u) == Quota[u] + (MaxInFlight - 1) * Largest

\* The inductive invariant: what the calls that passed the check are going to
\* charge fits, unless a stale row of the user has been saved.
QuotaInv ==
  /\ IsFiniteSet(InFlight) /\ Cardinality(InFlight) <= MaxInFlight
  /\ \A c \in Calls : call[c].size \in Sizes \cup {0}
  /\ \A u \in Users : UserSaved(u) \/ Fits(Owing(u), used[u], call, Largest, Bound(u))

LEMMA BoundType == \A u \in Users : Bound(u) \in Int
<1> SUFFICES ASSUME NEW u \in Users PROVE Bound(u) \in Int
  OBVIOUS
<1>1. Quota[u] \in Nat /\ MaxInFlight - 1 \in Nat /\ Largest \in Nat
  BY ConstantsAssumption, LargestSize
<1>2. (MaxInFlight - 1) * Largest \in Int
  BY <1>1
<1> QED  BY <1>1, <1>2 DEF Bound

LEMMA OwingFinite ==
  ASSUME TypeOK, QuotaInv, NEW u \in Users
  PROVE  IsFiniteSet(Owing(u)) /\ \A c \in Owing(u) : call[c].size \in 0 .. Largest
<1>1. Owing(u) \in SUBSET InFlight
  BY DEF Owing, InFlight, Pending, Checked
<1>2. \A c \in Owing(u) : call[c].size \in Sizes \cup {0}
  BY DEF QuotaInv, Owing
<1> QED  BY <1>1, <1>2, FS_Subset, LargestSize DEF QuotaInv

\* What the steps of a call that goes on do to the ledger.
LEMMA ContinueEffect ==
  ASSUME TypeOK, FileStoreInv, NEW c \in Calls, Continue(c)
  PROVE  /\ Frame(c) /\ call[c].reply = "pending" /\ call[c].pc \notin {"idle", "saved"}
         /\ \/ /\ UNCHANGED used
               /\ call'[c].pc \in Checked /\ call'[c].reply = "pending" => call[c].pc \in Checked
            \/ /\ call[c].pc = "check" /\ call'[c].pc = "copyobject" /\ call'[c].reply = "pending"
               /\ UNCHANGED used /\ used[call[c].user] + call[c].size <= Quota[call[c].user]
            \/ /\ call[c].pc = "charge" /\ call'[c].reply = "ok"
               /\ used' = [used EXCEPT ![call[c].user] = @ + call[c].size]
            \/ /\ call[c].pc = "refund" /\ call'[c].reply = "ok"
               /\ used' = [used EXCEPT ![call[c].user] = @ - call[c].size]
            \/ /\ call[c].pc = "saveuser" /\ call'[c].pc = "saved" /\ call[c].op = "profile"
               /\ used' = [used EXCEPT ![call[c].user] = call[c].seen]
<1>0. call[c] \in CallState /\ used \in [Users -> Int]
  BY DEF TypeOK
<1>1. CASE PutObject(c) \/ CreateRow(c) \/ Rollback(c) \/ CopyObject(c) \/ CopyBadTarget(c)
           \/ Purge(c) \/ SoftDelete(c) \/ SaveRow(c) \/ GetObject(c) \/ IncrementDownloadCount(c)
  <2>1. /\ At(c, call[c].pc) /\ UNCHANGED used
        /\ call[c].pc \in {"put", "create", "rollback", "copyobject", "purge", "softdelete",
                           "save", "get", "count"}
        /\ \/ call[c].pc \in Checked /\ \E s \in {"create", "charge", "rollback"} : Goto(c, s)
           \/ \E s \in {"softdelete", "refund", "count"} : Goto(c, s)
           \/ \E a \in {"ok", "err"} : Reply(c, a)
           \/ \E s \in {"created", "notfound", "saved"}, a \in {"ok", "err"} : End(c, s, a)
    BY <1>1 DEF PutObject, CreateRow, Rollback, CopyObject, CopyBadTarget, Purge, SoftDelete,
                SaveRow, GetObject, IncrementDownloadCount, At, Checked
  <2> QED  BY <2>1, GotoEffect, ReplyEffect, EndEffect DEF At, Checked
<1>2. CASE CopyCheck(c)
  <2>1. CASE HasStorageSpace(call[c].user, call[c].size)
    BY <1>2, <2>1, GotoEffect DEF CopyCheck, HasStorageSpace, At
  <2>2. CASE ~ HasStorageSpace(call[c].user, call[c].size)
    BY <1>2, <2>2, ReplyEffect DEF CopyCheck, At, Checked
  <2> QED  BY <2>1, <2>2
<1>3. CASE Charge(c) \/ Refund(c)
  <2>1. PICK o \in Outcomes, delta \in Int, s \in {"charged", "refunded"} :
          /\ \/ delta = call[c].size /\ call[c].pc = "charge" /\ s = "charged"
             \/ delta = - call[c].size /\ call[c].pc = "refund" /\ s = "refunded"
          /\ used' = IF o = "failed" THEN used ELSE [used EXCEPT ![call[c].user] = @ + delta]
          /\ IF o = "ok" THEN End(c, s, "ok") ELSE Reply(c, "ok")
          /\ call[c].reply = "pending"
    <3>1. call[c].size \in Int /\ - call[c].size \in Int
      BY <1>0 DEF CallState
    <3> QED  BY <1>3, <3>1 DEF Charge, Refund, UpdateStorageUsed, At
  <2>2. Frame(c) /\ call'[c].reply = "ok" /\ call'[c].pc \in {call[c].pc, s}
    BY <2>1, EndEffect, ReplyEffect
  <2>3. used[call[c].user] + (- call[c].size) = used[call[c].user] - call[c].size
    BY <1>0 DEF CallState
  <2> QED  BY <1>0, <2>1, <2>2, <2>3 DEF CallState
<1>4. CASE SaveUser(c)
  <2>1. call[c].op = "profile"
    BY <1>4, OpOfStep DEF SaveUser, At, FileStoreInv
  <2> QED  BY <1>4, <2>1, ReplyEffect, EndEffect DEF SaveUser, At, Checked
<1> QED  BY <1>1, <1>2, <1>3, <1>4 DEF Continue

\* Nobody forgets that a row was saved.
LEMMA UserSavedStays ==
  ASSUME NEW c \in Calls, Frame(c), call[c].pc # "saved", NEW u \in Users, UserSaved(u)
  PROVE  UserSaved(u)'
BY DEF Frame, UserSaved

LEMMA QuotaContinue ==
  ASSUME TypeOK, TypeOK', FileStoreInv, QuotaInv, NEW c \in Calls, Continue(c)
  PROVE  QuotaInv'
<1>0. /\ call[c] \in CallState /\ used \in [Users -> Int] /\ used' \in [Users -> Int]
      /\ Largest \in Nat
  BY LargestSize DEF TypeOK
<1>1. /\ Frame(c) /\ call[c].reply = "pending" /\ call[c].pc \notin {"idle", "saved"}
  BY ContinueEffect
<1>2. InFlight' \in SUBSET InFlight
  BY <1>1 DEF Frame, InFlight, Pending
<1>3. (IsFiniteSet(InFlight) /\ Cardinality(InFlight) <= MaxInFlight)'
  <2>1. IsFiniteSet(InFlight') /\ Cardinality(InFlight') <= Cardinality(InFlight)
    BY <1>2, FS_Subset DEF QuotaInv
  <2>2. Cardinality(InFlight') \in Nat /\ Cardinality(InFlight) \in Nat /\ MaxInFlight \in Nat
    BY <2>1, FS_CardinalityType, ConstantsAssumption DEF QuotaInv
  <2> QED  BY <2>1, <2>2 DEF QuotaInv
<1>4. \A d \in Calls : call'[d].size = call[d].size
  BY <1>1 DEF Frame
<1>5. ASSUME NEW u \in Users PROVE UserSaved(u)' \/ Fits(Owing(u), used[u], call, Largest, Bound(u))'
  <2>1. CASE UserSaved(u)
    BY <1>1, <2>1, UserSavedStays
  <2>2. CASE ~ UserSaved(u)
    <3> DEFINE P == Owing(u)
    <3>0. Fits(P, used[u], call, Largest, Bound(u))
      BY <2>2 DEF QuotaInv
    <3>1. /\ IsFiniteSet(P) /\ \A d \in P : call[d].size \in 0 .. Largest /\ call'[d].size = call[d].size
          /\ used[u] \in Int /\ used'[u] \in Int /\ Bound(u) \in Int
      BY <1>0, <1>4, OwingFinite, BoundType DEF Owing
    <3>2. \A d \in Calls \ {c} : d \in Owing(u)' <=> d \in P
      BY <1>1 DEF Frame, Owing
    <3>3. c \in P <=> call[c].user = u /\ call[c].op \in {"upload", "copy"} /\ call[c].pc \in Checked
      BY <1>1 DEF Owing
    <3>4. c \in Owing(u)' <=> /\ call[c].user = u /\ call[c].op \in {"upload", "copy"}
                              /\ call'[c].pc \in Checked /\ call'[c].reply = "pending"
      BY <1>1 DEF Frame, Owing
    <3>5. Owing(u)' \in SUBSET Calls /\ P \in SUBSET Calls
      BY DEF Owing
    <3>6. Bound(u)' = Bound(u) /\ Largest' = Largest
      BY DEF Bound, Largest, Max
    <3> HIDE DEF P
    <3>7. CASE Owing(u)' \in SUBSET P /\ used'[u] <= used[u]
      BY <1>0, <3>0, <3>1, <3>6, <3>7, FitsFewer
    <3>8. CASE UNCHANGED used /\ (call'[c].pc \in Checked /\ call'[c].reply = "pending" => call[c].pc \in Checked)
      BY <1>0, <3>2, <3>3, <3>4, <3>5, <3>7, <3>8
    <3>9. CASE /\ call[c].pc = "check" /\ call'[c].pc = "copyobject" /\ call'[c].reply = "pending"
               /\ UNCHANGED used /\ used[call[c].user] + call[c].size <= Quota[call[c].user]
      <4>1. CASE call[c].user # u
        BY <1>0, <3>2, <3>3, <3>4, <3>5, <3>7, <3>9, <4>1
      <4>2. CASE call[c].user = u /\ c \in Owing(u)'
        <5> DEFINE Q == Owing(u)'
        <5>1. Q \in SUBSET InFlight'
          BY DEF Owing, InFlight, Pending, Checked
        <5>2. IsFiniteSet(Q) /\ Cardinality(Q) <= MaxInFlight
          <6>1. IsFiniteSet(Q) /\ Cardinality(Q) <= Cardinality(InFlight')
            BY <1>3, <5>1, FS_Subset
          <6>2. Cardinality(Q) \in Nat /\ Cardinality(InFlight') \in Nat /\ MaxInFlight \in Nat
            BY <1>3, <6>1, FS_CardinalityType, ConstantsAssumption
          <6> QED  BY <1>3, <6>1, <6>2
        <5>3. call'[c].size = call[c].size /\ call[c].size \in Nat
          BY <1>0, <1>4 DEF CallState
        <5>4. Quota[u] \in Int /\ MaxInFlight \in Nat
          BY ConstantsAssumption
        <5>5. c \in Q /\ used'[u] + call'[c].size <= Quota[u] /\ used'[u] \in Int
          BY <3>1, <3>9, <4>2, <5>3
        <5> HIDE DEF Q
        <5>6. Fits(Q, used'[u], call', Largest, Quota[u] + (MaxInFlight - 1) * Largest)
          BY <1>0, <5>2, <5>3, <5>4, <5>5, FitsCheck
        <5> QED  BY <3>6, <5>6 DEF Q, Bound
      <4>3. CASE call[c].user = u /\ c \notin Owing(u)'
        BY <1>0, <3>2, <3>5, <3>7, <3>9, <4>3
      <4> QED  BY <4>1, <4>2, <4>3
    <3>10. CASE /\ call[c].pc = "charge" /\ call'[c].reply = "ok"
                /\ used' = [used EXCEPT ![call[c].user] = @ + call[c].size]
      <4>0. c \notin Owing(u)'
        BY <3>4, <3>10
      <4>1. CASE call[c].user # u
        <5>1. used'[u] = used[u]
          BY <1>0, <3>10, <4>1
        <5> QED  BY <3>1, <3>2, <3>5, <3>7, <4>0, <5>1
      <4>2. CASE call[c].user = u
        <5>1. used'[u] = used[u] + call[c].size
          BY <1>0, <3>10, <4>2
        <5>2. c \in P
          <6>1. call[c].op \in {"upload", "copy"}
            BY <3>10, OpOfStep DEF FileStoreInv
          <6> QED  BY <3>3, <3>10, <4>2, <6>1 DEF Checked
        <5>3. Owing(u)' = P \ {c}
          BY <3>2, <3>5, <4>0
        <5>4. used'[u] <= used[u] + call[c].size
          <6>1. call[c].size \in Int
            BY <1>0 DEF CallState
          <6> QED  BY <3>1, <5>1, <6>1
        <5>5. Fits(P \ {c}, used'[u], call', Largest, Bound(u))
          BY <1>0, <3>0, <3>1, <5>2, <5>4, FitsCharge
        <5> QED  BY <3>6, <5>3, <5>5
      <4> QED  BY <4>1, <4>2
    <3>11. CASE /\ call[c].pc = "refund" /\ call'[c].reply = "ok"
                /\ used' = [used EXCEPT ![call[c].user] = @ - call[c].size]
      <4>1. used'[u] <= used[u]
        <5>1. call[c].size \in Nat
          BY <1>0 DEF CallState
        <5>2. used'[u] = used[u] \/ used'[u] = used[u] - call[c].size
          BY <1>0, <3>11
        <5> QED  BY <3>1, <5>1, <5>2
      <4> QED  BY <3>2, <3>4, <3>5, <3>7, <3>11, <4>1
    <3>12. CASE /\ call[c].pc = "saveuser" /\ call'[c].pc = "saved" /\ call[c].op = "profile"
                /\ used' = [used EXCEPT ![call[c].user] = call[c].seen]
      <4>1. CASE call[c].user = u
        BY <1>1, <3>12, <4>1 DEF UserSaved, Frame
      <4>2. CASE call[c].user # u
        <5>1. used'[u] = used[u]
          BY <1>0, <3>12, <4>2
        <5> QED  BY <3>1, <3>2, <3>4, <3>5, <3>7, <4>2, <5>1
      <4> QED  BY <4>1, <4>2
    <3> QED  BY <3>8, <3>9, <3>10, <3>11, <3>12, ContinueEffect
  <2> QED  BY <2>1, <2>2
<1> QED  BY <1>3, <1>4, <1>5 DEF QuotaInv

\* A request: it is refused, it passes the check of an Upload, or it owes nothing.
Asked(c) ==
  /\ call[c].pc = "idle" /\ call[c].reply = "pending" /\ UNCHANGED used
  /\ \A d \in Calls \ {c} : call'[d] = call[d]
  /\ call'[c].size \in Sizes \cup {0} /\ call'[c].pc # "saved"
  /\ call'[c].pc = "idle" \/ Cardinality(InFlight) < MaxInFlight
  /\ \/ ~ (call'[c].op \in {"upload", "copy"} /\ call'[c].pc \in Checked /\ call'[c].reply = "pending")
     \/ /\ call'[c].pc # "idle" /\ call'[c].user \in Users
        /\ used[call'[c].user] + call'[c].size <= Quota[call'[c].user]

LEMMA RequestEffect ==
  ASSUME TypeOK, QuotaInv, NEW c \in Calls, Request(c)
  PROVE  Asked(c)
<1>0. call \in [Calls -> CallState] /\ call[c] \in CallState
  BY DEF TypeOK
<1>1. PICK u \in Users : NewFile(c, u) \/ FileRequest(c, u) \/ UpdateProfile(c, u)
  BY DEF Request
<1>2. UNCHANGED used
  BY <1>1 DEF NewFile, FileRequest, Upload, CompleteChunkUpload, UpdateProfile, Copy, Delete,
              Edit, Download, Refuse
<1>3. ASSUME NEW op, NEW f, NEW n \in Sizes \cup {0}, NEW x, NEW step, NEW a,
             Accept(c, op, u, f, n, x, step, a), step \notin {"saved", "idle"},
             \/ op \notin {"upload", "copy"} \/ step \notin Checked \/ a # "pending"
             \/ used[u] + n <= Quota[u]
      PROVE  Asked(c)
  <2>1. call'[c] = [op |-> op, pc |-> step, user |-> u, file |-> f,
                    size |-> n, seen |-> x, reply |-> a]
    BY <1>0, <1>3 DEF Accept
  <2>2. /\ call[c].pc = "idle" /\ call[c].reply = "pending"
        /\ \A d \in Calls \ {c} : call'[d] = call[d]
        /\ Cardinality(InFlight) < MaxInFlight
    BY <1>0, <1>3 DEF Accept, At
  <2>3. /\ call'[c].op = op /\ call'[c].pc = step /\ call'[c].user = u
        /\ call'[c].size = n /\ call'[c].reply = a
    BY <2>1
  <2> QED  BY <1>2, <1>3, <2>2, <2>3 DEF Asked
<1>4. \A f \in Calls : call[f].size \in Sizes \cup {0}
  BY DEF QuotaInv
<1>5. ASSUME NEW n \in Sizes, Upload(c, u, n) PROVE Asked(c)
  <2>1. PICK a \in {"pending", "err"} :
          (a = "pending" => HasStorageSpace(u, n)) /\ Accept(c, "upload", u, c, n, 0, "put", a)
    BY <1>5 DEF Upload
  <2> QED  BY <1>3, <2>1 DEF HasStorageSpace
<1>6. CASE CompleteChunkUpload(c, u)
  BY <1>3, <1>6 DEF CompleteChunkUpload
<1>7. CASE UpdateProfile(c, u)
  BY <1>3, <1>7 DEF UpdateProfile
<1>8. ASSUME NEW f \in Calls, Copy(c, u, f) PROVE Asked(c)
  BY <1>3, <1>4, <1>8 DEF Copy, Checked
<1>9. ASSUME NEW f \in Calls, Delete(c, u, f) PROVE Asked(c)
  BY <1>3, <1>4, <1>9 DEF Delete
<1>10. ASSUME NEW f \in Calls, Edit(c, u, f) PROVE Asked(c)
  BY <1>3, <1>10 DEF Edit
<1>11. ASSUME NEW f \in Calls, Download(c, u, f) PROVE Asked(c)
  BY <1>3, <1>11 DEF Download
<1>12. ASSUME NEW f \in Calls, NEW op, NEW a, Refuse(c, u, f, op, a) PROVE Asked(c)
  <2>1. /\ call[c].pc = "idle" /\ call[c].reply = "pending"
        /\ \A d \in Calls \ {c} : call'[d] = call[d]
        /\ call'[c].size = call[c].size /\ call'[c].pc = "idle"
    BY <1>0, <1>12 DEF Refuse, Reply, At, CallState
  <2> QED  BY <1>2, <1>4, <2>1 DEF Asked, Checked
<1> QED  BY <1>1, <1>5, <1>6, <1>7, <1>8, <1>9, <1>10, <1>11, <1>12 DEF NewFile, FileRequest

LEMMA QuotaRequest ==
  ASSUME TypeOK, TypeOK', FileStoreInv, QuotaInv, NEW c \in Calls, Request(c)
  PROVE  QuotaInv'
<1>0. /\ used \in [Users -> Int] /\ Largest \in Nat /\ call'[c] \in CallState
  BY LargestSize DEF TypeOK
<1>1. Asked(c)
  BY RequestEffect
<1>2. /\ call[c].pc = "idle" /\ call[c].reply = "pending" /\ UNCHANGED used
      /\ \A d \in Calls \ {c} : call'[d] = call[d]
  BY <1>1 DEF Asked
<1>3. c \notin InFlight /\ InFlight' \in {InFlight, InFlight \cup {c}}
      /\ (call'[c].pc = "idle" => InFlight' = InFlight)
  BY <1>2 DEF InFlight, Pending
<1>4. (IsFiniteSet(InFlight) /\ Cardinality(InFlight) <= MaxInFlight)'
  <2>1. IsFiniteSet(InFlight) /\ Cardinality(InFlight) \in Nat
        /\ Cardinality(InFlight) <= MaxInFlight /\ MaxInFlight \in Nat
    BY FS_CardinalityType, ConstantsAssumption DEF QuotaInv
  <2>2. CASE InFlight' = InFlight
    BY <2>1, <2>2
  <2>3. CASE InFlight' = InFlight \cup {c} /\ call'[c].pc # "idle"
    <3>1. IsFiniteSet(InFlight') /\ Cardinality(InFlight') = Cardinality(InFlight) + 1
      BY <1>3, <2>1, <2>3, FS_AddElement
    <3>2. Cardinality(InFlight) < MaxInFlight
      BY <1>1, <2>3 DEF Asked
    <3> QED  BY <2>1, <3>1, <3>2
  <2> QED  BY <1>3, <2>2, <2>3
<1>5. \A d \in Calls : call'[d].size \in Sizes \cup {0}
  BY <1>1, <1>2 DEF QuotaInv, Asked
<1>6. ASSUME NEW u \in Users PROVE UserSaved(u)' \/ Fits(Owing(u), used[u], call, Largest, Bound(u))'
  <2>1. CASE UserSaved(u)
    <3>1. PICK p \in Calls : call[p].op = "profile" /\ call[p].user = u /\ call[p].pc = "saved"
      BY <2>1 DEF UserSaved
    <3>2. call'[p] = call[p]
      BY <1>2, <3>1
    <3> QED  BY <3>1, <3>2 DEF UserSaved
  <2>2. CASE ~ UserSaved(u)
    <3> DEFINE P == Owing(u)
               Q == Owing(u)'
    <3>1. Fits(P, used[u], call, Largest, Bound(u)) /\ IsFiniteSet(P) /\ c \notin P
      BY <1>2, <2>2, OwingFinite DEF QuotaInv, Owing, Checked
    <3>2. \A d \in P : call[d].size \in 0 .. Largest /\ call'[d].size = call[d].size
      BY <1>2, <3>1, OwingFinite DEF Owing
    <3>3. \A d \in Calls \ {c} : d \in Q <=> d \in P
      BY <1>2 DEF Owing
    <3>4. P \in SUBSET Calls /\ Q \in SUBSET Calls
      BY DEF Owing
    <3>5. Bound(u)' = Bound(u) /\ Largest' = Largest /\ used'[u] = used[u] /\ Bound(u) \in Int
          /\ used[u] \in Int
      BY <1>0, <1>2, BoundType DEF Bound, Largest, Max
    <3>6. CASE c \notin Q
      <4>1. Q \in SUBSET P /\ used'[u] <= used[u]
        BY <3>3, <3>4, <3>5, <3>6
      <4> HIDE DEF P, Q
      <4>2. Fits(Q, used'[u], call', Largest, Bound(u))
        BY <1>0, <3>1, <3>2, <3>5, <4>1, FitsFewer
      <4> QED  BY <3>5, <4>2 DEF Q
    <3>7. CASE c \in Q
      <4>1. call'[c].user = u /\ used[u] + call'[c].size <= Quota[u]
        BY <1>1, <3>7 DEF Asked, Owing
      <4>2. Q \in SUBSET InFlight'
        BY DEF Owing, InFlight, Pending, Checked
      <4>3. IsFiniteSet(Q) /\ Cardinality(Q) <= MaxInFlight
        <5>1. IsFiniteSet(Q) /\ Cardinality(Q) <= Cardinality(InFlight')
          BY <1>4, <4>2, FS_Subset
        <5>2. Cardinality(Q) \in Nat /\ Cardinality(InFlight') \in Nat /\ MaxInFlight \in Nat
          BY <1>4, <5>1, FS_CardinalityType, ConstantsAssumption
        <5> QED  BY <1>4, <5>1, <5>2
      <4>4. /\ call'[c].size \in Nat /\ Quota[u] \in Int /\ MaxInFlight \in Nat
            /\ used'[u] + call'[c].size <= Quota[u] /\ used'[u] \in Int
        BY <1>0, <3>5, <4>1, ConstantsAssumption DEF CallState
      <4> HIDE DEF P, Q
      <4>5. Fits(Q, used'[u], call', Largest, Quota[u] + (MaxInFlight - 1) * Largest)
        BY <1>0, <3>7, <4>3, <4>4, FitsCheck
      <4> QED  BY <3>5, <4>5 DEF Q, Bound
    <3> QED  BY <3>6, <3>7
  <2> QED  BY <2>1, <2>2
<1> QED  BY <1>4, <1>5, <1>6 DEF QuotaInv

LEMMA QuotaCrash ==
  ASSUME TypeOK, QuotaInv, Crash
  PROVE  QuotaInv'
<1>0. /\ used' = used /\ used \in [Users -> Int] /\ call \in [Calls -> CallState] /\ Largest \in Nat
      /\ call' = [c \in Calls |-> IF Pending(c) THEN [call[c] EXCEPT !.reply = "lost"] ELSE call[c]]
  BY LargestSize DEF Crash, TypeOK
<1>1. \A c \in Calls :
        /\ call'[c].size = call[c].size /\ call'[c].op = call[c].op /\ call'[c].pc = call[c].pc
        /\ call'[c].user = call[c].user
        /\ call'[c].reply = IF Pending(c) THEN "lost" ELSE call[c].reply
  BY <1>0 DEF CallState
<1>2. InFlight' = {}
  BY <1>1 DEF InFlight, Pending
<1>3. (IsFiniteSet(InFlight) /\ Cardinality(InFlight) <= MaxInFlight)'
  BY <1>2, FS_EmptySet, ConstantsAssumption
<1>4. ASSUME NEW u \in Users PROVE UserSaved(u)' \/ Fits(Owing(u), used[u], call, Largest, Bound(u))'
  <2>1. UserSaved(u) => UserSaved(u)'
    BY <1>1 DEF UserSaved
  <2>2. Owing(u)' = {}
    BY <1>1 DEF Owing, Pending, Checked
  <2> DEFINE Q == Owing(u)'
  <2>3. Q \in SUBSET Owing(u) /\ used'[u] <= used[u] /\ used[u] \in Int /\ used'[u] \in Int
    BY <1>0, <2>2
  <2>4. \A d \in Owing(u) : call[d].size \in 0 .. Largest /\ call'[d].size = call[d].size
    BY <1>1, OwingFinite DEF Owing
  <2> HIDE DEF Q
  <2>5. UserSaved(u) \/ Fits(Q, used'[u], call', Largest, Bound(u))
    BY <1>0, <2>3, <2>4, OwingFinite, BoundType, FitsFewer DEF QuotaInv
  <2>6. Bound(u)' = Bound(u) /\ Largest' = Largest
    BY DEF Bound, Largest, Max
  <2> QED  BY <2>1, <2>5, <2>6 DEF Q
<1> QED  BY <1>1, <1>3, <1>4 DEF QuotaInv

LEMMA QuotaStep ==
  ASSUME TypeOK, FileStoreInv, QuotaInv, [Next]_vars
  PROVE  QuotaInv'
<1>1. TypeOK'
  BY TypeStep
<1>2. CASE UNCHANGED vars
  BY <1>2 DEF vars, QuotaInv, InFlight, Pending, UserSaved, Owing, Fits, Bound, Largest, Max, Checked
<1> QED  BY <1>1, <1>2, QuotaContinue, QuotaRequest, QuotaCrash DEF Next

LEMMA QuotaInit == Init => QuotaInv
<1> SUFFICES ASSUME Init PROVE QuotaInv
  OBVIOUS
<1>1. \A c \in Calls : call[c].pc = "idle" /\ call[c].size = 0
  BY DEF Init
<1>2. InFlight = {} /\ \A u \in Users : Owing(u) = {}
  BY <1>1 DEF InFlight, Pending, Owing, Checked
<1>3. ASSUME NEW u \in Users PROVE Fits(Owing(u), used[u], call, Largest, Bound(u))
  <2>1. Quota[u] \in Nat /\ MaxInFlight - 1 \in Nat /\ Largest \in Nat /\ used[u] = 0
    BY ConstantsAssumption, LargestSize DEF Init
  <2>2. (MaxInFlight - 1) * Largest \in Nat
    BY <2>1, Times
  <2> QED  BY <1>2, <2>1, <2>2 DEF Fits, Bound
<1> QED  BY <1>1, <1>2, <1>3, FS_EmptySet, ConstantsAssumption DEF QuotaInv

\* Uploads and copies that pass the quota check together exceed the quota by no
\* more than the other calls in flight can add, until a stale row of the user
\* is saved; with one call at a time they never exceed it.
THEOREM OvershootIsBounded == Spec => []OvershootBounded
<1>1. TypeOK /\ QuotaInv => OvershootBounded
  <2> SUFFICES ASSUME TypeOK, QuotaInv, NEW u \in Users, ~ UserSaved(u)
               PROVE  used[u] <= Quota[u] + (MaxInFlight - 1) * Max(Sizes)
    BY DEF OvershootBounded
  <2> DEFINE P == Owing(u)
  <2>1. IsFiniteSet(P) /\ {} \in SUBSET P /\ \A c \in P : call[c].size \in 0 .. Largest
    BY OwingFinite
  <2>2. Fits(P, used[u], call, Largest, Bound(u)) /\ used[u] \in Int /\ Bound(u) \in Int
        /\ Largest \in Nat
    BY BoundType, LargestSize DEF QuotaInv, TypeOK
  <2> HIDE DEF P
  <2>3. Fits({}, used[u], call, Largest, Bound(u))
    BY <2>1, <2>2, FitsFewer
  <2> QED  BY <2>3 DEF Fits, Bound, Largest
<1>2. QED BY <1>1, QuotaInit, QuotaStep, TypeCorrect, FileStoreCorrect, PTL DEF Spec

-----------------------------------------------------------------------------
(* Sums over finite sets of calls                                          *)

LEMMA Least ==
  ASSUME NEW T \in SUBSET Nat, T # {}
  PROVE  \E n \in T : \A m \in T : n <= m
<1> DEFINE R == OpToRel(<, Nat)
<1>1. PICK n \in T : \A m \in T : ~ (<<m, n>> \in R)
  BY NatLessThanWellFounded, WFMin
<1>2. \A m \in T : ~ (m < n)
  BY <1>1 DEF OpToRel
<1> QED  BY <1>2

\* Induction over the subsets of a finite set: G holds the good ones.
LEMMA SubsetInduction ==
  ASSUME NEW D, IsFiniteSet(D), NEW G, {} \in G,
         \A s \in SUBSET D : s # {} /\ (\A x \in s : s \ {x} \in G) => s \in G
  PROVE  D \in G
<1> SUFFICES ASSUME D \notin G PROVE FALSE
  OBVIOUS
<1> DEFINE B == (SUBSET D) \ G
           N == {n \in Nat : \E s \in B : Cardinality(s) = n}
<1>1. \A s \in SUBSET D : IsFiniteSet(s) /\ Cardinality(s) \in Nat
  BY FS_Subset, FS_CardinalityType
<1>2. N # {} /\ N \in SUBSET Nat
  <2>1. D \in B /\ Cardinality(D) \in N
    BY <1>1
  <2> QED  BY <2>1
<1>3. PICK n \in N : \A m \in N : n <= m
  BY ONLY <1>2, Least
<1>4. PICK s \in B : Cardinality(s) = n
  BY <1>3
<1>5. ASSUME NEW x \in s PROVE s \ {x} \in SUBSET D /\ Cardinality(s \ {x}) = n - 1 /\ n - 1 \in Nat
  <2>1. Cardinality(s \ {x}) = n - 1
    BY <1>1, <1>4, FS_RemoveElement
  <2>2. s \ {x} \in SUBSET D
    BY <1>4
  <2>3. Cardinality(s \ {x}) \in Nat
    BY <1>1, <2>2
  <2> QED  BY <2>1, <2>2, <2>3
<1>6. \A x \in s : s \ {x} \in G
  <2> SUFFICES ASSUME NEW x \in s, s \ {x} \notin G PROVE FALSE
    OBVIOUS
  <2>1. n - 1 \in N
    BY <1>5
  <2> QED  BY <1>3, <2>1
<1> QED  BY <1>4, <1>6

\* One way of adding up the sizes that k gives to the calls in the subsets of D.
Pick(s) == CHOOSE x \in s : TRUE
Summed(k, D, g) ==
  g = [s \in SUBSET D |-> IF s = {} THEN 0 ELSE k[Pick(s)].size + g[s \ {Pick(s)}]]

Sum(k, S) == LET g == CHOOSE g : Summed(k, S, g) IN g[S]

LEMMA PickIn == ASSUME NEW s, s # {} PROVE Pick(s) \in s
BY DEF Pick

\* There is such a function: for the sets of up to n elements it is made from
\* the one for those of up to n - 1.
LEMMA SummedExists ==
  ASSUME NEW k, NEW D, IsFiniteSet(D)
  PROVE  \E g : Summed(k, D, g)
<1> DEFINE L(n) == {s \in SUBSET D : Cardinality(s) <= n}
           F(n, g) == g = [s \in L(n) |-> IF s = {} THEN 0 ELSE k[Pick(s)].size + g[s \ {Pick(s)}]]
           N == {n \in Nat : ~ \E g : F(n, g)}
<1>1. \A s \in SUBSET D : IsFiniteSet(s) /\ Cardinality(s) \in Nat /\ Cardinality(s) <= Cardinality(D)
  BY FS_Subset, FS_CardinalityType
<1>2. N = {}
  <2> SUFFICES ASSUME N # {} PROVE FALSE
    OBVIOUS
  <2>0. N \in SUBSET Nat
    OBVIOUS
  <2>1. PICK n \in N : \A m \in N : n <= m
    BY ONLY <2>0, N # {}, Least
  <2>2. n # 0
    <3> SUFFICES ASSUME n = 0 PROVE FALSE
      OBVIOUS
    <3>1. \A s \in L(0) : s = {}
      BY <1>1, FS_EmptySet
    <3> DEFINE g == [s \in L(0) |-> 0]
    <3>2. F(0, g)
      BY <3>1
    <3> QED  BY <3>2, <2>1
  <2>3. n \in Nat /\ n - 1 \in Nat /\ ~ (n <= n - 1)
    <3>1. n \in Nat
      BY <2>1
    <3> HIDE DEF N, F, L
    <3> QED  BY <2>2, <3>1
  <2>4. PICK g : F(n - 1, g)
    BY <2>1, <2>3
  <2> DEFINE h == [s \in L(n) |-> IF s = {} THEN 0 ELSE k[Pick(s)].size + g[s \ {Pick(s)}]]
  <2>5. \A s \in L(n) : s # {} => s \ {Pick(s)} \in L(n - 1)
    <3> SUFFICES ASSUME NEW s \in L(n), s # {} PROVE s \ {Pick(s)} \in L(n - 1)
      OBVIOUS
    <3>1. Pick(s) \in s
      BY PickIn
    <3>2. Cardinality(s \ {Pick(s)}) = Cardinality(s) - 1
      BY <1>1, <3>1, FS_RemoveElement
    <3> QED  BY <1>1, <3>1, <3>2
  <2>6. \A s \in L(n - 1) : s \in L(n) /\ h[s] = g[s]
    <3> SUFFICES ASSUME NEW s \in L(n - 1) PROVE s \in L(n) /\ h[s] = g[s]
      OBVIOUS
    <3>1. s \in L(n)
      BY <1>1, <2>3
    <3>2. g[s] = IF s = {} THEN 0 ELSE k[Pick(s)].size + g[s \ {Pick(s)}]
      BY <2>4
    <3> QED  BY <3>1, <3>2
  <2>7. F(n, h)
    BY <2>5, <2>6
  <2> QED  BY <2>1, <2>7
<1>3. Cardinality(D) \in Nat
  BY FS_CardinalityType
<1>4. PICK g : F(Cardinality(D), g)
  BY <1>2, <1>3
<1>5. L(Cardinality(D)) = SUBSET D
  BY <1>1
<1>6. Summed(k, D, g)
  BY <1>4, <1>5 DEF Summed
<1> QED  BY <1>6

\* Two such functions agree where both are defined.
LEMMA SummedAgree ==
  ASSUME NEW k, NEW l, NEW D, NEW E, NEW g, NEW h, Summed(k, D, g), Summed(l, E, h),
         NEW S, S \subseteq D, S \subseteq E, IsFiniteSet(S),
         \A c \in S : k[c].size = l[c].size
  PROVE  g[S] = h[S]
<1> DEFINE G == {s \in SUBSET S : g[s] = h[s]}
<1>1. {} \in G
  BY DEF Summed
<1>2. ASSUME NEW s \in SUBSET S, s # {}, \A x \in s : s \ {x} \in G PROVE s \in G
  <2>1. Pick(s) \in s
    BY <1>2, PickIn
  <2>2. g[s \ {Pick(s)}] = h[s \ {Pick(s)}] /\ k[Pick(s)].size = l[Pick(s)].size
    BY <1>2, <2>1
  <2>3. s \in SUBSET D /\ s \in SUBSET E
    OBVIOUS
  <2>4. g[s] = k[Pick(s)].size + g[s \ {Pick(s)}]
    BY <1>2, <2>3 DEF Summed
  <2>5. h[s] = l[Pick(s)].size + h[s \ {Pick(s)}]
    BY <1>2, <2>3 DEF Summed
  <2> QED  BY <2>2, <2>4, <2>5
<1> HIDE DEF G
<1>3. S \in G
  BY ONLY <1>1, <1>2, IsFiniteSet(S), SubsetInduction
<1> QED  BY <1>3 DEF G

LEMMA SumIs ==
  ASSUME NEW k, NEW D, NEW g, Summed(k, D, g), NEW S, S \subseteq D, IsFiniteSet(S)
  PROVE  Sum(k, S) = g[S]
<1> DEFINE h == CHOOSE h : Summed(k, S, h)
<1>1. Summed(k, S, h)
  BY SummedExists
<1>2. h[S] = g[S]
  BY <1>1, SummedAgree
<1> QED  BY <1>2 DEF Sum

\* The sum depends on the sizes only.
LEMMA SumSame ==
  ASSUME NEW k, NEW l, NEW S, IsFiniteSet(S), \A c \in S : k[c].size = l[c].size
  PROVE  Sum(k, S) = Sum(l, S)
<1>1. PICK g : Summed(k, S, g)
  BY SummedExists
<1>2. PICK h : Summed(l, S, h)
  BY SummedExists
<1>3. g[S] = h[S]
  BY <1>1, <1>2, SummedAgree
<1>4. Sum(k, S) = g[S] /\ Sum(l, S) = h[S]
  BY <1>1, <1>2, SumIs
<1> QED  BY <1>3, <1>4

Sizing(k, S) == \A c \in S : k[c].size \in Nat

\* Nothing depends on the choice of the element that is added first.
LEMMA SumPick ==
  ASSUME NEW k, NEW S, IsFiniteSet(S)
  PROVE  /\ S = {} => Sum(k, S) = 0
         /\ S # {} => Sum(k, S) = k[Pick(S)].size + Sum(k, S \ {Pick(S)})
<1>1. PICK g : Summed(k, S, g)
  BY SummedExists
<1>2. Sum(k, S) = g[S]
  BY <1>1, SumIs
<1>3. S = {} => g[S] = 0
  BY <1>1 DEF Summed
<1>4. ASSUME S # {} PROVE Sum(k, S) = k[Pick(S)].size + Sum(k, S \ {Pick(S)})
  <2>1. IsFiniteSet(S \ {Pick(S)})
    BY FS_RemoveElement
  <2>2. Sum(k, S \ {Pick(S)}) = g[S \ {Pick(S)}]
    BY <1>1, <2>1, SumIs
  <2>3. g[S] = k[Pick(S)].size + g[S \ {Pick(S)}]
    BY <1>1, <1>4 DEF Summed
  <2> QED  BY <1>2, <2>2, <2>3
<1> QED  BY <1>2, <1>3, <1>4

LEMMA SumType ==
  ASSUME NEW k, NEW S, IsFiniteSet(S), Sizing(k, S)
  PROVE  Sum(k, S) \in Nat
<1> DEFINE G == {s \in SUBSET S : Sum(k, s) \in Nat}
<1>1. {} \in G
  <2>1. IsFiniteSet({}) /\ 0 \in Nat
    BY FS_EmptySet
  <2>2. Sum(k, {}) = 0
    BY <2>1, SumPick
  <2> QED  BY <2>2
<1>2. ASSUME NEW s \in SUBSET S, s # {}, \A x \in s : s \ {x} \in G PROVE s \in G
  <2>1. Pick(s) \in s /\ IsFiniteSet(s)
    BY <1>2, PickIn, FS_Subset
  <2>2. Sum(k, s \ {Pick(s)}) \in Nat /\ k[Pick(s)].size \in Nat
    BY <1>2, <2>1 DEF Sizing
  <2> QED  BY <1>2, <2>1, <2>2, SumPick
<1> HIDE DEF G
<1>3. S \in G
  BY ONLY <1>1, <1>2, IsFiniteSet(S), SubsetInduction
<1> QED  BY <1>3 DEF G

LEMMA SumRemove ==
  ASSUME NEW k, NEW S, IsFiniteSet(S), Sizing(k, S), NEW c \in S
  PROVE  Sum(k, S) = k[c].size + Sum(k, S \ {c})
<1> DEFINE G == {s \in SUBSET S : \A x \in s : Sum(k, s) = k[x].size + Sum(k, s \ {x})}
<1>0. \A s \in SUBSET S : IsFiniteSet(s) /\ Sizing(k, s) /\ Sum(k, s) \in Nat
  BY FS_Subset, SumType DEF Sizing
<1>1. {} \in G
  OBVIOUS
<1>2. ASSUME NEW s \in SUBSET S, s # {}, \A x \in s : s \ {x} \in G PROVE s \in G
  <2> SUFFICES ASSUME NEW x \in s PROVE Sum(k, s) = k[x].size + Sum(k, s \ {x})
    OBVIOUS
  <2> DEFINE y == Pick(s)
  <2>1. y \in s /\ Sum(k, s) = k[y].size + Sum(k, s \ {y})
    BY <1>0, <1>2, PickIn, SumPick
  <2>2. CASE x = y
    BY <2>1, <2>2
  <2>3. CASE x # y
    <3>1. /\ Sum(k, s \ {y}) = k[x].size + Sum(k, (s \ {y}) \ {x})
          /\ Sum(k, s \ {x}) = k[y].size + Sum(k, (s \ {x}) \ {y})
      BY <1>2, <2>1, <2>3
    <3>2. (s \ {y}) \ {x} = (s \ {x}) \ {y} /\ (s \ {x}) \ {y} \in SUBSET S
      OBVIOUS
    <3>3. k[x].size \in Nat /\ k[y].size \in Nat /\ Sum(k, (s \ {x}) \ {y}) \in Nat
      BY <1>0, <2>1, <3>2 DEF Sizing
    <3> HIDE DEF y
    <3> QED  BY <2>1, <3>1, <3>2, <3>3
  <2> QED  BY <2>2, <2>3
<1> HIDE DEF G
<1>3. S \in G
  BY ONLY <1>1, <1>2, IsFiniteSet(S), SubsetInduction
<1> QED  BY <1>3 DEF G

LEMMA SumZero ==
  ASSUME NEW k, NEW S, IsFiniteSet(S), \A c \in S : k[c].size = 0
  PROVE  Sum(k, S) = 0
<1> DEFINE G == {s \in SUBSET S : Sum(k, s) = 0}
<1>1. {} \in G
  <2>1. IsFiniteSet({})
    BY FS_EmptySet
  <2>2. Sum(k, {}) = 0
    BY <2>1, SumPick
  <2> QED  BY <2>2
<1>2. ASSUME NEW s \in SUBSET S, s # {}, \A x \in s : s \ {x} \in G PROVE s \in G
  <2>1. IsFiniteSet(s) /\ Pick(s) \in s /\ k[Pick(s)].size = 0
    BY <1>2, FS_Subset, PickIn
  <2>2. Sum(k, s) = 0 + 0
    BY <1>2, <2>1, SumPick
  <2> QED  BY <2>2
<1> HIDE DEF G
<1>3. S \in G
  BY ONLY <1>1, <1>2, IsFiniteSet(S), SubsetInduction
<1> QED  BY <1>3 DEF G

\* The sum over two sets without a common element.
LEMMA SumUnion ==
  ASSUME NEW k, NEW S, NEW T, IsFiniteSet(S), IsFiniteSet(T), S \cap T = {},
         IsFiniteSet(S \cup T), Sizing(k, S \cup T)
  PROVE  Sum(k, S \cup T) = Sum(k, S) + Sum(k, T)
<1> DEFINE G == {s \in SUBSET T : Sum(k, S \cup s) = Sum(k, S) + Sum(k, s)}
<1>0. Sum(k, S) \in Nat
  BY SumType DEF Sizing
<1>1. {} \in G
  <2>1. Sum(k, {}) = 0
    BY FS_EmptySet, SumZero
  <2>2. S \cup {} = S
    OBVIOUS
  <2> QED  BY <1>0, <2>1, <2>2
<1>2. ASSUME NEW s \in SUBSET T, s # {}, \A x \in s : s \ {x} \in G PROVE s \in G
  <2> DEFINE c == Pick(s)
             r == s \ {c}
  <2>1. c \in s /\ c \notin S /\ r \in SUBSET T
    BY <1>2, PickIn
  <2>2. /\ IsFiniteSet(s) /\ IsFiniteSet(r) /\ IsFiniteSet(S \cup s)
        /\ Sizing(k, s) /\ Sizing(k, r) /\ Sizing(k, S \cup s)
    <3>1. s \in SUBSET T /\ r \in SUBSET T /\ S \cup s \in SUBSET (S \cup T)
      BY <2>1
    <3> QED  BY <3>1, FS_Subset DEF Sizing
  <2>3. Sum(k, s) = k[c].size + Sum(k, r)
    BY <2>1, <2>2, SumRemove
  <2>4. Sum(k, S \cup s) = k[c].size + Sum(k, (S \cup s) \ {c})
    BY <2>1, <2>2, SumRemove
  <2>5. (S \cup s) \ {c} = S \cup r
    BY <2>1
  <2>6. Sum(k, S \cup r) = Sum(k, S) + Sum(k, r)
    BY <1>2, <2>1
  <2>7. k[c].size \in Nat /\ Sum(k, r) \in Nat
    BY <2>1, <2>2, SumType DEF Sizing
  <2> HIDE DEF c, r
  <2>8. Sum(k, S \cup s) = Sum(k, S) + Sum(k, s)
    <3>1. Sum(k, S \cup s) = k[c].size + (Sum(k, S) + Sum(k, r))
      BY <2>4, <2>5, <2>6
    <3> QED  BY <1>0, <2>3, <2>7, <3>1
  <2> QED  BY <2>8
<1> HIDE DEF G
<1>3. T \in G
  BY ONLY <1>1, <1>2, IsFiniteSet(T), SubsetInduction
<1> QED  BY <1>3 DEF G

\* The sum of the other ends of one-to-one links between calls of equal sizes.
LEMMA SumImage ==
  ASSUME NEW k, NEW R, NEW b, IsFiniteSet(R), IsFiniteSet({b[d] : d \in R}),
         \A d \in R : k[d].size \in Nat /\ k[b[d]].size = k[d].size,
         \A d, e \in R : b[d] = b[e] => d = e
  PROVE  Sum(k, {b[d] : d \in R}) = Sum(k, R)
<1> DEFINE I(s) == {b[d] : d \in s}
           G == {s \in SUBSET R : Sum(k, I(s)) = Sum(k, s)}
<1>1. {} \in G
  <2>1. I({}) = {}
    OBVIOUS
  <2> QED  BY <2>1
<1>2. ASSUME NEW s \in SUBSET R, s # {}, \A x \in s : s \ {x} \in G PROVE s \in G
  <2> DEFINE c == Pick(s)
  <2>1. c \in s
    BY <1>2, PickIn
  <2>2. /\ IsFiniteSet(s) /\ IsFiniteSet(I(s)) /\ Sizing(k, s) /\ Sizing(k, I(s))
    <3>1. I(s) \in SUBSET I(R)
      OBVIOUS
    <3> QED  BY <3>1, FS_Subset DEF Sizing
  <2>3. b[c] \in I(s) /\ k[b[c]].size = k[c].size
    BY <2>1
  <2>4. I(s) \ {b[c]} = I(s \ {c})
    BY <2>1
  <2>5. Sum(k, I(s \ {c})) = Sum(k, s \ {c})
    BY <1>2, <2>1
  <2> HIDE DEF I, c
  <2>6. Sum(k, s) = k[c].size + Sum(k, s \ {c})
    BY <2>1, <2>2, SumRemove
  <2>7. Sum(k, I(s)) = k[b[c]].size + Sum(k, I(s) \ {b[c]})
    BY <2>2, <2>3, SumRemove
  <2>8. Sum(k, I(s)) = Sum(k, s)
    BY <2>3, <2>4, <2>5, <2>6, <2>7
  <2> QED  BY <2>8
<1> HIDE DEF G
<1>3. R \in G
  BY ONLY <1>1, <1>2, IsFiniteSet(R), SubsetInduction
<1> QED  BY <1>3 DEF G

-----------------------------------------------------------------------------
(* What the ledger adds up to                                              *)

LEMMA BytesIsSum == \A S : Bytes(S) = Sum(call, S)
BY DEF Bytes, MapThenSumSet, MapThenFoldSet, Sum, Summed, Pick

\* What has been charged to u, and what has been given back to u.
Charged(u)  == {c \in Calls : call[c].user = u /\ call[c].pc = "charged"}
Refunded(u) == {d \in Calls : call[d].user = u /\ call[d].pc = "refunded"}

\* A charge or a refund of u was cut off or reported an error, or a row of u
\* was saved.
Unsettled(u) ==
  \/ \E c \in Calls : /\ call[c].user = u /\ call[c].pc \in {"charge", "refund"}
                      /\ call[c].reply # "pending"
  \/ UserSaved(u)

\* Delete call d is why the row of f is deleted.
Deleting(d, f) ==
  \/ Removed(d, f)
  \/ /\ call[d].op = "delete" /\ call[d].file = f
     /\ call[d].pc = "softdelete" /\ call[d].reply = "err"

\* The inductive invariant: storage_used is the difference of what was charged
\* and refunded, in whatever order; a refund is of the size of the file, and a
\* row does not get deleted by itself.
LedgerInv ==
  /\ IsFiniteSet({c \in Calls : call[c].pc # "idle"})
  /\ \A c \in Calls : /\ call[c].op = "complete" => call[c].size = 0
                      /\ call[c].op = "delete" => call[c].size = call[call[c].file].size
  /\ \A f \in Calls : status[f] = "deleted" => \E d \in Calls : Deleting(d, f)
  /\ \A u \in Users : Unsettled(u) \/ used[u] = Bytes(Charged(u)) - Bytes(Refunded(u))

\* What the steps of a call that goes on do to the ledger.
LEMMA LedgerEffect ==
  ASSUME TypeOK, FileStoreInv, NEW c \in Calls, Continue(c)
  PROVE  /\ Frame(c) /\ call[c].reply = "pending"
         /\ call[c].pc \notin {"idle", "charged", "refunded", "saved"} /\ call'[c].pc # "idle"
         /\ call[c].pc = "refund" => call'[c].pc \in {"refund", "refunded"}
         /\ call[c].pc = "charge" => call'[c].pc \in {"charge", "charged"}
         /\ \/ UNCHANGED used /\ call'[c].pc \notin {"charged", "refunded"}
            \/ /\ call[c].pc \in {"charge", "refund"}
               /\ call'[c].pc = call[c].pc /\ call'[c].reply = "ok"
               /\ \E x \in Int : used' = [used EXCEPT ![call[c].user] = x]
            \/ /\ call[c].pc = "charge" /\ call'[c].pc = "charged"
               /\ used' = [used EXCEPT ![call[c].user] = @ + call[c].size]
            \/ /\ call[c].pc = "refund" /\ call'[c].pc = "refunded"
               /\ used' = [used EXCEPT ![call[c].user] = @ - call[c].size]
            \/ /\ call[c].pc = "saveuser" /\ call'[c].pc = "saved" /\ call[c].op = "profile"
               /\ used' = [used EXCEPT ![call[c].user] = call[c].seen]
         /\ \A f \in Calls : status'[f] = "deleted" => status[f] = "deleted" \/ Deleting(c, f)'
<1>0. /\ call[c] \in CallState /\ used \in [Users -> Int] /\ used' \in [Users -> Int]
      /\ status \in [Calls -> {"absent", "live", "deleted"}]
  BY TypeStep DEF TypeOK, Next
<1>1. CASE PutObject(c) \/ CreateRow(c) \/ Rollback(c) \/ CopyObject(c) \/ CopyBadTarget(c)
           \/ Purge(c) \/ SaveRow(c) \/ GetObject(c) \/ IncrementDownloadCount(c) \/ CopyCheck(c)
  <2>1. /\ At(c, call[c].pc) /\ UNCHANGED used
        /\ call[c].pc \in {"put", "create", "rollback", "copyobject", "purge", "check",
                           "save", "get", "count"}
        /\ \/ \E s \in {"create", "charge", "rollback", "copyobject", "softdelete", "count"} : Goto(c, s)
           \/ \E a \in {"ok", "err"} : Reply(c, a)
           \/ \E s \in {"created", "saved"}, a \in {"ok", "err"} : End(c, s, a)
    BY <1>1 DEF PutObject, CreateRow, Rollback, CopyObject, CopyBadTarget, Purge, CopyCheck,
                SaveRow, GetObject, IncrementDownloadCount, At
  <2>2. \A f \in Calls : status'[f] = "deleted" => status[f] = "deleted"
    BY <1>0, <1>1 DEF PutObject, CreateRow, Rollback, CopyObject, CopyBadTarget, Purge, CopyCheck,
                SaveRow, GetObject, IncrementDownloadCount
  <2> QED  BY <2>1, <2>2, GotoEffect, ReplyEffect, EndEffect DEF At
<1>2. CASE SoftDelete(c)
  <2>1. call[c].op = "delete"
    BY <1>2, OpOfStep DEF SoftDelete, At, FileStoreInv
  <2>2. /\ Frame(c) /\ call[c].reply = "pending" /\ call[c].pc = "softdelete" /\ UNCHANGED used
        /\ \/ call'[c].pc = "refund"
           \/ call'[c].pc = "softdelete" /\ call'[c].reply = "err"
           \/ call'[c].pc = "notfound" /\ UNCHANGED status
        /\ \A f \in Calls : status'[f] = "deleted" => status[f] = "deleted" \/ f = call[c].file
    BY <1>0, <1>2, GotoEffect, ReplyEffect, EndEffect DEF SoftDelete, At
  <2> QED  BY <2>1, <2>2 DEF Frame, Deleting, Removed
<1>3. CASE Charge(c) \/ Refund(c)
  <2>1. PICK o \in Outcomes, delta \in Int, s \in {"charged", "refunded"} :
          /\ \/ delta = call[c].size /\ call[c].pc = "charge" /\ s = "charged"
             \/ delta = - call[c].size /\ call[c].pc = "refund" /\ s = "refunded"
          /\ used' = IF o = "failed" THEN used ELSE [used EXCEPT ![call[c].user] = @ + delta]
          /\ IF o = "ok" THEN End(c, s, "ok") ELSE Reply(c, "ok")
          /\ call[c].reply = "pending"
    <3>1. call[c].size \in Int /\ - call[c].size \in Int
      BY <1>0 DEF CallState
    <3> QED  BY <1>3, <3>1 DEF Charge, Refund, UpdateStorageUsed, At
  <2>2. Frame(c) /\ call'[c].reply = "ok" /\ call'[c].pc = IF o = "ok" THEN s ELSE call[c].pc
    BY <2>1, EndEffect, ReplyEffect
  <2>3. /\ call[c].size \in Nat /\ used[call[c].user] \in Int
        /\ used[call[c].user] + (- call[c].size) = used[call[c].user] - call[c].size
    BY <1>0 DEF CallState
  <2>4. UNCHANGED status
    BY <1>3 DEF Charge, Refund
  <2>5. CASE o = "ok"
    BY <2>1, <2>2, <2>3, <2>4, <2>5
  <2>6. CASE o # "ok"
    <3>1. used[call[c].user] + delta \in Int
      BY <2>3
    <3>2. \E x \in Int : used' = [used EXCEPT ![call[c].user] = x]
      BY <1>0, <2>1, <2>3, <3>1
    <3> QED  BY <2>1, <2>2, <2>4, <2>6, <3>2
  <2> QED  BY <2>5, <2>6
<1>4. CASE SaveUser(c)
  <2>1. call[c].op = "profile"
    BY <1>4, OpOfStep DEF SaveUser, At, FileStoreInv
  <2> QED  BY <1>4, <2>1, ReplyEffect, EndEffect DEF SaveUser, At
<1> QED  BY <1>1, <1>2, <1>3, <1>4 DEF Continue

\* A request: only the state of its own call changes, which charges and refunds
\* nothing yet.
Starts(c) ==
  /\ call[c].pc = "idle" /\ call[c].reply = "pending" /\ UNCHANGED <<status, used>>
  /\ \A d \in Calls \ {c} : call'[d] = call[d]
  /\ call'[c].pc \notin {"charge", "charged", "refund", "refunded"}
  /\ call'[c].op = "complete" => call'[c].size = 0
  /\ call'[c].op = "delete" =>
       call'[c].file \in Calls \ {c} /\ call'[c].size = call[call'[c].file].size

LEMMA StartEffect ==
  ASSUME TypeOK, FileStoreInv, NEW c \in Calls, Request(c)
  PROVE  Starts(c)
<1>0. call \in [Calls -> CallState] /\ call[c] \in CallState
  BY DEF TypeOK
<1>1. PICK u \in Users : NewFile(c, u) \/ FileRequest(c, u) \/ UpdateProfile(c, u)
  BY DEF Request
<1>2. UNCHANGED <<status, used>>
  BY <1>1 DEF NewFile, FileRequest, Upload, CompleteChunkUpload, UpdateProfile, Copy, Delete,
              Edit, Download, Refuse
<1>3. ASSUME NEW op, NEW f, NEW n, NEW x, NEW step, NEW a,
             Accept(c, op, u, f, n, x, step, a),
             step \notin {"charge", "charged", "refund", "refunded"},
             op = "complete" => n = 0,
             op = "delete" => f \in Calls \ {c} /\ n = call[f].size
      PROVE  Starts(c)
  <2>1. call'[c] = [op |-> op, pc |-> step, user |-> u, file |-> f,
                    size |-> n, seen |-> x, reply |-> a]
    BY <1>0, <1>3 DEF Accept
  <2>2. /\ call[c].pc = "idle" /\ call[c].reply = "pending"
        /\ \A d \in Calls \ {c} : call'[d] = call[d]
    BY <1>0, <1>3 DEF Accept, At
  <2>3. call'[c].op = op /\ call'[c].pc = step /\ call'[c].size = n /\ call'[c].file = f
    BY <2>1
  <2> QED  BY <1>2, <1>3, <2>2, <2>3 DEF Starts
<1>4. CASE NewFile(c, u) \/ UpdateProfile(c, u)
  BY <1>3, <1>4 DEF NewFile, Upload, CompleteChunkUpload, UpdateProfile
<1>5. ASSUME NEW f \in Calls \ {c}, Copy(c, u, f) \/ Delete(c, u, f) \/ Edit(c, u, f) \/ Download(c, u, f)
      PROVE  Starts(c)
  BY <1>3, <1>5 DEF Copy, Delete, Edit, Download
<1>6. ASSUME NEW f \in Calls, NEW op, NEW a, Refuse(c, u, f, op, a) PROVE Starts(c)
  <2>1. call[c].pc = "idle" /\ call[c].reply = "pending" /\ Reply(c, "err")
    BY <1>6 DEF Refuse, At
  <2>2. call[c].op = "none"
    BY <2>1, OpOfStep DEF FileStoreInv
  <2>3. /\ \A d \in Calls \ {c} : call'[d] = call[d]
        /\ call'[c].op = "none" /\ call'[c].pc = "idle"
    BY <1>0, <2>1, <2>2 DEF Reply, CallState
  <2> QED  BY <1>2, <2>1, <2>3 DEF Starts
<1> QED  BY <1>1, <1>4, <1>5, <1>6 DEF FileRequest

LEMMA LedgerFinite ==
  ASSUME TypeOK, LedgerInv, NEW S \in SUBSET {c \in Calls : call[c].pc # "idle"}
  PROVE  IsFiniteSet(S) /\ Sizing(call, S) /\ Sum(call, S) \in Nat
<1>1. IsFiniteSet(S)
  BY FS_Subset DEF LedgerInv
<1>2. Sizing(call, S)
  BY DEF Sizing, TypeOK, CallState
<1> QED  BY <1>1, <1>2, SumType

\* A set of calls that keep their sizes, and one that gains a call.
LEMMA SumKept ==
  ASSUME NEW k, NEW l, NEW S, IsFiniteSet(S), Sizing(k, S), NEW T, NEW c,
         \A d \in T : l[d].size = k[d].size
  PROVE  /\ T = S => Sum(l, T) = Sum(k, S)
         /\ T = S \cup {c} /\ c \notin S /\ k[c].size \in Nat => Sum(l, T) = k[c].size + Sum(k, S)
<1>1. CASE T = S
  BY <1>1, SumSame
<1>2. ASSUME T = S \cup {c}, c \notin S, k[c].size \in Nat
      PROVE  Sum(l, T) = k[c].size + Sum(k, S)
  <2>1. IsFiniteSet(T) /\ Sizing(k, T) /\ c \in T /\ T \ {c} = S
    BY <1>2, FS_AddElement DEF Sizing
  <2>2. Sum(l, T) = Sum(k, T)
    BY <2>1, SumSame
  <2>3. Sum(k, T) = k[c].size + Sum(k, S)
    BY <2>1, SumRemove
  <2> QED  BY <2>2, <2>3
<1> QED  BY <1>1, <1>2

LEMMA LedgerContinue ==
  ASSUME TypeOK, TypeOK', FileStoreInv, LedgerInv, NEW c \in Calls, Continue(c)
  PROVE  LedgerInv'
<1>0. /\ call \in [Calls -> CallState] /\ used \in [Users -> Int]
      /\ \A d \in Calls : call[d].file \in Calls /\ call[d].user \in Users /\ call[d].size \in Nat
  BY DEF TypeOK, CallState
<1>1. /\ Frame(c) /\ call[c].reply = "pending"
      /\ call[c].pc \notin {"idle", "charged", "refunded", "saved"} /\ call'[c].pc # "idle"
      /\ call[c].pc = "refund" => call'[c].pc \in {"refund", "refunded"}
      /\ call[c].pc = "charge" => call'[c].pc \in {"charge", "charged"}
  BY LedgerEffect
<1>2. IsFiniteSet({d \in Calls : call[d].pc # "idle"})'
  <2>1. {d \in Calls : call[d].pc # "idle"}' = {d \in Calls : call[d].pc # "idle"}
    BY <1>1 DEF Frame
  <2> QED  BY <2>1 DEF LedgerInv
<1>3. \A d \in Calls : /\ call'[d].op = "complete" => call'[d].size = 0
                       /\ call'[d].op = "delete" => call'[d].size = call'[call'[d].file].size
  BY <1>0, <1>1 DEF Frame, LedgerInv
<1>4. ASSUME NEW f \in Calls, status'[f] = "deleted" PROVE \E d \in Calls : Deleting(d, f)'
  <2>1. CASE Deleting(c, f)'
    BY <2>1
  <2>2. CASE status[f] = "deleted"
    <3>1. PICK d \in Calls : Deleting(d, f)
      BY <2>2 DEF LedgerInv
    <3>2. Deleting(d, f)'
      BY <1>1, <3>1 DEF Deleting, Removed, Frame
    <3> QED  BY <3>2
  <2> QED  BY <1>4, <2>1, <2>2, LedgerEffect
<1>5. ASSUME NEW u \in Users, ~ Unsettled(u)'
      PROVE  used'[u] = Bytes(Charged(u))' - Bytes(Refunded(u))'
  <2> DEFINE C == Charged(u)
             R == Refunded(u)
             D == Charged(u)'
             S == Refunded(u)'
  <2>1. Bytes(Charged(u))' = Sum(call', D) /\ Bytes(Refunded(u))' = Sum(call', S)
    BY DEF Bytes, MapThenSumSet, MapThenFoldSet, Sum, Summed, Pick
  <2>2. ~ Unsettled(u)
    BY <1>1, <1>5 DEF Unsettled, Frame, UserSaved
  <2>3. used[u] = Sum(call, C) - Sum(call, R)
    BY <2>2, BytesIsSum DEF LedgerInv
  <2>4. /\ IsFiniteSet(C) /\ Sizing(call, C) /\ Sum(call, C) \in Nat
        /\ IsFiniteSet(R) /\ Sizing(call, R) /\ Sum(call, R) \in Nat
    <3>1. /\ C \in SUBSET {d \in Calls : call[d].pc # "idle"}
          /\ R \in SUBSET {d \in Calls : call[d].pc # "idle"}
      BY DEF Charged, Refunded
    <3> QED  BY <3>1, LedgerFinite
  <2>5. c \notin C /\ c \notin R
    BY <1>1 DEF Charged, Refunded
  <2>6. /\ \A d \in D : call'[d].size = call[d].size
        /\ \A d \in S : call'[d].size = call[d].size
    BY <1>1 DEF Frame, Charged, Refunded
  <2>7. /\ D = IF call'[c].pc = "charged" /\ call[c].user = u THEN C \cup {c} ELSE C
        /\ S = IF call'[c].pc = "refunded" /\ call[c].user = u THEN R \cup {c} ELSE R
    BY <1>1 DEF Frame, Charged, Refunded
  <2>8. call[c].size \in Nat /\ used[u] \in Int
    BY <1>0
  <2> HIDE DEF C, R, D, S
  <2>9. /\ D = C => Sum(call', D) = Sum(call, C)
        /\ D = C \cup {c} => Sum(call', D) = call[c].size + Sum(call, C)
    BY <2>4, <2>5, <2>6, <2>8, SumKept
  <2>10. /\ S = R => Sum(call', S) = Sum(call, R)
         /\ S = R \cup {c} => Sum(call', S) = call[c].size + Sum(call, R)
    BY <2>4, <2>5, <2>6, <2>8, SumKept
  <2>11. used'[u] = Sum(call', D) - Sum(call', S)
    <3>1. CASE UNCHANGED used /\ call'[c].pc \notin {"charged", "refunded"}
      BY <2>3, <2>7, <2>9, <2>10, <3>1
    <3>2. CASE /\ call[c].pc \in {"charge", "refund"}
               /\ call'[c].pc = call[c].pc /\ call'[c].reply = "ok"
               /\ \E x \in Int : used' = [used EXCEPT ![call[c].user] = x]
      <4>1. call[c].user # u
        BY <1>1, <1>5, <3>2 DEF Unsettled, Frame
      <4> QED  BY <1>0, <2>3, <2>7, <2>9, <2>10, <3>2, <4>1
    <3>3. CASE /\ call[c].pc = "charge" /\ call'[c].pc = "charged"
               /\ used' = [used EXCEPT ![call[c].user] = @ + call[c].size]
      <4>1. S = R /\ (call[c].user = u => D = C \cup {c}) /\ (call[c].user # u => D = C)
        BY <2>7, <3>3
      <4>2. used'[u] = IF call[c].user = u THEN used[u] + call[c].size ELSE used[u]
        BY <1>0, <3>3
      <4> QED  BY <2>3, <2>4, <2>8, <2>9, <2>10, <4>1, <4>2
    <3>4. CASE /\ call[c].pc = "refund" /\ call'[c].pc = "refunded"
               /\ used' = [used EXCEPT ![call[c].user] = @ - call[c].size]
      <4>1. D = C /\ (call[c].user = u => S = R \cup {c}) /\ (call[c].user # u => S = R)
        BY <2>7, <3>4
      <4>2. used'[u] = IF call[c].user = u THEN used[u] - call[c].size ELSE used[u]
        BY <1>0, <3>4
      <4> QED  BY <2>3, <2>4, <2>8, <2>9, <2>10, <4>1, <4>2
    <3>5. CASE /\ call[c].pc = "saveuser" /\ call'[c].pc = "saved" /\ call[c].op = "profile"
               /\ used' = [used EXCEPT ![call[c].user] = call[c].seen]
      <4>1. call[c].user # u
        BY <1>1, <1>5, <3>5 DEF Unsettled, Frame, UserSaved
      <4> QED  BY <1>0, <2>3, <2>7, <2>9, <2>10, <3>5, <4>1
    <3> QED  BY <3>1, <3>2, <3>3, <3>4, <3>5, LedgerEffect
  <2> QED  BY <2>1, <2>11
<1> QED  BY <1>2, <1>3, <1>4, <1>5 DEF LedgerInv

LEMMA LedgerRequest ==
  ASSUME TypeOK, TypeOK', FileStoreInv, LedgerInv, NEW c \in Calls, Request(c)
  PROVE  LedgerInv'
<1>0. /\ call \in [Calls -> CallState] /\ used \in [Users -> Int]
      /\ \A d \in Calls : call[d].file \in Calls /\ call[d].user \in Users /\ call[d].size \in Nat
  BY DEF TypeOK, CallState
<1>1. Starts(c)
  BY StartEffect
<1>2. IsFiniteSet({d \in Calls : call[d].pc # "idle"})'
  <2>1. {d \in Calls : call[d].pc # "idle"}' \in SUBSET ({d \in Calls : call[d].pc # "idle"} \cup {c})
    BY <1>1 DEF Starts
  <2>2. IsFiniteSet({d \in Calls : call[d].pc # "idle"} \cup {c})
    BY FS_AddElement DEF LedgerInv
  <2> QED  BY <2>1, <2>2, FS_Subset
<1>3. \A d \in Calls \ {c} : call[d].op = "delete" => call[d].file # c
  <2>1. status[c] = "absent"
    BY <1>1, NoOwnFile DEF Starts
  <2> QED  BY <2>1 DEF FileStoreInv, WorkInv
<1>4. \A d \in Calls : /\ call'[d].op = "complete" => call'[d].size = 0
                       /\ call'[d].op = "delete" => call'[d].size = call'[call'[d].file].size
  <2>1. ASSUME NEW d \in Calls \ {c}
        PROVE  /\ call'[d].op = "complete" => call'[d].size = 0
               /\ call'[d].op = "delete" => call'[d].size = call'[call'[d].file].size
    <3>1. call'[d] = call[d]
      BY <1>1 DEF Starts
    <3>2. call[d].op = "delete" => call'[call[d].file] = call[call[d].file]
      BY <1>0, <1>1, <1>3 DEF Starts
    <3> QED  BY <3>1, <3>2 DEF LedgerInv
  <2>2. /\ call'[c].op = "complete" => call'[c].size = 0
        /\ call'[c].op = "delete" => call'[c].size = call'[call'[c].file].size
    BY <1>1 DEF Starts
  <2> QED  BY <2>1, <2>2
<1>5. ASSUME NEW f \in Calls, status'[f] = "deleted" PROVE \E d \in Calls : Deleting(d, f)'
  <2>1. PICK d \in Calls : Deleting(d, f)
    BY <1>1, <1>5 DEF LedgerInv, Starts
  <2>2. d # c
    BY <1>1, <2>1 DEF Starts, Deleting, Removed
  <2> QED  BY <1>1, <2>1, <2>2 DEF Starts, Deleting, Removed
<1>6. ASSUME NEW u \in Users, ~ Unsettled(u)'
      PROVE  used'[u] = Bytes(Charged(u))' - Bytes(Refunded(u))'
  <2> DEFINE C == Charged(u)
             R == Refunded(u)
             D == Charged(u)'
             S == Refunded(u)'
  <2>1. Bytes(Charged(u))' = Sum(call', D) /\ Bytes(Refunded(u))' = Sum(call', S)
    BY DEF Bytes, MapThenSumSet, MapThenFoldSet, Sum, Summed, Pick
  <2>2. ~ Unsettled(u)
    BY <1>1, <1>6 DEF Unsettled, Starts, UserSaved
  <2>3. used'[u] = Sum(call, C) - Sum(call, R)
    BY <1>1, <2>2, BytesIsSum DEF LedgerInv, Starts
  <2>4. IsFiniteSet(C) /\ Sizing(call, C) /\ IsFiniteSet(R) /\ Sizing(call, R)
    <3>1. /\ C \in SUBSET {d \in Calls : call[d].pc # "idle"}
          /\ R \in SUBSET {d \in Calls : call[d].pc # "idle"}
      BY DEF Charged, Refunded
    <3> QED  BY <3>1, LedgerFinite
  <2>5. /\ D = C /\ \A d \in D : call'[d].size = call[d].size
        /\ S = R /\ \A d \in S : call'[d].size = call[d].size
    BY <1>1 DEF Starts, Charged, Refunded
  <2> HIDE DEF C, R, D, S
  <2> QED  BY <2>1, <2>3, <2>4, <2>5, SumKept
<1> QED  BY <1>2, <1>4, <1>5, <1>6 DEF LedgerInv

LEMMA LedgerCrash ==
  ASSUME TypeOK, LedgerInv, Crash
  PROVE  LedgerInv'
<1>0. /\ call \in [Calls -> CallState] /\ UNCHANGED <<used, status>>
      /\ call' = [c \in Calls |-> IF Pending(c) THEN [call[c] EXCEPT !.reply = "lost"] ELSE call[c]]
      /\ \A d \in Calls : call[d].file \in Calls
  BY DEF Crash, TypeOK, CallState
<1>1. \A c \in Calls :
        /\ call'[c].size = call[c].size /\ call'[c].op = call[c].op /\ call'[c].pc = call[c].pc
        /\ call'[c].user = call[c].user /\ call'[c].file = call[c].file
        /\ call'[c].reply = IF Pending(c) THEN "lost" ELSE call[c].reply
  BY <1>0 DEF CallState
<1>2. IsFiniteSet({d \in Calls : call[d].pc # "idle"})'
  <2>1. {d \in Calls : call[d].pc # "idle"}' = {d \in Calls : call[d].pc # "idle"}
    BY <1>1
  <2> QED  BY <2>1 DEF LedgerInv
<1>3. \A d \in Calls : /\ call'[d].op = "complete" => call'[d].size = 0
                       /\ call'[d].op = "delete" => call'[d].size = call'[call'[d].file].size
  BY <1>0, <1>1 DEF LedgerInv
<1>4. ASSUME NEW f \in Calls, status'[f] = "deleted" PROVE \E d \in Calls : Deleting(d, f)'
  <2>1. PICK d \in Calls : Deleting(d, f)
    BY <1>0, <1>4 DEF LedgerInv
  <2> QED  BY <1>1, <2>1 DEF Deleting, Removed, Pending
<1>5. ASSUME NEW u \in Users, ~ Unsettled(u)'
      PROVE  used'[u] = Bytes(Charged(u))' - Bytes(Refunded(u))'
  <2> DEFINE C == Charged(u)
             R == Refunded(u)
             D == Charged(u)'
             S == Refunded(u)'
  <2>1. Bytes(Charged(u))' = Sum(call', D) /\ Bytes(Refunded(u))' = Sum(call', S)
    BY DEF Bytes, MapThenSumSet, MapThenFoldSet, Sum, Summed, Pick
  <2>2. ~ Unsettled(u)
    BY <1>1, <1>5 DEF Unsettled, UserSaved, Pending
  <2>3. used'[u] = Sum(call, C) - Sum(call, R)
    BY <1>0, <2>2, BytesIsSum DEF LedgerInv
  <2>4. IsFiniteSet(C) /\ Sizing(call, C) /\ IsFiniteSet(R) /\ Sizing(call, R)
    <3>1. /\ C \in SUBSET {d \in Calls : call[d].pc # "idle"}
          /\ R \in SUBSET {d \in Calls : call[d].pc # "idle"}
      BY DEF Charged, Refunded
    <3> QED  BY <3>1, LedgerFinite
  <2>5. /\ D = C /\ \A d \in D : call'[d].size = call[d].size
        /\ S = R /\ \A d \in S : call'[d].size = call[d].size
    BY <1>1 DEF Charged, Refunded
  <2> HIDE DEF C, R, D, S
  <2> QED  BY <2>1, <2>3, <2>4, <2>5, SumKept
<1> QED  BY <1>2, <1>3, <1>4, <1>5 DEF LedgerInv

LEMMA LedgerStep ==
  ASSUME TypeOK, FileStoreInv, LedgerInv, [Next]_vars
  PROVE  LedgerInv'
<1>1. TypeOK'
  BY TypeStep
<1>2. CASE UNCHANGED vars
  <2>1. call' = call /\ status' = status /\ used' = used
    BY <1>2 DEF vars
  <2>2. \A u \in Users : Bytes(Charged(u))' = Bytes(Charged(u)) /\ Bytes(Refunded(u))' = Bytes(Refunded(u))
    BY <2>1 DEF Charged, Refunded, Bytes, MapThenSumSet, MapThenFoldSet
  <2>3. \A u \in Users : Unsettled(u)' <=> Unsettled(u)
    BY <2>1 DEF Unsettled, UserSaved
  <2>4. \A d, f \in Calls : Deleting(d, f)' <=> Deleting(d, f)
    BY <2>1 DEF Deleting, Removed
  <2> QED  BY <2>1, <2>2, <2>3, <2>4 DEF LedgerInv
<1> QED  BY <1>1, <1>2, LedgerContinue, LedgerRequest, LedgerCrash DEF Next

LEMMA LedgerInit == Init => LedgerInv
<1> SUFFICES ASSUME Init PROVE LedgerInv
  OBVIOUS
<1>1. \A c \in Calls : call[c].pc = "idle" /\ call[c].op = "none" /\ status[c] = "absent"
  BY DEF Init
<1>2. {c \in Calls : call[c].pc # "idle"} = {} /\ IsFiniteSet({})
  BY <1>1, FS_EmptySet
<1>3. ASSUME NEW u \in Users PROVE used[u] = Bytes(Charged(u)) - Bytes(Refunded(u))
  <2>1. Charged(u) = {} /\ Refunded(u) = {}
    BY <1>1 DEF Charged, Refunded
  <2>2. Bytes({}) = 0
    BY <1>2, SumZero, BytesIsSum
  <2> QED  BY <2>1, <2>2 DEF Init
<1> QED  BY <1>1, <1>2, <1>3 DEF LedgerInv

\* In a settled ledger the refunds of u and its deleted files correspond one
\* to one, so what is left of its charges is the sum of its listed files.
LEMMA SettledLedger ==
  ASSUME TypeOK, FileStoreInv, LedgerInv, NEW u \in Users, ~ Drifted(u)
  PROVE  used[u] = Bytes({f \in Calls : status[f] = "live" /\ call[f].user = u})
<1> DEFINE C == Charged(u)
           R == Refunded(u)
           M == {f \in Calls : call[f].op = "complete" /\ call[f].user = u /\ status[f] # "absent"}
           L == {f \in Calls : status[f] = "live" /\ call[f].user = u}
           X == {f \in Calls : status[f] = "deleted" /\ call[f].user = u}
           b == [d \in R |-> call[d].file]
<1>0. \A c \in Calls : /\ call[c].file \in Calls /\ call[c].user \in Users /\ call[c].size \in Nat
                       /\ status[c] \in {"absent", "live", "deleted"}
                       /\ call[c].op \in AllOps \cup {"none"}
                       /\ CreationInv(c) /\ WorkInv(c)
  BY DEF TypeOK, CallState, FileStoreInv
<1>1. ~ Unsettled(u)
  BY DEF Drifted, Unsettled
<1>2. used[u] = Sum(call, C) - Sum(call, R)
  BY <1>1, BytesIsSum DEF LedgerInv
<1>3. /\ \A f \in Calls : call[f].user = u /\ call[f].pc = "charged" => call[f].op # "complete" /\ status[f] # "absent"
      /\ \A f \in Calls : call[f].user = u /\ status[f] # "absent" /\ call[f].op # "complete" =>
            call[f].pc = "charged"
  <2>1. ASSUME NEW f \in Calls, call[f].user = u PROVE call[f].pc \notin {"rollback", "charge", "refund"}
    BY <2>1 DEF Drifted
  <2>2. ASSUME NEW f \in Calls, call[f].pc = "created" PROVE call[f].op = "complete"
    BY <1>0, <2>2 DEF CreationInv, StepsOf, AllOps
  <2>3. ASSUME NEW f \in Calls, call[f].pc = "charged" PROVE call[f].op \in {"upload", "copy"}
    BY <1>0, <2>3, OpOfStep
  <2> QED  BY <1>0, <2>1, <2>2, <2>3 DEF CreationInv
<1>4. L \cup X = C \cup M /\ C \cap M = {} /\ L \cap X = {}
  BY <1>0, <1>3 DEF Charged
<1>5. ASSUME NEW d \in R
      PROVE  b[d] \in X /\ call[b[d]].size = call[d].size /\ Removed(d, b[d])
  <2>1. d \in Calls /\ call[d].user = u /\ call[d].pc = "refunded"
    BY DEF Refunded
  <2>2. call[d].op = "delete"
    BY <1>0, <2>1, OpOfStep
  <2>3. b[d] = call[d].file /\ call[d].file \in Calls /\ Removed(d, call[d].file)
    BY <1>0, <2>1, <2>2 DEF Removed
  <2>4. call[call[d].file].user = u
    BY <2>1, <2>3 DEF Drifted
  <2>5. ~ Saved(call[d].file)
    BY <2>3, <2>4 DEF Drifted
  <2>6. status[call[d].file] = "deleted"
    BY <1>0, <2>1, <2>5 DEF WorkInv
  <2> QED  BY <2>1, <2>2, <2>3, <2>4, <2>6 DEF LedgerInv
<1>6. ASSUME NEW d \in R, NEW e \in R, b[d] = b[e] PROVE d = e
  <2>1. Removed(d, b[d]) /\ Removed(e, b[d]) /\ b[d] \in X
    BY <1>5, <1>6
  <2>2. ~ Saved(b[d])
    BY <2>1 DEF Drifted
  <2> QED  BY <2>1, <2>2 DEF FileStoreInv, SecondRefundNeedsSave, Refunded
<1>7. ASSUME NEW f \in X PROVE \E d \in R : b[d] = f
  <2>1. PICK d \in Calls : Deleting(d, f)
    BY DEF LedgerInv
  <2>2. f \in Calls /\ call[f].user = u /\ call[d].file = f
    BY <2>1 DEF Deleting, Removed
  <2>3. ~ (call[d].op = "delete" /\ call[d].pc = "softdelete" /\ call[d].reply = "err")
    BY <2>2 DEF Drifted
  <2>4. Removed(d, f) /\ call[d].user = u
    BY <2>1, <2>2, <2>3 DEF Deleting, Drifted
  <2>5. call[d].pc = "refunded"
    BY <2>4 DEF Removed, Drifted
  <2>6. d \in R
    BY <2>4, <2>5 DEF Refunded
  <2> QED  BY <2>2, <2>6
<1>8. X = {b[d] : d \in R}
  BY <1>5, <1>7
<1>9. \A S \in {C, R, M, L, X, L \cup X} : IsFiniteSet(S) /\ Sizing(call, S) /\ Sum(call, S) \in Nat
  <2>1. ASSUME NEW f \in Calls, call[f].pc = "idle" PROVE status[f] = "absent"
    BY <1>0, <2>1 DEF CreationInv
  <2>2. \A S \in {C, R, M, L, X, L \cup X} : S \in SUBSET {c \in Calls : call[c].pc # "idle"}
    BY <2>1 DEF Charged, Refunded
  <2> QED  BY <2>2, LedgerFinite
<1>10. \A c \in M : call[c].size = 0
  BY DEF LedgerInv
<1>11. \A d \in R : call[d].size \in Nat
  BY <1>0 DEF Refunded
<1>12. Bytes(L) = Sum(call, L)
  BY BytesIsSum
<1> HIDE DEF C, R, M, L, X, b
<1>13. Sum(call, X) = Sum(call, R)
  <2>1. IsFiniteSet(R) /\ IsFiniteSet({b[d] : d \in R})
    BY <1>8, <1>9
  <2>2. \A d \in R : call[d].size \in Nat /\ call[b[d]].size = call[d].size
    BY <1>5, <1>11
  <2> QED  BY <1>6, <1>8, <2>1, <2>2, SumImage
<1>14. Sum(call, C \cup M) = Sum(call, C)
  <2>1. Sum(call, M) = 0
    BY <1>9, <1>10, SumZero
  <2>2. Sum(call, C \cup M) = Sum(call, C) + Sum(call, M)
    BY <1>4, <1>9, SumUnion
  <2> QED  BY <1>9, <2>1, <2>2
<1>15. Sum(call, L \cup X) = Sum(call, L) + Sum(call, X)
  BY <1>4, <1>9, SumUnion
<1>16. used[u] = Sum(call, L)
  <2>1. Sum(call, C) = Sum(call, L) + Sum(call, R)
    BY <1>4, <1>13, <1>14, <1>15
  <2>2. Sum(call, L) \in Nat /\ Sum(call, R) \in Nat
    BY <1>9
  <2> QED  BY <1>2, <2>1, <2>2
<1> QED  BY <1>12, <1>16 DEF L

\* However uploads, copies and deletes race, fail or die, storage_used is the
\* total size of the owner's files but for the listed ways to drift: no file
\* is charged or refunded twice, or refunded with another size.
THEOREM StorageAddsUp == Spec => []UsedMatchesFiles
<1>1. TypeOK /\ FileStoreInv /\ LedgerInv => UsedMatchesFiles
  BY SettledLedger DEF UsedMatchesFiles
<1>2. QED BY <1>1, LedgerInit, LedgerStep, TypeCorrect, FileStoreCorrect, PTL DEF Spec

=============================================================================
