-------------------------- MODULE FileStoreLedger ---------------------------
(***************************************************************************)
(* The properties of FileStore that add up sizes, and one that the         *)
(* repository states of it and the code does not keep.                     *)
(***************************************************************************)
EXTENDS FileStore, FiniteSetsExt

\* The bytes that the calls in S account for.
Bytes(S) == MapThenSumSet(LAMBDA c : call[c].size, S)

\* A whole-row Save of the row of u went through.
UserSaved(u) == \E p \in Calls : /\ call[p].op = "profile" /\ call[p].user = u
                                  /\ call[p].pc = "saved"

\* Every way in which the code lets users.storage_used of u drift from the
\* files of u: a call of u between its row write and its quota update (still
\* running, lost in a crash, or one of the two reported an error), a Delete whose caller is
\* not the owner, and whole-row Saves of a file of u or of the row of u.
Drifted(u) ==
  \/ \E c \in Calls : call[c].user = u /\ call[c].pc \in {"rollback", "charge", "refund"}
  \/ \E d \in Calls : /\ call[d].pc = "softdelete" /\ call[d].reply = "err"
                     /\ u \in {call[d].user, call[call[d].file].user}
  \/ \E d, f \in Calls : /\ Removed(d, f) /\ call[d].user # call[f].user
                         /\ u \in {call[d].user, call[f].user}
  \/ \E f \in Calls : call[f].user = u /\ Saved(f)
  \/ UserSaved(u)

\* Apart from those, storage_used is at every moment the total size of the
\* owner's files: racing uploads, copies and deletes count each file once.
UsedMatchesFiles ==
  \A u \in Users : ~ Drifted(u) =>
     used[u] = Bytes({f \in Calls : status[f] = "live" /\ call[f].user = u})

\* HasStorageSpace is checked long before the charge, so uploads and copies
\* that overlap can exceed the quota together; but only by what the other
\* calls in flight can add.  With one call at a time (MaxInFlight = 1) the
\* quota is never exceeded.  A whole-row Save of the user lifts the bound: it
\* gives storage_used back what refunds took from it since the row was read,
\* while uploads have been let in for the room that the refunds made.
OvershootBounded ==
  \A u \in Users : ~ UserSaved(u) => used[u] <= Quota[u] + (MaxInFlight - 1) * Max(Sizes)
=============================================================================
