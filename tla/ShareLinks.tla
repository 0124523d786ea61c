----------------------------- MODULE ShareLinks -----------------------------
(***************************************************************************)
(* Share links with a usage limit: Share of the file and of the folder use *)
(* case, and DownloadByShareToken, for the links to one file (and to       *)
(* folders).  Each HTTP call is a goroutine that makes a few calls of the  *)
(* database and of the object store one after the other, each a step here; *)
(* steps of different calls interleave.                                    *)
(***************************************************************************)
EXTENDS Integers, FiniteSets

CONSTANTS
  Links,        \* the tokens that links can get
  Calls,        \* the HTTP calls of a behaviour, each handled once
  Limits,       \* the values of max_uses that clients ask for
  NoLimit,      \* max_uses is NULL
  Faults        \* whether a database write may fail: {} or {"failed"}

ASSUME ShareLinksAssumption ==
  /\ Limits \subseteq Nat /\ NoLimit \notin Nat
  /\ IsFiniteSet(Calls)
  /\ Faults \subseteq {"failed"}

VARIABLES
  link,         \* the share_links table
  file,         \* the row of the file
  object,       \* whether its object is stored
  call          \* call[c]: the local state of the goroutine handling c

vars == <<link, file, object, call>>

Kinds == {"file", "folder"}
Link == [state: {"none", "live"}, kind: Kinds, max: Limits \cup {NoLimit}, uses: Int,
         expired: BOOLEAN]
File == [state: {"processing", "ready", "deleted"}, downloads: Int]

\* uses is the use count that the call has read.  counted: its Save was applied;
\* after: the calls that were over when it read the link (history).
Steps == {"idle", "create", "file", "fetch", "count", "downloads", "purge", "done"}
Call == [op: {"none", "share", "use", "delete"}, pc: Steps, kind: Kinds, token: Links, uses: Int,
         counted: BOOLEAN, after: SUBSET Calls, reply: {"pending", "ok", "err"}]

TypeOK ==
  /\ link \in [Links -> Link] /\ file \in File /\ object \in BOOLEAN
  /\ call \in [Calls -> Call]

NoLink == [state |-> "none", kind |-> "file", max |-> NoLimit, uses |-> 0, expired |-> FALSE]

\* A file that was uploaded, at once or in chunks (then it has no object and is
\* never ready).
Init ==
  /\ link = [l \in Links |-> NoLink]
  /\ \/ file = [state |-> "ready", downloads |-> 0] /\ object = TRUE
     \/ file = [state |-> "processing", downloads |-> 0] /\ object = FALSE
  /\ \E l \in Links : call = [c \in Calls |->
       [op |-> "none", pc |-> "idle", kind |-> "file", token |-> l, uses |-> 0,
        counted |-> FALSE, after |-> {}, reply |-> "pending"]]

At(c, step) == call[c].pc = step
Over        == {c \in Calls : call[c].pc = "done"}
Outcomes    == {"ok"} \cup Faults

Goto(c, step)    == call' = [call EXCEPT ![c].pc = step]
Reply(c, answer) == call' = [call EXCEPT ![c] = [@ EXCEPT !.pc = "done",
                                                          !.reply = answer]]

-----------------------------------------------------------------------------
(* Share *)

\* A folder is always there to be shared.
Share(c, kind) ==
  /\ At(c, "idle")
  /\ kind = "file" => file.state # "deleted"
  /\ call' = [call EXCEPT ![c] = [@ EXCEPT !.op = "share", !.pc = "create",
                                           !.kind = kind]]
  /\ UNCHANGED <<link, file, object>>

\* Nothing keeps the file from being deleted meanwhile.
CreateShareLink(c, l, max) ==
  /\ At(c, "create") /\ link[l].state = "none"
  /\ \E o \in Outcomes :
       IF o = "ok"
         THEN /\ link' = [link EXCEPT ![l] =
                   [NoLink EXCEPT !.state = "live", !.kind = call[c].kind, !.max = max]]
              /\ Reply(c, "ok")
         ELSE Reply(c, "err") /\ UNCHANGED link
  /\ UNCHANGED <<file, object>>

-----------------------------------------------------------------------------
(* DownloadByShareToken *)

\* Faulty variant: the limit itself still passes.
IsUsableAtLimit(l) ==
  /\ ~ l.expired
  /\ l.max # NoLimit => l.uses <= l.max

\* No code ever makes a link inactive.
IsUsable(l) ==
  /\ ~ l.expired
  /\ l.max # NoLimit => l.uses < l.max

Open(c, l) ==
  /\ At(c, "idle") /\ link[l].state = "live"
  /\ IsUsable(link[l]) /\ link[l].kind = "file"
  /\ call' = [call EXCEPT ![c] = [@ EXCEPT !.op = "use", !.pc = "file", !.token = l,
                                           !.uses = link[l].uses, !.after = Over]]
  /\ UNCHANGED <<link, file, object>>

LoadFile(c) ==
  /\ At(c, "file")
  /\ IF file.state = "ready" THEN Goto(c, "fetch") ELSE Reply(c, "err")
  /\ UNCHANGED <<link, file, object>>

Fetch(c) ==
  /\ At(c, "fetch")
  /\ IF object THEN Goto(c, "count") ELSE Reply(c, "err")
  /\ UNCHANGED <<link, file, object>>

\* Faulty variant: the copy is saved before its count is increased.
UpdateShareLinkEarly(c) ==
  /\ At(c, "count")
  /\ link' = [link EXCEPT ![call[c].token].uses = call[c].uses]
  /\ call' = [call EXCEPT ![c] = [@ EXCEPT !.pc = "downloads", !.counted = TRUE]]
  /\ UNCHANGED <<file, object>>

\* The copy, its use count increased, is saved as a whole; of its columns only
\* the count ever changes.  An error is only logged.
UpdateShareLink(c) ==
  /\ At(c, "count")
  /\ \E o \in Outcomes :
       IF o = "ok"
         THEN /\ link' = [link EXCEPT ![call[c].token].uses = call[c].uses + 1]
              /\ call' = [call EXCEPT ![c] = [@ EXCEPT !.pc = "downloads",
                                                       !.counted = TRUE]]
         ELSE Goto(c, "downloads") /\ UNCHANGED link
  /\ UNCHANGED <<file, object>>

\* The caller gets the content whether or not this succeeds.
IncrementDownloadCount(c) ==
  /\ At(c, "downloads")
  /\ \/ file.state # "deleted" /\ file' = [file EXCEPT !.downloads = @ + 1]
     \/ (file.state = "deleted" \/ Faults # {}) /\ UNCHANGED file
  /\ Reply(c, "ok")
  /\ UNCHANGED <<link, object>>

-----------------------------------------------------------------------------
(* The file is deleted, first its object, then its row (FileStore has the     *)
(* whole call).                                                              *)

DeleteObject(c) ==
  /\ At(c, "idle") /\ file.state # "deleted"
  /\ object' = FALSE
  /\ call' = [call EXCEPT ![c] = [@ EXCEPT !.op = "delete", !.pc = "purge"]]
  /\ UNCHANGED <<link, file>>

SoftDelete(c) ==
  /\ At(c, "purge")
  /\ \E o \in Outcomes :
       IF o = "ok" /\ file.state # "deleted"
         THEN file' = [file EXCEPT !.state = "deleted"] /\ Reply(c, "ok")
         ELSE Reply(c, "err") /\ UNCHANGED file
  /\ UNCHANGED <<link, object>>

\* The clock passes expires_at.
Expire(l) ==
  /\ link[l].state = "live" /\ ~ link[l].expired
  /\ link' = [link EXCEPT ![l].expired = TRUE]
  /\ UNCHANGED <<file, object, call>>

-----------------------------------------------------------------------------

Next ==
  \/ \E c \in Calls :
       \/ \E kind \in Kinds : Share(c, kind)
       \/ \E l \in Links, max \in Limits \cup {NoLimit} : CreateShareLink(c, l, max)
       \/ \E l \in Links : Open(c, l)
       \/ LoadFile(c) \/ Fetch(c) \/ UpdateShareLink(c) \/ IncrementDownloadCount(c)
       \/ DeleteObject(c) \/ SoftDelete(c)
  \/ \E l \in Links : Expire(l)

Spec == Init /\ [][Next]_vars

-----------------------------------------------------------------------------
(* Properties. *)

Uses(l)       == {c \in Calls : call[c].token = l /\ call[c].counted}
Overlap(c, d) == c # d /\ c \notin call[d].after /\ d \notin call[c].after

\* The count of a link never exceeds its limit, whatever downloads overlap.
LimitKept == \A l \in Links : link[l].max # NoLimit => link[l].uses <= link[l].max

\* The count of a link is the number of downloads that saved it; it is less only
\* when two of them overlapped.
UsesCounted ==
  \A l \in Links :
    /\ link[l].uses <= Cardinality(Uses(l))
    /\ link[l].uses < Cardinality(Uses(l)) => \E c, d \in Uses(l) : Overlap(c, d)
=============================================================================
