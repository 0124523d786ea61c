----------------------------- MODULE FolderTree -----------------------------
(***************************************************************************)
(* The folder use case on the folders table: parents, materialized paths   *)
(* and counts of subfolders.  Each HTTP call is a goroutine that makes a   *)
(* few database calls one after the other, each a step here; steps of      *)
(* different calls interleave.  (A call that a crash cuts short is one     *)
(* that takes no further step.)  All calls pass the access check; of the   *)
(* target of a Move there is none.  Size and file_count stay 0: no code    *)
(* ever passes another delta.                                              *)
(***************************************************************************)
EXTENDS Integers, FiniteSets, Sequences

CONSTANTS
  Folders,      \* the ids that folders can get
  Top,          \* the parent of root folders (NULL)
  Calls,        \* the HTTP calls of a behaviour, each handled once
  Ops,          \* the operations the clients use
  Faults        \* whether a write may fail: {} or {"failed"}

AllOps == {"create", "update", "delete", "move", "breadcrumb"}

ASSUME FolderTreeAssumption ==
  /\ IsFiniteSet(Folders) /\ Top \notin Folders
  /\ Ops \subseteq AllOps /\ Faults \subseteq {"failed"}

VARIABLES
  row,          \* the folders table
  call          \* call[c]: the local state of the goroutine handling c

vars == <<row, call>>

Parents == Folders \cup {Top}
Row == [state: {"none", "live", "deleted"}, parent: Parents, path: Seq(Folders), count: Int]

\* folder and target are what the call is for, copy its folder's row as read by
\* resolveFolderWithAccess, old and new the full paths that repo.Move computes.
\* dec and inc: the counts of subfolders that the call has yet to correct.
\* after: the calls that were over when c started; below: whether the target of
\* a Move was in its folder's subtree then (history).
Steps == {"idle", "insert", "save", "softdelete", "read", "write", "dec", "inc", "walk", "done"}
Call == [op: AllOps \cup {"none"}, pc: Steps, folder: Parents, target: Parents, copy: Row,
         old: Seq(Folders), new: Seq(Folders), dec: SUBSET Folders, inc: SUBSET Folders,
         after: SUBSET Calls, below: BOOLEAN,
         reply: {"pending", "ok", "err"}]

TypeOK == row \in [Folders -> Row] /\ call \in [Calls -> Call]

-----------------------------------------------------------------------------
(* The tree that a function p from folders to parents describes. *)

\* The folder n levels above f.
Up(p, f, n) == LET up[k \in Nat] == IF k = 0 THEN f
                                    ELSE IF up[k - 1] = Top THEN Top ELSE p[up[k - 1]]
               IN up[n]
Above(p, f)  == {Up(p, f, n) : n \in 1 .. Cardinality(Folders)} \ {Top}
PathOf(p, f) == LET depth == Cardinality(Above(p, f)) + 1
                IN [i \in 1 .. depth |-> Up(p, f, depth - i)]

Live         == {f \in Folders : row[f].state = "live"}
Children(f)  == {g \in Live : row[g].parent = f}
Ancestors(f) == Above([g \in Folders |-> row[g].parent], f)
Subtree(f)   == {g \in Live : g = f \/ f \in Ancestors(g)}
Cycle        == \E f \in Live : f \in Ancestors(f) /\ Ancestors(f) \subseteq Live

NoRow  == [state |-> "none", parent |-> Top, path |-> <<>>, count |-> 0]
NoCall == [op |-> "none", pc |-> "idle", folder |-> Top, target |-> Top, copy |-> NoRow,
           old |-> <<>>, new |-> <<>>, dec |-> {}, inc |-> {}, after |-> {}, below |-> FALSE,
           reply |-> "pending"]

\* Any forest, as earlier Creates leave it.
Init ==
  /\ \E there \in SUBSET Folders, p \in [Folders -> Parents] :
       /\ \A f \in Folders : f \notin Above(p, f) /\ Above(p, f) \subseteq there
       /\ \A f \in Folders \ there : p[f] = Top
       /\ row = [f \in Folders |-> IF f \notin there THEN NoRow
                   ELSE [state |-> "live", parent |-> p[f], path |-> PathOf(p, f),
                         count |-> Cardinality({g \in there : p[g] = f})]]
  /\ call = [c \in Calls |-> NoCall]

-----------------------------------------------------------------------------

At(c, step) == call[c].pc = step
Outcomes    == {"ok"} \cup Faults
Over        == {c \in Calls : call[c].pc = "done"}

Goto(c, step)    == call' = [call EXCEPT ![c].pc = step]
Reply(c, answer) == call' = [call EXCEPT ![c] = [@ EXCEPT !.pc = "done",
                                                          !.reply = answer]]

\* A call that starts reads the row of the folder it is about.
Start(c, op, step, f, target) ==
  /\ At(c, "idle") /\ op \in Ops
  /\ call' = [call EXCEPT ![c] = [@ EXCEPT !.op = op, !.pc = step, !.folder = f,
                                           !.target = target, !.after = Over,
                                           !.copy = IF f = Top THEN NoRow ELSE row[f],
                                           !.below = op = "move" /\ target \in Subtree(f)]]
  /\ UNCHANGED row

\* After its write the call corrects the counts of the folders from and to, so
\* far as there are such; its other locals are of no use any more.
Correct(c, from, to) ==
  call' = [call EXCEPT ![c] = [@ EXCEPT
             !.pc = IF from # Top THEN "dec" ELSE IF to # Top THEN "inc" ELSE "done",
             !.reply = IF {from, to} = {Top} THEN "ok" ELSE "pending",
             !.dec = {from} \ {Top}, !.inc = {to} \ {Top},
             !.copy = NoRow, !.old = <<>>, !.new = <<>>]]

AddToCount(fs, delta) ==
  row' = [f \in Folders |-> IF f \in fs /\ row[f].state = "live"
                              THEN [row[f] EXCEPT !.count = @ + delta] ELSE row[f]]

\* The two calls of UpdateCounts; their errors are ignored.
UpdateOldCount(c) ==
  /\ At(c, "dec")
  /\ \E o \in Outcomes :
       /\ IF o = "ok" THEN AddToCount(call[c].dec, -1) ELSE UNCHANGED row
       /\ call' = [call EXCEPT ![c] = [@ EXCEPT
                     !.dec = IF o = "ok" THEN {} ELSE call[c].dec,
                     !.pc = IF call[c].inc = {} THEN "done" ELSE "inc",
                     !.reply = IF call[c].inc = {} THEN "ok" ELSE "pending"]]

UpdateNewCount(c) ==
  /\ At(c, "inc")
  /\ \E o \in Outcomes :
       /\ IF o = "ok" THEN AddToCount(call[c].inc, 1) ELSE UNCHANGED row
       /\ call' = [call EXCEPT ![c] = [@ EXCEPT !.inc = IF o = "ok" THEN {} ELSE call[c].inc,
                                                !.pc = "done", !.reply = "ok"]]

-----------------------------------------------------------------------------
(* Create *)

\* folder is the parent here; its row gives the path of the new folder.
Create(c, parent) ==
  /\ parent # Top => parent \in Live
  /\ Start(c, "create", "insert", parent, Top)

InsertFolder(c) ==
  /\ At(c, "insert")
  /\ \E o \in Outcomes, f \in Folders :
       /\ row[f].state = "none"
       /\ IF o = "ok"
            THEN /\ row' = [row EXCEPT ![f] =
                      [state |-> "live", parent |-> call[c].folder,
                       path |-> Append(call[c].copy.path, f), count |-> 0]]
                 /\ Correct(c, Top, call[c].folder)
            ELSE Reply(c, "err") /\ UNCHANGED row

-----------------------------------------------------------------------------
(* Update, Delete *)

Update(c, f) == f \in Live /\ Start(c, "update", "save", f, Top)

\* Faulty variant: the row saved is built anew from the request.
SaveFolderAnew(c) ==
  /\ At(c, "save")
  /\ row' = [row EXCEPT ![call[c].folder] = [call[c].copy EXCEPT !.parent = Top]]
  /\ Reply(c, "ok")

\* GORM's Save writes every column of the copy, and inserts it again (ON
\* CONFLICT DO UPDATE) when the row was deleted meanwhile.
SaveFolder(c) ==
  /\ At(c, "save")
  /\ \E o \in Outcomes :
       IF o = "ok" THEN row' = [row EXCEPT ![call[c].folder] = call[c].copy] /\ Reply(c, "ok")
                   ELSE Reply(c, "err") /\ UNCHANGED row

Delete(c, f) == f \in Live /\ Start(c, "delete", "softdelete", f, Top)

\* Faulty variant: a row that another call has deleted is deleted once more.
SoftDeleteAgain(c) ==
  /\ At(c, "softdelete")
  /\ row' = [row EXCEPT ![call[c].folder].state = "deleted"]
  /\ Correct(c, call[c].copy.parent, Top)

\* Of the contents of the folder nothing is deleted.
SoftDelete(c) ==
  /\ At(c, "softdelete")
  /\ \E o \in Outcomes :
       IF o = "ok" /\ call[c].folder \in Live
         THEN /\ row' = [row EXCEPT ![call[c].folder].state = "deleted"]
              /\ Correct(c, call[c].copy.parent, Top)
         ELSE Reply(c, "err") /\ UNCHANGED row

-----------------------------------------------------------------------------
(* Move *)

\* The target may be the folder itself or lie below it.
Move(c, f, target) ==
  /\ f \in Live /\ target \in Live \cup {Top}
  /\ Start(c, "move", "read", f, target)

FullPath(f) == Append(row[f].path, f)

\* The repository reads folder and target once more.
ReadMove(c) ==
  /\ At(c, "read")
  /\ LET f == call[c].folder
         t == call[c].target
         parentPath == IF t = Top THEN <<>> ELSE FullPath(t)
     IN IF f \in Live /\ t \in Live \cup {Top}
          THEN call' = [call EXCEPT ![c] = [@ EXCEPT !.pc = "write",
                                                     !.old = FullPath(f),
                                                     !.new = Append(parentPath, f)]]
          ELSE Reply(c, "err")
  /\ UNCHANGED row

\* Is s an occurrence of old in path, from position i on?
Occurs(old, path, i) == i + Len(old) - 1 <= Len(path) /\ SubSeq(path, i, i + Len(old) - 1) = old

\* REPLACE(path, old, new)
Replaced(path, old, new) ==
  LET from[i \in 1 .. Len(path) + Len(old)] ==
        IF i > Len(path) THEN <<>>
        ELSE IF Occurs(old, path, i) THEN new \o from[i + Len(old)]
        ELSE <<path[i]>> \o from[i + 1]
  IN from[1]

\* The transaction's two UPDATEs: the folder, unless it is deleted by now (no
\* error either way), then all paths that lead through the folder's old one.
Moved(c) ==
  LET f == call[c].folder
      first == [row EXCEPT ![f] =
        IF @.state # "live" THEN @
        ELSE [@ EXCEPT !.parent = call[c].target,
                       !.path = SubSeq(call[c].new, 1, Len(call[c].new) - 1)]]
  IN [g \in Folders |->
        IF /\ first[g].state = "live" /\ Len(first[g].path) > Len(call[c].old)
           /\ Occurs(call[c].old, first[g].path, 1)
        THEN [first[g] EXCEPT !.path = Replaced(@, call[c].old, call[c].new)]
        ELSE first[g]]

\* Faulty variant: the first UPDATE has lost its WHERE id.
WriteMoveAll(c) ==
  /\ At(c, "write")
  /\ row' = [g \in Folders |-> IF row[g].state # "live" THEN row[g]
                               ELSE [row[g] EXCEPT !.parent = call[c].target]]
  /\ Correct(c, call[c].copy.parent, call[c].target)

WriteMove(c) ==
  /\ At(c, "write")
  /\ \E o \in Outcomes :
       IF o = "ok" THEN row' = Moved(c) /\ Correct(c, call[c].copy.parent, call[c].target)
                   ELSE Reply(c, "err") /\ UNCHANGED row

-----------------------------------------------------------------------------
(* GetBreadcrumb *)

GetBreadcrumb(c, f) == f \in Live /\ Start(c, "breadcrumb", "walk", f, f)

\* Faulty variant: the walk looks at the folder it began with again.
WalkNowhere(c) ==
  /\ At(c, "walk")
  /\ IF call[c].target \in Live
       THEN call' = [call EXCEPT ![c].target = call[c].folder] ELSE Reply(c, "ok")
  /\ UNCHANGED row

\* One turn of the loop; target is the folder it looks at.
Walk(c) ==
  /\ At(c, "walk")
  /\ IF call[c].target \in Live
       THEN call' = [call EXCEPT ![c].target = row[call[c].target].parent]
       ELSE Reply(c, "ok")
  /\ UNCHANGED row

-----------------------------------------------------------------------------

Request(c) ==
  \/ \E p \in Parents : Create(c, p)
  \/ \E f \in Folders : Update(c, f) \/ Delete(c, f) \/ GetBreadcrumb(c, f)
  \/ \E f \in Folders, t \in Parents : Move(c, f, t)

Continue(c) ==
  \/ InsertFolder(c) \/ SaveFolder(c) \/ SoftDelete(c) \/ ReadMove(c) \/ WriteMove(c)
  \/ UpdateOldCount(c) \/ UpdateNewCount(c) \/ Walk(c)

Next == \E c \in Calls : Request(c) \/ Continue(c)

Spec == Init /\ [][Next]_vars

\* A goroutine that can go on does, and the database answers.
FairSpec == Spec /\ \A c \in Calls : WF_vars(Continue(c))

-----------------------------------------------------------------------------
(* Properties. *)

Overlap(c, d) == /\ c # d /\ ~ At(c, "idle") /\ ~ At(d, "idle")
                 /\ c \notin call[d].after /\ d \notin call[c].after

\* Two calls whose counts do not add up: one moved a folder that the other moved
\* or deleted meanwhile, or one saved a row that the other changed.
Clash == \E c, d \in Calls :
  /\ Overlap(c, d)
  /\ \/ /\ call[c].op = "move" /\ call[d].op \in {"move", "delete"}
        /\ call[c].folder = call[d].folder
     \/ call[c].op = "update" /\ call[d].op \in {"create", "move", "delete"}

\* The count of a folder is the number of its subfolders, but for the updates
\* that are still due, or were lost to a crash or an ignored error: whatever
\* calls on different folders overlap, deletes of the parents included, and
\* however many Deletes of one folder do.
CountsMatch ==
  Clash \/ \A f \in Live :
    row[f].count + Cardinality({c \in Calls : f \in call[c].inc})
      = Cardinality(Children(f)) + Cardinality({c \in Calls : f \in call[c].dec})

\* An acknowledged Move holds until the folder is moved again, or a whole-row
\* Save that overlapped it writes back the parent it had read.
MoveHolds ==
  \A m \in Calls :
    call[m].op = "move" /\ call[m].reply = "ok" /\ call[m].folder \in Live
    => \/ row[call[m].folder].parent = call[m].target
       \/ \E d \in Calls \ {m} :
            /\ call[d].folder = call[m].folder
            /\ \/ call[d].op = "move" /\ d \notin call[m].after
               \/ call[d].op = "update" /\ Overlap(m, d)

\* Folders form a cycle only when a client moves a folder into its own subtree,
\* or when a Move overlaps another Move or a whole-row Save.
CycleNeedsBadMove ==
  Cycle => \E m \in Calls :
    /\ call[m].op = "move"
    /\ \/ call[m].below
       \/ \E d \in Calls : call[d].op \in {"move", "update"} /\ Overlap(m, d)

\* A breadcrumb is answered unless the folders form a cycle meanwhile.
BreadcrumbEnds == \A c \in Calls : At(c, "walk") ~> (At(c, "done") \/ Cycle)

-----------------------------------------------------------------------------
(* What comments and constraints of the code say and the code does not keep. *)

\* Move recalculates the paths of the folder and all its descendants: when no
\* call is running, the ids on a path are those of the folder and its ancestors.
PathsMatch ==
  (\A c \in Calls : call[c].pc \in {"idle", "done"}) =>
    \A f \in Live : {row[f].path[i] : i \in DOMAIN row[f].path} \ {f} = Ancestors(f) \ {f}
=============================================================================
