------------------------------ MODULE Listings ------------------------------
(***************************************************************************)
(* Listings: a client pages through a listing while its table changes.     *)
(*                                                                         *)
(* Every listing of the service is two queries without a transaction: a    *)
(* COUNT, and a SELECT with ORDER BY one column, OFFSET and LIMIT.  The    *)
(* order has no second column, so PostgreSQL may return rows with equal    *)
(* keys in any order, and in another one for the next page.  A row matches *)
(* the filter of the listing or does not; the rows of other owners, soft-  *)
(* deleted ones and those another filter is about never do.                *)
(***************************************************************************)
EXTENDS Integers, Sequences, FiniteSets

CONSTANTS
  Rows,         \* the rows of a table that may come to match the filter, finitely many
  Names,        \* values of the other column to sort by
  DefaultSize,  \* 20
  MaxSize,      \* 100
  Cap,          \* the page of the listings that have one page: 50, 100, 10000
  MaxChanges    \* how often the table changes

ASSUME ListingsAssumption ==
  /\ IsFiniteSet(Rows) /\ Names \subseteq Nat
  /\ {DefaultSize, MaxSize, Cap} \subseteq Nat \ {0} /\ DefaultSize <= MaxSize
  /\ MaxChanges \in Nat

VARIABLES
  row,       \* row[r]: whether it matches, and what it is sorted by
  changes,   \* how often the table has changed; the clock of created_at
  walk       \* the client, the request it waits for, and what it has seen

walkVars == <<row, changes, walk>>

Row == [there: BOOLEAN, created: Nat, name: Names]

\* A listing: its order, whether the client may choose another one, and how
\* rows of its table come to match, stop matching and change their keys.
FilesListing   == [by |-> "created", desc |-> TRUE,  chosen |-> TRUE,  changes |-> {"enter", "leave", "rename"}]
SearchListing  == [by |-> "created", desc |-> TRUE,  chosen |-> FALSE, changes |-> {"enter", "leave", "rename"}]
FoldersListing == [by |-> "name",    desc |-> FALSE, chosen |-> FALSE, changes |-> {"enter", "leave", "rename"}]
UsersListing   == [by |-> "created", desc |-> TRUE,  chosen |-> TRUE,  changes |-> {"enter", "leave", "rename"}]
AuditListing   == [by |-> "created", desc |-> TRUE,  chosen |-> TRUE,  changes |-> {"append"}]
ExportListing  == [by |-> "created", desc |-> TRUE,  chosen |-> FALSE, changes |-> {"append"}]
InboxListing   == [by |-> "created", desc |-> TRUE,  chosen |-> FALSE, changes |-> {"leave"}]

Listing == [files |-> FilesListing, search |-> SearchListing, folders |-> FoldersListing,
            users |-> UsersListing, audit |-> AuditListing, export |-> ExportListing, inbox |-> InboxListing]

\* Listings that send one page and take no parameters for it.
OnePage == {"search", "folders", "export"}

\* by, desc: the order; page, size: of the current request; total: of its COUNT;
\* seen: how often each row was shown.  stays: the rows that matched all along
\* with the same keys; left, entered, gap: the keys at which a row left, came
\* in, and came in after the last COUNT (history).
Walk == [pc: {"idle", "count", "find", "answered", "done"}, of: DOMAIN Listing \cup {"none"},
         by: {"created", "name"}, desc: BOOLEAN, page: Nat, size: Nat, total: Nat,
         seen: [Rows -> Nat], stays: SUBSET Rows,
         left: SUBSET Nat, entered: SUBSET Nat, gap: SUBSET Nat]

WalkTypeOK == row \in [Rows -> Row] /\ changes \in 0..MaxChanges /\ walk \in Walk

\* The rows that pass the filter.
Matching == {r \in Rows : row[r].there}
Key(r)   == IF walk.by = "created" THEN row[r].created ELSE row[r].name

\* Rows that the seed inserted have the same created_at.
WalkInit ==
  /\ row \in [Rows -> [there: BOOLEAN, created: {0}, name: Names]]
  /\ changes = 0
  /\ walk = [pc |-> "idle", of |-> "none", by |-> "created", desc |-> TRUE, page |-> 1, size |-> DefaultSize,
             total |-> 0, seen |-> [r \in Rows |-> 0], stays |-> {}, left |-> {}, entered |-> {}, gap |-> {}]

-----------------------------------------------------------------------------
(* The table *)

\* The row of r becomes `new', while the client is at it.
Changed(r, new) ==
  LET key(x) == IF walk.by = "created" THEN x.created ELSE x.name
      before == IF row[r].there THEN {key(row[r])} ELSE {}
      now    == IF new.there THEN {key(new)} ELSE {}
  IN  /\ walk.pc \in {"count", "find", "answered"}
      /\ changes < MaxChanges /\ changes' = changes + 1
      /\ row' = [row EXCEPT ![r] = new]
      /\ walk' = IF before = now THEN walk
                 ELSE [walk EXCEPT !.stays = @ \ {r}, !.left = @ \cup before, !.entered = @ \cup now,
                                   !.gap = IF walk.pc = "find" THEN @ \cup now ELSE @]

May(change) == walk.of # "none" /\ change \in Listing[walk.of].changes

\* A Create; or a Move into the folder, or an UPDATE that makes the row match.
Enter(r) ==
  /\ ~ row[r].there
  /\ \E c \in {row[r].created, changes + 1}, n \in Names :
       /\ May("enter") \/ (May("append") /\ c = changes + 1)
       /\ Changed(r, [there |-> TRUE, created |-> c, name |-> n])

\* A Delete, a Move or an UPDATE.
Leave(r) ==
  /\ row[r].there /\ May("leave")
  /\ Changed(r, [row[r] EXCEPT !.there = FALSE])

Rename(r) ==
  /\ row[r].there /\ May("rename")
  /\ \E n \in Names \ {row[r].name} : Changed(r, [row[r] EXCEPT !.name = n])

-----------------------------------------------------------------------------
(* Parameters *)

Normalize(page, size) ==
  [page |-> IF page <= 0 THEN 1 ELSE page,
   size |-> CASE size <= 0 -> DefaultSize [] size > MaxSize -> MaxSize [] OTHER -> size]

\* Faulty variant: counted in pages.
OffsetInPages(page, size) == page - 1

Offset(page, size) == (page - 1) * size

\* Faulty variant: rounded down.
TotalPagesDown(size, total) == total \div size

TotalPages(size, total) == (total + size - 1) \div size

\* What the handlers make of the parameters page and page_size.
FilesRequest(page, size) == Normalize(page, size)
UsersRequest(page, size) == Normalize(page, size)
AuditRequest(page, size) == Normalize(page, size)
InboxRequest(page, size) == Normalize(page, IF size > MaxSize THEN DefaultSize ELSE size)
SearchRequest  == [page |-> 1, size |-> Cap]
FoldersRequest == [page |-> 1, size |-> Cap]
ExportRequest  == [page |-> 1, size |-> Cap]

Parameters(of, page, size) ==
  CASE of = "files"   -> FilesRequest(page, size)
    [] of = "users"   -> UsersRequest(page, size)
    [] of = "audit"   -> AuditRequest(page, size)
    [] of = "inbox"   -> InboxRequest(page, size)
    [] of = "search"  -> SearchRequest
    [] of = "folders" -> FoldersRequest
    [] of = "export"  -> ExportRequest

\* The order by one column: the client's choice, or the listing's own.
applyOrder(of, by, desc) ==
  Listing[of].chosen \/ (by = Listing[of].by /\ desc = Listing[of].desc)

-----------------------------------------------------------------------------
(* A walk *)

Request(of, page, size) ==
  LET p == Parameters(of, page, size)
  IN  [walk EXCEPT !.pc = "count", !.of = of, !.page = p.page, !.size = p.size]

\* The first request; the client asks for any size, too large ones and 0 included.
Begin ==
  /\ walk.pc = "idle"
  /\ \E of \in DOMAIN Listing, size \in 0..MaxSize + 1, by \in {"created", "name"}, desc \in BOOLEAN :
       /\ applyOrder(of, by, desc)
       /\ walk' = [Request(of, 0, size) EXCEPT !.by = by, !.desc = desc, !.stays = Matching]
  /\ UNCHANGED <<row, changes>>

Count ==
  /\ walk.pc = "count"
  /\ walk' = [walk EXCEPT !.pc = "find", !.total = Cardinality(Matching), !.gap = {}]
  /\ UNCHANGED <<row, changes>>

\* Whether key a comes before key b.
Before(a, b) == IF walk.desc THEN a > b ELSE a < b

\* A page that PostgreSQL may return: as many rows as are left, after Offset
\* others, none of which sorts after one of the page and so on.
Pages ==
  LET from == Offset(walk.page, walk.size)
      n    == Cardinality(Matching)
      len  == IF n <= from THEN 0 ELSE IF n - from < walk.size THEN n - from ELSE walk.size
  IN  {p \in SUBSET Matching :
         /\ Cardinality(p) = len
         /\ p # {} => \E skipped \in SUBSET (Matching \ p) :
              /\ Cardinality(skipped) = from
              /\ \A s \in skipped, r \in Matching \ skipped : ~ Before(Key(r), Key(s))
              /\ \A r \in p, x \in Matching \ (skipped \cup p) : ~ Before(Key(x), Key(r))}

Find ==
  /\ walk.pc = "find"
  /\ \E p \in Pages :
       walk' = [walk EXCEPT !.pc = "answered",
                            !.seen = [r \in Rows |-> IF r \in p THEN @[r] + 1 ELSE @[r]]]
  /\ UNCHANGED <<row, changes>>

\* The client goes on to the next page as long as the answer says there is one.
NextPage ==
  /\ walk.pc = "answered"
  /\ walk' = IF walk.of \in OnePage \/ walk.page >= TotalPages(walk.size, walk.total)
               THEN [walk EXCEPT !.pc = "done"]
               ELSE Request(walk.of, walk.page + 1, walk.size)
  /\ UNCHANGED <<row, changes>>

WalkNext ==
  \/ Begin \/ Count \/ Find \/ NextPage
  \/ \E r \in Rows : Enter(r) \/ Leave(r) \/ Rename(r)

WalkSpec == WalkInit /\ [][WalkNext]_walkVars

-----------------------------------------------------------------------------
(* Properties *)

\* Another row has, or had before it left, the same key as r.
Tied(r) == Key(r) \in walk.left \/ \E x \in Matching \ {r} : Key(x) = Key(r)

\* At a place that is at or before that of r.
Shifts(keys, r) == \E k \in keys : ~ Before(Key(r), k)

\* Whoever follows all pages has seen every row that matched all the time, but
\* for a row that the departure of an earlier one shifted into a page already
\* seen; a row that an arrival between COUNT and SELECT shifted behind what was
\* the last page; ties; and what lies beyond the one page of a listing that has one.
MissedOnlyByShift ==
  walk.pc = "done" => \A r \in walk.stays :
    walk.seen[r] = 0 => \/ Shifts(walk.left, r) \/ Shifts(walk.gap, r) \/ Tied(r)
                        \/ walk.of \in OnePage /\ walk.total > Cap

\* A row is shown twice only if an arrival at an earlier place shifted it into
\* the next page, or it is tied.
RepeatedOnlyByShift ==
  \A r \in walk.stays : walk.seen[r] > 1 => Shifts(walk.entered, r) \/ Tied(r)

=============================================================================
