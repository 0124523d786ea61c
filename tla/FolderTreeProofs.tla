-------------------------- MODULE FolderTreeProofs --------------------------
(***************************************************************************)
(* What holds of the folders for every number of folders and of calls:     *)
(* that counts match, that moves hold, that the folders form no cycle, and *)
(* what the recursive definitions of the model, the walk up the tree and   *)
(* SQL's REPLACE on paths, give.                                           *)
(***************************************************************************)
EXTENDS FolderTree, FiniteSetTheorems, SequenceTheorems, TLAPS

-----------------------------------------------------------------------------
(* Induction over the naturals, for sets of numbers. *)

LEMMA Least ==
  ASSUME NEW T \in SUBSET Nat, T # {}
  PROVE  \E n \in T : \A m \in T : n <= m
<1> DEFINE R == OpToRel(<, Nat)
<1>1. PICK n \in T : \A m \in T : ~ (<<m, n>> \in R)
  BY NatLessThanWellFounded, WFMin
<1>2. \A m \in T : ~ (m < n)
  BY <1>1 DEF OpToRel
<1> HIDE DEF R
<1> QED BY <1>1, <1>2

LEMMA Induct ==
  ASSUME NEW P \in SUBSET Nat, 0 \in P, \A n \in P : n + 1 \in P
  PROVE  \A n \in Nat : n \in P
<1> DEFINE Rest == Nat \ P
<1> SUFFICES ASSUME Rest # {} PROVE FALSE
  OBVIOUS
<1>1. PICK n \in Rest : \A m \in Rest : n <= m
  <2>1. Rest \in SUBSET Nat
    OBVIOUS
  <2> QED  BY <2>1, Least
<1>2. n - 1 \in P
  BY <1>1
<1>3. (n - 1) + 1 = n
  BY <1>1
<1> QED  BY <1>1, <1>2, <1>3

-----------------------------------------------------------------------------
(* The walk up a tree *)

\* One step of the walk.
Parent(p, x) == IF x = Top THEN Top ELSE p[x]

\* g is the walk of the first n steps from f.
Walked(p, f, n, g) ==
  /\ g = [k \in 0 .. n |-> g[k]] /\ g[0] = f
  /\ \A k \in 1 .. n : g[k] = Parent(p, g[k - 1])

\* Such walks exist, and agree as far as they go: the recursion is well defined.
LEMMA WalkExists ==
  ASSUME NEW p, NEW f, NEW n \in Nat
  PROVE  \E g : Walked(p, f, n, g)
<1> DEFINE Open == {m \in Nat : ~ \E g : Walked(p, f, m, g)}
<1> SUFFICES ASSUME Open # {} PROVE FALSE
  OBVIOUS
<1>1. PICK m \in Open : \A k \in Open : m <= k
  BY Least
<1>2. m # 0
  <2> DEFINE g == [k \in 0 .. 0 |-> f]
  <2>1. Walked(p, f, 0, g)
    BY DEF Walked
  <2> QED  BY <1>1, <2>1
<1>3. PICK g : Walked(p, f, m - 1, g)
  BY <1>1, <1>2
<1> DEFINE h == [k \in 0 .. m |-> IF k < m THEN g[k] ELSE Parent(p, g[m - 1])]
<1>0. m - 1 \in Nat
  BY <1>2
<1>4. g[0] = f /\ \A k \in 1 .. m - 1 : g[k] = Parent(p, g[k - 1])
  BY <1>3 DEF Walked
<1>5. h[0] = f /\ h = [k \in 0 .. m |-> h[k]]
  BY <1>0, <1>2, <1>4
<1>6. \A k \in 1 .. m : h[k] = Parent(p, h[k - 1])
  <2> TAKE k \in 1 .. m
  <2>1. h[k - 1] = g[k - 1]
    BY <1>0
  <2>2. CASE k < m
    BY <1>0, <1>4, <2>1, <2>2
  <2>3. CASE k = m
    BY <1>0, <1>4, <2>1, <2>3
  <2> QED  BY <2>2, <2>3
<1>7. Walked(p, f, m, h)
  BY <1>5, <1>6 DEF Walked
<1> QED  BY <1>1, <1>7

LEMMA WalkUnique ==
  ASSUME NEW p, NEW f, NEW n \in Nat, NEW m \in Nat, NEW g, NEW h, Walked(p, f, n, g), Walked(p, f, m, h),
         NEW k \in Nat, k <= n, k <= m
  PROVE  g[k] = h[k]
<1> DEFINE Apart == {i \in 0 .. k : g[i] # h[i]}
<1> SUFFICES ASSUME Apart # {} PROVE FALSE
  OBVIOUS
<1>0. Apart \in SUBSET Nat
  OBVIOUS
<1>1. PICK i \in Apart : \A j \in Apart : i <= j
  BY <1>0, Least
<1>2. i # 0
  BY <1>1 DEF Walked
<1>3. g[i - 1] = h[i - 1]
  BY <1>1, <1>2
<1>4. g[i] = Parent(p, g[i - 1]) /\ h[i] = Parent(p, h[i - 1])
  <2>1. i \in 1 .. n /\ i \in 1 .. m
    BY <1>1, <1>2
  <2> QED  BY <2>1 DEF Walked
<1> QED  BY <1>1, <1>3, <1>4

LEMMA UpWalks ==
  ASSUME NEW p, NEW f
  PROVE  /\ Up(p, f, 0) = f
         /\ \A n \in Nat : Up(p, f, n + 1) = Parent(p, Up(p, f, n))
<1> DEFINE Taken(n) == CHOOSE g : Walked(p, f, n, g)
           u == [n \in Nat |-> Taken(n)[n]]
<1>1. \A n \in Nat : Walked(p, f, n, Taken(n))
  BY WalkExists
<1> HIDE DEF Taken
<1>2. \A n \in Nat : u[n] = IF n = 0 THEN f ELSE Parent(p, u[n - 1])
  <2> TAKE n \in Nat
  <2>1. CASE n = 0
    BY <1>1, <2>1 DEF Walked
  <2>2. CASE n # 0
    <3>1. Taken(n)[n] = Parent(p, Taken(n)[n - 1])
      BY <1>1, <2>2 DEF Walked
    <3>2. Taken(n)[n - 1] = Taken(n - 1)[n - 1]
      BY <1>1, <2>2, WalkUnique
    <3> QED  BY <2>2, <3>1, <3>2
  <2> QED  BY <2>1, <2>2
<1>3. u = [k \in Nat |-> IF k = 0 THEN f ELSE IF u[k - 1] = Top THEN Top ELSE p[u[k - 1]]]
  BY <1>2 DEF Parent
<1> HIDE DEF u
<1> DEFINE w == CHOOSE up : up = [k \in Nat |-> IF k = 0 THEN f ELSE IF up[k - 1] = Top THEN Top ELSE p[up[k - 1]]]
<1>4. w = [k \in Nat |-> IF k = 0 THEN f ELSE IF w[k - 1] = Top THEN Top ELSE p[w[k - 1]]]
  BY <1>3
<1> HIDE DEF w
<1>6. \A k \in Nat : w[k] = IF k = 0 THEN f ELSE IF w[k - 1] = Top THEN Top ELSE p[w[k - 1]]
  BY <1>4
<1>7. w[0] = f /\ \A n \in Nat : w[n + 1] = IF w[n] = Top THEN Top ELSE p[w[n]]
  <2>1. \A n \in Nat : n + 1 \in Nat /\ n + 1 # 0 /\ (n + 1) - 1 = n
    OBVIOUS
  <2> QED  BY <1>6, <2>1
<1>5. \A n \in Nat : Up(p, f, n) = w[n]
  BY DEF Up, w
<1> QED  BY <1>5, <1>7 DEF Parent


\* A function from folders to their parents.
Trees == [Folders -> Parents]

LEMMA UpType ==
  ASSUME NEW p \in Trees, NEW x \in Parents
  PROVE  \A n \in Nat : Up(p, x, n) \in Parents
<1> DEFINE P == {n \in Nat : Up(p, x, n) \in Parents}
<1>1. 0 \in P
  BY UpWalks
<1>2. \A n \in P : n + 1 \in P
  <2> SUFFICES ASSUME NEW n \in P PROVE Up(p, x, n + 1) \in Parents
    OBVIOUS
  <2>1. Up(p, x, n + 1) = Parent(p, Up(p, x, n))
    BY UpWalks
  <2> QED  BY <2>1 DEF Parent, Trees, Parents
<1>3. \A n \in Nat : n \in P
  <2> HIDE DEF P
  <2>1. P \in SUBSET Nat
    BY DEF P
  <2> QED  BY <1>1, <1>2, <2>1, Induct
<1> QED  BY <1>3

\* A walk goes on where another one ended.
LEMMA UpAdd ==
  ASSUME NEW p, NEW x, NEW m \in Nat
  PROVE  \A n \in Nat : Up(p, x, m + n) = Up(p, Up(p, x, m), n)
<1> DEFINE P == {n \in Nat : Up(p, x, m + n) = Up(p, Up(p, x, m), n)}
<1>1. 0 \in P
  BY UpWalks
<1>2. \A n \in P : n + 1 \in P
  <2> SUFFICES ASSUME NEW n \in P PROVE Up(p, x, m + (n + 1)) = Up(p, Up(p, x, m), n + 1)
    OBVIOUS
  <2>1. m + (n + 1) = (m + n) + 1 /\ m + n \in Nat
    OBVIOUS
  <2>2. Up(p, x, (m + n) + 1) = Parent(p, Up(p, x, m + n))
    BY <2>1, UpWalks
  <2>3. Up(p, Up(p, x, m), n + 1) = Parent(p, Up(p, Up(p, x, m), n))
    BY UpWalks
  <2> QED  BY <2>1, <2>2, <2>3
<1>3. \A n \in Nat : n \in P
  <2> HIDE DEF P
  <2>1. P \in SUBSET Nat
    BY DEF P
  <2> QED  BY <1>1, <1>2, <2>1, Induct
<1> QED  BY <1>3

LEMMA UpOfTop ==
  ASSUME NEW p
  PROVE  \A n \in Nat : Up(p, Top, n) = Top
<1> DEFINE P == {n \in Nat : Up(p, Top, n) = Top}
<1>1. 0 \in P
  BY UpWalks
<1>2. \A n \in P : n + 1 \in P
  BY UpWalks DEF Parent
<1>3. \A n \in Nat : n \in P
  <2> HIDE DEF P
  <2>1. P \in SUBSET Nat
    BY DEF P
  <2> QED  BY <1>1, <1>2, <2>1, Induct
<1> QED  BY <1>3

\* The walk from a folder is the walk from its parent, one step later.
LEMMA UpFromParent ==
  ASSUME NEW p, NEW x \in Folders, NEW n \in Nat
  PROVE  Up(p, x, 1) = p[x] /\ Up(p, x, 1 + n) = Up(p, p[x], n)
<1>1. Up(p, x, 0) = x /\ Up(p, x, 0 + 1) = Parent(p, Up(p, x, 0)) /\ 0 + 1 = 1
  BY UpWalks
<1>2. Up(p, x, 1) = p[x]
  BY <1>1, FolderTreeAssumption DEF Parent
<1>3. Up(p, x, 1 + n) = Up(p, Up(p, x, 1), n)
  <2>1. 1 \in Nat
    OBVIOUS
  <2> QED  BY <2>1, UpAdd
<1> QED  BY <1>2, <1>3

\* A walk that has reached the top stays there.
LEMMA UpStays ==
  ASSUME NEW p, NEW x, NEW m \in Nat, NEW n \in Nat, m <= n, Up(p, x, m) = Top
  PROVE  Up(p, x, n) = Top
<1>1. n - m \in Nat /\ m + (n - m) = n
  OBVIOUS
<1>2. Up(p, x, m + (n - m)) = Up(p, Up(p, x, m), n - m)
  BY <1>1, UpAdd
<1> QED  BY <1>1, <1>2, UpOfTop

Size == Cardinality(Folders)

LEMMA SizeNat == Size \in Nat /\ IsFiniteSet(Folders) /\ \A x \in Folders : Size >= 1
<1>1. Size \in Nat /\ IsFiniteSet(Folders)
  BY FolderTreeAssumption, FS_CardinalityType DEF Size
<1>2. Folders # {} => Size # 0
  BY <1>1, FS_EmptySet DEF Size
<1> QED  BY <1>1, <1>2

LEMMA AboveSet ==
  ASSUME NEW p \in Trees, NEW x \in Parents
  PROVE  Above(p, x) \subseteq Folders /\ IsFiniteSet(Above(p, x)) /\ Cardinality(Above(p, x)) \in Nat
<1>1. Above(p, x) \subseteq Folders
  <2>1. \A n \in 1 .. Size : Up(p, x, n) \in Parents
    BY UpType, SizeNat
  <2> QED  BY <2>1 DEF Above, Size, Parents
<1> QED  BY <1>1, SizeNat, FS_Subset, FS_CardinalityType

-----------------------------------------------------------------------------
(* Trees without cycles *)

Acyclic(p) == \A x \in Folders : x \notin Above(p, x)

\* A rank falls with every step towards the top.
Ranks(p, r) == r \in [Folders -> Nat] /\ \A x \in Folders : p[x] # Top => r[p[x]] < r[x]

LEMMA RankFalls ==
  ASSUME NEW p \in Trees, NEW r, Ranks(p, r), NEW x \in Folders
  PROVE  \A n \in Nat : Up(p, x, n) # Top => r[Up(p, x, n)] + n <= r[x]
<1> DEFINE P == {n \in Nat : Up(p, x, n) # Top => r[Up(p, x, n)] + n <= r[x]}
<1>0. r \in [Folders -> Nat] /\ x \in Parents
  BY DEF Ranks, Parents
<1>1. 0 \in P
  BY <1>0, UpWalks
<1>2. \A n \in P : n + 1 \in P
  <2> SUFFICES ASSUME NEW n \in P, Up(p, x, n + 1) # Top PROVE r[Up(p, x, n + 1)] + (n + 1) <= r[x]
    OBVIOUS
  <2> DEFINE y == Up(p, x, n)
  <2>1. Up(p, x, n + 1) = Parent(p, y) /\ y \in Parents /\ Up(p, x, n + 1) \in Parents
    <3>1. n \in Nat /\ n + 1 \in Nat
      OBVIOUS
    <3> QED  BY <1>0, <3>1, UpWalks, UpType
  <2>2. y # Top /\ y \in Folders /\ p[y] # Top /\ Up(p, x, n + 1) = p[y] /\ p[y] \in Folders
    BY <2>1 DEF Parent, Parents
  <2>3. r[p[y]] < r[y] /\ r[p[y]] \in Nat /\ r[y] \in Nat /\ r[x] \in Nat
    BY <1>0, <2>2 DEF Ranks
  <2>4. r[y] + n <= r[x]
    BY <2>2
  <2> HIDE DEF y
  <2> QED  BY <2>2, <2>3, <2>4
<1>3. \A n \in Nat : n \in P
  <2> HIDE DEF P
  <2>1. P \in SUBSET Nat
    BY DEF P
  <2> QED  BY <1>1, <1>2, <2>1, Induct
<1> QED  BY <1>3

\* A tree with ranks has no cycle.
LEMMA RankedIsAcyclic ==
  ASSUME NEW p \in Trees, NEW r, Ranks(p, r)
  PROVE  Acyclic(p)
<1> SUFFICES ASSUME NEW x \in Folders, x \in Above(p, x) PROVE FALSE
  BY DEF Acyclic
<1>1. PICK n \in 1 .. Size : x = Up(p, x, n)
  BY DEF Above, Size
<1>2. n \in Nat /\ n >= 1
  BY <1>1, SizeNat
<1>3. r[x] + n <= r[x] /\ r[x] \in Nat
  BY <1>1, <1>2, RankFalls, FolderTreeAssumption DEF Ranks
<1> QED  BY <1>2, <1>3

\* Without a cycle every walk ends within as many steps as there are folders.
LEMMA WalkEnds ==
  ASSUME NEW p \in Trees, Acyclic(p), NEW x \in Folders
  PROVE  Up(p, x, Size) = Top
<1> SUFFICES ASSUME Up(p, x, Size) # Top PROVE FALSE
  OBVIOUS
<1> DEFINE g == [k \in 0 .. Size |-> Up(p, x, k)]
<1>1. \A k \in 0 .. Size : Up(p, x, k) \in Folders
  <2> TAKE k \in 0 .. Size
  <2>1. k \in Nat /\ k <= Size /\ Size \in Nat
    BY SizeNat
  <2>2. Up(p, x, k) \in Parents /\ Up(p, x, k) # Top
    BY <2>1, UpType, UpStays DEF Parents
  <2> QED  BY <2>2 DEF Parents
<1>2. g \in [0 .. Size -> Folders]
  BY <1>1
<1>3. IsFiniteSet(0 .. Size) /\ Cardinality(0 .. Size) = Size + 1
  <2>1. 0 \in Int /\ Size \in Int /\ Size >= 0
    BY SizeNat
  <2> QED  BY <2>1, FS_Interval
<1> HIDE DEF g
<1>4. PICK i, j \in 0 .. Size : i # j /\ g[i] = g[j]
  BY <1>2, <1>3, SizeNat, FS_PigeonHole DEF Size
<1>5. ASSUME NEW a \in 0 .. Size, NEW b \in 0 .. Size, a < b, g[a] = g[b] PROVE FALSE
  <2> DEFINE z == Up(p, x, a)
  <2>1. a \in Nat /\ b - a \in Nat /\ b - a \in 1 .. Size /\ a + (b - a) = b
    BY <1>5, SizeNat
  <2>2. z \in Folders /\ Up(p, x, b) = z
    BY <1>1, <1>5 DEF g
  <2>3. Up(p, z, b - a) = z
    BY <2>1, <2>2, UpAdd
  <2>4. z \in Above(p, z)
    BY <2>1, <2>2, <2>3, FolderTreeAssumption DEF Above, Size
  <2> QED  BY <2>2, <2>4 DEF Acyclic
<1>6. i < j \/ j < i
  BY <1>4, SizeNat
<1> QED  BY <1>4, <1>5, <1>6

\* What is above a folder is its parent, and what is above that.
LEMMA AboveParent ==
  ASSUME NEW p \in Trees, Acyclic(p), NEW x \in Folders
  PROVE  /\ p[x] = Top => Above(p, x) = {}
         /\ p[x] # Top => Above(p, x) = {p[x]} \cup Above(p, p[x])
<1>1. Size \in Nat /\ Size >= 1 /\ p[x] \in Parents
  BY SizeNat DEF Trees
<1>2. \A n \in 1 .. Size : n - 1 \in Nat /\ Up(p, x, n) = Up(p, p[x], n - 1)
  <2> TAKE n \in 1 .. Size
  <2>1. n - 1 \in Nat /\ 1 + (n - 1) = n
    OBVIOUS
  <2> QED  BY <2>1, UpFromParent
<1>3. CASE p[x] = Top
  BY <1>2, <1>3, UpOfTop DEF Above, Size
<1>4. ASSUME p[x] # Top PROVE Above(p, x) = {p[x]} \cup Above(p, p[x])
  <2>1. ASSUME NEW y \in Above(p, x) PROVE y = p[x] \/ y \in Above(p, p[x])
    <3>1. PICK n \in 1 .. Size : y = Up(p, x, n) /\ y # Top
      BY DEF Above, Size
    <3>2. CASE n = 1
      BY <3>1, <3>2, UpFromParent
    <3>3. CASE n # 1
      <4>1. n - 1 \in 1 .. Size
        BY <3>3, <1>1
      <4> QED  BY <1>2, <3>1, <4>1 DEF Above, Size
    <3> QED  BY <3>2, <3>3
  <2>2. p[x] \in Above(p, x)
    <3>1. 1 \in 1 .. Size /\ Up(p, x, 1) = p[x]
      BY <1>1, UpFromParent
    <3> QED  BY <1>4, <3>1 DEF Above, Size
  <2>3. ASSUME NEW y \in Above(p, p[x]) PROVE y \in Above(p, x)
    <3>1. PICK n \in 1 .. Size : y = Up(p, p[x], n) /\ y # Top
      BY DEF Above, Size
    <3>2. p[x] \in Folders
      BY <1>1, <1>4 DEF Parents
    <3>3. n # Size
      BY <3>1, <3>2, WalkEnds
    <3>4. n + 1 \in 1 .. Size /\ Up(p, x, n + 1) = y
      <4>1. n \in Nat /\ 1 + n = n + 1 /\ n + 1 \in 1 .. Size
        BY <1>1, <3>3
      <4> QED  BY <3>1, <4>1, UpFromParent
    <3> QED  BY <3>1, <3>4 DEF Above, Size
  <2> QED  BY <2>1, <2>2, <2>3
<1> QED  BY <1>3, <1>4

\* Without a cycle the number of folders above is a rank.
LEMMA AcyclicIsRanked ==
  ASSUME NEW p \in Trees, Acyclic(p)
  PROVE  \E r : Ranks(p, r)
<1> DEFINE r == [x \in Folders |-> Cardinality(Above(p, x))]
<1>1. r \in [Folders -> Nat]
  BY AboveSet DEF Parents
<1>2. ASSUME NEW x \in Folders, p[x] # Top PROVE r[p[x]] < r[x]
  <2>1. p[x] \in Folders /\ p[x] \in Parents /\ x \in Parents
    BY <1>2 DEF Trees, Parents
  <2>2. Above(p, x) = {p[x]} \cup Above(p, p[x]) /\ p[x] \notin Above(p, p[x])
    BY <1>2, <2>1, AboveParent DEF Acyclic
  <2>3. IsFiniteSet(Above(p, p[x])) /\ Cardinality(Above(p, p[x])) \in Nat
    BY <2>1, AboveSet
  <2>4. Cardinality(Above(p, x)) = Cardinality(Above(p, p[x])) + 1
    <3>1. Above(p, x) = Above(p, p[x]) \cup {p[x]}
      BY <2>2
    <3> QED  BY <2>2, <2>3, <3>1, FS_AddElement
  <2> QED  BY <2>1, <2>3, <2>4
<1> QED  BY <1>1, <1>2 DEF Ranks

\* A folder that gets a parent outside its own subtree closes no cycle.
LEMMA MoveIsAcyclic ==
  ASSUME NEW p \in Trees, Acyclic(p), NEW f \in Folders, NEW t \in Parents,
         t # Top => t # f /\ f \notin Above(p, t)
  PROVE  Acyclic([p EXCEPT ![f] = t])
<1> DEFINE q == [p EXCEPT ![f] = t]
           In(x) == x = f \/ f \in Above(p, x)
<1>1. PICK r : Ranks(p, r)
  BY AcyclicIsRanked
<1>2. q \in Trees /\ q[f] = t /\ \A x \in Folders : x # f => q[x] = p[x]
  BY DEF Trees
<1>3. r \in [Folders -> Nat]
  BY <1>1 DEF Ranks
<1>4. CASE t = Top
  <2>1. Ranks(q, r)
    BY <1>1, <1>2, <1>4 DEF Ranks
  <2> QED  BY <1>2, <2>1, RankedIsAcyclic
<1>5. CASE t # Top
  <2> DEFINE s == [x \in Folders |-> IF In(x) THEN r[x] + r[t] + 1 ELSE r[x]]
  <2>1. t \in Folders /\ ~ In(t) /\ In(f)
    BY <1>5 DEF Parents
  <2>2. \A x \in Folders : x # f /\ p[x] # Top => p[x] \in Folders /\ (In(x) <=> In(p[x]))
    BY AboveParent DEF Trees, Parents
  <2> HIDE DEF In
  <2>3. s \in [Folders -> Nat]
    BY <1>3, <2>1
  <2>4. ASSUME NEW x \in Folders, q[x] # Top PROVE s[q[x]] < s[x]
    <3>1. CASE x = f
      BY <1>2, <1>3, <2>1, <3>1
    <3>2. CASE x # f
      <4>1. q[x] = p[x] /\ p[x] \in Folders /\ (In(x) <=> In(p[x]))
        BY <1>2, <2>2, <2>4, <3>2
      <4>2. r[p[x]] < r[x] /\ r[p[x]] \in Nat /\ r[x] \in Nat /\ r[t] \in Nat
        BY <1>1, <1>3, <2>1, <2>4, <4>1 DEF Ranks
      <4> QED  BY <4>1, <4>2
    <3> QED  BY <3>1, <3>2
  <2> HIDE DEF s
  <2>5. Ranks(q, s)
    BY <2>3, <2>4 DEF Ranks
  <2> HIDE DEF q
  <2> QED  BY <1>2, <2>5, RankedIsAcyclic DEF q
<1> QED  BY <1>4, <1>5

\* A folder without subfolders is on no walk but its own, and may go anywhere
\* without a change to the walks of others.
LEMMA LeafIsNowhere ==
  ASSUME NEW p \in Trees, NEW g \in Folders, \A x \in Folders : p[x] # g, NEW q \in Parents,
         NEW t \in Parents, t # g
  PROVE  /\ g \notin Above(p, t)
         /\ Above([p EXCEPT ![g] = q], t) = Above(p, t)
<1> DEFINE pp == [p EXCEPT ![g] = q]
           P  == {n \in Nat : Up(p, t, n) # g /\ Up(pp, t, n) = Up(p, t, n)}
<1>0. pp \in Trees /\ \A x \in Folders : x # g => pp[x] = p[x]
  BY DEF Trees
<1> HIDE DEF pp
<1>1. 0 \in P
  BY UpWalks
<1>2. \A n \in P : n + 1 \in P
  <2> SUFFICES ASSUME NEW n \in P PROVE Up(p, t, n + 1) # g /\ Up(pp, t, n + 1) = Up(p, t, n + 1)
    OBVIOUS
  <2>1. Up(p, t, n + 1) = Parent(p, Up(p, t, n)) /\ Up(pp, t, n + 1) = Parent(pp, Up(pp, t, n))
    BY UpWalks
  <2>2. Up(p, t, n) \in Parents /\ Up(p, t, n) # g /\ Up(pp, t, n) = Up(p, t, n)
    BY UpType
  <2> QED  BY <1>0, <2>1, <2>2, FolderTreeAssumption DEF Parent, Parents, Trees
<1>3. \A n \in Nat : n \in P
  <2> HIDE DEF P
  <2>1. P \in SUBSET Nat
    BY DEF P
  <2> QED  BY <1>1, <1>2, <2>1, Induct
<1>4. \A n \in 1 .. Size : n \in P
  BY <1>3, SizeNat
<1>5. g \notin Above(p, t) /\ Above(pp, t) = Above(p, t)
  BY <1>4 DEF Above, Size
<1> QED  BY <1>5 DEF pp


-----------------------------------------------------------------------------
(* Paths *)

\* The path of a folder of a forest is made of folders.
LEMMA PathType ==
  ASSUME NEW p \in Trees, Acyclic(p), NEW x \in Folders
  PROVE  PathOf(p, x) \in Seq(Folders)
<1> DEFINE n == Cardinality(Above(p, x))
<1>0. x \in Parents /\ n \in Nat /\ Size \in Nat /\ Size >= 1 /\ IsFiniteSet(Above(p, x))
  BY SizeNat, AboveSet DEF Parents
<1>1. ASSUME NEW k \in 0 .. n PROVE Up(p, x, k) \in Folders
  <2>1. k \in Nat /\ Up(p, x, k) \in Parents
    BY <1>0, UpType
  <2> SUFFICES ASSUME Up(p, x, k) = Top PROVE FALSE
    BY <2>1 DEF Parents
  <2>2. k # 0 /\ k - 1 \in Nat
    <3>1. Up(p, x, 0) = x /\ x # Top
      BY UpWalks, FolderTreeAssumption
    <3> QED  BY <2>1, <3>1
  <2> DEFINE g == [i \in 1 .. k - 1 |-> Up(p, x, i)]
  <2>3. \A i \in 1 .. Size : Up(p, x, i) # Top => i \in 1 .. k - 1
    <3> SUFFICES ASSUME NEW i \in 1 .. Size, k <= i PROVE Up(p, x, i) = Top
      BY <2>1, <1>0
    <3>1. i \in Nat
      BY <1>0
    <3> QED  BY <2>1, <3>1, UpStays
  <2>4. \A y \in Above(p, x) : \E i \in 1 .. k - 1 : Up(p, x, i) = y
    BY <2>3 DEF Above, Size
  <2>5. k - 1 <= Size
    <3>1. n <= Size
      <4>1. Above(p, x) \in SUBSET Folders
        BY <1>0, AboveSet
      <4> QED  BY <4>1, SizeNat, FS_Subset DEF Size
    <3> QED  BY <1>0, <2>1, <3>1
  <2>6. \A i \in 1 .. k - 1 : Up(p, x, i) \in Above(p, x) \/ Up(p, x, i) = Top
    <3>1. \A i \in 1 .. k - 1 : i \in 1 .. Size
      BY <1>0, <2>1, <2>5
    <3> QED  BY <3>1 DEF Above, Size
  <2>7. Above(p, x) \subseteq {g[i] : i \in 1 .. k - 1}
    BY <2>4
  <2> DEFINE low == {i \in 1 .. k - 1 : Up(p, x, i) # Top}
             h   == [i \in low |-> Up(p, x, i)]
  <2>8. h \in Surjection(low, Above(p, x))
    <3>1. h \in [low -> Above(p, x)]
      BY <2>6
    <3>2. \A y \in Above(p, x) : \E i \in low : h[i] = y
      <4>1. \A y \in Above(p, x) : y # Top
        BY DEF Above
      <4> QED  BY <2>4, <4>1
    <3> QED  BY <3>1, <3>2 DEF Surjection
  <2>9. IsFiniteSet(low) /\ Cardinality(low) <= k - 1
    <3>1. 1 \in Int /\ k - 1 \in Int
      BY <2>2
    <3>2. IsFiniteSet(1 .. k - 1) /\ Cardinality(1 .. k - 1) = k - 1
      BY <2>2, <3>1, FS_Interval
    <3>3. low \in SUBSET (1 .. k - 1)
      OBVIOUS
    <3> HIDE DEF low
    <3> QED  BY <3>2, <3>3, FS_Subset
  <2> HIDE DEF low, h
  <2>10. n <= Cardinality(low) /\ Cardinality(low) \in Nat
    BY <2>8, <2>9, FS_Surjection, FS_CardinalityType
  <2> HIDE DEF n
  <2> QED  BY <1>0, <2>1, <2>9, <2>10
<1>2. \A i \in 1 .. n + 1 : Up(p, x, (n + 1) - i) \in Folders
  <2> TAKE i \in 1 .. n + 1
  <2>1. (n + 1) - i \in 0 .. n
    BY <1>0
  <2> QED  BY <1>1, <2>1
<1>3. PathOf(p, x) = [i \in 1 .. n + 1 |-> Up(p, x, (n + 1) - i)]
  BY DEF PathOf
<1>4. n + 1 \in Nat
  BY <1>0
<1> HIDE DEF n
<1>5. [i \in 1 .. n + 1 |-> Up(p, x, (n + 1) - i)] \in [1 .. n + 1 -> Folders]
  BY <1>2
<1> QED  BY <1>3, <1>4, <1>5

\* One turn of REPLACE, from position i on, when later turns give from.
Turn(path, old, new, from, i) ==
  IF i > Len(path) THEN <<>>
  ELSE IF Occurs(old, path, i) THEN new \o from[i + Len(old)]
  ELSE <<path[i]>> \o from[i + 1]

LEMMA TurnType ==
  ASSUME NEW path \in Seq(Folders), NEW old \in Seq(Folders), old # <<>>, NEW new \in Seq(Folders),
         NEW i \in 1 .. Len(path) + Len(old), NEW from,
         \A j \in i + 1 .. Len(path) + Len(old) : from[j] \in Seq(Folders)
  PROVE  Turn(path, old, new, from, i) \in Seq(Folders)
<1>1. Len(path) \in Nat /\ Len(old) \in Nat /\ Len(old) >= 1
  <2>1. Len(path) \in Nat /\ Len(old) \in Nat \ {0}
    BY LenProperties, EmptySeq
  <2> QED  BY <2>1
<1>2. CASE i > Len(path)
  BY <1>2, EmptySeq DEF Turn
<1>3. CASE i <= Len(path) /\ Occurs(old, path, i)
  <2>1. i + Len(old) \in i + 1 .. Len(path) + Len(old)
    BY <1>1, <1>3
  <2>2. from[i + Len(old)] \in Seq(Folders)
    BY <2>1
  <2>3. new \o from[i + Len(old)] \in Seq(Folders)
    BY <2>2, ConcatProperties
  <2> QED  BY <1>1, <1>3, <2>3 DEF Turn
<1>4. CASE i <= Len(path) /\ ~ Occurs(old, path, i)
  <2>1. i + 1 \in i + 1 .. Len(path) + Len(old) /\ i \in 1 .. Len(path)
    BY <1>1, <1>4
  <2>2. from[i + 1] \in Seq(Folders) /\ path[i] \in Folders
    BY <2>1, ElementOfSeq
  <2>3. <<path[i]>> \in Seq(Folders)
    BY <2>2
  <2>4. <<path[i]>> \o from[i + 1] \in Seq(Folders)
    BY <2>2, <2>3, ConcatProperties
  <2> QED  BY <1>1, <1>4, <2>4 DEF Turn
<1> QED  BY <1>1, <1>2, <1>3, <1>4

\* A turn looks at later turns only.
LEMMA TurnLater ==
  ASSUME NEW path \in Seq(Folders), NEW old \in Seq(Folders), old # <<>>, NEW new,
         NEW i \in 1 .. Len(path) + Len(old), NEW from, NEW other,
         \A j \in i + 1 .. Len(path) + Len(old) : from[j] = other[j]
  PROVE  Turn(path, old, new, from, i) = Turn(path, old, new, other, i)
<1>1. Len(path) \in Nat /\ Len(old) \in Nat /\ Len(old) >= 1
  <2>1. Len(path) \in Nat /\ Len(old) \in Nat \ {0}
    BY LenProperties, EmptySeq
  <2> QED  BY <2>1
<1>2. i <= Len(path) => /\ i + Len(old) \in i + 1 .. Len(path) + Len(old)
                        /\ i + 1 \in i + 1 .. Len(path) + Len(old)
  BY <1>1
<1>3. i <= Len(path) => from[i + Len(old)] = other[i + Len(old)] /\ from[i + 1] = other[i + 1]
  BY <1>2
<1> QED  BY <1>1, <1>3 DEF Turn

\* REPLACE of a path by a path, in a path, gives a path.
LEMMA ReplacedType ==
  ASSUME NEW path \in Seq(Folders), NEW old \in Seq(Folders), old # <<>>, NEW new \in Seq(Folders)
  PROVE  Replaced(path, old, new) \in Seq(Folders)
<1> DEFINE L == Len(path) + Len(old)
<1>0. L \in Nat /\ L >= 1
  <2>1. Len(path) \in Nat /\ Len(old) \in Nat \ {0}
    BY LenProperties, EmptySeq
  <2> QED  BY <2>1
<1> DEFINE Works(m, g) == \A i \in L - m .. L : i >= 1 => g[i] = Turn(path, old, new, g, i)
           P == {m \in Nat : \E g : Works(m, g)}
<1>1. 0 \in P
  <2> DEFINE g == [i \in 1 .. L |-> <<>>]
  <2>1. Turn(path, old, new, g, L) = <<>>
    <3>1. L > Len(path)
      <4>1. Len(path) \in Nat /\ Len(old) \in Nat \ {0}
        BY LenProperties, EmptySeq
      <4> QED  BY <4>1
    <3> QED  BY <3>1 DEF Turn
  <2>2. Works(0, g)
    BY <1>0, <2>1
  <2> QED  BY <2>2
<1>2. \A m \in P : m + 1 \in P
  <2> HIDE DEF Works
  <2> SUFFICES ASSUME NEW m \in Nat, \E g : Works(m, g) PROVE \E g : Works(m + 1, g)
    OBVIOUS
  <2> USE DEF Works
  <2>1. PICK g : Works(m, g)
    OBVIOUS
  <2>0. m \in Nat
    OBVIOUS
  <2> DEFINE k == L - (m + 1)
             h == [i \in 1 .. L |-> IF i = k THEN Turn(path, old, new, g, k) ELSE g[i]]
  <2>2. \A i \in L - m .. L : i >= 1 => h[i] = g[i]
    BY <1>0, <2>0
  <2>3. \A i \in k .. L : i >= 1 => h[i] = Turn(path, old, new, h, i)
    <3> SUFFICES ASSUME NEW i \in k .. L, i >= 1 PROVE h[i] = Turn(path, old, new, h, i)
      OBVIOUS
    <3>1. i \in 1 .. L /\ \A j \in i + 1 .. L : j \in L - m .. L /\ j >= 1
      BY <1>0, <2>0
    <3>2. Turn(path, old, new, h, i) = Turn(path, old, new, g, i)
      <4>1. \A j \in i + 1 .. L : h[j] = g[j]
        BY <2>2, <3>1
      <4> HIDE DEF h
      <4> QED  BY <3>1, <4>1, TurnLater
    <3>3. CASE i = k
      BY <3>1, <3>2, <3>3
    <3>4. CASE i # k
      <4>1. i \in L - m .. L
        <5>1. L \in Int /\ k \in Int /\ k = L - (m + 1)
          BY <1>0, <2>0
        <5> HIDE DEF L, k
        <5> QED  BY <2>0, <3>4, <5>1
      <4> QED  BY <2>1, <2>2, <3>1, <3>2, <4>1
    <3> QED  BY <3>3, <3>4
  <2>4. Works(m + 1, h)
    BY <2>3
  <2> QED  BY <2>4
<1>3. \A m \in Nat : m \in P
  <2> HIDE DEF P
  <2>1. P \in SUBSET Nat
    BY DEF P
  <2> QED  BY <1>1, <1>2, <2>1, Induct
<1>4. PICK g : \A i \in 1 .. L : g[i] = Turn(path, old, new, g, i)
  <2>1. PICK g : Works(L, g)
    BY <1>0, <1>3
  <2>2. \A i \in 1 .. L : i \in L - L .. L /\ i >= 1
    BY <1>0
  <2> QED  BY <2>1, <2>2
<1> DEFINE Is(f) == f = [i \in 1 .. L |-> Turn(path, old, new, f, i)]
           w == CHOOSE f : Is(f)
<1>5. \E f : Is(f)
  <2> DEFINE f == [i \in 1 .. L |-> g[i]]
  <2>1. \A i \in 1 .. L : f[i] = Turn(path, old, new, f, i)
    <3> TAKE i \in 1 .. L
    <3>1. \A j \in i + 1 .. L : f[j] = g[j]
      BY <1>0
    <3> HIDE DEF f
    <3>2. Turn(path, old, new, f, i) = Turn(path, old, new, g, i)
      BY <3>1, TurnLater
    <3> QED  BY <1>4, <3>2 DEF f
  <2>2. Is(f)
    BY <2>1
  <2> QED  BY <2>2
<1>6. Is(w)
  BY <1>5
<1>7. Replaced(path, old, new) = w[1]
  BY DEF Replaced, Turn
<1>8. \A i \in 1 .. L : w[i] = Turn(path, old, new, w, i)
  <2> HIDE DEF w
  <2> QED  BY <1>6
<1> HIDE DEF w
<1> DEFINE Typed(m) == \A i \in L - m .. L : i >= 1 => w[i] \in Seq(Folders)
           Q == {m \in Nat : Typed(m)}
<1>9. \A i \in 1 .. L : (\A j \in i + 1 .. L : w[j] \in Seq(Folders)) => w[i] \in Seq(Folders)
  BY <1>8, TurnType
<1>10. 0 \in Q
  <2>1. \A i \in L - 0 .. L : i = L
    BY <1>0
  <2>2. w[L] \in Seq(Folders)
    <3>1. L \in 1 .. L /\ \A j \in L + 1 .. L : FALSE
      BY <1>0
    <3> QED  BY <1>9, <3>1
  <2> QED  BY <2>1, <2>2
<1>11. \A m \in Q : m + 1 \in Q
  <2> HIDE DEF Typed
  <2> SUFFICES ASSUME NEW m \in Nat, Typed(m) PROVE Typed(m + 1)
    OBVIOUS
  <2> USE DEF Typed
  <2> SUFFICES ASSUME NEW i \in L - (m + 1) .. L, i >= 1 PROVE w[i] \in Seq(Folders)
    OBVIOUS
  <2>1. m \in Nat /\ \A j \in L - m .. L : j >= 1 => w[j] \in Seq(Folders)
    OBVIOUS
  <2>2. i \in 1 .. L /\ \A j \in i + 1 .. L : j \in L - m .. L /\ j >= 1
    BY <1>0, <2>1
  <2> QED  BY <1>9, <2>1, <2>2
<1>12. \A m \in Nat : m \in Q
  <2> HIDE DEF Q
  <2>1. Q \in SUBSET Nat
    BY DEF Q
  <2> QED  BY <1>10, <1>11, <2>1, Induct
<1>13. w[1] \in Seq(Folders)
  <2>1. L \in Q
    BY <1>0, <1>12
  <2>2. 1 \in L - L .. L
    BY <1>0
  <2> QED  BY <2>1, <2>2
<1> QED  BY <1>7, <1>13


-----------------------------------------------------------------------------
(* The invariant *)

Inserted   == {f \in Folders : row[f].state # "none"}
Parenthood == [g \in Folders |-> row[g].parent]

\* What each place in the code says of a call that is there.
InOrder(x) ==
  /\ x.pc = "idle" <=> x.op = "none"
  /\ x.pc = "done" <=> x.reply # "pending"
  /\ x.pc = "insert" => x.op = "create"
  /\ x.pc = "save" => x.op = "update" /\ x.copy.state = "live"
  /\ x.pc = "softdelete" => x.op = "delete"
  /\ x.pc \in {"read", "write"} => x.op = "move"
  /\ x.pc = "walk" => x.op = "breadcrumb"
  /\ x.pc \in {"dec", "inc"} => x.op \in {"create", "delete", "move"}
  /\ x.op \in {"update", "delete", "move", "breadcrumb"} => x.folder \in Folders
  /\ x.pc \in {"idle", "insert", "save", "softdelete", "read", "write", "walk"} => x.dec = {} /\ x.inc = {}
  /\ x.pc = "write" => x.old # <<>> /\ x.new # <<>>

CallsInOrder == \A c \in Calls : InOrder(call[c])

\* A call that was over when another one started is over.
AfterIsOver == \A c, d \in Calls : c \in call[d].after => At(c, "done")

\* Ids that a row or a call mentions are those of rows that were inserted.
Knows(x) == {x.folder, x.target, x.copy.parent} \subseteq Inserted \cup {Top} /\ x.dec \cup x.inc \subseteq Inserted
Known    == /\ \A f \in Folders : row[f].parent \in Inserted \cup {Top}
            /\ \A c \in Calls : Knows(call[c])

\* The calls that have started and are not over; only finitely many ever started.
Busy == {c \in Calls : call[c].pc # "idle"}

\* A Move into a subtree of the folder itself, or one that overlaps another
\* Move or a whole-row Save.
BadMove ==
  \E m \in Calls : /\ call[m].op = "move"
                   /\ \/ call[m].below
                      \/ \E d \in Calls : call[d].op \in {"move", "update"} /\ Overlap(m, d)

\* Without such a Move there is no cycle, deleted folders included, and what
\* a Move or a Save is about to write makes none.
TreeHolds ==
  \/ BadMove
  \/ /\ Acyclic(Parenthood)
     /\ \A m \in Calls : call[m].pc \in {"read", "write"} /\ call[m].target # Top
          => call[m].target # call[m].folder /\ call[m].folder \notin Above(Parenthood, call[m].target)
     /\ \A c \in Calls : At(c, "save") => call[c].copy.parent = row[call[c].folder].parent

\* The copy that a call has read is what its write will find.
Fresh(c) ==
  /\ At(c, "save") => row[call[c].folder] = call[c].copy
  /\ At(c, "softdelete") => row[call[c].folder].parent = call[c].copy.parent
  /\ call[c].pc \in {"read", "write"} => /\ call[c].folder \in Live
                                         /\ row[call[c].folder].parent = call[c].copy.parent

CopiesFresh == Clash \/ \A c \in Calls : Fresh(c)

\* The Move m has written, and will be acknowledged.
Settled(m) == call[m].op = "move" /\ (call[m].pc \in {"dec", "inc"} \/ call[m].reply = "ok")

Excused(m) ==
  \E d \in Calls \ {m} :
     /\ call[d].folder = call[m].folder
     /\ \/ call[d].op = "move" /\ d \notin call[m].after
        \/ call[d].op = "update" /\ Overlap(m, d)

\* Its parent is in the row, and in the copies that were read since it ended.
MovesKept ==
  \A m \in Calls : Settled(m) => \/ Excused(m)
    \/ /\ call[m].folder \in Live => row[call[m].folder].parent = call[m].target
       /\ \A d \in Calls : At(d, "save") /\ call[d].folder = call[m].folder /\ m \in call[d].after
            => call[d].copy.parent = call[m].target

FolderInv ==
  /\ TypeOK /\ CallsInOrder /\ AfterIsOver /\ Known /\ IsFiniteSet(Busy)
  /\ TreeHolds /\ CopiesFresh /\ CountsMatch /\ MovesKept


-----------------------------------------------------------------------------
(* What a step of a call changes *)

\* The record x of the call becomes y.
Works(x, y) ==
  /\ InOrder(y) /\ Knows(y) /\ x.pc # "done" /\ y.pc # "idle"
  /\ x.pc # "idle" => /\ y.op = x.op /\ y.folder = x.folder /\ y.after = x.after /\ y.below = x.below
                      /\ y.op # "breadcrumb" => y.target = x.target
  /\ x.pc = "idle" => y.after = Over /\ y.pc \in {"insert", "save", "softdelete", "read", "walk"}
  /\ x.pc = "idle" /\ y.pc \in {"save", "softdelete", "read"} => y.folder \in Live /\ y.copy = row[y.folder]
  /\ x.pc = "idle" /\ y.pc = "read" => /\ y.target \in Live \cup {Top}
                                       /\ y.below = (y.target \in Subtree(y.folder))
  /\ x.pc # "idle" /\ y.pc \in {"save", "softdelete", "read", "write"}
       => x.pc = "read" /\ y.pc = "write" /\ y.copy = x.copy

CallEffect(c) ==
  /\ \A d \in Calls \ {c} : call'[d] = call[d]
  /\ Works(call[c], call'[c])

SameDue(c) == call'[c].dec = call[c].dec /\ call'[c].inc = call[c].inc

Unwritten(c) == UNCHANGED row /\ SameDue(c) /\ (Settled(c)' => Settled(c))

Inserts(c) ==
  /\ At(c, "insert")
  /\ \E g \in Folders :
       /\ row[g].state = "none"
       /\ row'[g].state = "live" /\ row'[g].parent = call[c].folder /\ row'[g].count = 0
       /\ \A f \in Folders \ {g} : row'[f] = row[f]
  /\ call'[c].dec = {} /\ call'[c].inc = {call[c].folder} \ {Top}

Saves(c) == At(c, "save") /\ row' = [row EXCEPT ![call[c].folder] = call[c].copy] /\ SameDue(c)

Deletes(c) ==
  /\ At(c, "softdelete") /\ call[c].folder \in Live
  /\ row' = [row EXCEPT ![call[c].folder].state = "deleted"]
  /\ call'[c].dec = {call[c].copy.parent} \ {Top} /\ call'[c].inc = {}

Writes(c) ==
  /\ At(c, "write")
  /\ \A g \in Folders : /\ row'[g].state = row[g].state /\ row'[g].count = row[g].count
                        /\ row'[g].parent = IF g = call[c].folder /\ g \in Live THEN call[c].target
                                            ELSE row[g].parent
  /\ call'[c].dec = {call[c].copy.parent} \ {Top} /\ call'[c].inc = {call[c].target} \ {Top}

\* The counts of fs change by delta, and nothing else of the rows.
Counted(fs, delta) ==
  \A g \in Folders : /\ row'[g].state = row[g].state /\ row'[g].parent = row[g].parent
                     /\ row'[g].count = row[g].count + IF g \in fs /\ g \in Live THEN delta ELSE 0

CountsDown(c) == At(c, "dec") /\ Counted(call[c].dec, -1) /\ call'[c].dec = {} /\ call'[c].inc = call[c].inc
CountsUp(c)   == At(c, "inc") /\ Counted(call[c].inc, 1) /\ call'[c].inc = {} /\ call'[c].dec = call[c].dec

Effect(c) ==
  /\ TypeOK' /\ CallEffect(c)
  /\ Unwritten(c) \/ Inserts(c) \/ Saves(c) \/ Deletes(c) \/ Writes(c) \/ CountsDown(c) \/ CountsUp(c)

\* What a step may rely on.
LEMMA InCall ==
  ASSUME FolderInv, NEW c \in Calls
  PROVE  /\ call \in [Calls -> Call] /\ call[c] \in Call /\ InOrder(call[c]) /\ Knows(call[c])
         /\ row \in [Folders -> Row] /\ Over \subseteq Calls /\ NoRow \in Row
         /\ Top \notin Folders /\ Live \subseteq Inserted /\ Inserted \subseteq Folders
<1>1. NoRow \in Row
  BY EmptySeq DEF NoRow, Row, Parents
<1> QED  BY <1>1, FolderTreeAssumption DEF FolderInv, TypeOK, CallsInOrder, Known, Over, Live, Inserted

LEMMA EffectOfCall ==
  ASSUME FolderInv, NEW c \in Calls, NEW new \in Call, call' = [call EXCEPT ![c] = new], Works(call[c], new)
  PROVE  call' \in [Calls -> Call] /\ call'[c] = new /\ CallEffect(c)
<1>1. call' \in [Calls -> Call] /\ call'[c] = new /\ \A d \in Calls \ {c} : call'[d] = call[d]
  BY InCall
<1> QED  BY <1>1 DEF CallEffect

\* A step that changes nothing but the record of its call.
LEMMA LocalStep ==
  ASSUME FolderInv, NEW c \in Calls, NEW new \in Call, UNCHANGED row,
         call' = [call EXCEPT ![c] = new], Works(call[c], new),
         new.dec = call[c].dec, new.inc = call[c].inc, new.pc \notin {"dec", "inc"},
         new.op # "move" \/ new.reply # "ok"
  PROVE  Effect(c)
<1>1. call' \in [Calls -> Call] /\ call'[c] = new /\ CallEffect(c)
  BY EffectOfCall
<1>2. TypeOK'
  BY <1>1 DEF FolderInv, TypeOK
<1>3. Unwritten(c)
  BY <1>1 DEF Unwritten, SameDue, Settled
<1> QED  BY <1>1, <1>2, <1>3 DEF Effect

\* A call that reads the row it is about, and starts.
LEMMA StartStep ==
  ASSUME FolderInv, NEW c \in Calls, NEW op \in Ops, NEW step \in Steps, NEW f \in Parents,
         NEW target \in Parents, Start(c, op, step, f, target),
         <<op, step>> \in {<<"create", "insert">>, <<"update", "save">>, <<"delete", "softdelete">>,
                           <<"move", "read">>, <<"breadcrumb", "walk">>},
         {f, target} \subseteq Live \cup {Top}, op # "create" => f \in Live
  PROVE  Effect(c)
<1> DEFINE copy == IF f = Top THEN NoRow ELSE row[f]
           below == op = "move" /\ target \in Subtree(f)
           new == [call[c] EXCEPT !.op = op, !.pc = step, !.folder = f, !.target = target, !.after = Over,
                                  !.copy = copy, !.below = below]
<1>1. /\ call \in [Calls -> Call] /\ call[c] \in Call /\ InOrder(call[c]) /\ Knows(call[c])
      /\ row \in [Folders -> Row] /\ Over \subseteq Calls /\ NoRow \in Row /\ Top \notin Folders
      /\ Live \subseteq Inserted /\ op \in AllOps /\ Inserted \subseteq Folders
  BY InCall, FolderTreeAssumption
<1>2. call[c].pc = "idle" /\ call' = [call EXCEPT ![c] = new] /\ UNCHANGED row
  BY DEF Start, At
<1>3. copy \in Row /\ copy.parent \in Inserted \cup {Top} /\ (f \in Live => copy = row[f])
  <2>1. CASE f = Top
    BY <1>1, <2>1 DEF NoRow
  <2>2. CASE f # Top
    <3>1. f \in Folders /\ \A g \in Folders : row[g].parent \in Inserted \cup {Top}
      BY <2>2 DEF Parents, FolderInv, Known
    <3> QED  BY <1>1, <2>2, <3>1
  <2> QED  BY <2>1, <2>2
<1>4. below \in BOOLEAN
  OBVIOUS
<1> HIDE DEF copy, below
<1>5. /\ new \in Call /\ new.op = op /\ new.pc = step /\ new.folder = f /\ new.target = target
      /\ new.after = Over /\ new.copy = copy /\ new.below = below
      /\ new.dec = call[c].dec /\ new.inc = call[c].inc /\ new.reply = call[c].reply
  BY <1>1, <1>3, <1>4 DEF Call
<1> HIDE DEF new
<1>6. call[c].dec = {} /\ call[c].inc = {} /\ call[c].reply = "pending"
  BY <1>1, <1>2 DEF InOrder, Call
<1>7. InOrder(new)
  <2>1. step = "save" => copy.state = "live"
    BY <1>3 DEF Live
  <2> QED  BY <1>1, <1>5, <1>6, <2>1 DEF InOrder
<1>8. Knows(new)
  BY <1>1, <1>3, <1>5, <1>6 DEF Knows
<1>9. Works(call[c], new)
  BY <1>1, <1>2, <1>3, <1>5, <1>7, <1>8 DEF Works, below
<1> QED  BY <1>2, <1>5, <1>6, <1>9, LocalStep

LEMMA RequestStep ==
  ASSUME FolderInv, NEW c \in Calls, Request(c)
  PROVE  Effect(c)
<1>0. /\ {"insert", "save", "softdelete", "read", "walk"} \subseteq Steps
      /\ Top \in Parents /\ Folders \subseteq Parents /\ Live \subseteq Folders
  BY DEF Steps, Parents, Live
<1>o. ASSUME NEW op, NEW step, NEW f, NEW t, Start(c, op, step, f, t) PROVE op \in Ops
  BY <1>o DEF Start
<1>1. ASSUME NEW p \in Parents, Create(c, p) PROVE Effect(c)
  <2>1. Start(c, "create", "insert", p, Top) /\ {p, Top} \subseteq Live \cup {Top}
    BY <1>1 DEF Create
  <2> QED  BY <1>0, <1>o, <2>1, StartStep
<1>2. ASSUME NEW f \in Folders, Update(c, f) PROVE Effect(c)
  <2>1. Start(c, "update", "save", f, Top) /\ f \in Live
    BY <1>2 DEF Update
  <2> QED  BY <1>0, <1>o, <2>1, StartStep
<1>3. ASSUME NEW f \in Folders, Delete(c, f) PROVE Effect(c)
  <2>1. Start(c, "delete", "softdelete", f, Top) /\ f \in Live
    BY <1>3 DEF Delete
  <2> QED  BY <1>0, <1>o, <2>1, StartStep
<1>4. ASSUME NEW f \in Folders, GetBreadcrumb(c, f) PROVE Effect(c)
  <2>1. Start(c, "breadcrumb", "walk", f, f) /\ f \in Live
    BY <1>4 DEF GetBreadcrumb
  <2> QED  BY <1>0, <1>o, <2>1, StartStep
<1>5. ASSUME NEW f \in Folders, NEW t \in Parents, Move(c, f, t) PROVE Effect(c)
  <2>1. Start(c, "move", "read", f, t) /\ f \in Live /\ t \in Live \cup {Top}
    BY <1>5 DEF Move
  <2> QED  BY <1>0, <1>o, <2>1, StartStep
<1> QED  BY <1>1, <1>2, <1>3, <1>4, <1>5 DEF Request


\* A call that is answered, without a write.
LEMMA AnswerStep ==
  ASSUME FolderInv, NEW c \in Calls, call[c].pc \notin {"idle", "done"}, NEW answer \in {"ok", "err"},
         call[c].op # "move" \/ answer = "err", Reply(c, answer)
  PROVE  /\ call' \in [Calls -> Call] /\ CallEffect(c) /\ SameDue(c)
         /\ Settled(c)' => Settled(c)
<1> DEFINE new == [call[c] EXCEPT !.pc = "done", !.reply = answer]
<1>1. call[c] \in Call /\ InOrder(call[c]) /\ Knows(call[c])
  BY InCall
<1>2. call' = [call EXCEPT ![c] = new]
  BY DEF Reply
<1>3. /\ new \in Call /\ new.op = call[c].op /\ new.pc = "done" /\ new.folder = call[c].folder
      /\ new.target = call[c].target /\ new.after = call[c].after /\ new.copy = call[c].copy
      /\ new.below = call[c].below /\ new.dec = call[c].dec /\ new.inc = call[c].inc /\ new.reply = answer
  BY <1>1 DEF Call, Steps
<1> HIDE DEF new
<1>4. InOrder(new) /\ Knows(new)
  BY <1>1, <1>3 DEF InOrder, Knows
<1>5. Works(call[c], new)
  BY <1>1, <1>3, <1>4 DEF Works
<1>6. call' \in [Calls -> Call] /\ call'[c] = new /\ CallEffect(c)
  BY <1>2, <1>3, <1>5, EffectOfCall
<1> QED  BY <1>3, <1>6 DEF SameDue, Settled

LEMMA RefuseStep ==
  ASSUME FolderInv, NEW c \in Calls, call[c].pc \notin {"idle", "done"}, Reply(c, "err"), UNCHANGED row
  PROVE  Effect(c)
<1>1. call' \in [Calls -> Call] /\ CallEffect(c) /\ SameDue(c) /\ (Settled(c)' => Settled(c))
  BY AnswerStep
<1> QED  BY <1>1 DEF Effect, Unwritten, FolderInv, TypeOK

\* A call that goes on to correct the counts.
LEMMA CorrectStep ==
  ASSUME FolderInv, NEW c \in Calls, call[c].pc \in {"insert", "softdelete", "write"},
         NEW from \in Inserted \cup {Top}, NEW to \in Inserted \cup {Top}, Correct(c, from, to)
  PROVE  /\ call' \in [Calls -> Call] /\ CallEffect(c)
         /\ call'[c].dec = {from} \ {Top} /\ call'[c].inc = {to} \ {Top}
<1> DEFINE step == IF from # Top THEN "dec" ELSE IF to # Top THEN "inc" ELSE "done"
           answer == IF {from, to} = {Top} THEN "ok" ELSE "pending"
           new == [call[c] EXCEPT !.pc = step, !.reply = answer, !.dec = {from} \ {Top}, !.inc = {to} \ {Top},
                                  !.copy = NoRow, !.old = <<>>, !.new = <<>>]
<1>1. /\ call[c] \in Call /\ InOrder(call[c]) /\ Knows(call[c]) /\ NoRow \in Row /\ Inserted \subseteq Folders
      /\ <<>> \in Seq(Folders)
  BY InCall, EmptySeq
<1>2. call' = [call EXCEPT ![c] = new]
  BY DEF Correct
<1>3. /\ step \in {"dec", "inc", "done"} /\ answer \in {"ok", "pending"} /\ (step = "done" <=> answer # "pending")
      /\ {from} \ {Top} \subseteq Inserted /\ {to} \ {Top} \subseteq Inserted
  OBVIOUS
<1>o. call[c].op \in {"create", "delete", "move"}
  BY <1>1 DEF InOrder
<1> HIDE DEF step, answer
<1>4. /\ new \in Call /\ new.op = call[c].op /\ new.pc = step /\ new.folder = call[c].folder
      /\ new.target = call[c].target /\ new.after = call[c].after /\ new.copy = NoRow
      /\ new.below = call[c].below /\ new.dec = {from} \ {Top} /\ new.inc = {to} \ {Top} /\ new.reply = answer
  BY <1>1, <1>3 DEF Call, Steps
<1> HIDE DEF new
<1>5. InOrder(new)
  BY <1>1, <1>o, <1>3, <1>4 DEF InOrder
<1>k. Knows(new)
  <2>1. NoRow.parent = Top
    BY DEF NoRow
  <2> QED  BY <1>1, <1>3, <1>4, <2>1 DEF Knows
<1>6. Works(call[c], new)
  BY <1>1, <1>3, <1>4, <1>5, <1>k DEF Works
<1> QED  BY <1>2, <1>4, <1>6, EffectOfCall

LEMMA InsertStep ==
  ASSUME FolderInv, NEW c \in Calls, InsertFolder(c)
  PROVE  Effect(c)
<1>1. At(c, "insert")
  BY DEF InsertFolder
<1>2. CASE Reply(c, "err") /\ UNCHANGED row
  BY <1>1, <1>2, RefuseStep DEF At
<1>3. ASSUME NEW f \in Folders, row[f].state = "none", Correct(c, Top, call[c].folder),
             row' = [row EXCEPT ![f] = [state |-> "live", parent |-> call[c].folder,
                                        path |-> Append(call[c].copy.path, f), count |-> 0]]
      PROVE  Effect(c)
  <2> DEFINE r == [state |-> "live", parent |-> call[c].folder, path |-> Append(call[c].copy.path, f), count |-> 0]
  <2>1. row \in [Folders -> Row] /\ call[c] \in Call /\ call[c].folder \in Inserted \cup {Top}
    BY InCall DEF Knows
  <2>2. r \in Row
    <3>1. call[c].copy.path \in Seq(Folders) /\ call[c].folder \in Parents
      BY <2>1 DEF Call, Row
    <3>2. Append(call[c].copy.path, f) \in Seq(Folders)
      BY <3>1, AppendProperties
    <3> QED  BY <3>1, <3>2 DEF Row
  <2> HIDE DEF r
  <2>3. row' \in [Folders -> Row] /\ row'[f] = r /\ \A g \in Folders \ {f} : row'[g] = row[g]
    BY <1>3, <2>1, <2>2 DEF r
  <2>4. /\ call' \in [Calls -> Call] /\ CallEffect(c)
        /\ call'[c].dec = {Top} \ {Top} /\ call'[c].inc = {call[c].folder} \ {Top}
    BY <1>1, <1>3, <2>1, CorrectStep DEF At
  <2>5. Inserts(c)
    BY <1>1, <1>3, <2>3, <2>4 DEF Inserts, r
  <2> QED  BY <2>3, <2>4, <2>5 DEF Effect, TypeOK
<1> QED  BY <1>2, <1>3 DEF InsertFolder

LEMMA SaveStep ==
  ASSUME FolderInv, NEW c \in Calls, SaveFolder(c)
  PROVE  Effect(c)
<1>1. At(c, "save")
  BY DEF SaveFolder
<1>2. CASE Reply(c, "err") /\ UNCHANGED row
  BY <1>1, <1>2, RefuseStep DEF At
<1>3. CASE row' = [row EXCEPT ![call[c].folder] = call[c].copy] /\ Reply(c, "ok")
  <2>1. row \in [Folders -> Row] /\ call[c] \in Call /\ InOrder(call[c])
    BY InCall
  <2>2. call[c].op = "update" /\ call[c].copy \in Row
    BY <1>1, <2>1 DEF At, InOrder, Call
  <2>3. row' \in [Folders -> Row]
    BY <1>3, <2>1, <2>2
  <2>4. call' \in [Calls -> Call] /\ CallEffect(c) /\ SameDue(c)
    BY <1>1, <1>3, <2>2, AnswerStep DEF At
  <2> QED  BY <1>1, <1>3, <2>3, <2>4 DEF Effect, TypeOK, Saves
<1> QED  BY <1>2, <1>3 DEF SaveFolder

LEMMA DeleteStep ==
  ASSUME FolderInv, NEW c \in Calls, SoftDelete(c)
  PROVE  Effect(c)
<1>1. At(c, "softdelete")
  BY DEF SoftDelete
<1>2. CASE Reply(c, "err") /\ UNCHANGED row
  BY <1>1, <1>2, RefuseStep DEF At
<1>3. CASE /\ call[c].folder \in Live /\ row' = [row EXCEPT ![call[c].folder].state = "deleted"]
           /\ Correct(c, call[c].copy.parent, Top)
  <2>1. row \in [Folders -> Row] /\ call[c] \in Call /\ call[c].copy.parent \in Inserted \cup {Top}
    BY InCall DEF Knows
  <2>2. row' \in [Folders -> Row]
    BY <1>3, <2>1 DEF Row, Live
  <2>3. /\ call' \in [Calls -> Call] /\ CallEffect(c)
        /\ call'[c].dec = {call[c].copy.parent} \ {Top} /\ call'[c].inc = {Top} \ {Top}
    BY <1>1, <1>3, <2>1, CorrectStep DEF At
  <2> QED  BY <1>1, <1>3, <2>2, <2>3 DEF Effect, TypeOK, Deletes
<1> QED  BY <1>2, <1>3 DEF SoftDelete

LEMMA ReadStep ==
  ASSUME FolderInv, NEW c \in Calls, ReadMove(c)
  PROVE  Effect(c)
<1>1. At(c, "read") /\ UNCHANGED row
  BY DEF ReadMove
<1>2. CASE Reply(c, "err")
  BY <1>1, <1>2, RefuseStep DEF At
<1>3. CASE ~ Reply(c, "err")
  <2> DEFINE f == call[c].folder
             t == call[c].target
             old == FullPath(f)
             parentPath == IF t = Top THEN <<>> ELSE FullPath(t)
             path == Append(parentPath, f)
             new == [call[c] EXCEPT !.pc = "write", !.old = old, !.new = path]
  <2>1. f \in Live /\ t \in Live \cup {Top} /\ call' = [call EXCEPT ![c] = new]
    BY <1>3 DEF ReadMove
  <2>2. /\ row \in [Folders -> Row] /\ call[c] \in Call /\ InOrder(call[c]) /\ Knows(call[c])
        /\ Live \subseteq Folders
    BY InCall
  <2>3. \A g \in Live : FullPath(g) \in Seq(Folders) /\ FullPath(g) # <<>>
    <3> TAKE g \in Live
    <3>1. g \in Folders /\ row[g].path \in Seq(Folders)
      BY <2>2 DEF Row
    <3>2. Append(row[g].path, g) \in Seq(Folders) /\ Len(Append(row[g].path, g)) = Len(row[g].path) + 1
      BY <3>1, AppendProperties
    <3>3. Len(row[g].path) \in Nat
      BY <3>1, LenProperties
    <3>4. Len(Append(row[g].path, g)) # 0
      BY <3>2, <3>3
    <3> QED  BY <3>2, <3>4, EmptySeq DEF FullPath
  <2>4. parentPath \in Seq(Folders) /\ old \in Seq(Folders) /\ old # <<>>
    BY <2>1, <2>3, EmptySeq
  <2>5. path \in Seq(Folders) /\ path # <<>>
    <3> HIDE DEF parentPath
    <3>1. f \in Folders
      BY <2>1, <2>2
    <3>2. path \in Seq(Folders) /\ Len(path) = Len(parentPath) + 1
      BY <2>4, <3>1, AppendProperties
    <3>3. Len(parentPath) \in Nat
      BY <2>4, LenProperties
    <3>4. Len(path) # 0
      BY <3>2, <3>3
    <3> QED  BY <3>2, <3>4, EmptySeq
  <2> HIDE DEF old, path
  <2>6. /\ new \in Call /\ new.op = call[c].op /\ new.pc = "write" /\ new.folder = call[c].folder
        /\ new.target = call[c].target /\ new.after = call[c].after /\ new.copy = call[c].copy
        /\ new.below = call[c].below /\ new.dec = call[c].dec /\ new.inc = call[c].inc
        /\ new.reply = call[c].reply /\ new.old = old /\ new.new = path
    BY <2>2, <2>4, <2>5 DEF Call, Steps
  <2> HIDE DEF new
  <2>7. InOrder(new) /\ Knows(new)
    BY <1>1, <2>2, <2>4, <2>5, <2>6 DEF InOrder, Knows, At
  <2>8. Works(call[c], new) /\ new.reply # "ok"
    BY <1>1, <2>2, <2>6, <2>7 DEF Works, At, InOrder
  <2> QED  BY <1>1, <2>1, <2>6, <2>8, LocalStep
<1> QED  BY <1>2, <1>3

LEMMA WalkStep ==
  ASSUME FolderInv, NEW c \in Calls, Walk(c)
  PROVE  Effect(c)
<1>1. At(c, "walk") /\ UNCHANGED row /\ call[c] \in Call /\ InOrder(call[c]) /\ Knows(call[c])
  BY InCall DEF Walk
<1>2. call[c].op = "breadcrumb"
  BY <1>1 DEF At, InOrder
<1>3. CASE Reply(c, "ok")
  <2>1. call' \in [Calls -> Call] /\ CallEffect(c) /\ SameDue(c) /\ (Settled(c)' => Settled(c))
    BY <1>1, <1>2, <1>3, AnswerStep DEF At
  <2> QED  BY <1>1, <2>1 DEF Effect, Unwritten, FolderInv, TypeOK
<1>4. CASE call[c].target \in Live /\ call' = [call EXCEPT ![c].target = row[call[c].target].parent]
  <2> DEFINE t == row[call[c].target].parent
             new == [call[c] EXCEPT !.target = t]
  <2>1. t \in Inserted \cup {Top} /\ t \in Parents /\ call' = [call EXCEPT ![c] = new]
    BY <1>4, InCall DEF FolderInv, Known, Live, Row
  <2> HIDE DEF t
  <2>2. /\ new \in Call /\ new.op = call[c].op /\ new.pc = "walk" /\ new.folder = call[c].folder
        /\ new.target = t /\ new.after = call[c].after /\ new.copy = call[c].copy
        /\ new.below = call[c].below /\ new.dec = call[c].dec /\ new.inc = call[c].inc
        /\ new.reply = call[c].reply
    BY <1>1, <2>1 DEF Call, At
  <2> HIDE DEF new
  <2>3. InOrder(new) /\ Knows(new)
    BY <1>1, <2>1, <2>2 DEF InOrder, Knows, At
  <2>4. Works(call[c], new)
    BY <1>1, <1>2, <2>2, <2>3 DEF Works, At
  <2> QED  BY <1>1, <1>2, <2>1, <2>2, <2>4, LocalStep
<1> QED  BY <1>3, <1>4 DEF Walk

\* The second UPDATE of a Move puts paths in place of paths.
LEMMA MovedRows ==
  ASSUME FolderInv, NEW c \in Calls, At(c, "write")
  PROVE  /\ Moved(c) \in [Folders -> Row]
         /\ \A g \in Folders :
              /\ Moved(c)[g].state = row[g].state /\ Moved(c)[g].count = row[g].count
              /\ Moved(c)[g].parent = IF g = call[c].folder /\ g \in Live THEN call[c].target ELSE row[g].parent
<1> DEFINE f == call[c].folder
           head == SubSeq(call[c].new, 1, Len(call[c].new) - 1)
           second == [row[f] EXCEPT !.parent = call[c].target, !.path = head]
           first == [row EXCEPT ![f] = IF row[f].state # "live" THEN row[f] ELSE second]
           hit(g) == /\ first[g].state = "live" /\ Len(first[g].path) > Len(call[c].old)
                     /\ Occurs(call[c].old, first[g].path, 1)
           longer(g) == Replaced(first[g].path, call[c].old, call[c].new)
<1>1. /\ row \in [Folders -> Row] /\ call[c] \in Call /\ InOrder(call[c])
  BY InCall
<1>2. /\ call[c].old \in Seq(Folders) /\ call[c].new \in Seq(Folders) /\ call[c].old # <<>>
      /\ f \in Folders /\ call[c].target \in Parents
  BY <1>1 DEF InOrder, Call, At
<1>3. head \in Seq(Folders)
  <2>1. Len(call[c].new) \in Nat
    BY <1>2, LenProperties
  <2>2. \A i \in 1 .. Len(call[c].new) - 1 : i \in 1 .. Len(call[c].new) /\ call[c].new[i] \in Folders
    BY <1>2, <2>1, ElementOfSeq
  <2> QED  BY <1>2, <2>1, <2>2, SubSeqProperties
<1> HIDE DEF head
<1>4. row[f] \in Row /\ second \in Row /\ second.state = row[f].state /\ second.count = row[f].count
      /\ second.parent = call[c].target
  BY <1>1, <1>2, <1>3 DEF Row
<1> HIDE DEF second
<1>5. first \in [Folders -> Row] /\ first[f] = (IF row[f].state # "live" THEN row[f] ELSE second)
      /\ \A g \in Folders : g # f => first[g] = row[g]
  BY <1>1, <1>2, <1>4
<1>6. Moved(c) = [g \in Folders |-> IF hit(g) THEN [first[g] EXCEPT !.path = longer(g)] ELSE first[g]]
  BY <1>1 DEF Moved, second, head
<1> HIDE DEF first
<1>7. ASSUME NEW g \in Folders
      PROVE  /\ first[g].state = row[g].state /\ first[g].count = row[g].count
             /\ first[g].parent = IF g = f /\ g \in Live THEN call[c].target ELSE row[g].parent
  <2>1. CASE g = f
    BY <1>4, <1>5, <2>1 DEF Live
  <2>2. CASE g # f
    BY <1>5, <2>2
  <2> QED  BY <2>1, <2>2
<1>8. ASSUME NEW g \in Folders
      PROVE  LET r == [first[g] EXCEPT !.path = longer(g)]
             IN  r \in Row /\ r.state = first[g].state /\ r.count = first[g].count /\ r.parent = first[g].parent
  <2>1. first[g] \in Row /\ first[g].path \in Seq(Folders)
    BY <1>5 DEF Row
  <2>2. longer(g) \in Seq(Folders)
    BY <1>2, <2>1, ReplacedType
  <2> HIDE DEF longer
  <2> QED  BY <2>1, <2>2 DEF Row
<1> HIDE DEF hit, longer
<1>9. \A g \in Folders : /\ Moved(c)[g] \in Row /\ Moved(c)[g].state = first[g].state
                         /\ Moved(c)[g].count = first[g].count /\ Moved(c)[g].parent = first[g].parent
  <2> TAKE g \in Folders
  <2>1. first[g] \in Row
    BY <1>5
  <2>2. CASE hit(g)
    BY <1>6, <1>8, <2>2
  <2>3. CASE ~ hit(g)
    BY <1>6, <2>1, <2>3
  <2> QED  BY <2>2, <2>3
<1>10. Moved(c) \in [Folders -> Row]
  <2>1. DOMAIN Moved(c) = Folders /\ Moved(c) = [g \in Folders |-> Moved(c)[g]]
    BY <1>6
  <2> QED  BY <1>9, <2>1
<1> QED  BY <1>7, <1>9, <1>10

LEMMA WriteStep ==
  ASSUME FolderInv, NEW c \in Calls, WriteMove(c)
  PROVE  Effect(c)
<1>1. At(c, "write")
  BY DEF WriteMove
<1>2. CASE Reply(c, "err") /\ UNCHANGED row
  BY <1>1, <1>2, RefuseStep DEF At
<1>3. CASE row' = Moved(c) /\ Correct(c, call[c].copy.parent, call[c].target)
  <2>1. call[c].copy.parent \in Inserted \cup {Top} /\ call[c].target \in Inserted \cup {Top}
    BY InCall DEF Knows
  <2>2. row' \in [Folders -> Row]
    BY <1>1, <1>3, MovedRows
  <2>3. /\ call' \in [Calls -> Call] /\ CallEffect(c)
        /\ call'[c].dec = {call[c].copy.parent} \ {Top} /\ call'[c].inc = {call[c].target} \ {Top}
    BY <1>1, <1>3, <2>1, CorrectStep DEF At
  <2>4. Writes(c)
    BY <1>1, <1>3, <2>3, MovedRows DEF Writes
  <2> QED  BY <2>2, <2>3, <2>4 DEF Effect, TypeOK
<1> QED  BY <1>2, <1>3 DEF WriteMove

\* The rows after an UPDATE of the counts of fs.
LEMMA CountedRows ==
  ASSUME row \in [Folders -> Row], NEW fs, NEW delta \in Int, AddToCount(fs, delta)
  PROVE  row' \in [Folders -> Row] /\ Counted(fs, delta)
<1>1. ASSUME NEW g \in Folders
      PROVE  /\ row'[g] \in Row /\ row'[g].state = row[g].state /\ row'[g].parent = row[g].parent
             /\ row'[g].count = row[g].count + IF g \in fs /\ g \in Live THEN delta ELSE 0
  <2>1. row[g] \in Row /\ row[g].count \in Int
    BY DEF Row
  <2>2. CASE g \in fs /\ row[g].state = "live"
    <3>1. row'[g] = [row[g] EXCEPT !.count = row[g].count + delta]
      BY <2>2 DEF AddToCount
    <3>2. row[g].count + delta \in Int
      BY <2>1
    <3> QED  BY <2>1, <2>2, <3>1, <3>2 DEF Row, Live
  <2>3. CASE ~ (g \in fs /\ row[g].state = "live")
    BY <2>1, <2>3 DEF AddToCount, Live
  <2> QED  BY <2>2, <2>3
<1>2. row' = [g \in Folders |-> row'[g]]
  BY DEF AddToCount
<1> QED  BY <1>1, <1>2 DEF Counted

\* A call that is done with one of its counts.
LEMMA CountedStep ==
  ASSUME FolderInv, NEW c \in Calls, call[c].pc \in {"dec", "inc"},
         NEW dec \in {{}, call[c].dec}, NEW inc \in {{}, call[c].inc}, NEW step \in {"inc", "done"},
         call' = [call EXCEPT ![c] = [@ EXCEPT !.dec = dec, !.inc = inc, !.pc = step,
                                               !.reply = IF step = "done" THEN "ok" ELSE "pending"]]
  PROVE  /\ call' \in [Calls -> Call] /\ CallEffect(c) /\ (Settled(c)' => Settled(c))
         /\ call'[c].dec = dec /\ call'[c].inc = inc
<1> DEFINE answer == IF step = "done" THEN "ok" ELSE "pending"
           new == [call[c] EXCEPT !.dec = dec, !.inc = inc, !.pc = step, !.reply = answer]
<1>1. call[c] \in Call /\ InOrder(call[c]) /\ Knows(call[c])
  BY InCall
<1>2. call' = [call EXCEPT ![c] = new]
  OBVIOUS
<1>3. answer \in {"ok", "pending"} /\ (step = "done" <=> answer # "pending")
  OBVIOUS
<1>4. dec \subseteq call[c].dec /\ inc \subseteq call[c].inc
  OBVIOUS
<1>5. dec \in SUBSET Folders /\ inc \in SUBSET Folders /\ step \in Steps
  BY <1>1, <1>4 DEF Call, Steps
<1> HIDE DEF answer
<1>6. /\ new \in Call /\ new.op = call[c].op /\ new.pc = step /\ new.folder = call[c].folder
      /\ new.target = call[c].target /\ new.after = call[c].after /\ new.copy = call[c].copy
      /\ new.below = call[c].below /\ new.dec = dec /\ new.inc = inc /\ new.reply = answer
  BY <1>1, <1>3, <1>5 DEF Call
<1> HIDE DEF new
<1>7. call[c].op \in {"create", "delete", "move"}
  BY <1>1 DEF InOrder
<1>8. InOrder(new)
  BY <1>1, <1>3, <1>6, <1>7 DEF InOrder
<1>9. Knows(new)
  BY <1>1, <1>4, <1>6 DEF Knows
<1>10. Works(call[c], new)
  BY <1>1, <1>6, <1>8, <1>9 DEF Works
<1>11. call' \in [Calls -> Call] /\ call'[c] = new /\ CallEffect(c)
  BY <1>2, <1>6, <1>10, EffectOfCall
<1> QED  BY <1>6, <1>11 DEF Settled

LEMMA DownStep ==
  ASSUME FolderInv, NEW c \in Calls, UpdateOldCount(c)
  PROVE  Effect(c)
<1> DEFINE step == IF call[c].inc = {} THEN "done" ELSE "inc"
<1>1. At(c, "dec") /\ row \in [Folders -> Row] /\ step \in {"inc", "done"}
  BY InCall DEF UpdateOldCount
<1>2. PICK o \in Outcomes :
        /\ IF o = "ok" THEN AddToCount(call[c].dec, -1) ELSE UNCHANGED row
        /\ call' = [call EXCEPT ![c] = [@ EXCEPT !.dec = IF o = "ok" THEN {} ELSE call[c].dec,
                                                 !.pc = IF call[c].inc = {} THEN "done" ELSE "inc",
                                                 !.reply = IF call[c].inc = {} THEN "ok" ELSE "pending"]]
  BY DEF UpdateOldCount
<1> DEFINE dec == IF o = "ok" THEN {} ELSE call[c].dec
<1>3. call' = [call EXCEPT ![c] = [@ EXCEPT !.dec = dec, !.inc = call[c].inc,
                                            !.pc = step,
                                            !.reply = IF step = "done" THEN "ok" ELSE "pending"]]
  <2>1. call \in [Calls -> Call] /\ call[c] \in Call
    BY InCall
  <2> DEFINE answer == IF step = "done" THEN "ok" ELSE "pending"
  <2>2. call' = [call EXCEPT ![c] = [call[c] EXCEPT !.dec = dec, !.pc = step, !.reply = answer]]
    <3>1. answer = IF call[c].inc = {} THEN "ok" ELSE "pending"
      OBVIOUS
    <3>2. call' = [call EXCEPT ![c] = [call[c] EXCEPT
                     !.dec = IF o = "ok" THEN {} ELSE call[c].dec, !.pc = step,
                     !.reply = IF call[c].inc = {} THEN "ok" ELSE "pending"]]
      BY <1>2, <2>1 DEF Call
    <3> HIDE DEF answer
    <3> QED  BY <3>1, <3>2
  <2>3. [call[c] EXCEPT !.dec = dec, !.pc = step, !.reply = answer]
          = [call[c] EXCEPT !.dec = dec, !.inc = call[c].inc, !.pc = step, !.reply = answer]
    <3> HIDE DEF dec, step, answer
    <3> QED  BY <2>1 DEF Call
  <2> HIDE DEF dec, step
  <2> QED  BY <2>1, <2>2, <2>3
<1>4. /\ call' \in [Calls -> Call] /\ CallEffect(c) /\ (Settled(c)' => Settled(c))
      /\ call'[c].dec = dec /\ call'[c].inc = call[c].inc
  <2> HIDE DEF step
  <2> QED  BY <1>1, <1>3, CountedStep DEF At
<1>5. CASE o = "ok"
  <2>1. row' \in [Folders -> Row] /\ Counted(call[c].dec, -1)
    <3>1. AddToCount(call[c].dec, -1)
      BY <1>2, <1>5
    <3>2. -1 \in Int
      OBVIOUS
    <3> QED  BY <1>1, <3>1, <3>2, CountedRows
  <2> QED  BY <1>1, <1>4, <1>5, <2>1 DEF Effect, TypeOK, CountsDown
<1>6. CASE o # "ok"
  BY <1>1, <1>2, <1>4, <1>6 DEF Effect, TypeOK, Unwritten, SameDue
<1> QED  BY <1>5, <1>6

LEMMA UpStep ==
  ASSUME FolderInv, NEW c \in Calls, UpdateNewCount(c)
  PROVE  Effect(c)
<1>1. At(c, "inc") /\ row \in [Folders -> Row]
  BY InCall DEF UpdateNewCount
<1>2. PICK o \in Outcomes :
        /\ IF o = "ok" THEN AddToCount(call[c].inc, 1) ELSE UNCHANGED row
        /\ call' = [call EXCEPT ![c] = [@ EXCEPT !.inc = IF o = "ok" THEN {} ELSE call[c].inc,
                                                 !.pc = "done", !.reply = "ok"]]
  BY DEF UpdateNewCount
<1> DEFINE inc == IF o = "ok" THEN {} ELSE call[c].inc
<1>3. call' = [call EXCEPT ![c] = [@ EXCEPT !.dec = call[c].dec, !.inc = inc,
                                            !.pc = "done",
                                            !.reply = IF "done" = "done" THEN "ok" ELSE "pending"]]
  <2>1. call \in [Calls -> Call] /\ call[c] \in Call
    BY InCall
  <2>2. call' = [call EXCEPT ![c] = [call[c] EXCEPT !.inc = inc, !.pc = "done", !.reply = "ok"]]
    BY <1>2, <2>1 DEF Call
  <2>3. [call[c] EXCEPT !.inc = inc, !.pc = "done", !.reply = "ok"]
          = [call[c] EXCEPT !.dec = call[c].dec, !.inc = inc, !.pc = "done", !.reply = "ok"]
    <3> HIDE DEF inc
    <3> QED  BY <2>1 DEF Call
  <2> HIDE DEF inc
  <2> QED  BY <2>1, <2>2, <2>3
<1>4. /\ call' \in [Calls -> Call] /\ CallEffect(c) /\ (Settled(c)' => Settled(c))
      /\ call'[c].dec = call[c].dec /\ call'[c].inc = inc
  BY <1>1, <1>3, CountedStep DEF At
<1>5. CASE o = "ok"
  <2>1. row' \in [Folders -> Row] /\ Counted(call[c].inc, 1)
    BY <1>1, <1>2, <1>5, CountedRows
  <2> QED  BY <1>1, <1>4, <1>5, <2>1 DEF Effect, TypeOK, CountsUp
<1>6. CASE o # "ok"
  BY <1>1, <1>2, <1>4, <1>6 DEF Effect, TypeOK, Unwritten, SameDue
<1> QED  BY <1>5, <1>6

LEMMA StepEffect ==
  ASSUME FolderInv, NEW c \in Calls, Request(c) \/ Continue(c)
  PROVE  Effect(c)
BY RequestStep, InsertStep, SaveStep, DeleteStep, ReadStep, WriteStep, DownStep, UpStep, WalkStep DEF Continue

-----------------------------------------------------------------------------
(* The invariant holds at the start *)

LEMMA InitFolders == Init => FolderInv
<1> SUFFICES ASSUME Init PROVE FolderInv
  OBVIOUS
<1>1. PICK there \in SUBSET Folders, p \in [Folders -> Parents] :
       /\ \A f \in Folders : f \notin Above(p, f) /\ Above(p, f) \subseteq there
       /\ \A f \in Folders \ there : p[f] = Top
       /\ row = [f \in Folders |-> IF f \notin there THEN NoRow
                   ELSE [state |-> "live", parent |-> p[f], path |-> PathOf(p, f),
                         count |-> Cardinality({g \in there : p[g] = f})]]
  BY DEF Init
<1>2. p \in Trees /\ Acyclic(p)
  BY <1>1 DEF Trees, Acyclic
<1>3. call = [c \in Calls |-> NoCall]
  BY DEF Init
<1>4. NoRow \in Row /\ NoRow.state = "none" /\ NoRow.parent = Top
  BY EmptySeq DEF NoRow, Row, Parents
<1>5. NoCall \in Call /\ InOrder(NoCall) /\ Knows(NoCall)
  <2>1. /\ NoCall.op = "none" /\ NoCall.pc = "idle" /\ NoCall.folder = Top /\ NoCall.target = Top
        /\ NoCall.copy = NoRow /\ NoCall.dec = {} /\ NoCall.inc = {} /\ NoCall.reply = "pending"
        /\ NoCall \in Call
    BY <1>4, EmptySeq DEF NoCall, Call, Steps, Parents, AllOps
  <2>2. InOrder(NoCall) /\ Knows(NoCall)
    BY <1>4, <2>1 DEF InOrder, Knows
  <2> QED  BY <2>1, <2>2
<1>6. \A f \in Folders : IsFiniteSet({g \in there : p[g] = f}) /\ Cardinality({g \in there : p[g] = f}) \in Nat
  BY SizeNat, FS_Subset, FS_CardinalityType
<1>7. ASSUME NEW f \in Folders
      PROVE  /\ row[f] \in Row /\ row[f].parent = p[f] /\ (row[f].state = "live" <=> f \in there)
             /\ (row[f].state # "none" <=> f \in there) /\ p[f] \in there \cup {Top}
             /\ f \in there => row[f].count = Cardinality({g \in there : p[g] = f})
  <2>1. p[f] \in there \cup {Top}
    BY <1>1, <1>2, AboveParent
  <2>2. CASE f \in there
    <3>1. row[f] = [state |-> "live", parent |-> p[f], path |-> PathOf(p, f),
                    count |-> Cardinality({g \in there : p[g] = f})]
      BY <1>1, <2>2
    <3>2. PathOf(p, f) \in Seq(Folders)
      BY <1>2, PathType
    <3>3. Cardinality({g \in there : p[g] = f}) \in Int
      BY <1>6
    <3> QED  BY <1>1, <2>1, <2>2, <3>1, <3>2, <3>3 DEF Row
  <2>3. CASE f \notin there
    BY <1>1, <1>4, <2>1, <2>3
  <2> QED  BY <2>2, <2>3
<1>8. TypeOK
  <2>1. row \in [Folders -> Row]
    BY <1>1, <1>7
  <2> QED  BY <1>3, <1>5, <2>1 DEF TypeOK
<1>9. CallsInOrder /\ AfterIsOver
  <2>1. \A c \in Calls : call[c] = NoCall /\ NoCall.after = {}
    BY <1>3 DEF NoCall
  <2> QED  BY <1>5, <2>1 DEF CallsInOrder, AfterIsOver
<1>10. Known
  BY <1>3, <1>5, <1>7 DEF Known, Inserted
<1>11. \A c \in Calls : /\ call[c].pc = "idle" /\ call[c].dec = {} /\ call[c].inc = {}
                        /\ call[c].op = "none"
  BY <1>3 DEF NoCall
<1>12. IsFiniteSet(Busy)
  <2>1. Busy = {}
    BY <1>11 DEF Busy
  <2> QED  BY <2>1, FS_EmptySet
<1>13. TreeHolds
  <2>1. Parenthood = p
    BY <1>1, <1>7 DEF Parenthood
  <2> QED  BY <1>2, <1>11, <2>1 DEF TreeHolds, At
<1>14. CopiesFresh
  BY <1>11 DEF CopiesFresh, Fresh, At
<1>15. CountsMatch
  <2> SUFFICES ASSUME NEW f \in Live
               PROVE  row[f].count + Cardinality({c \in Calls : f \in call[c].inc})
                        = Cardinality(Children(f)) + Cardinality({c \in Calls : f \in call[c].dec})
    BY DEF CountsMatch
  <2>1. {c \in Calls : f \in call[c].inc} = {} /\ {c \in Calls : f \in call[c].dec} = {}
    BY <1>11
  <2>2. Live = there
    BY <1>1, <1>7 DEF Live
  <2>3. Children(f) = {g \in there : p[g] = f}
    BY <1>7, <2>2 DEF Children
  <2>4. row[f].count = Cardinality(Children(f))
    BY <1>1, <1>7, <2>2, <2>3
  <2> QED  BY <2>1, <2>4
<1>16. MovesKept
  BY <1>11 DEF MovesKept, Settled
<1> QED  BY <1>8, <1>9, <1>10, <1>12, <1>13, <1>14, <1>15, <1>16 DEF FolderInv

-----------------------------------------------------------------------------
(* Steps keep the order of calls *)

\* What follows of a step for the invariant's parts about single calls.
LEMMA StepCalls ==
  ASSUME FolderInv, NEW c \in Calls, Effect(c)
  PROVE  CallsInOrder' /\ AfterIsOver' /\ IsFiniteSet(Busy')
<1>1. /\ \A d \in Calls \ {c} : call'[d] = call[d]
      /\ InOrder(call'[c]) /\ call[c].pc # "done" /\ call'[c].pc # "idle"
      /\ call[c].pc # "idle" => call'[c].after = call[c].after
      /\ call[c].pc = "idle" => call'[c].after = Over
  BY DEF Effect, CallEffect, Works
<1>2. CallsInOrder'
  <2>1. ASSUME NEW d \in Calls PROVE InOrder(call'[d])
    BY <1>1 DEF FolderInv, CallsInOrder
  <2> QED  BY <2>1 DEF CallsInOrder, InOrder
<1>3. AfterIsOver'
  BY <1>1 DEF FolderInv, AfterIsOver, Over, At
<1>4. IsFiniteSet(Busy')
  <2>1. Busy' = Busy \cup {c}
    BY <1>1 DEF Busy
  <2> QED  BY <2>1, FS_AddElement DEF FolderInv
<1> QED  BY <1>2, <1>3, <1>4

\* Rows stay inserted, and parents are among them.
LEMMA StepKnown ==
  ASSUME FolderInv, NEW c \in Calls, Effect(c)
  PROVE  Inserted \subseteq Inserted' /\ Known'
<1>1. /\ row \in [Folders -> Row] /\ call[c] \in Call /\ InOrder(call[c]) /\ Knows(call[c])
      /\ \A f \in Folders : row[f].parent \in Inserted \cup {Top}
  BY InCall DEF FolderInv, Known
<1>2. ASSUME NEW f \in Folders
      PROVE  /\ row[f].state # "none" => row'[f].state # "none"
             /\ row'[f].parent \in Inserted \cup {Top}
  <2>1. CASE Unwritten(c)
    BY <1>1, <2>1 DEF Unwritten
  <2>2. CASE Inserts(c)
    <3>1. PICK g \in Folders : /\ row[g].state = "none" /\ row'[g].state = "live"
                               /\ row'[g].parent = call[c].folder /\ \A h \in Folders \ {g} : row'[h] = row[h]
      BY <2>2 DEF Inserts
    <3>2. CASE f = g
      BY <1>1, <3>1, <3>2 DEF Knows
    <3>3. CASE f # g
      BY <1>1, <3>1, <3>3
    <3> QED  BY <3>2, <3>3
  <2>3. CASE Saves(c)
    <3>1. call[c].copy.state = "live" /\ row' = [row EXCEPT ![call[c].folder] = call[c].copy]
      BY <1>1, <2>3 DEF Saves, InOrder, At
    <3>2. CASE f = call[c].folder
      BY <1>1, <3>1, <3>2 DEF Knows
    <3>3. CASE f # call[c].folder
      BY <1>1, <3>1, <3>3
    <3> QED  BY <3>2, <3>3
  <2>4. CASE Deletes(c)
    <3>1. row' = [row EXCEPT ![call[c].folder].state = "deleted"]
      BY <2>4 DEF Deletes
    <3>2. row[f] \in Row
      BY <1>1
    <3> QED  BY <1>1, <3>1, <3>2 DEF Row
  <2>5. CASE Writes(c)
    BY <1>1, <2>5 DEF Writes, Knows
  <2>6. CASE CountsDown(c) \/ CountsUp(c)
    BY <1>1, <2>6 DEF CountsDown, CountsUp, Counted
  <2> QED  BY <2>1, <2>2, <2>3, <2>4, <2>5, <2>6 DEF Effect
<1>3. Inserted \subseteq Inserted'
  BY <1>2 DEF Inserted
<1>4. ASSUME NEW d \in Calls PROVE Knows(call'[d])
  BY DEF Effect, CallEffect, Works, FolderInv, Known
<1>5. Known'
  <2>1. \A f \in Folders : row'[f].parent \in Inserted' \cup {Top}
    BY <1>2, <1>3
  <2>2. \A d \in Calls : Knows(call[d])'
    BY <1>3, <1>4 DEF Knows
  <2> QED  BY <2>1, <2>2 DEF Known
<1> QED  BY <1>3, <1>5

-----------------------------------------------------------------------------
(* Calls that overlap *)

\* Two calls that both run overlap: neither can have seen the other's end.
LEMMA BothRun ==
  ASSUME FolderInv, NEW c \in Calls, NEW d \in Calls, c # d,
         call[c].pc \notin {"idle", "done"}, call[d].pc \notin {"idle", "done"}
  PROVE  Overlap(c, d)
BY DEF Overlap, At, FolderInv, AfterIsOver

\* What a started call is about does not change, but for the walk of a breadcrumb.
LEMMA StartedStays ==
  ASSUME FolderInv, NEW c \in Calls, Effect(c), NEW d \in Calls, ~ At(d, "idle")
  PROVE  /\ call'[d].op = call[d].op /\ call'[d].folder = call[d].folder /\ call'[d].after = call[d].after
         /\ call'[d].below = call[d].below /\ call'[d].pc # "idle"
         /\ call[d].op # "breadcrumb" => call'[d].target = call[d].target
BY DEF Effect, CallEffect, Works, At

LEMMA OverlapStays ==
  ASSUME FolderInv, NEW c \in Calls, Effect(c), NEW d \in Calls, NEW e \in Calls, Overlap(d, e)
  PROVE  Overlap(d, e)'
BY StartedStays DEF Overlap, At

\* A call with an operation has started.
LEMMA Started ==
  ASSUME FolderInv, NEW d \in Calls, call[d].op # "none"
  PROVE  ~ At(d, "idle")
BY InCall DEF InOrder, At

LEMMA ClashStays ==
  ASSUME FolderInv, NEW c \in Calls, Effect(c), Clash
  PROVE  Clash'
<1>1. PICK d, e \in Calls :
        /\ Overlap(d, e)
        /\ \/ /\ call[d].op = "move" /\ call[e].op \in {"move", "delete"}
              /\ call[d].folder = call[e].folder
           \/ call[d].op = "update" /\ call[e].op \in {"create", "move", "delete"}
  BY DEF Clash
<1>2. Overlap(d, e)' /\ ~ At(d, "idle") /\ ~ At(e, "idle")
  BY <1>1, OverlapStays DEF Overlap
<1>3. /\ call'[d].op = call[d].op /\ call'[d].folder = call[d].folder
      /\ call'[e].op = call[e].op /\ call'[e].folder = call[e].folder
  BY <1>2, StartedStays
<1> QED  BY <1>1, <1>2, <1>3 DEF Clash

LEMMA BadMoveStays ==
  ASSUME FolderInv, NEW c \in Calls, Effect(c), BadMove
  PROVE  BadMove'
<1>1. PICK m \in Calls : /\ call[m].op = "move"
                         /\ \/ call[m].below
                            \/ \E d \in Calls : call[d].op \in {"move", "update"} /\ Overlap(m, d)
  BY DEF BadMove
<1>2. call'[m].op = "move" /\ call'[m].below = call[m].below
  BY <1>1, Started, StartedStays
<1>3. CASE call[m].below
  BY <1>2, <1>3 DEF BadMove
<1>4. CASE \E d \in Calls : call[d].op \in {"move", "update"} /\ Overlap(m, d)
  <2>1. PICK d \in Calls : call[d].op \in {"move", "update"} /\ Overlap(m, d)
    BY <1>4
  <2>2. call'[d].op = call[d].op /\ Overlap(m, d)'
    BY <2>1, Started, StartedStays, OverlapStays
  <2> QED  BY <1>2, <2>1, <2>2 DEF BadMove
<1> QED  BY <1>1, <1>3, <1>4

LEMMA ExcuseStays ==
  ASSUME FolderInv, NEW c \in Calls, Effect(c), NEW m \in Calls, ~ At(m, "idle"), Excused(m)
  PROVE  Excused(m)'
<1>1. PICK d \in Calls \ {m} :
        /\ call[d].folder = call[m].folder
        /\ \/ call[d].op = "move" /\ d \notin call[m].after
           \/ call[d].op = "update" /\ Overlap(m, d)
  BY DEF Excused
<1>2. call'[m].folder = call[m].folder /\ call'[m].after = call[m].after
  BY StartedStays
<1>3. call'[d].op = call[d].op /\ call'[d].folder = call[d].folder
  BY <1>1, Started, StartedStays
<1>4. Overlap(m, d) => Overlap(m, d)'
  BY <1>1, OverlapStays
<1> QED  BY <1>1, <1>2, <1>3, <1>4 DEF Excused

\* The folder of a call that is about one is in the table.
LEMMA FolderInserted ==
  ASSUME FolderInv, NEW d \in Calls, call[d].op \in {"update", "delete", "move"}
  PROVE  call[d].folder \in Folders /\ row[call[d].folder].state # "none"
<1>1. call[d].folder \in Folders /\ call[d].folder \in Inserted \cup {Top}
  BY InCall DEF InOrder, Knows
<1> QED  BY <1>1, FolderTreeAssumption DEF Inserted

\* A call that has its write before it has just started, or has just read.
LEMMA BeforeWrite ==
  ASSUME FolderInv, NEW c \in Calls, Effect(c), call'[c].pc \in {"save", "softdelete", "read", "write"}
  PROVE  /\ UNCHANGED row
         /\ \/ /\ call[c].pc = "idle" /\ call'[c].pc \in {"save", "softdelete", "read"}
               /\ call'[c].folder \in Live /\ call'[c].copy = row[call'[c].folder]
            \/ /\ call[c].pc = "read" /\ call'[c].pc = "write" /\ call'[c].copy = call[c].copy
               /\ call'[c].op = call[c].op /\ call'[c].folder = call[c].folder /\ call'[c].target = call[c].target
<1>1. Works(call[c], call'[c]) /\ InOrder(call'[c])
  BY DEF Effect, CallEffect, Works
<1>2. CASE call[c].pc = "idle"
  <2>1. Unwritten(c)
    BY <1>2 DEF Effect, Inserts, Saves, Deletes, Writes, CountsDown, CountsUp, At
  <2> QED  BY <1>1, <1>2, <2>1 DEF Works, Unwritten
<1>3. CASE call[c].pc # "idle"
  <2>1. call[c].pc = "read"
    BY <1>1, <1>3 DEF Works
  <2>2. Unwritten(c)
    BY <2>1 DEF Effect, Inserts, Saves, Deletes, Writes, CountsDown, CountsUp, At
  <2> QED  BY <1>1, <1>3, <2>1, <2>2 DEF Works, Unwritten, InOrder
<1> QED  BY <1>2, <1>3

-----------------------------------------------------------------------------
(* Moves that are not bad keep the folders a forest *)

LEMMA StepTree ==
  ASSUME FolderInv, NEW c \in Calls, Effect(c), ~ BadMove'
  PROVE  TreeHolds'
<1> DEFINE P == Parenthood
           next == Parenthood'
<1>1. ~ BadMove
  BY BadMoveStays
<1>2. /\ Acyclic(P)
      /\ \A m \in Calls : call[m].pc \in {"read", "write"} /\ call[m].target # Top
          => call[m].target # call[m].folder /\ call[m].folder \notin Above(P, call[m].target)
      /\ \A d \in Calls : At(d, "save") => call[d].copy.parent = row[call[d].folder].parent
  BY <1>1 DEF FolderInv, TreeHolds
<1>3. /\ row \in [Folders -> Row] /\ row' \in [Folders -> Row] /\ call[c] \in Call /\ InOrder(call[c]) /\ Knows(call[c])
      /\ \A d \in Calls \ {c} : call'[d] = call[d]
      /\ \A f \in Folders : row[f].parent \in Inserted \cup {Top}
  BY InCall DEF Effect, CallEffect, TypeOK, FolderInv, Known
<1>4. P \in Trees /\ (\A f \in Folders : P[f] = row[f].parent)
      /\ next \in Trees /\ (\A f \in Folders : next[f] = row'[f].parent)
  <2>1. \A f \in Folders : row[f].parent \in Parents /\ row'[f].parent \in Parents
    BY <1>3 DEF Row
  <2> QED  BY <2>1 DEF Parenthood, Trees
<1> HIDE DEF P, next
<1>5. SUFFICES
        /\ Acyclic(next)
        /\ \A m \in Calls : call'[m].pc \in {"read", "write"} /\ call'[m].target # Top
            => call'[m].target # call'[m].folder /\ call'[m].folder \notin Above(next, call'[m].target)
        /\ \A d \in Calls : call'[d].pc = "save" => call'[d].copy.parent = row'[call'[d].folder].parent
  BY DEF TreeHolds, At, next
\* The parents stay as they are.
<1>6. CASE next = P
  <2>1. ASSUME NEW m \in Calls, call'[m].pc \in {"read", "write"}, call'[m].target # Top
        PROVE  call'[m].target # call'[m].folder /\ call'[m].folder \notin Above(next, call'[m].target)
    <3>1. CASE m # c \/ call[c].pc = "read"
      <4>1. call[m].pc \in {"read", "write"} /\ call'[m].target = call[m].target /\ call'[m].folder = call[m].folder
        BY <1>3, <2>1, <3>1, BeforeWrite
      <4> QED  BY <1>2, <1>6, <2>1, <4>1
    <3>2. CASE m = c /\ call[c].pc # "read"
      <4>1. call[c].pc = "idle" /\ call'[c].pc = "read"
        BY <2>1, <3>2, BeforeWrite
      <4>2. /\ call'[c].target \in Live \cup {Top}
            /\ call'[c].below = (call'[c].target \in Subtree(call'[c].folder))
            /\ call'[c].op = "move"
        BY <4>1 DEF Effect, CallEffect, Works, InOrder
      <4>3. ~ call'[c].below
        BY <4>2 DEF BadMove
      <4>4. call'[c].target \in Live /\ call'[c].target \notin Subtree(call'[c].folder)
        BY <2>1, <3>2, <4>2, <4>3
      <4>5. call'[c].target # call'[c].folder /\ call'[c].folder \notin Ancestors(call'[c].target)
        BY <4>4 DEF Subtree
      <4> QED  BY <1>6, <3>2, <4>5 DEF Ancestors, Parenthood, P
    <3> QED  BY <3>1, <3>2
  <2>2. ASSUME NEW d \in Calls, call'[d].pc = "save"
        PROVE  call'[d].copy.parent = row'[call'[d].folder].parent
    <3>1. CASE d # c
      <4>1. call[d].op = "update" /\ call[d].folder \in Folders /\ call'[d] = call[d]
        BY <1>3, <2>2, <3>1, InCall DEF InOrder
      <4> QED  BY <1>2, <1>4, <1>6, <2>2, <4>1 DEF At
    <3>2. CASE d = c
      BY <2>2, <3>2, BeforeWrite
    <3> QED  BY <3>1, <3>2
  <2> QED  BY <1>2, <1>6, <2>1, <2>2
\* A new folder has a parent, and no subfolders.
<1>7. CASE Inserts(c)
  <2>1. PICK g \in Folders : /\ row[g].state = "none" /\ row'[g].parent = call[c].folder
                             /\ \A f \in Folders \ {g} : row'[f] = row[f]
    BY <1>7 DEF Inserts
  <2> DEFINE t == call[c].folder
  <2>2. g \notin Inserted /\ g # Top
    BY <2>1, FolderTreeAssumption DEF Inserted
  <2>3. t \in Parents /\ t # g /\ \A f \in Folders : P[f] # g
    BY <1>3, <1>4, <2>2 DEF Call, Knows
  <2>4. next = [P EXCEPT ![g] = t]
    BY <1>4, <2>1 DEF Trees
  <2> HIDE DEF t
  <2>5. \A x \in Parents : x # g => g \notin Above(P, x) /\ Above(next, x) = Above(P, x)
    <3> SUFFICES ASSUME NEW x \in Parents, x # g
                 PROVE  g \notin Above(P, x) /\ Above(next, x) = Above(P, x)
      OBVIOUS
    <3>1. g \notin Above(P, x) /\ Above([P EXCEPT ![g] = t], x) = Above(P, x)
      BY <1>4, <2>3, LeafIsNowhere
    <3> QED  BY <2>4, <3>1
  <2>6. Acyclic(next)
    BY <1>2, <1>4, <2>3, <2>4, <2>5, MoveIsAcyclic
  <2>7. call'[c].pc \notin {"read", "write", "save"}
    BY <1>7 DEF Effect, CallEffect, Works, Inserts, At
  <2>8. ASSUME NEW m \in Calls, call'[m].pc \in {"read", "write"}, call'[m].target # Top
        PROVE  call'[m].target # call'[m].folder /\ call'[m].folder \notin Above(next, call'[m].target)
    <3>1. call'[m] = call[m] /\ call[m] \in Call /\ Knows(call[m])
      BY <1>3, <2>7, <2>8, InCall
    <3>2. call[m].target \in Parents /\ call[m].target # g
      BY <2>2, <2>8, <3>1 DEF Call, Knows
    <3> QED  BY <1>2, <2>5, <2>8, <3>1, <3>2
  <2>9. ASSUME NEW d \in Calls, call'[d].pc = "save"
        PROVE  call'[d].copy.parent = row'[call'[d].folder].parent
    <3>1. call'[d] = call[d] /\ call[d].op = "update"
      BY <1>3, <2>7, <2>9, InCall DEF InOrder
    <3>2. call[d].folder \in Folders \ {g}
      BY <2>1, <3>1, FolderInserted
    <3> QED  BY <1>2, <2>1, <2>9, <3>1, <3>2 DEF At
  <2> QED  BY <2>6, <2>8, <2>9
\* The move that is written is the only one.
<1>8. CASE Writes(c) /\ call[c].folder \in Live
  <2> DEFINE f == call[c].folder
             t == call[c].target
  <2>1. call[c].pc = "write" /\ call[c].op = "move" /\ f \in Folders /\ t \in Parents
    BY <1>3, <1>8 DEF Writes, At, InOrder, Live, Call
  <2>2. next = [P EXCEPT ![f] = t]
    BY <1>4, <1>8, <2>1 DEF Writes, Trees
  <2>3. t # Top => t # f /\ f \notin Above(P, t)
    BY <1>2, <2>1
  <2> HIDE DEF f, t
  <2>4. Acyclic(next)
    BY <1>2, <1>4, <2>1, <2>2, <2>3, MoveIsAcyclic
  <2>5. ASSUME NEW m \in Calls, call'[m].pc \in {"read", "write", "save"} PROVE FALSE
    <3>1. m # c
      BY <2>1, <2>5, BeforeWrite
    <3>2. call[m].pc \in {"read", "write", "save"} /\ call[m].op \in {"move", "update"}
      BY <1>3, <2>5, <3>1, InCall DEF InOrder
    <3>3. Overlap(c, m)
      BY <2>1, <3>1, <3>2, BothRun
    <3> QED  BY <1>1, <2>1, <3>2, <3>3 DEF BadMove
  <2> QED  BY <2>4, <2>5
<1>9. next = P \/ Inserts(c) \/ (Writes(c) /\ call[c].folder \in Live)
  <2> SUFFICES ASSUME ~ Inserts(c), ~ (Writes(c) /\ call[c].folder \in Live)
               PROVE  \A f \in Folders : row'[f].parent = row[f].parent
    BY <1>4 DEF Trees
  <2>1. CASE Saves(c)
    BY <1>2, <1>3, <2>1 DEF Saves
  <2>2. CASE Deletes(c)
    BY <1>3, <2>2 DEF Deletes, Row
  <2>3. CASE Writes(c)
    BY <2>3 DEF Writes
  <2>4. CASE Unwritten(c) \/ CountsDown(c) \/ CountsUp(c)
    BY <2>4 DEF Unwritten, CountsDown, CountsUp, Counted
  <2> QED  BY <2>1, <2>2, <2>3, <2>4 DEF Effect
<1> QED  BY <1>6, <1>7, <1>8, <1>9

-----------------------------------------------------------------------------
(* Without a clash the counts add up *)

LEMMA StepFresh ==
  ASSUME FolderInv, NEW c \in Calls, Effect(c), ~ Clash'
  PROVE  CopiesFresh'
<1>1. ~ Clash /\ \A d \in Calls : Fresh(d)
  BY ClashStays DEF FolderInv, CopiesFresh
<1>2. /\ row \in [Folders -> Row] /\ row' \in [Folders -> Row] /\ InOrder(call[c])
      /\ \A d \in Calls \ {c} : call'[d] = call[d]
  BY InCall DEF Effect, CallEffect, TypeOK
<1>3. Fresh(c)'
  <2>1. call'[c].pc \in {"save", "softdelete", "read", "write"} => InOrder(call'[c])
    BY DEF Effect, CallEffect, Works
  <2>2. CASE call[c].pc = "idle"
    BY <2>2, BeforeWrite DEF Fresh, At, Live
  <2>3. CASE call[c].pc # "idle"
    <3>1. Fresh(c)
      BY <1>1
    <3> QED  BY <2>3, <3>1, BeforeWrite DEF Fresh, At, Live
  <2> QED  BY <2>2, <2>3
<1>4. ASSUME NEW d \in Calls \ {c} PROVE Fresh(d)'
  <2> SUFFICES ASSUME call[d].pc \in {"save", "softdelete", "read", "write"}
               PROVE  /\ call[d].pc = "save" => row'[call[d].folder] = call[d].copy
                      /\ call[d].pc = "softdelete" => row'[call[d].folder].parent = call[d].copy.parent
                      /\ call[d].pc \in {"read", "write"} => /\ row'[call[d].folder].state = "live"
                                                            /\ row'[call[d].folder].parent = call[d].copy.parent
    <3>1. call'[d] = call[d]
      BY <1>2
    <3>2. call[d].pc \in {"read", "write"} => call[d].folder \in Folders
      BY InCall DEF InOrder
    <3> QED  BY <3>1, <3>2 DEF Fresh, At, Live
  <2>1. /\ call[d].pc = "save" => row[call[d].folder] = call[d].copy /\ call[d].op = "update"
        /\ call[d].pc = "softdelete" => row[call[d].folder].parent = call[d].copy.parent /\ call[d].op = "delete"
        /\ call[d].pc \in {"read", "write"} => /\ row[call[d].folder].state = "live" /\ call[d].op = "move"
                                               /\ row[call[d].folder].parent = call[d].copy.parent
    BY <1>1, InCall DEF Fresh, At, InOrder, Live
  <2>2. call[d].folder \in Folders /\ row[call[d].folder].state # "none"
    BY <2>1, FolderInserted
  <2>3. call[c].pc \notin {"idle", "done"} => Overlap(c, d) /\ Overlap(d, c)
    BY BothRun
  <2>4. CASE Unwritten(c)
    BY <2>1, <2>4 DEF Unwritten
  <2>5. CASE Inserts(c)
    BY <2>1, <2>2, <2>5 DEF Inserts
  <2>6. CASE Saves(c)
    <3>1. row' = row
      <4>1. row[call[c].folder] = call[c].copy
        BY <1>1, <2>6 DEF Saves, Fresh
      <4> QED  BY <1>2, <2>6, <4>1 DEF Saves
    <3> QED  BY <2>1, <3>1
  <2>7. CASE Deletes(c)
    <3>1. call[c].op = "delete" /\ Overlap(d, c) /\ row[call[c].folder] \in Row
      BY <1>2, <2>3, <2>7 DEF Deletes, At, InOrder, Live
    <3>2. call[d].op # "update" /\ (call[d].op = "move" => call[d].folder # call[c].folder)
      BY <1>1, <3>1 DEF Clash
    <3>3. \A f \in Folders : /\ row'[f].parent = row[f].parent
                             /\ f # call[c].folder => row'[f].state = row[f].state
      BY <1>2, <2>7, <3>1 DEF Deletes, Row
    <3> QED  BY <2>1, <2>2, <3>2, <3>3
  <2>8. CASE Writes(c)
    <3>1. call[c].op = "move" /\ Overlap(d, c) /\ Overlap(c, d)
      BY <1>2, <2>3, <2>8 DEF Writes, At, InOrder
    <3>2. call[d].op # "update" /\ (call[d].op \in {"move", "delete"} => call[d].folder # call[c].folder)
      BY <1>1, <3>1 DEF Clash
    <3>3. \A f \in Folders : /\ row'[f].state = row[f].state
                             /\ f # call[c].folder => row'[f].parent = row[f].parent
      BY <2>8 DEF Writes
    <3> QED  BY <2>1, <2>2, <3>2, <3>3
  <2>9. CASE CountsDown(c) \/ CountsUp(c)
    <3>1. call[c].op \in {"create", "move", "delete"} /\ Overlap(d, c)
      BY <1>2, <2>3, <2>9 DEF CountsDown, CountsUp, At, InOrder
    <3>2. call[d].op # "update"
      BY <1>1, <3>1 DEF Clash
    <3>3. \A f \in Folders : row'[f].state = row[f].state /\ row'[f].parent = row[f].parent
      BY <2>9 DEF CountsDown, CountsUp, Counted
    <3> QED  BY <2>1, <2>2, <3>2, <3>3
  <2> QED  BY <2>4, <2>5, <2>6, <2>7, <2>8, <2>9 DEF Effect
<1> QED  BY <1>3, <1>4 DEF CopiesFresh

\* Sets that differ in one element.
Has(S, x) == IF x \in S THEN 1 ELSE 0

LEMMA OneMore ==
  ASSUME NEW S, NEW T, NEW x, IsFiniteSet(S), T \ {x} = S \ {x}
  PROVE  /\ Cardinality(S) \in Nat /\ Cardinality(T) \in Nat
         /\ Cardinality(T) + Has(S, x) = Cardinality(S) + Has(T, x)
<1>1. Cardinality(S) \in Nat
  BY FS_CardinalityType
<1>2. CASE (x \in S) <=> (x \in T)
  <2>1. T = S
    BY <1>2
  <2> QED  BY <1>1, <2>1
<1>3. CASE x \notin S /\ x \in T
  <2>1. T = S \cup {x}
    BY <1>3
  <2>2. Cardinality(T) = Cardinality(S) + 1
    BY <1>3, <2>1, FS_AddElement
  <2> QED  BY <1>1, <1>3, <2>2 DEF Has
<1>4. CASE x \in S /\ x \notin T
  <2>1. T = S \ {x}
    BY <1>4
  <2>2. Cardinality(T) = Cardinality(S) - 1 /\ IsFiniteSet(T)
    BY <1>4, <2>1, FS_RemoveElement
  <2>3. Cardinality(T) \in Nat
    BY <2>2, FS_CardinalityType
  <2> QED  BY <1>1, <1>4, <2>2, <2>3 DEF Has
<1> QED  BY <1>2, <1>3, <1>4

\* The calls that have yet to raise, or to lower, the count of f.
ToRaise(f) == {d \in Calls : f \in call[d].inc}
ToLower(f) == {d \in Calls : f \in call[d].dec}

LEMMA DueFinite ==
  ASSUME FolderInv, NEW f
  PROVE  IsFiniteSet(Children(f)) /\ IsFiniteSet(ToRaise(f)) /\ IsFiniteSet(ToLower(f))
<1>1. Children(f) \subseteq Folders
  BY DEF Children, Live
<1>2. ToRaise(f) \subseteq Busy /\ ToLower(f) \subseteq Busy
  BY InCall DEF ToRaise, ToLower, Busy, InOrder
<1> QED  BY <1>1, <1>2, SizeNat, FS_Subset DEF FolderInv

\* A step of c and of the row h changes the sets that counts are about by c and h.
LEMMA CountBalance ==
  ASSUME FolderInv, NEW c \in Calls, Effect(c), NEW h \in Folders, NEW f \in Folders,
         row[f].count \in Int, row'[f].count \in Int,
         Children(f)' \ {h} = Children(f) \ {h},
         row[f].count + Cardinality(ToRaise(f)) = Cardinality(Children(f)) + Cardinality(ToLower(f)),
         (row'[f].count - row[f].count) + Has(call'[c].inc, f) - Has(call[c].inc, f)
           = Has(Children(f)', h) - Has(Children(f), h) + Has(call'[c].dec, f) - Has(call[c].dec, f)
  PROVE  row'[f].count + Cardinality(ToRaise(f)') = Cardinality(Children(f)') + Cardinality(ToLower(f)')
<1>1. \A d \in Calls \ {c} : call'[d] = call[d]
  BY DEF Effect, CallEffect
<1>2. ToRaise(f)' \ {c} = ToRaise(f) \ {c} /\ ToLower(f)' \ {c} = ToLower(f) \ {c}
  BY <1>1 DEF ToRaise, ToLower
<1>3. /\ Has(ToRaise(f), c) = Has(call[c].inc, f) /\ Has(ToRaise(f)', c) = Has(call'[c].inc, f)
      /\ Has(ToLower(f), c) = Has(call[c].dec, f) /\ Has(ToLower(f)', c) = Has(call'[c].dec, f)
  BY DEF ToRaise, ToLower, Has
<1>4. /\ Cardinality(ToRaise(f)) \in Nat /\ Cardinality(ToRaise(f)') \in Nat
      /\ Cardinality(ToRaise(f)') + Has(call[c].inc, f) = Cardinality(ToRaise(f)) + Has(call'[c].inc, f)
  BY <1>2, <1>3, DueFinite, OneMore
<1>5. /\ Cardinality(ToLower(f)) \in Nat /\ Cardinality(ToLower(f)') \in Nat
      /\ Cardinality(ToLower(f)') + Has(call[c].dec, f) = Cardinality(ToLower(f)) + Has(call'[c].dec, f)
  BY <1>2, <1>3, DueFinite, OneMore
<1>6. /\ Cardinality(Children(f)) \in Nat /\ Cardinality(Children(f)') \in Nat
      /\ Cardinality(Children(f)') + Has(Children(f), h) = Cardinality(Children(f)) + Has(Children(f)', h)
  BY DueFinite, OneMore
<1>7. \A S, x : Has(S, x) \in Int
  BY DEF Has
<1> QED  BY <1>4, <1>5, <1>6, <1>7

LEMMA StepCounts ==
  ASSUME FolderInv, NEW c \in Calls, Effect(c), ~ Clash'
  PROVE  CountsMatch'
<1>1. ~ Clash /\ Fresh(c)
  BY ClashStays DEF FolderInv, CopiesFresh
<1>2. \A f \in Live :
        row[f].count + Cardinality(ToRaise(f)) = Cardinality(Children(f)) + Cardinality(ToLower(f))
  BY <1>1 DEF FolderInv, CountsMatch, ToRaise, ToLower
<1>3. /\ row \in [Folders -> Row] /\ row' \in [Folders -> Row] /\ InOrder(call[c]) /\ Knows(call[c])
      /\ \A d \in Calls \ {c} : call'[d] = call[d]
      /\ \A f \in Folders : row[f].parent \in Inserted \cup {Top}
      /\ \A d \in Calls : Knows(call[d])
      /\ Top \notin Folders
  BY InCall DEF Effect, CallEffect, TypeOK, FolderInv, Known
<1>4. \A f \in Folders : row[f].count \in Int /\ row'[f].count \in Int
  BY <1>3 DEF Row
<1>5. SUFFICES ASSUME NEW f \in Folders, row'[f].state = "live"
               PROVE  row'[f].count + Cardinality(ToRaise(f)') = Cardinality(Children(f)') + Cardinality(ToLower(f)')
  BY DEF CountsMatch, ToRaise, ToLower, Live
<1>6. ASSUME row' = row, SameDue(c)
      PROVE  row'[f].count + Cardinality(ToRaise(f)') = Cardinality(Children(f)') + Cardinality(ToLower(f)')
  <2>1. Children(f)' = Children(f) /\ f \in Live
    BY <1>5, <1>6 DEF Children, Live
  <2>2. \A d \in Calls : call'[d].inc = call[d].inc /\ call'[d].dec = call[d].dec
    BY <1>3, <1>6 DEF SameDue
  <2>3. ToRaise(f)' = ToRaise(f) /\ ToLower(f)' = ToLower(f)
    BY <2>2 DEF ToRaise, ToLower
  <2> QED  BY <1>2, <1>6, <2>1, <2>3
<1>7. CASE Unwritten(c)
  BY <1>6, <1>7 DEF Unwritten
<1>8. CASE Saves(c)
  <2>1. row' = row
    BY <1>1, <1>3, <1>8 DEF Saves, Fresh
  <2> QED  BY <1>6, <1>8, <2>1 DEF Saves
<1>9. CASE Inserts(c)
  <2>1. PICK g \in Folders : /\ row[g].state = "none"
                             /\ row'[g].state = "live" /\ row'[g].parent = call[c].folder /\ row'[g].count = 0
                             /\ \A x \in Folders \ {g} : row'[x] = row[x]
    BY <1>9 DEF Inserts
  <2>2. /\ call[c].inc = {} /\ call[c].dec = {} /\ call'[c].dec = {} /\ call'[c].inc = {call[c].folder} \ {Top}
        /\ call[c].folder \in Inserted \cup {Top}
    BY <1>3, <1>9 DEF Inserts, At, InOrder, Knows
  <2>3. g \notin Inserted /\ g # Top
    BY <1>3, <2>1 DEF Inserted
  <2>4. CASE f = g
    <3>1. Children(f)' = {}
      <4> SUFFICES ASSUME NEW x \in Folders, row'[x].parent = g PROVE FALSE
        BY <2>4 DEF Children, Live
      <4> QED  BY <1>3, <2>1, <2>2, <2>3
    <3>2. \A d \in Calls : g \notin call'[d].inc /\ g \notin call'[d].dec
      BY <1>3, <2>2, <2>3 DEF Knows
    <3>3. ToRaise(f)' = {} /\ ToLower(f)' = {}
      BY <2>4, <3>2 DEF ToRaise, ToLower
    <3>4. row'[f].count = 0
      BY <2>1, <2>4
    <3> QED  BY <3>1, <3>3, <3>4, FS_EmptySet
  <2>5. CASE f # g
    <3>1. row'[f] = row[f] /\ f \in Live
      BY <1>5, <2>1, <2>5 DEF Live
    <3>2. Children(f)' \ {g} = Children(f) \ {g}
      BY <2>1 DEF Children, Live
    <3>3. g \notin Children(f) /\ (g \in Children(f)' <=> call[c].folder = f)
      BY <2>1 DEF Children, Live
    <3>4. f \in call'[c].inc <=> call[c].folder = f
      BY <1>3, <2>2
    <3>5. (row'[f].count - row[f].count) + Has(call'[c].inc, f) - Has(call[c].inc, f)
            = Has(Children(f)', g) - Has(Children(f), g) + Has(call'[c].dec, f) - Has(call[c].dec, f)
      BY <1>4, <2>2, <3>1, <3>3, <3>4 DEF Has
    <3> QED  BY <1>2, <1>4, <3>1, <3>2, <3>5, CountBalance
  <2> QED  BY <2>4, <2>5
<1>10. CASE Deletes(c)
  <2> DEFINE h == call[c].folder
             q == call[c].copy.parent
  <2>1. /\ h \in Folders /\ row[h].state = "live" /\ row[h].parent = q
        /\ call[c].inc = {} /\ call[c].dec = {} /\ call'[c].inc = {} /\ call'[c].dec = {q} \ {Top}
    BY <1>1, <1>3, <1>10 DEF Deletes, Fresh, At, InOrder, Live
  <2>2. row'[h].state = "deleted" /\ \A x \in Folders \ {h} : row'[x] = row[x]
    BY <1>3, <1>10, <2>1 DEF Deletes, Row
  <2> HIDE DEF h, q
  <2>3. f # h /\ row'[f] = row[f] /\ f \in Live
    BY <1>5, <2>1, <2>2 DEF Live
  <2>4. Children(f)' \ {h} = Children(f) \ {h}
    BY <2>2 DEF Children, Live
  <2>5. h \notin Children(f)' /\ (h \in Children(f) <=> q = f)
    BY <2>1, <2>2 DEF Children, Live
  <2>6. f \in call'[c].dec <=> q = f
    BY <1>3, <2>1
  <2>7. (row'[f].count - row[f].count) + Has(call'[c].inc, f) - Has(call[c].inc, f)
          = Has(Children(f)', h) - Has(Children(f), h) + Has(call'[c].dec, f) - Has(call[c].dec, f)
    BY <1>4, <2>1, <2>3, <2>5, <2>6 DEF Has
  <2> QED  BY <1>2, <1>4, <2>1, <2>3, <2>4, <2>7, CountBalance
<1>11. CASE Writes(c)
  <2> DEFINE h == call[c].folder
             q == call[c].copy.parent
             t == call[c].target
  <2>1. /\ h \in Folders /\ h \in Live /\ row[h].parent = q /\ call[c].inc = {} /\ call[c].dec = {}
        /\ call'[c].inc = {t} \ {Top} /\ call'[c].dec = {q} \ {Top}
    BY <1>1, <1>3, <1>11 DEF Writes, Fresh, At, InOrder, Live
  <2>2. /\ \A x \in Folders : row'[x].state = row[x].state /\ row'[x].count = row[x].count
        /\ row'[h].parent = t /\ \A x \in Folders \ {h} : row'[x].parent = row[x].parent
    BY <1>11, <2>1 DEF Writes
  <2> HIDE DEF h, q, t
  <2>3. row'[f].count = row[f].count /\ f \in Live
    BY <1>5, <2>2 DEF Live
  <2>4. Children(f)' \ {h} = Children(f) \ {h}
    BY <2>2 DEF Children, Live
  <2>5. (h \in Children(f)' <=> t = f) /\ (h \in Children(f) <=> q = f)
    BY <2>1, <2>2 DEF Children, Live
  <2>6. (f \in call'[c].dec <=> q = f) /\ (f \in call'[c].inc <=> t = f)
    BY <1>3, <2>1
  <2>7. (row'[f].count - row[f].count) + Has(call'[c].inc, f) - Has(call[c].inc, f)
          = Has(Children(f)', h) - Has(Children(f), h) + Has(call'[c].dec, f) - Has(call[c].dec, f)
    BY <1>4, <2>1, <2>3, <2>5, <2>6 DEF Has
  <2> QED  BY <1>2, <1>4, <2>1, <2>3, <2>4, <2>7, CountBalance
<1>12. ASSUME NEW fs, NEW delta \in Int, Counted(fs, delta),
              delta * Has(fs, f) + Has(call'[c].inc, f) - Has(call[c].inc, f)
                = Has(call'[c].dec, f) - Has(call[c].dec, f)
       PROVE  row'[f].count + Cardinality(ToRaise(f)') = Cardinality(Children(f)') + Cardinality(ToLower(f)')
  <2>1. f \in Live /\ row'[f].count = row[f].count + IF f \in fs THEN delta ELSE 0
    BY <1>5, <1>12 DEF Counted, Live
  <2>2. Children(f)' = Children(f)
    BY <1>12 DEF Children, Live, Counted
  <2>3. row'[f].count - row[f].count = delta * Has(fs, f)
    BY <1>4, <2>1 DEF Has
  <2>4. (row'[f].count - row[f].count) + Has(call'[c].inc, f) - Has(call[c].inc, f)
          = Has(Children(f)', f) - Has(Children(f), f) + Has(call'[c].dec, f) - Has(call[c].dec, f)
    <3>1. \A S, x : Has(S, x) \in Int
      BY DEF Has
    <3> QED  BY <1>4, <1>12, <2>2, <2>3, <3>1
  <2> QED  BY <1>2, <1>4, <2>1, <2>2, <2>4, CountBalance
<1>13. CASE CountsDown(c)
  <2>1. /\ (-1) * Has(call[c].dec, f) + Has(call'[c].inc, f) - Has(call[c].inc, f)
             = Has(call'[c].dec, f) - Has(call[c].dec, f)
    BY <1>13 DEF CountsDown, Has
  <2>2. -1 \in Int
    OBVIOUS
  <2>3. Counted(call[c].dec, -1)
    BY <1>13 DEF CountsDown
  <2> QED  BY <1>12, <2>1, <2>2, <2>3
<1>14. CASE CountsUp(c)
  <2>1. /\ 1 * Has(call[c].inc, f) + Has(call'[c].inc, f) - Has(call[c].inc, f)
             = Has(call'[c].dec, f) - Has(call[c].dec, f)
    BY <1>14 DEF CountsUp, Has
  <2>2. Counted(call[c].inc, 1)
    BY <1>14 DEF CountsUp
  <2> QED  BY <1>12, <2>1, <2>2
<1> QED  BY <1>7, <1>8, <1>9, <1>10, <1>11, <1>13, <1>14 DEF Effect

-----------------------------------------------------------------------------
(* Moves hold *)

LEMMA StepMoves ==
  ASSUME FolderInv, NEW c \in Calls, Effect(c), AfterIsOver'
  PROVE  MovesKept'
<1>1. /\ row \in [Folders -> Row] /\ InOrder(call[c])
      /\ \A d \in Calls \ {c} : call'[d] = call[d]
      /\ \A d \in Calls : InOrder(call[d]) /\ InOrder(call'[d])
  BY InCall DEF Effect, CallEffect, Works, FolderInv, CallsInOrder
<1>2. SUFFICES ASSUME NEW m \in Calls, Settled(m)', ~ Excused(m)'
      PROVE  /\ call'[m].folder \in Live' => row'[call'[m].folder].parent = call'[m].target
             /\ \A d \in Calls : call'[d].pc = "save" /\ call'[d].folder = call'[m].folder /\ m \in call'[d].after
                  => call'[d].copy.parent = call'[m].target
  BY DEF MovesKept, At
<1>3. ~ At(m, "idle") /\ call[m].op = "move"
  <2>1. call'[m].op = "move" /\ (call'[m].pc \in {"dec", "inc"} \/ call'[m].reply = "ok")
    BY <1>2 DEF Settled
  <2>2. call'[m].pc \in {"dec", "inc", "done"}
    BY <1>1, <2>1 DEF InOrder
  <2>3. call[m].pc # "idle"
    <3>1. m # c => call'[m] = call[m]
      BY <1>1
    <3>2. m = c => call[m].pc # "idle"
      BY <2>2 DEF Effect, CallEffect, Works
    <3> QED  BY <2>2, <3>1, <3>2
  <2> QED  BY <2>1, <2>3, StartedStays DEF At
<1> DEFINE f == call[m].folder
           t == call[m].target
<1>4. call'[m].folder = f /\ call'[m].target = t /\ call'[m].after = call[m].after /\ call'[m].op = "move"
  BY <1>3, StartedStays
<1>5. f \in Folders /\ row[f].state # "none"
  BY <1>3, FolderInserted
<1>6. ~ Excused(m)
  BY <1>2, <1>3, ExcuseStays
<1>7. \A d \in Calls : d \in call[m].after => call[d].pc = "done"
  BY DEF FolderInv, AfterIsOver, At
\* The move is written just now.
<1>8. CASE ~ Settled(m)
  <2>1. m = c
    BY <1>1, <1>2, <1>8 DEF Settled
  <2>2. Writes(c)
    <3>1. call[c].pc \notin {"dec", "inc", "insert", "save", "softdelete"}
      BY <1>1, <1>3, <1>8, <2>1 DEF Settled, InOrder
    <3> QED  BY <1>2, <1>8, <2>1, <3>1
               DEF Effect, Unwritten, Inserts, Saves, Deletes, CountsDown, CountsUp, At
  <2>3. f \in Live' => row'[f].parent = t
    BY <1>5, <2>1, <2>2 DEF Writes, Live
  <2>4. ASSUME NEW d \in Calls, call'[d].pc = "save", c \in call'[d].after PROVE FALSE
    <3>1. d # c
      BY <1>1, <1>4, <2>1, <2>4 DEF InOrder
    <3>2. call[c].pc = "done"
      BY <1>1, <2>4, <3>1 DEF FolderInv, AfterIsOver, At
    <3> QED  BY <2>2, <3>2 DEF Writes, At
  <2> QED  BY <1>4, <2>1, <2>3, <2>4
\* It was written before.
<1>9. CASE Settled(m)
  <2>1. /\ f \in Live => row[f].parent = t
        /\ \A d \in Calls : call[d].pc = "save" /\ call[d].folder = f /\ m \in call[d].after
             => call[d].copy.parent = t
    BY <1>6, <1>9 DEF FolderInv, MovesKept, At
  <2>2. call[m].pc \in {"dec", "inc", "done"}
    BY <1>1, <1>9 DEF Settled, InOrder
  <2>3. f \in Live' => row'[f].parent = t
    <3>1. CASE Unwritten(c)
      BY <2>1, <3>1 DEF Unwritten, Live
    <3>2. CASE Inserts(c)
      BY <1>5, <2>1, <3>2 DEF Inserts, Live
    <3>3. CASE Saves(c) /\ call[c].folder = f
      <4>1. call[c].pc = "save" /\ call[c].op = "update" /\ c # m
        BY <1>1, <2>2, <3>3 DEF Saves, At, InOrder
      <4>2. ~ Overlap(m, c)
        BY <1>6, <3>3, <4>1 DEF Excused
      <4>3. m \in call[c].after
        BY <1>3, <1>7, <4>1, <4>2 DEF Overlap, At
      <4>4. call[c].copy.parent = t
        BY <2>1, <3>3, <4>1, <4>3
      <4> QED  BY <1>1, <1>5, <3>3, <4>4 DEF Saves
    <3>4. CASE Saves(c) /\ call[c].folder # f
      BY <1>1, <1>5, <2>1, <3>4 DEF Saves, Live
    <3>5. CASE Deletes(c)
      <4>1. row[call[c].folder] \in Row /\ row[f] \in Row
        BY <1>1, <1>5, <3>5 DEF Deletes, Live
      <4>2. CASE call[c].folder = f
        BY <1>1, <3>5, <4>1, <4>2 DEF Deletes, Live, Row
      <4>3. CASE call[c].folder # f
        BY <1>1, <1>5, <2>1, <3>5, <4>3 DEF Deletes, Live
      <4> QED  BY <4>2, <4>3
    <3>6. CASE Writes(c)
      <4>1. call[c].pc = "write" /\ call[c].op = "move" /\ c # m
        BY <1>1, <2>2, <3>6 DEF Writes, At, InOrder
      <4>2. call[c].folder # f
        BY <1>6, <1>7, <4>1 DEF Excused
      <4> QED  BY <1>5, <2>1, <3>6, <4>2 DEF Writes, Live
    <3>7. CASE CountsDown(c) \/ CountsUp(c)
      BY <1>5, <2>1, <3>7 DEF CountsDown, CountsUp, Counted, Live
    <3> QED  BY <3>1, <3>2, <3>3, <3>4, <3>5, <3>6, <3>7 DEF Effect
  <2>4. ASSUME NEW d \in Calls, call'[d].pc = "save", call'[d].folder = f, m \in call'[d].after
        PROVE  call'[d].copy.parent = t
    <3>1. CASE d # c
      BY <1>1, <2>1, <2>4, <3>1
    <3>2. CASE d = c
      BY <2>1, <2>4, <3>2, BeforeWrite
    <3> QED  BY <3>1, <3>2
  <2> QED  BY <1>4, <2>3, <2>4
<1> QED  BY <1>8, <1>9

-----------------------------------------------------------------------------
(* The theorems *)

LEMMA NextFolders == FolderInv /\ [Next]_vars => FolderInv'
<1> SUFFICES ASSUME FolderInv, [Next]_vars PROVE FolderInv'
  OBVIOUS
<1>1. CASE UNCHANGED vars
  <2>1. row' = row /\ call' = call
    BY <1>1 DEF vars
  <2>2. TypeOK' = TypeOK /\ CallsInOrder' = CallsInOrder /\ AfterIsOver' = AfterIsOver
    BY <2>1 DEF TypeOK, CallsInOrder, InOrder, AfterIsOver, At
  <2>3. Inserted' = Inserted /\ Parenthood' = Parenthood /\ Busy' = Busy /\ Live' = Live
    BY <2>1 DEF Inserted, Parenthood, Busy, Live
  <2>4. Known' = Known
    BY <2>1, <2>3 DEF Known, Knows
  <2>5. \A c, d : Overlap(c, d)' = Overlap(c, d)
    BY <2>1 DEF Overlap, At
  <2>6. BadMove' = BadMove /\ Clash' = Clash
    BY <2>1, <2>5 DEF BadMove, Clash
  <2>7. TreeHolds' = TreeHolds
    BY <2>1, <2>3, <2>6 DEF TreeHolds, At
  <2>8. CopiesFresh' = CopiesFresh
    BY <2>1, <2>3, <2>6 DEF CopiesFresh, Fresh, At
  <2>9. \A f : Children(f)' = Children(f)
    BY <2>1, <2>3 DEF Children
  <2>10. CountsMatch' = CountsMatch
    BY <2>1, <2>3, <2>6, <2>9 DEF CountsMatch
  <2>11. MovesKept' = MovesKept
    BY <2>1, <2>3, <2>5 DEF MovesKept, Settled, Excused, At
  <2> QED  BY <2>2, <2>3, <2>4, <2>7, <2>8, <2>10, <2>11 DEF FolderInv
<1>2. ASSUME NEW c \in Calls, Request(c) \/ Continue(c) PROVE FolderInv'
  <2>1. Effect(c) /\ TypeOK'
    BY <1>2, StepEffect DEF Effect
  <2>2. CallsInOrder' /\ AfterIsOver' /\ IsFiniteSet(Busy') /\ Known'
    BY <2>1, StepCalls, StepKnown
  <2>3. TreeHolds'
    <3>1. BadMove' => TreeHolds'
      BY DEF TreeHolds
    <3> QED  BY <2>1, <3>1, StepTree
  <2>4. CopiesFresh' /\ CountsMatch'
    <3>1. Clash' => CopiesFresh' /\ CountsMatch'
      BY DEF CopiesFresh, CountsMatch
    <3> QED  BY <2>1, <3>1, StepFresh, StepCounts
  <2>5. MovesKept'
    BY <2>1, <2>2, StepMoves
  <2> QED  BY <2>1, <2>2, <2>3, <2>4, <2>5 DEF FolderInv
<1> QED  BY <1>1, <1>2 DEF Next

\* The inductive invariant of the folders holds in every state, for every
\* number of folders and calls and for every forest at the start.
THEOREM FoldersCorrect == Spec => []FolderInv
BY InitFolders, NextFolders, PTL DEF Spec

\* Rows and calls keep their types: no path, copied or replaced, ever holds
\* anything but ids of folders.
THEOREM TypeCorrect == Spec => []TypeOK
<1>1. FolderInv => TypeOK
  BY DEF FolderInv
<1> QED  BY <1>1, FoldersCorrect, PTL

\* The count of subfolders that Create, Delete and Move keep in the parent's row
\* is right but for the updates still due, while no two calls clash.
THEOREM CountsHold == Spec => []CountsMatch
<1>1. FolderInv => CountsMatch
  BY DEF FolderInv
<1> QED  BY <1>1, FoldersCorrect, PTL

\* A folder stays where an acknowledged Move has put it, until another Move or
\* an overlapping Save.
THEOREM MovesHold == Spec => []MoveHolds
<1>1. FolderInv => MoveHolds
  BY DEF FolderInv, MovesKept, Settled, Excused, MoveHolds
<1> QED  BY <1>1, FoldersCorrect, PTL

\* Folders form a cycle only after a Move into the folder's own subtree, which
\* Move does not refuse, or after a Move that overlapped a Move or a Save.
THEOREM CyclesNeedBadMoves == Spec => []CycleNeedsBadMove
<1>1. FolderInv => CycleNeedsBadMove
  <2>1. ASSUME FolderInv, Cycle PROVE BadMove
    <3>1. PICK f \in Live : f \in Above(Parenthood, f)
      BY <2>1 DEF Cycle, Ancestors, Parenthood
    <3>2. ~ Acyclic(Parenthood)
      BY <3>1 DEF Acyclic, Live
    <3> QED  BY <2>1, <3>2 DEF FolderInv, TreeHolds
  <2> QED  BY <2>1 DEF CycleNeedsBadMove, BadMove
<1> QED  BY <1>1, FoldersCorrect, PTL

=============================================================================
