--------------------------- MODULE Catalog_proofs ---------------------------
(***************************************************************************)
(* Proofs about Catalog, for any workspaces, clients and walkers, any      *)
(* names and any size of a page.                                           *)
(*                                                                         *)
(* Names stay unique because of what an insertion that is not committed    *)
(* yet keeps others from doing (HeldInv), patches keep each other's fields *)
(* because of what a copy still knows (CopyInv), and a list misses nothing *)
(* because a row keeps its place or moves back by whole places as others   *)
(* come (WalkInv).                                                         *)
(***************************************************************************)
EXTENDS Catalog, FiniteSetTheorems, TLAPS

(***************************************************************************)
(* Ranks of numbers.                                                       *)
(***************************************************************************)

\* A set of numbers that is not empty has a least one.
LEMMA LeastNumber ==
  ASSUME NEW T \in SUBSET Nat, T # {}
  PROVE  \E x \in T : \A y \in T : x <= y
<1> DEFINE Segments == {0..x : x \in T}
<1>1. Segments \subseteq FiniteSubsetsOf(Nat) /\ Segments # {}
  <2>1. ASSUME NEW x \in T PROVE 0..x \in FiniteSubsetsOf(Nat)
    <3>1. x \in Int /\ 0 \in Int
      OBVIOUS
    <3>2. IsFiniteSet(0..x)
      BY <3>1, FS_Interval
    <3> QED
      BY <3>2 DEF FiniteSubsetsOf
  <2> QED
    BY <2>1
<1>2. PICK S \in Segments : \A U \in Segments : ~(<<U, S>> \in StrictSubsetOrdering(Nat))
  <2> HIDE DEF Segments
  <2> QED
    BY <1>1, FS_StrictSubsetOrderingWellFounded, WFMin
<1>3. PICK x \in T : S = 0..x
  BY <1>2
<1>4. ASSUME NEW y \in T, y < x PROVE FALSE
  <2>1. 0..y \in Segments /\ 0..y \subseteq 0..x /\ x \in 0..x /\ x \notin 0..y
    BY <1>4
  <2>2. <<0..y, 0..x>> \in StrictSubsetOrdering(Nat)
    BY <2>1 DEF StrictSubsetOrdering
  <2> QED
    BY <2>1, <2>2, <1>2, <1>3
<1> QED
  BY <1>4

\* The elements of a set of numbers that are less than n.
Below(N, n) == {m \in N : m < n}
Rank(N, n) == Cardinality(Below(N, n))

\* Ranks are numbers, and strictly monotone.
LEMMA RanksAreOrdered ==
  ASSUME NEW N \in SUBSET Nat, IsFiniteSet(N)
  PROVE  /\ \A n \in Nat : Rank(N, n) \in Nat
         /\ \A m \in N, n \in Nat : m < n => Rank(N, m) < Rank(N, n)
<1>1. ASSUME NEW n \in Nat
      PROVE  IsFiniteSet(Below(N, n)) /\ Rank(N, n) \in Nat
  <2>1. Below(N, n) \in SUBSET N
    BY DEF Below
  <2> QED
    BY <2>1, FS_Subset, FS_CardinalityType DEF Rank
<1>2. ASSUME NEW m \in N, NEW n \in Nat, m < n PROVE Rank(N, m) < Rank(N, n)
  <2>1. m \in Below(N, n) /\ m \notin Below(N, m)
    BY <1>2 DEF Below
  <2>3. Below(N, m) \in SUBSET Below(N, n)
    <3>1. \A x \in N : x < m => x < n
      BY <1>2
    <3> QED
      BY <3>1 DEF Below
  <2>2. Rank(N, m) <= Rank(N, n) /\ Rank(N, m) # Rank(N, n)
    BY <2>1, <2>3, <1>1, FS_Subset DEF Rank
  <2> QED
    BY <2>2, <1>1
<1> QED
  BY <1>1, <1>2

\* At most k elements have a rank below k.
LEMMA FewAreBelow ==
  ASSUME NEW N \in SUBSET Nat, IsFiniteSet(N), NEW k \in Nat
  PROVE  Cardinality({n \in N : Rank(N, n) < k}) <= k
<1> DEFINE A == {n \in N : Rank(N, n) < k}
<1>1. IsFiniteSet(A)
  BY FS_Subset, A \in SUBSET N
<1>2. CASE A = {}
  BY <1>2, FS_EmptySet
<1>3. CASE A # {}
  <2> DEFINE Rest == {k - Rank(N, n) : n \in A}
  <2>1. Rest \in SUBSET Nat /\ Rest # {}
    <3>1. \A n \in A : Rank(N, n) \in Nat /\ Rank(N, n) < k
      BY RanksAreOrdered
    <3>2. \A n \in A : k - Rank(N, n) \in Nat
      BY <3>1
    <3> QED
      BY <1>3, <3>2
  <2>2. PICK n \in A : \A m \in A : Rank(N, m) <= Rank(N, n)
    <3>1. PICK x \in Rest : \A y \in Rest : x <= y
      <4> HIDE DEF Rest
      <4> QED
        BY <2>1, LeastNumber
    <3>2. PICK n \in A : x = k - Rank(N, n)
      BY <3>1
    <3>3. ASSUME NEW m \in A PROVE Rank(N, m) <= Rank(N, n)
      <4>1. x <= k - Rank(N, m)
        BY <3>1
      <4>2. Rank(N, m) \in Nat /\ Rank(N, n) \in Nat
        BY RanksAreOrdered
      <4> HIDE DEF A
      <4> QED
        BY <4>1, <4>2, <3>2
    <3> QED
      BY <3>3
  <2>3. A \in SUBSET (Below(N, n) \cup {n})
    <3>1. ASSUME NEW m \in A PROVE ~(n < m)
      BY <2>2, RanksAreOrdered
    <3>2. \A m \in A : m = n \/ m < n
      BY <3>1
    <3> HIDE DEF A
    <3>3. \A m \in A : m \in N
      BY DEF A
    <3> QED
      BY <3>2, <3>3 DEF Below
  <2>4. IsFiniteSet(Below(N, n))
    BY FS_Subset, Below(N, n) \in SUBSET N DEF Below
  <2>5. n \notin Below(N, n)
    BY DEF Below
  <2> HIDE DEF A
  <2>6. Cardinality(Below(N, n) \cup {n}) = Rank(N, n) + 1 /\ IsFiniteSet(Below(N, n) \cup {n})
    BY <2>4, <2>5, FS_AddElement DEF Rank
  <2>7. Cardinality(A) <= Rank(N, n) + 1
    BY <2>3, <2>6, FS_Subset
  <2>8. Rank(N, n) < k /\ Rank(N, n) \in Nat
    BY <2>2, RanksAreOrdered DEF A
  <2> QED
    BY <2>7, <2>8, <1>1, FS_CardinalityType DEF A
<1> QED
  BY <1>2, <1>3

\* If some element has rank k or more, then k elements or more have a lesser one.
LEMMA ManyAreBelow ==
  ASSUME NEW N \in SUBSET Nat, IsFiniteSet(N), NEW k \in Nat, NEW y \in N, Rank(N, y) >= k
  PROVE  Cardinality({n \in N : Rank(N, n) < k}) >= k
<1> DEFINE A == {n \in N : Rank(N, n) < k}
           T == {n \in N : Rank(N, n) >= k}
<1>1. PICK x \in T : \A n \in T : x <= n
  <2>1. T \in SUBSET Nat /\ T # {}
    OBVIOUS
  <2> HIDE DEF T
  <2> QED
    BY <2>1, LeastNumber
<1>2. Below(N, x) \in SUBSET A
  <2>1. ASSUME NEW m \in N, m < x PROVE Rank(N, m) < k
    <3>1. m \notin T
      BY <1>1, <2>1
    <3>2. Rank(N, m) \in Nat
      BY RanksAreOrdered
    <3> QED
      BY <3>1, <3>2
  <2> QED
    BY <2>1 DEF Below
<1>3. IsFiniteSet(A)
  BY FS_Subset, A \in SUBSET N
<1>4. Rank(N, x) >= k /\ Rank(N, x) \in Nat
  BY RanksAreOrdered
<1> HIDE DEF A, T
<1>5. Rank(N, x) <= Cardinality(A) /\ Cardinality(A) \in Nat
  BY <1>2, <1>3, FS_Subset, FS_CardinalityType DEF Rank
<1> QED
  BY <1>4, <1>5 DEF A

\* A page that is not full is the last one: there is no element after it, and those
\* before it and on it are all.
LEMMA LastPage ==
  ASSUME NEW N \in SUBSET Nat, IsFiniteSet(N), NEW offset \in Nat, NEW limit \in Nat,
         NEW P, P = {n \in N : offset <= Rank(N, n) /\ Rank(N, n) < offset + limit},
         Cardinality(P) < limit
  PROVE  /\ \A n \in N : Rank(N, n) < offset + limit
         /\ Cardinality(N) <= offset + Cardinality(P)
<1> DEFINE A(k) == {n \in N : Rank(N, n) < k}
<1>1. \A k \in Nat : IsFiniteSet(A(k)) /\ Cardinality(A(k)) \in Nat
  <2>1. \A k \in Nat : A(k) \in SUBSET N
    OBVIOUS
  <2> QED
    BY <2>1, FS_Subset, FS_CardinalityType
<1>2. P = A(offset + limit) \ A(offset) /\ A(offset) \in SUBSET A(offset + limit)
  <2>1. \A n \in N : Rank(N, n) \in Nat
    BY RanksAreOrdered
  <2>2. \A n \in N : Rank(N, n) < offset => Rank(N, n) < offset + limit
    BY <2>1
  <2>3. \A n \in N : offset <= Rank(N, n) <=> ~(Rank(N, n) < offset)
    BY <2>1
  <2> QED
    BY <2>2, <2>3
<1>3. Cardinality(A(offset)) <= offset
  BY FewAreBelow
<1> HIDE DEF A
<1>4. Cardinality(P) = Cardinality(A(offset + limit)) - Cardinality(A(offset))
  <2>1. A(offset + limit) \cap A(offset) = A(offset)
    BY <1>2
  <2>2. IsFiniteSet(A(offset + limit))
    BY <1>1
  <2> QED
    BY <1>2, <2>1, <2>2, FS_Difference
<1>5. Cardinality(A(offset)) \in Nat /\ Cardinality(A(offset + limit)) \in Nat
  BY <1>1
<1>6. Cardinality(A(offset + limit)) < offset + limit
  BY <1>3, <1>4, <1>5
<1>7. ASSUME NEW n \in N PROVE Rank(N, n) < offset + limit
  <2>1. Rank(N, n) \in Nat
    BY RanksAreOrdered
  <2>2. CASE Rank(N, n) >= offset + limit
    <3>1. Cardinality(A(offset + limit)) >= offset + limit
      BY <2>2, ManyAreBelow DEF A
    <3> QED
      BY <3>1, <1>5, <1>6
  <2> QED
    BY <2>1, <2>2
<1>8. A(offset + limit) = N
  BY <1>7 DEF A
<1> QED
  BY <1>3, <1>4, <1>5, <1>7, <1>8

-----------------------------------------------------------------------------
(***************************************************************************)
(* Pages.  Ranks are of names, which a patch does not change and no two    *)
(* rows of a listing share; the model counts rows.                         *)
(***************************************************************************)

NamesOf(S) == {r.name : r \in S}

\* The place of a row in a listing.
Place(S, r) == Rank(NamesOf(S), r.name)

NamesDiffer(S) == \A q, r \in S : q.name = r.name => q = r

\* There are as many names as rows.
LEMMA NamesCount ==
  ASSUME NEW S, IsFiniteSet(S), NamesDiffer(S), NEW T \in SUBSET S
  PROVE  IsFiniteSet(NamesOf(T)) /\ Cardinality(NamesOf(T)) = Cardinality(T)
<1> DEFINE f == [r \in T |-> r.name]
<1>1. f \in Bijection(T, NamesOf(T))
  BY DEF NamesDiffer, NamesOf, Bijection, Injection, IsInjective, Surjection
<1>2. ExistsBijection(T, NamesOf(T))
  BY <1>1 DEF ExistsBijection
<1>3. IsFiniteSet(T)
  BY FS_Subset
<1> QED
  BY <1>2, <1>3, FS_Bijection

\* The page is what has its place on it; one that is not full is the last one.
LEMMA Pages ==
  ASSUME NEW S \in SUBSET Row, IsFiniteSet(S), NamesDiffer(S), NEW offset \in Nat
  PROVE  /\ \A r \in S : Place(S, r) \in Nat
         /\ \A r \in S : r \in Page(S, offset)
                <=> offset <= Place(S, r) /\ Place(S, r) < offset + Limit
         /\ Cardinality(Page(S, offset)) < Limit =>
                /\ \A r \in S : Place(S, r) < offset + Limit
                /\ Cardinality(S) <= offset + Cardinality(Page(S, offset))
<1> DEFINE N == NamesOf(S)
           P == {n \in N : offset <= Rank(N, n) /\ Rank(N, n) < offset + Limit}
<1>1. N \in SUBSET Nat /\ \A r \in S : r.name \in N
  BY NamesAreOrdered DEF NamesOf, Row
<1>2. IsFiniteSet(N) /\ Cardinality(N) = Cardinality(S)
  BY NamesCount
<1>3. \A r \in S : Place(S, r) \in Nat
  BY <1>1, <1>2, RanksAreOrdered DEF Place
<1>4. ASSUME NEW r \in S PROVE Cardinality({q \in S : q.name < r.name}) = Place(S, r)
  <2>1. Below(N, r.name) = NamesOf({q \in S : q.name < r.name})
    BY DEF Below, NamesOf
  <2>2. Cardinality(NamesOf({q \in S : q.name < r.name})) = Cardinality({q \in S : q.name < r.name})
    <3>1. {q \in S : q.name < r.name} \in SUBSET S
      OBVIOUS
    <3> QED
      BY <3>1, NamesCount
  <2> QED
    BY <2>1, <2>2 DEF Place, Rank
<1>5. Page(S, offset) = {r \in S : offset <= Place(S, r) /\ Place(S, r) < offset + Limit}
  BY <1>4 DEF Page
<1>6. NamesOf(Page(S, offset)) = P
  BY <1>5 DEF Place, NamesOf
<1>7. Cardinality(Page(S, offset)) = Cardinality(P)
  <2>1. Page(S, offset) \in SUBSET S
    BY <1>5
  <2> QED
    BY <2>1, <1>6, NamesCount
<1>8. ASSUME Cardinality(P) < Limit
      PROVE  /\ \A n \in N : Rank(N, n) < offset + Limit
             /\ Cardinality(N) <= offset + Cardinality(P)
  <2>1. Limit \in Nat
    BY PagesHaveRows
  <2> HIDE DEF N
  <2> QED
    BY <2>1, <1>1, <1>2, <1>8, LastPage
<1> QED
  BY <1>1, <1>2, <1>3, <1>5, <1>7, <1>8 DEF Place

-----------------------------------------------------------------------------
\* The tables hold workspaces under their own ids, applications and directories
\* under a client's or an old one; no row has the id of one that was deleted; and
\* only a client that is done has left a row.
Placed(r) ==
    /\ r.kind = "workspaces" <=> r.id \in Homes
    /\ r.kind = "workspaces" => r.home = r.id

RowsInv ==
    /\ IsFiniteSet(rows)
    /\ \A r \in rows \cup gone : Placed(r)
    /\ \A q \in rows, r \in gone : q.id # r.id
    /\ \A r \in rows \cup gone, c \in Clients : r.id = c => pc[c] = "over"

\* An inserted row that is not yet committed can be: its id is new, its name is not
\* taken, and its workspace is there.
HeldInv ==
    /\ \A c \in Clients : held[c] # None <=> pc[c] = "inserted"
    /\ \A c \in Clients : held[c] # None =>
        /\ Placed(held[c])
        /\ held[c].kind \in Listed => held[c].id = c /\ Exists(held[c].home)
        /\ \A r \in rows \cup gone : r.id # held[c].id
        /\ \A r \in rows : ~SameName(r, held[c])
        /\ \A d \in Clients \ {c} : held[d] # None =>
                held[d].id # held[c].id /\ ~SameName(held[d], held[c])

\* What a client has read of its workspace still names it, if it is there; what a
\* client patches is as it was read.
CopyInv(c) ==
    /\ pc[c] = "entered" =>
        /\ copy[c] \in Row
        /\ home[c] \in Homes
        /\ copy[c].kind = "workspaces" /\ copy[c].id = home[c] /\ copy[c].home = home[c]
        /\ \E r \in rows \cup gone : r.id = copy[c].id
        /\ \A r \in rows : r.id = copy[c].id => r.name = copy[c].name
    /\ pc[c] = "patching" => copy[c] \in Found(c, copy[c].kind) /\ copy[c].kind \in Listed

\* The event loop has one route at a time.
LoopInv ==
    /\ \A c, d \in Clients : pc[c] = "patching" /\ pc[d] = "patching" => c = d
    /\ \A v, w \in Walkers : walk[v].pc = "counted" /\ walk[w].pc = "counted" => v = w
    /\ \A c \in Clients, w \in Walkers : ~(pc[c] = "patching" /\ walk[w].pc = "counted")

Walk ==
    [pc : {"idle", "between", "counted", "done"}, kind : Listed \cup {"none"},
     home : Homes \cup {None}, offset : Nat, total : Nat,
     page : SUBSET (Clients \cup Old \cup Homes), seen : SUBSET (Clients \cup Old \cup Homes),
     start : SUBSET (Clients \cup Old \cup Homes), gone : SUBSET Row]

\* As long as nothing was deleted, all that was listed at the start is still listed,
\* and what is before the offset has been seen.  A count is not more than there is.
WalkInv(w) ==
    walk[w].pc # "idle" =>
        /\ walk[w].kind \in Listed
        /\ walk[w].gone \subseteq gone
        /\ walk[w].start \subseteq Ids(rows \cup gone)
        /\ GoneSince(w) = {} => walk[w].start \subseteq Ids(Listing(w))
        /\ walk[w].pc \in {"between", "counted"} /\ GoneSince(w) = {} =>
            \A r \in Listing(w) :
                r.id \in walk[w].start /\ Place(Listing(w), r) < walk[w].offset
                    => r.id \in walk[w].seen
        /\ walk[w].pc = "counted" => walk[w].total <= Cardinality(Listing(w))
        /\ walk[w].pc = "done" => walk[w].total <= walk[w].offset + Cardinality(walk[w].page)
        /\ walk[w].pc = "done" /\ GoneSince(w) = {} => walk[w].start \subseteq walk[w].seen

WalksInv == walk \in [Walkers -> Walk] /\ \A w \in Walkers : WalkInv(w)

\* All of it but the walks, of which the clients know nothing but whether one of
\* them has the event loop.
TableInv == TypeOK /\ RowsInv /\ HeldInv /\ (\A c \in Clients : CopyInv(c)) /\ LoopInv

-----------------------------------------------------------------------------
(***************************************************************************)
(* The initial state.                                                      *)
(***************************************************************************)

\* What is there at the start is finite, and in order.
LEMMA TableInit == Init => TableInv
<1> SUFFICES ASSUME Init PROVE TableInv
  OBVIOUS
<1>1. PICK there \in SUBSET Homes, ws \in [Homes -> Names],
           old \in [Old -> [kind : Listed, home : Homes, name : Names]] :
        /\ \A o \in Old : old[o].home \in there
        /\ rows = {NewRow(h, "workspaces", h, ws[h]) : h \in there}
                  \cup {NewRow(o, old[o].kind, old[o].home, old[o].name) : o \in Old}
        /\ \A q, r \in rows : SameName(q, r) => q = r
  BY DEF Init
<1> DEFINE W == {NewRow(h, "workspaces", h, ws[h]) : h \in there}
           O == {NewRow(o, old[o].kind, old[o].home, old[o].name) : o \in Old}
<1>2. IsFiniteSet(rows)
  <2>1. IsFiniteSet(there) /\ IsFiniteSet(Old)
    BY TablesAreFinite, FS_Subset
  <2>2. IsFiniteSet(W)
    <3> DEFINE f == [h \in there |-> NewRow(h, "workspaces", h, ws[h])]
    <3>1. f \in Surjection(there, W)
      BY DEF Surjection
    <3> HIDE DEF W, f
    <3> QED
      BY <2>1, <3>1, FS_Surjection
  <2>3. IsFiniteSet(O)
    <3> DEFINE f == [o \in Old |-> NewRow(o, old[o].kind, old[o].home, old[o].name)]
    <3>1. f \in Surjection(Old, O)
      BY DEF Surjection
    <3> HIDE DEF O, f
    <3> QED
      BY <2>1, <3>1, FS_Surjection
  <2> QED
    BY <1>1, <2>2, <2>3, FS_Union
<1>3. \A r \in rows : r \in Row /\ Placed(r)
  <2>1. \A h \in there :
            NewRow(h, "workspaces", h, ws[h]) \in Row /\ Placed(NewRow(h, "workspaces", h, ws[h]))
    BY DEF NewRow, Row, Placed, Kinds, Listed
  <2>2. ASSUME NEW o \in Old, NEW r, r = NewRow(o, old[o].kind, old[o].home, old[o].name)
        PROVE  r \in Row /\ Placed(r)
    BY <2>2, IdsDiffer DEF NewRow, Row, Placed, Kinds, Listed
  <2> QED
    BY <1>1, <2>1, <2>2
<1>4. \A q, r \in rows : q.id = r.id => q = r
  <2>1. \A q \in W : q.id \in Homes /\ q = NewRow(q.id, "workspaces", q.id, ws[q.id])
    BY DEF NewRow
  <2>2. \A q \in O : q.id \in Old
                     /\ q = NewRow(q.id, old[q.id].kind, old[q.id].home, old[q.id].name)
    BY DEF NewRow
  <2> HIDE DEF W, O
  <2>3. \A q \in rows : q \in W \/ q \in O
    BY <1>1 DEF W, O
  <2>4. \A i \in Homes : i \notin Old
    BY IdsDiffer
  <2> SUFFICES ASSUME NEW q \in rows, NEW r \in rows, q.id = r.id PROVE q = r
    OBVIOUS
  <2>5. CASE q \in W /\ r \in W
    BY <2>1, <2>5
  <2>6. CASE q \in O /\ r \in O
    BY <2>2, <2>6
  <2> QED
    BY <2>1, <2>2, <2>3, <2>4, <2>5, <2>6
<1>5. \A r \in rows : Exists(r.home)
  <2>1. ASSUME NEW h \in there PROVE Exists(h)
    <3>1. NewRow(h, "workspaces", h, ws[h]) \in rows
      BY <1>1
    <3> QED
      BY <3>1 DEF Exists, Workspaces, NewRow
  <2>2. \A r \in rows : r.home \in there
    BY <1>1 DEF NewRow
  <2> QED
    BY <2>1, <2>2
<1>6. \A r \in rows, c \in Clients : r.id # c
  BY <1>1, IdsDiffer DEF NewRow
<1>7. TypeOK
  BY <1>1, <1>3, <1>4, <1>5 DEF Init, TypeOK
<1> QED
  BY <1>2, <1>3, <1>6, <1>7 DEF Init, TableInv, RowsInv, HeldInv, CopyInv, LoopInv, Idle

\* Nothing is listed yet.
LEMMA WalksInit == Init => WalksInv
  BY DEF Init, WalksInv, WalkInv, Walk, Idle

-----------------------------------------------------------------------------
(***************************************************************************)
(* Steps of the clients that leave the tables alone.                       *)
(***************************************************************************)

\* A request that is answered has changed nothing.
LEMMA TableOver ==
  ASSUME TableInv, NEW c \in Clients, pc[c] # "inserted", Goto(c, "over"),
         answer' \in [Clients -> {"none", "200", "201", "204", "400", "404", "409", "422", "500"}],
         copy' \in [Clients -> Row \cup {None}], \A d \in Clients \ {c} : copy'[d] = copy[d],
         UNCHANGED <<rows, held, home, walk, gone>>
  PROVE  TableInv'
<1>1. pc' \in [Clients -> {"idle", "entered", "inserted", "patching", "over"}]
  BY DEF Goto, TableInv, TypeOK
<1>2. pc'[c] = "over" /\ \A d \in Clients \ {c} : pc'[d] = pc[d]
  BY DEF Goto, TableInv, TypeOK
<1>3. TypeOK'
  BY <1>1 DEF TableInv, TypeOK, Exists, Workspaces, SameName
<1>4. RowsInv'
  BY <1>2 DEF TableInv, RowsInv, Placed
<1>5. HeldInv'
  BY <1>2 DEF TableInv, HeldInv, Exists, Workspaces, SameName, Placed
<1>6. \A d \in Clients : CopyInv(d)'
  BY <1>2 DEF TableInv, CopyInv, Found
<1>7. LoopInv'
  BY <1>2 DEF TableInv, LoopInv
<1> QED
  BY <1>3, <1>4, <1>5, <1>6, <1>7 DEF TableInv

\* A refusal is such an answer.
LEMMA TableRefuse ==
  ASSUME TableInv, NEW c \in Clients, pc[c] # "inserted", NEW code, Refuse(c, code),
         code \in {"200", "400", "404", "409", "422", "500"}
  PROVE  TableInv'
<1>1. answer' \in [Clients -> {"none", "200", "201", "204", "400", "404", "409", "422", "500"}]
  BY DEF Refuse, Answer, TableInv, TypeOK
<1> QED
  BY <1>1, TableOver DEF Refuse, Answer, TableInv, TypeOK

\* The workspace of the token has been read.
LEMMA TableEnter ==
  ASSUME TableInv, NEW c \in Clients, NEW token, Enter(c, token)
  PROVE  TableInv'
<1>1. PICK r \in Workspaces : copy' = [copy EXCEPT ![c] = r] /\ home' = [home EXCEPT ![c] = r.id]
  BY DEF Enter, NamedBy
<1>2. r \in rows /\ r \in Row /\ r.kind = "workspaces" /\ r.home = r.id /\ r.id \in Homes
  BY <1>1 DEF Workspaces, TableInv, TypeOK, RowsInv, Placed
<1>3. pc' \in [Clients -> {"idle", "entered", "inserted", "patching", "over"}]
      /\ copy' \in [Clients -> Row \cup {None}] /\ home' \in [Clients -> Homes \cup {None}]
  BY <1>1, <1>2 DEF Enter, Goto, TableInv, TypeOK
<1>4. /\ pc'[c] = "entered" /\ copy'[c] = r /\ home'[c] = r.id
      /\ \A d \in Clients \ {c} : pc'[d] = pc[d] /\ copy'[d] = copy[d] /\ home'[d] = home[d]
  BY <1>1 DEF Enter, Goto, TableInv, TypeOK
<1>5. UNCHANGED <<rows, held, answer, walk, gone>> /\ pc[c] = "idle"
  BY DEF Enter
<1>6. TypeOK'
  BY <1>3, <1>5 DEF TableInv, TypeOK, Exists, Workspaces, SameName
<1>7. RowsInv'
  BY <1>4, <1>5 DEF TableInv, RowsInv, Placed
<1>8. HeldInv'
  BY <1>4, <1>5 DEF TableInv, HeldInv, Exists, Workspaces, SameName, Placed
<1>9. \A d \in Clients : CopyInv(d)'
  <2>1. CopyInv(c)'
    <3>1. \A q \in rows : q.id = r.id => q = r
      BY <1>2 DEF TableInv, TypeOK
    <3> QED
      BY <1>2, <1>4, <1>5, <3>1 DEF CopyInv
  <2> QED
    BY <2>1, <1>4, <1>5 DEF TableInv, CopyInv, Found
<1>10. LoopInv'
  BY <1>4, <1>5 DEF TableInv, LoopInv
<1> QED
  BY <1>6, <1>7, <1>8, <1>9, <1>10 DEF TableInv

\* The row to be patched has been read, and the event loop is the client's.
LEMMA TableRead ==
  ASSUME TableInv, NEW c \in Clients, NEW kind \in Listed, Read(c, kind)
  PROVE  TableInv'
<1>1. PICK r \in Found(c, kind) : copy' = [copy EXCEPT ![c] = r]
  BY DEF Read
<1>2. r \in Row
  BY <1>1 DEF Found, TableInv, TypeOK
<1>3. pc' \in [Clients -> {"idle", "entered", "inserted", "patching", "over"}]
      /\ copy' \in [Clients -> Row \cup {None}]
  BY <1>1, <1>2 DEF Read, Goto, TableInv, TypeOK
<1>4. pc'[c] = "patching" /\ copy'[c] = r /\ \A d \in Clients \ {c} : pc'[d] = pc[d] /\ copy'[d] = copy[d]
  BY <1>1 DEF Read, Goto, TableInv, TypeOK
<1>5. UNCHANGED <<rows, held, home, answer, walk, gone>> /\ pc[c] = "entered" /\ LoopIsFree
  BY DEF Read
<1>6. TypeOK'
  BY <1>3, <1>5 DEF TableInv, TypeOK, Exists, Workspaces, SameName
<1>7. RowsInv'
  BY <1>4, <1>5 DEF TableInv, RowsInv, Placed
<1>8. HeldInv'
  BY <1>4, <1>5 DEF TableInv, HeldInv, Exists, Workspaces, SameName, Placed
<1>9. \A d \in Clients : CopyInv(d)'
  <2>1. CopyInv(c)'
    BY <1>1, <1>4, <1>5 DEF CopyInv, Found
  <2> QED
    BY <2>1, <1>4, <1>5 DEF TableInv, CopyInv, Found
<1>10. LoopInv'
  BY <1>4, <1>5 DEF TableInv, LoopInv, LoopIsFree
<1> QED
  BY <1>6, <1>7, <1>8, <1>9, <1>10 DEF TableInv

-----------------------------------------------------------------------------
(***************************************************************************)
(* Steps of the clients that insert, delete and patch.                     *)
(***************************************************************************)

\* An insertion holds a name that nobody else holds, or is refused.
LEMMA TableInsert ==
  ASSUME TableInv, NEW c \in Clients, pc[c] \in {"idle", "entered"}, NEW r \in Row, Insert(c, r),
         Placed(r), r.kind \in Listed => r.id = c,
         \A q \in rows \cup gone : q.id # r.id,
         \A d \in Clients : held[d] # None => held[d].id # r.id
  PROVE  TableInv'
<1>1. copy' \in [Clients -> Row \cup {None}] /\ \A d \in Clients \ {c} : copy'[d] = copy[d]
  BY DEF Insert, TableInv, TypeOK
<1>2. ASSUME NEW code \in {"400", "409"}, Answer(c, code), UNCHANGED held
      PROVE  TableInv'
  <2>1. answer' \in [Clients -> {"none", "200", "201", "204", "400", "404", "409", "422", "500"}]
    BY <1>2 DEF Answer, TableInv, TypeOK
  <2> QED
    BY <1>1, <1>2, <2>1, TableOver DEF Answer, Insert
<1>3. ASSUME ~NameIsTaken(r), ~NameIsPending(r), r.kind \in Listed => Exists(r.home),
             held' = [held EXCEPT ![c] = r], Goto(c, "inserted"), UNCHANGED <<home, answer>>
      PROVE  TableInv'
  <2>1. UNCHANGED <<rows, home, answer, walk, gone>>
    BY <1>3 DEF Insert
  <2>2. pc' \in [Clients -> {"idle", "entered", "inserted", "patching", "over"}]
        /\ held' \in [Clients -> Row \cup {None}]
    BY <1>3 DEF Goto, TableInv, TypeOK
  <2>3. /\ pc'[c] = "inserted" /\ held'[c] = r /\ r # None
        /\ \A d \in Clients \ {c} : pc'[d] = pc[d] /\ held'[d] = held[d]
    BY <1>3, NoneIsNoRow DEF Goto, TableInv, TypeOK
  <2>4. TypeOK'
    BY <1>1, <2>1, <2>2 DEF TableInv, TypeOK, Exists, Workspaces, SameName
  <2>5. RowsInv'
    BY <2>1, <2>3 DEF TableInv, RowsInv, Placed
  <2>6. HeldInv'
    <3>1. \A q \in rows : ~SameName(q, r)
      BY <1>3 DEF NameIsTaken
    <3>2. \A d \in Clients : held[d] # None => ~SameName(held[d], r) /\ ~SameName(r, held[d])
      BY <1>3 DEF NameIsPending, SameName
    <3>3. \A h : Exists(h)' <=> Exists(h)
      BY <2>1 DEF Exists, Workspaces
    <3>4. \A d \in Clients : held'[d] # None <=> pc'[d] = "inserted"
      BY <2>3 DEF TableInv, HeldInv
    <3> SUFFICES ASSUME NEW d \in Clients, held'[d] # None
                 PROVE  /\ Placed(held'[d])
                        /\ held'[d].kind \in Listed => held'[d].id = d /\ Exists(held'[d].home)
                        /\ \A q \in rows \cup gone : q.id # held'[d].id
                        /\ \A q \in rows : ~SameName(q, held'[d])
                        /\ \A e \in Clients \ {d} : held'[e] # None =>
                                held'[e].id # held'[d].id /\ ~SameName(held'[e], held'[d])
      BY <2>1, <3>3, <3>4 DEF HeldInv, SameName, Placed
    <3>5. CASE d = c
      BY <1>3, <2>3, <3>1, <3>2, <3>5
    <3>6. CASE d # c
      BY <2>3, <3>2, <3>6 DEF TableInv, HeldInv
    <3> QED
      BY <3>5, <3>6
  <2>7. \A d \in Clients : CopyInv(d)'
    BY <1>1, <2>1, <2>3 DEF TableInv, CopyInv, Found
  <2>8. LoopInv'
    BY <2>1, <2>3 DEF TableInv, LoopInv
  <2> QED
    BY <2>4, <2>5, <2>6, <2>7, <2>8 DEF TableInv
<1> QED
  BY <1>2, <1>3 DEF Insert

\* The end of a transaction that has inserted a row.
LEMMA TableEnd ==
  ASSUME TableInv, NEW c \in Clients, pc[c] = "inserted", NEW code \in {"201", "500"}, Answer(c, code),
         held' = [held EXCEPT ![c] = None],
         rows' = rows \cup {held[c]} \/ UNCHANGED rows,
         UNCHANGED <<copy, walk, gone>>
  PROVE  TableInv'
<1>h. PICK h : h = held[c]
  OBVIOUS
<1>1. /\ h \in Row /\ h # None /\ Placed(h)
      /\ h.kind \in Listed => h.id = c /\ Exists(h.home)
      /\ \A r \in rows \cup gone : r.id # h.id
      /\ \A r \in rows : ~SameName(r, h) /\ ~SameName(h, r)
      /\ \A d \in Clients \ {c} : held[d] # None =>
             held[d].id # h.id /\ ~SameName(held[d], h) /\ ~SameName(h, held[d])
  BY <1>h DEF TableInv, TypeOK, HeldInv, SameName
<1>2. /\ pc'[c] = "over" /\ held'[c] = None
      /\ \A d \in Clients \ {c} : pc'[d] = pc[d] /\ held'[d] = held[d]
  BY DEF Answer, Goto, TableInv, TypeOK
<1>3. /\ pc' \in [Clients -> {"idle", "entered", "inserted", "patching", "over"}]
      /\ held' \in [Clients -> Row \cup {None}]
      /\ answer' \in [Clients -> {"none", "200", "201", "204", "400", "404", "409", "422", "500"}]
  BY DEF Answer, Goto, TableInv, TypeOK
<1>4. UNCHANGED <<home, copy, walk, gone>>
  BY DEF Answer
<1>5. rows \subseteq rows' /\ rows' \subseteq rows \cup {h}
  BY <1>h
<1>6. \A x : Exists(x) => Exists(x)'
  BY <1>5 DEF Exists, Workspaces
<1>7. h \in rows' => Exists(h.home)'
  <2>1. h.kind \in Listed \/ h.kind = "workspaces"
    BY <1>1 DEF Row, Kinds
  <2>2. CASE h.kind \in Listed
    BY <1>1, <1>6, <2>2 DEF Exists, Workspaces
  <2>3. CASE h.kind = "workspaces"
    BY <1>1, <2>3 DEF Placed, Exists, Workspaces
  <2> QED
    BY <2>1, <2>2, <2>3
<1>8. TypeOK'
  <2>1. \A q, r \in rows' : q.id = r.id \/ SameName(q, r) => q = r
    BY <1>1, <1>5 DEF TableInv, TypeOK
  <2>2. \A r \in rows' : Exists(r.home)'
    BY <1>5, <1>6, <1>7 DEF TableInv, TypeOK, Exists, Workspaces
  <2>3. rows' \subseteq Row
    BY <1>1, <1>5 DEF TableInv, TypeOK
  <2> QED
    BY <1>3, <1>4, <2>1, <2>2, <2>3 DEF TableInv, TypeOK, SameName
<1>9. RowsInv'
  <2>1. IsFiniteSet(rows')
    <3>1. IsFiniteSet(rows)
      BY DEF TableInv, RowsInv
    <3> QED
      BY <3>1, FS_AddElement
  <2>2. \A d \in Clients : h.id = d => pc'[d] = "over"
    <3>1. h.kind \in Listed \/ h.kind = "workspaces"
      BY <1>1 DEF Row, Kinds
    <3> QED
      BY <1>1, <1>2, <3>1, IdsDiffer DEF Placed
  <2>3. \A r \in rows \cup gone, d \in Clients : r.id = d => pc'[d] = "over"
    BY <1>2 DEF TableInv, RowsInv
  <2> QED
    BY <1>1, <1>4, <1>5, <2>1, <2>2, <2>3 DEF TableInv, RowsInv, Placed
<1>10. HeldInv'
  <2>1. \A d \in Clients : held'[d] # None <=> pc'[d] = "inserted"
    BY <1>2 DEF TableInv, HeldInv
  <2> SUFFICES ASSUME NEW d \in Clients, held'[d] # None
               PROVE  /\ Placed(held'[d])
                      /\ held'[d].kind \in Listed => held'[d].id = d /\ Exists(held[d].home)'
                      /\ \A q \in rows' \cup gone : q.id # held'[d].id
                      /\ \A q \in rows' : ~SameName(q, held'[d])
                      /\ \A e \in Clients \ {d} : held'[e] # None =>
                              held'[e].id # held'[d].id /\ ~SameName(held'[e], held'[d])
    BY <1>4, <2>1 DEF HeldInv, SameName, Placed
  <2>2. d # c /\ held'[d] = held[d] /\ held[d] # None
    BY <1>2
  <2> QED
    <3>1. Exists(held[d].home) => Exists(held[d].home)'
      BY <1>5, <2>2 DEF Exists, Workspaces
    <3> QED
      BY <1>1, <1>2, <1>5, <2>2, <3>1 DEF TableInv, HeldInv
<1>11. \A d \in Clients : CopyInv(d)'
  BY <1>1, <1>2, <1>4, <1>5 DEF TableInv, CopyInv, Found
<1>12. LoopInv'
  BY <1>2, <1>4 DEF TableInv, LoopInv
<1> QED
  BY <1>8, <1>9, <1>10, <1>11, <1>12 DEF TableInv

\* Rows are deleted; a workspace only with everything in it.
LEMMA TableRemove ==
  ASSUME TableInv, LoopIsFree, NEW D \in SUBSET rows, rows' = rows \ D, gone' = gone \cup D,
         \A r \in D : r.kind = "workspaces" =>
            /\ \A q \in rows \ D : q.home # r.id
            /\ \A d \in Clients : held[d] # None => held[d].home # r.id,
         pc' \in [Clients -> {"idle", "entered", "inserted", "patching", "over"}],
         answer' \in [Clients -> {"none", "200", "201", "204", "400", "404", "409", "422", "500"}],
         \A d \in Clients : pc'[d] = pc[d] \/ (pc[d] = "entered" /\ pc'[d] = "over"),
         UNCHANGED <<held, home, copy, walk>>
  PROVE  TableInv'
<1>1. \A h : Exists(h) /\ (\A r \in D : r.kind = "workspaces" => h # r.id) => Exists(h)'
  BY DEF Exists, Workspaces
<1>2. TypeOK'
  <2>1. \A r \in rows' : Exists(r.home)'
    BY <1>1 DEF TableInv, TypeOK
  <2>2. rows' \subseteq Row /\ gone' \subseteq Row
    BY DEF TableInv, TypeOK
  <2>3. \A q, r \in rows' : q.id = r.id \/ SameName(q, r) => q = r
    BY DEF TableInv, TypeOK
  <2> QED
    BY <2>1, <2>2, <2>3 DEF TableInv, TypeOK, SameName
<1>3. RowsInv'
  <2>1. IsFiniteSet(rows')
    BY FS_Difference DEF TableInv, RowsInv
  <2>2. \A q \in rows', r \in gone' : q.id # r.id
    BY DEF TableInv, RowsInv, TypeOK
  <2>3. rows' \cup gone' = rows \cup gone
    OBVIOUS
  <2> QED
    BY <2>1, <2>2, <2>3 DEF TableInv, RowsInv, Placed
<1>4. HeldInv'
  <2>1. rows' \cup gone' = rows \cup gone
    OBVIOUS
  <2>2. \A d \in Clients : held[d] # None /\ Exists(held[d].home) => Exists(held[d].home)'
    BY <1>1
  <2>3. \A d \in Clients : held[d] # None <=> pc'[d] = "inserted"
    BY DEF TableInv, HeldInv
  <2> QED
    BY <2>1, <2>2, <2>3 DEF TableInv, HeldInv, SameName, Placed
<1>5. \A d \in Clients : CopyInv(d)'
  <2>1. rows' \cup gone' = rows \cup gone
    OBVIOUS
  <2> QED
    BY <2>1 DEF TableInv, CopyInv, Found, LoopIsFree
<1>6. LoopInv'
  BY DEF TableInv, LoopInv
<1> QED
  BY <1>2, <1>3, <1>4, <1>5, <1>6 DEF TableInv

\* What a write of the store leaves of the rows: each keeps its place.
SamePlace(q, r) == q.id = r.id /\ q.kind = r.kind /\ q.home = r.home /\ q.name = r.name

\* The store replaces one row, by one in the same place.
LEMMA StoreKeepsPlaces ==
  ASSUME TableInv, NEW r \in Row, Store(r), \A q \in rows : q.id = r.id => SamePlace(q, r)
  PROVE  /\ IsFiniteSet(rows') /\ rows' \subseteq Row
         /\ \A p, q \in rows' : p.id = q.id => p = q
         /\ \A q \in rows : \E p \in rows' : SamePlace(q, p)
         /\ \A p \in rows' : \E q \in rows : SamePlace(p, q)
         /\ \A p \in rows' : p \in rows \/ p = r
<1>1. rows' = {q \in rows : q.id # r.id} \cup {s \in {r} : \E q \in rows : q.id = r.id}
  BY DEF Store
<1>2. IsFiniteSet(rows')
  <2>1. IsFiniteSet({q \in rows : q.id # r.id} \cup {r})
    <3>1. {q \in rows : q.id # r.id} \in SUBSET rows
      OBVIOUS
    <3>2. IsFiniteSet({q \in rows : q.id # r.id})
      BY <3>1, FS_Subset DEF TableInv, RowsInv
    <3> QED
      BY <3>2, FS_AddElement
  <2>2. rows' \in SUBSET ({q \in rows : q.id # r.id} \cup {r})
    BY <1>1
  <2> QED
    BY <2>1, <2>2, FS_Subset
<1>3. rows' \subseteq Row /\ \A p \in rows' : p \in rows \/ p = r
  BY <1>1 DEF TableInv, TypeOK
<1>4. \A p, q \in rows' : p.id = q.id => p = q
  BY <1>1 DEF TableInv, TypeOK
<1>5. ASSUME NEW q \in rows PROVE \E p \in rows' : SamePlace(q, p)
  BY <1>1 DEF SamePlace
<1>6. ASSUME NEW p \in rows' PROVE \E q \in rows : SamePlace(p, q)
  BY <1>1 DEF SamePlace
<1> QED
  BY <1>2, <1>3, <1>4, <1>5, <1>6

\* A patch is written.
LEMMA TablePatch ==
  ASSUME TableInv, NEW c \in Clients, NEW r \in Row, Store(r),
         \A q \in rows : q.id = r.id => SamePlace(q, r),
         (pc[c] = "entered" /\ LoopIsFree) \/ pc[c] = "patching",
         Answer(c, "200"), UNCHANGED <<held, copy, walk, gone>>
  PROVE  TableInv'
<1>1. /\ IsFiniteSet(rows') /\ rows' \subseteq Row
      /\ \A p, q \in rows' : p.id = q.id => p = q
      /\ \A q \in rows : \E p \in rows' : SamePlace(q, p)
      /\ \A p \in rows' : \E q \in rows : SamePlace(p, q)
  BY StoreKeepsPlaces
<1>2. /\ pc' \in [Clients -> {"idle", "entered", "inserted", "patching", "over"}]
      /\ answer' \in [Clients -> {"none", "200", "201", "204", "400", "404", "409", "422", "500"}]
  BY DEF Answer, Goto, TableInv, TypeOK
<1>3. /\ pc'[c] = "over" /\ \A d \in Clients \ {c} : pc'[d] = pc[d] /\ pc[d] # "patching"
      /\ UNCHANGED home
  BY DEF Answer, Goto, TableInv, TypeOK, LoopInv, LoopIsFree
<1>4. \A h : Exists(h) <=> Exists(h)'
  BY <1>1 DEF Exists, Workspaces, SamePlace
<1>5. TypeOK'
  <2>1. \A p \in rows' : Exists(p.home)'
    BY <1>1, <1>4 DEF TableInv, TypeOK, SamePlace
  <2>2. ASSUME NEW p \in rows', NEW q \in rows', SameName(p, q) PROVE p = q
    <3>1. PICK pp \in rows : SamePlace(p, pp)
      BY <1>1
    <3>2. PICK qq \in rows : SamePlace(q, qq)
      BY <1>1
    <3>3. SameName(pp, qq)
      BY <2>2, <3>1, <3>2 DEF SameName, SamePlace
    <3>4. p.id = q.id
      BY <3>1, <3>2, <3>3 DEF SamePlace, TableInv, TypeOK
    <3> QED
      BY <3>4, <1>1
  <2> QED
    BY <1>1, <1>2, <1>3, <2>1, <2>2 DEF TableInv, TypeOK, SameName
<1>6. RowsInv'
  <2>1. \A p \in rows' : Placed(p)
    BY <1>1 DEF TableInv, RowsInv, Placed, SamePlace
  <2>2. \A p \in rows', g \in gone : p.id # g.id
    BY <1>1 DEF TableInv, RowsInv, SamePlace
  <2>3. \A p \in rows', d \in Clients : p.id = d => pc'[d] = "over"
    BY <1>1, <1>3 DEF TableInv, RowsInv, SamePlace
  <2>4. \A p \in gone, d \in Clients : p.id = d => pc'[d] = "over"
    BY <1>3 DEF TableInv, RowsInv
  <2> QED
    BY <1>1, <2>1, <2>2, <2>3, <2>4 DEF TableInv, RowsInv, Placed
<1>7. HeldInv'
  <2>1. \A d \in Clients : held[d] # None <=> pc'[d] = "inserted"
    BY <1>3 DEF TableInv, HeldInv
  <2>2. ASSUME NEW d \in Clients, held[d] # None, NEW p \in rows'
        PROVE  p.id # held[d].id /\ ~SameName(p, held[d])
    BY <1>1, <2>2 DEF TableInv, HeldInv, SameName, SamePlace
  <2> QED
    BY <1>4, <2>1, <2>2 DEF TableInv, HeldInv, SameName, Placed
<1>8. \A d \in Clients : CopyInv(d)'
  <2> SUFFICES ASSUME NEW d \in Clients, d # c, pc[d] = "entered" PROVE CopyInv(d)'
    BY <1>3 DEF CopyInv, TableInv
  <2>1. \E q \in rows' \cup gone : q.id = copy[d].id
    BY <1>1 DEF TableInv, CopyInv, SamePlace
  <2>2. \A q \in rows' : q.id = copy[d].id => q.name = copy[d].name
    BY <1>1 DEF TableInv, CopyInv, SamePlace
  <2> QED
    BY <1>3, <2>1, <2>2 DEF TableInv, CopyInv
<1>9. LoopInv'
  BY <1>3 DEF TableInv, LoopInv
<1> QED
  BY <1>5, <1>6, <1>7, <1>8, <1>9 DEF TableInv

\* The patch of a row keeps its place, and changes one field.
LEMMA PatchedRow ==
  ASSUME NEW r \in Row, NEW f \in Asked, NEW c \in Clients
  PROVE  /\ [r EXCEPT !.by[f] = c] \in Row
         /\ SamePlace(r, [r EXCEPT !.by[f] = c])
         /\ \A g \in Asked : [r EXCEPT !.by[f] = c].by[g] # r.by[g] => g = f
  BY DEF Row, SamePlace

\* What a patch starts from has the place of what it replaces.
LEMMA PatchKeepsPlace ==
  ASSUME TableInv, NEW c \in Clients, NEW f \in Asked, Patch(c, f),
         pc[c] = "entered" \/ pc[c] = "patching"
  PROVE  /\ copy[c] \in Row
         /\ \A q \in rows : q.id = copy[c].id => SamePlace(q, copy[c])
         /\ pc[c] = "patching" => copy[c] \in rows /\ copy[c].home = home[c]
         /\ pc[c] = "entered" => copy[c].home = home[c] /\ copy[c].kind = "workspaces"
<1>1. CASE pc[c] = "patching"
  BY <1>1 DEF TableInv, TypeOK, CopyInv, Found, SamePlace
<1>2. CASE pc[c] = "entered"
  <2>1. /\ copy[c] \in Row /\ copy[c].kind = "workspaces" /\ copy[c].id = home[c] /\ copy[c].home = home[c]
        /\ \A q \in rows : q.id = copy[c].id => q.name = copy[c].name
    BY <1>2 DEF TableInv, CopyInv
  <2>2. home[c] \in Homes
    BY <1>2 DEF TableInv, CopyInv
  <2>3. \A q \in rows : q.id = copy[c].id => q.kind = "workspaces" /\ q.home = q.id
    BY <2>1, <2>2 DEF TableInv, RowsInv, Placed
  <2> QED
    BY <1>2, <2>1, <2>3 DEF SamePlace
<1> QED
  BY <1>1, <1>2

\* The routes that patch are patches.
LEMMA Patches ==
  ASSUME TableInv, NEW c \in Clients, NEW f \in Asked,
         UpdateApplication(c, f) \/ UpdateDirectory(c, f) \/ UpdateOrg(c, f)
  PROVE  Patch(c, f) /\ ((pc[c] = "entered" /\ LoopIsFree) \/ pc[c] = "patching")
  BY DEF UpdateApplication, UpdateDirectory, UpdateOrg

\* Every step of a client keeps the tables in order.
LEMMA TableClient ==
  ASSUME TableInv, NEW c \in Clients, Create(c) \/ Use(c)
  PROVE  TableInv'
<1>1. ASSUME NEW token \in Tokens, Enter(c, token) PROVE TableInv'
  BY <1>1, TableEnter
<1>2. ASSUME NEW token \in Tokens, EnterNowhere(c, token) PROVE TableInv'
  BY <1>2, TableRefuse DEF EnterNowhere
<1>3. ASSUME NEW n \in Names, NEW kind \in Listed, pc[c] = "entered",
             Insert(c, NewRow(c, kind, home[c], n))
      PROVE  TableInv'
  <2> DEFINE r == NewRow(c, kind, home[c], n)
  <2>1. r \in Row /\ r.id = c /\ r.kind = kind
    <3>1. home[c] \in Homes
      BY <1>3 DEF TableInv, CopyInv
    <3> QED
      BY <3>1 DEF NewRow, Row, Kinds
  <2>2. Placed(r)
    BY <2>1, IdsDiffer DEF Placed, Listed
  <2>3. \A q \in rows \cup gone : q.id # r.id
    BY <1>3, <2>1 DEF TableInv, RowsInv
  <2>4. ASSUME NEW d \in Clients, held[d] # None PROVE held[d].id # r.id
    <3>1. held[d] \in Row /\ Placed(held[d]) /\ (held[d].kind \in Listed => held[d].id = d) /\ d # c
      BY <1>3, <2>4 DEF TableInv, TypeOK, HeldInv
    <3> QED
      BY <2>1, <3>1, IdsDiffer DEF Placed, Row, Kinds
  <2> HIDE DEF r
  <2> QED
    BY <1>3, <2>1, <2>2, <2>3, <2>4, TableInsert DEF r
<1>4. ASSUME NEW n \in Names, NEW h \in Homes, CreateWorkspace(c, h, n) PROVE TableInv'
  <2> DEFINE r == NewRow(h, "workspaces", h, n)
  <2>1. r \in Row /\ r.id = h /\ Placed(r) /\ r.kind \notin Listed
    BY DEF NewRow, Row, Kinds, Listed, Placed
  <2>2. /\ pc[c] = "idle" /\ Insert(c, r)
        /\ \A q \in rows \cup gone : q.id # h
        /\ \A d \in Clients : held[d] # None => held[d].id # h
    BY <1>4 DEF CreateWorkspace
  <2> HIDE DEF r
  <2> QED
    BY <2>1, <2>2, TableInsert
<1>5. ASSUME CommitInsert(c) \/ CreateFails(c) PROVE TableInv'
  BY <1>5, TableEnd DEF CommitInsert, CreateFails
<1>6. ASSUME GetWorkspace(c) \/ GetApplication(c) \/ GetDirectory(c) PROVE TableInv'
  BY <1>6, TableRefuse DEF GetWorkspace, GetApplication, GetDirectory, Get
<1>7. ASSUME NEW kind \in Listed, Delete(c, kind) PROVE TableInv'
  <2>1. CASE Missing(c, kind) /\ Refuse(c, "404")
    BY <1>7, <2>1, TableRefuse DEF Delete
  <2>2. CASE /\ \E r \in Found(c, kind) : rows' = rows \ {r} /\ gone' = gone \cup {r}
             /\ Answer(c, "204")
             /\ UNCHANGED <<held, copy, walk>>
    <3>1. PICK r \in Found(c, kind) : rows' = rows \ {r} /\ gone' = gone \cup {r}
      BY <2>2
    <3>2. {r} \in SUBSET rows /\ r.kind # "workspaces"
      BY <3>1 DEF Found, Listed
    <3>3. /\ pc' \in [Clients -> {"idle", "entered", "inserted", "patching", "over"}]
          /\ answer' \in [Clients -> {"none", "200", "201", "204", "400", "404", "409", "422", "500"}]
          /\ \A d \in Clients : pc'[d] = pc[d] \/ (pc[d] = "entered" /\ pc'[d] = "over")
          /\ UNCHANGED <<held, home, copy, walk>>
      <4>1. pc[c] = "entered" /\ pc' = [pc EXCEPT ![c] = "over"]
            /\ answer' = [answer EXCEPT ![c] = "204"] /\ UNCHANGED <<held, home, copy, walk>>
        BY <1>7, <2>2 DEF Delete, Answer, Goto
      <4>2. pc' \in [Clients -> {"idle", "entered", "inserted", "patching", "over"}]
        BY <4>1 DEF TableInv, TypeOK
      <4>3. answer' \in [Clients -> {"none", "200", "201", "204", "400", "404", "409", "422", "500"}]
        BY <4>1 DEF TableInv, TypeOK
      <4>4. \A d \in Clients : pc'[d] = pc[d] \/ (pc[d] = "entered" /\ pc'[d] = "over")
        BY <4>1 DEF TableInv, TypeOK
      <4> QED
        BY <4>1, <4>2, <4>3, <4>4
    <3>4. LoopIsFree
      BY <1>7 DEF Delete
    <3>5. \A q \in {r} : q.kind = "workspaces" =>
            /\ \A p \in rows \ {r} : p.home # q.id
            /\ \A d \in Clients : held[d] # None => held[d].home # q.id
      BY <3>2
    <3> QED
      BY <3>1, <3>2, <3>3, <3>4, <3>5, TableRemove
  <2> QED
    BY <1>7, <2>1, <2>2 DEF Delete
<1>8. ASSUME NEW kind \in Listed, Read(c, kind) PROVE TableInv'
  BY <1>8, TableRead
<1>9. ASSUME NEW kind \in Listed, PatchFails(c, kind) PROVE TableInv'
  BY <1>9, TableRefuse DEF PatchFails
<1>10. ASSUME NEW f \in Asked, PatchIsInvalid(c, f) PROVE TableInv'
  BY <1>10, TableRefuse DEF PatchIsInvalid
<1>11. ASSUME NEW f \in Asked, UpdateApplication(c, f) \/ UpdateDirectory(c, f) \/ UpdateOrg(c, f)
       PROVE  TableInv'
  <2>1. Patch(c, f) /\ ((pc[c] = "entered" /\ LoopIsFree) \/ pc[c] = "patching")
    BY <1>11, Patches
  <2>2. copy[c] \in Row /\ \A q \in rows : q.id = copy[c].id => SamePlace(q, copy[c])
    BY <2>1, PatchKeepsPlace
  <2> DEFINE r == [copy[c] EXCEPT !.by[f] = c]
  <2>3. r \in Row /\ SamePlace(copy[c], r)
    BY <2>2, PatchedRow
  <2>4. Store(r) /\ Answer(c, "200") /\ UNCHANGED <<held, copy, walk, gone>>
    BY <2>1 DEF Patch
  <2> HIDE DEF r
  <2>5. \A q \in rows : q.id = r.id => SamePlace(q, r)
    BY <2>2, <2>3 DEF SamePlace
  <2> QED
    BY <2>1, <2>3, <2>4, <2>5, TablePatch
<1> QED
  BY <1>1, <1>2, <1>3, <1>4, <1>5, <1>6, <1>7, <1>8, <1>9, <1>10, <1>11
  DEF Create, Use, CreateApplication, CreateDirectory, Listed

\* So does the deletion of a workspace.
LEMMA TableWiped ==
  ASSUME TableInv, NEW h \in Homes, WorkspaceIsWiped(h)
  PROVE  TableInv'
<1> DEFINE D == {r \in rows : r.home = h}
<1>1. rows' = rows \ D /\ gone' = gone \cup D /\ D \in SUBSET rows
  BY DEF WorkspaceIsWiped
<1>2. ASSUME NEW r \in D, r.kind = "workspaces"
      PROVE  /\ \A q \in rows \ D : q.home # r.id
             /\ \A d \in Clients : held[d] # None => held[d].home # r.id
  <2>1. r.id = h
    BY <1>2 DEF TableInv, RowsInv, Placed
  <2> QED
    BY <2>1 DEF WorkspaceIsWiped
<1>3. UNCHANGED <<held, home, copy, walk, pc, answer>> /\ LoopIsFree
  BY DEF WorkspaceIsWiped, client
<1>4. /\ pc' \in [Clients -> {"idle", "entered", "inserted", "patching", "over"}]
      /\ answer' \in [Clients -> {"none", "200", "201", "204", "400", "404", "409", "422", "500"}]
  BY <1>3 DEF TableInv, TypeOK
<1>5. \A d \in Clients : pc'[d] = pc[d] \/ (pc[d] = "entered" /\ pc'[d] = "over")
  BY <1>3
<1> HIDE DEF D
<1> QED
  BY <1>1, <1>2, <1>3, <1>4, <1>5, TableRemove

\* What a walker has after a page.
LEMMA FetchIs ==
  ASSUME WalksInv, NEW w \in Walkers, Fetch(w)
  PROVE  LET P == Page(Listing(w), walk[w].offset) IN
           walk' = [walk EXCEPT ![w] = [walk[w] EXCEPT
             !.pc = IF Cardinality(P) < Limit THEN "done" ELSE "between",
             !.page = Ids(P),
             !.seen = walk[w].seen \cup Ids(P),
             !.offset = IF Cardinality(P) < Limit THEN walk[w].offset ELSE walk[w].offset + Limit]]
<1> DEFINE P == Page(Listing(w), walk[w].offset)
           point == IF Cardinality(P) < Limit THEN "done" ELSE "between"
           full == Cardinality(P) < Limit
<1>1. walk' = [walk EXCEPT
            ![w].pc = point,
            ![w].page = Ids(P),
            ![w].seen = @ \cup Ids(P),
            ![w].offset = IF full THEN @ ELSE @ + Limit]
  BY DEF Fetch
<1>2. walk \in [Walkers -> Walk]
  BY DEF WalksInv
<1> HIDE DEF P, point, full
<1>3. walk' = [walk EXCEPT ![w] = [walk[w] EXCEPT
          !.pc = point, !.page = Ids(P), !.seen = walk[w].seen \cup Ids(P),
          !.offset = IF full THEN walk[w].offset ELSE walk[w].offset + Limit]]
  BY <1>1, <1>2 DEF Walk
<1> QED
  BY <1>3 DEF P, point, full

\* A walker reads, and takes the event loop if it is free.
LEMMA TableList ==
  ASSUME TableInv, WalksInv, NEW w \in Walkers, List(w)
  PROVE  TableInv'
<1>1. UNCHANGED <<rows, held, client, gone>>
  BY DEF List, ListApplications, ListDirectories, StartWalk, Count, Fetch
<1>2. /\ \A v \in Walkers \ {w} : walk'[v] = walk[v]
      /\ walk'[w].pc = "counted" => LoopIsFree
  <2>1. ASSUME NEW kind \in Listed, NEW h \in Homes, StartWalk(w, kind, h)
        PROVE  walk'[w].pc = "between" /\ \A v \in Walkers \ {w} : walk'[v] = walk[v]
    BY <2>1 DEF StartWalk, WalksInv
  <2>2. CASE Count(w)
    BY <2>2 DEF Count, WalksInv
  <2>3. CASE Fetch(w)
    <3> DEFINE P == Page(Listing(w), walk[w].offset)
               point == IF Cardinality(P) < Limit THEN "done" ELSE "between"
               offset == IF Cardinality(P) < Limit THEN walk[w].offset ELSE walk[w].offset + Limit
    <3>1. walk' = [walk EXCEPT ![w] = [walk[w] EXCEPT !.pc = point, !.page = Ids(P),
                                       !.seen = walk[w].seen \cup Ids(P), !.offset = offset]]
      BY <2>3, FetchIs
    <3>2. point # "counted"
      OBVIOUS
    <3> HIDE DEF P, point, offset
    <3> QED
      BY <3>1, <3>2 DEF WalksInv, Walk
  <2> QED
    BY <2>1, <2>2, <2>3 DEF List, ListApplications, ListDirectories, Listed
<1>3. TypeOK' /\ RowsInv' /\ HeldInv' /\ \A c \in Clients : CopyInv(c)'
  BY <1>1 DEF client, TableInv, TypeOK, RowsInv, HeldInv, CopyInv, Exists, Workspaces, SameName,
              Placed, Found
<1>4. LoopInv'
  BY <1>1, <1>2 DEF client, TableInv, LoopInv, LoopIsFree
<1> QED
  BY <1>3, <1>4 DEF TableInv

-----------------------------------------------------------------------------
(***************************************************************************)
(* The walks.                                                              *)
(***************************************************************************)

\* The rows of a kind in a workspace are finitely many, and no two share a name.
LEMMA SelectedRows ==
  ASSUME TableInv, NEW kind \in Listed, NEW h, NEW S, S = {r \in rows : r.kind = kind /\ r.home = h}
  PROVE  /\ S \in SUBSET Row /\ IsFiniteSet(S) /\ NamesDiffer(S)
         /\ IsFiniteSet(NamesOf(S)) /\ NamesOf(S) \in SUBSET Nat
         /\ Cardinality(NamesOf(S)) = Cardinality(S)
<1>1. S \in SUBSET rows /\ rows \subseteq Row /\ IsFiniteSet(rows)
  BY DEF TableInv, TypeOK, RowsInv
<1>2. IsFiniteSet(S) /\ S \in SUBSET Row
  BY <1>1, FS_Subset
<1>3. NamesDiffer(S)
  BY DEF NamesDiffer, SameName, TableInv, TypeOK
<1>4. IsFiniteSet(NamesOf(S)) /\ Cardinality(NamesOf(S)) = Cardinality(S)
  BY <1>2, <1>3, NamesCount
<1>5. NamesOf(S) \in SUBSET Nat
  BY <1>2, NamesAreOrdered DEF NamesOf, Row
<1> QED
  BY <1>2, <1>3, <1>4, <1>5

\* So it is of what a walk lists.
LEMMA Listings ==
  ASSUME TableInv, NEW w \in Walkers, walk[w].kind \in Listed
  PROVE  /\ Listing(w) \in SUBSET Row /\ IsFiniteSet(Listing(w)) /\ NamesDiffer(Listing(w))
         /\ IsFiniteSet(NamesOf(Listing(w))) /\ NamesOf(Listing(w)) \in SUBSET Nat
         /\ Cardinality(NamesOf(Listing(w))) = Cardinality(Listing(w))
  BY SelectedRows DEF Listing

\* The rank of a name grows with the names.
LEMMA RanksGrow ==
  ASSUME NEW M \in SUBSET Nat, IsFiniteSet(M), NEW N \in SUBSET M, NEW n \in Nat
  PROVE  Rank(N, n) <= Rank(M, n) /\ Rank(N, n) \in Nat /\ Rank(M, n) \in Nat
<1>1. Below(N, n) \in SUBSET Below(M, n) /\ Below(M, n) \in SUBSET M
  BY DEF Below
<1>2. IsFiniteSet(Below(M, n)) /\ IsFiniteSet(Below(N, n))
  BY <1>1, FS_Subset
<1> QED
  BY <1>1, <1>2, FS_Subset, FS_CardinalityType DEF Rank

\* Steps after which a listing has the rows it had, at the places they had or later.
LEMMA WalkKeeps ==
  ASSUME TableInv, TableInv', NEW w \in Walkers, WalkInv(w), UNCHANGED walk[w],
         walk[w] \in Walk, gone \subseteq gone',
         walk[w].pc # "idle" =>
            /\ GoneSince(w)' = {} => GoneSince(w) = {}
            /\ Ids(rows \cup gone) \subseteq Ids(rows \cup gone)'
            /\ GoneSince(w)' = {} \/ walk[w].pc = "counted" =>
                /\ Ids(Listing(w)) \subseteq Ids(Listing(w))'
                /\ NamesOf(Listing(w)) \subseteq NamesOf(Listing(w))'
                /\ \A r \in Listing(w)' : r.id \in walk[w].start =>
                        \E q \in Listing(w) : q.id = r.id /\ q.name = r.name
  PROVE  WalkInv(w)'
<1> SUFFICES ASSUME walk[w].pc # "idle" PROVE WalkInv(w)'
  BY DEF WalkInv
<1>1. walk[w].kind \in Listed /\ walk'[w] = walk[w] /\ walk[w].offset \in Nat /\ walk[w].total \in Nat
  BY DEF WalkInv, Walk
<1>2. PICK L : L = Listing(w)'
  OBVIOUS
<1>3. /\ L \in SUBSET Row /\ IsFiniteSet(NamesOf(L)) /\ NamesOf(L) \in SUBSET Nat
      /\ Cardinality(NamesOf(L)) = Cardinality(L)
  <2>1. IsFiniteSet(rows') /\ rows' \subseteq Row
    BY DEF TableInv, RowsInv, TypeOK
  <2>2. L \in SUBSET rows'
    BY <1>2 DEF Listing
  <2>3. NamesDiffer(L)
    BY <1>1, <1>2 DEF NamesDiffer, Listing, SameName, TableInv, TypeOK
  <2>4. IsFiniteSet(L)
    BY <2>1, <2>2, FS_Subset
  <2>5. IsFiniteSet(NamesOf(L)) /\ Cardinality(NamesOf(L)) = Cardinality(L)
    BY <2>3, <2>4, NamesCount
  <2> QED
    BY <2>1, <2>2, <2>5, NamesAreOrdered DEF NamesOf, Row
<1>4. walk[w].start \subseteq Ids(rows \cup gone)' /\ walk[w].gone \subseteq gone'
  BY DEF WalkInv
<1>5. ASSUME GoneSince(w)' = {} PROVE walk[w].start \subseteq Ids(L)
  BY <1>2, <1>5 DEF WalkInv, Ids
<1>6. ASSUME walk[w].pc \in {"between", "counted"}, GoneSince(w)' = {}, NEW r \in L,
             r.id \in walk[w].start, Place(L, r) < walk[w].offset
      PROVE  r.id \in walk[w].seen
  <2>1. PICK q \in Listing(w) : q.id = r.id /\ q.name = r.name
    BY <1>2, <1>6
  <2>2. NamesOf(Listing(w)) \in SUBSET NamesOf(L) /\ r.name \in Nat
    BY <1>2, <1>3, <1>6, NamesAreOrdered DEF NamesOf, Row
  <2>3. Rank(NamesOf(Listing(w)), r.name) <= Rank(NamesOf(L), r.name)
        /\ Rank(NamesOf(Listing(w)), r.name) \in Nat /\ Rank(NamesOf(L), r.name) \in Nat
    BY <1>3, <2>2, RanksGrow
  <2>4. Place(Listing(w), q) < walk[w].offset
    BY <1>1, <1>6, <2>1, <2>3 DEF Place
  <2> QED
    BY <1>6, <2>1, <2>4 DEF WalkInv
<1>7. ASSUME walk[w].pc = "counted" PROVE walk[w].total <= Cardinality(L)
  <2>1. NamesOf(Listing(w)) \in SUBSET NamesOf(L)
    BY <1>2, <1>7
  <2>2. Cardinality(NamesOf(Listing(w))) <= Cardinality(NamesOf(L))
    BY <2>1, <1>3, FS_Subset
  <2>3. Cardinality(NamesOf(Listing(w))) = Cardinality(Listing(w))
        /\ IsFiniteSet(NamesOf(Listing(w)))
    BY <1>1, Listings
  <2>4. Cardinality(Listing(w)) \in Nat /\ Cardinality(L) \in Nat
    BY <1>3, <2>3, FS_CardinalityType
  <2>5. walk[w].total <= Cardinality(Listing(w))
    BY <1>7 DEF WalkInv
  <2> QED
    BY <1>1, <1>3, <2>2, <2>3, <2>4, <2>5
<1>8. walk[w].pc = "done" /\ GoneSince(w)' = {} => walk[w].start \subseteq walk[w].seen
  BY DEF WalkInv
<1>9. walk[w].pc = "done" => walk[w].total <= walk[w].offset + Cardinality(walk[w].page)
  BY DEF WalkInv
<1> QED
  BY <1>1, <1>2, <1>4, <1>5, <1>6, <1>7, <1>8, <1>9 DEF WalkInv

\* A walk depends on nothing but the rows and the deleted rows.
LEMMA WalkQuiet ==
  ASSUME TableInv, TableInv', NEW w \in Walkers, WalkInv(w), walk[w] \in Walk,
         UNCHANGED <<rows, gone, walk[w]>>
  PROVE  WalkInv(w)'
<1>1. Listing(w)' = Listing(w) /\ GoneSince(w)' = GoneSince(w)
  BY DEF Listing, GoneSince
<1>2. /\ Ids(rows \cup gone)' = Ids(rows \cup gone)
      /\ Ids(Listing(w))' = Ids(Listing(w)) /\ NamesOf(Listing(w))' = NamesOf(Listing(w))
  BY <1>1 DEF Ids, NamesOf
<1> QED
  BY <1>1, <1>2, WalkKeeps

\* Where none of them changes, the walks are as they were.
LEMMA WalksQuiet ==
  ASSUME TableInv, TableInv', WalksInv, UNCHANGED <<rows, gone, walk>>
  PROVE  WalksInv'
<1>1. \A w \in Walkers : WalkInv(w)'
  BY WalkQuiet DEF WalksInv
<1> QED
  BY <1>1 DEF WalksInv

\* A new row comes between the others, and no walk waits for it.
LEMMA WalksGrow ==
  ASSUME TableInv, TableInv', WalksInv, NEW c \in Clients, CommitInsert(c)
  PROVE  WalksInv'
<1>1. PICK h : h = held[c]
  OBVIOUS
<1>2. rows' = rows \cup {h} /\ UNCHANGED <<walk, gone>>
  BY <1>1 DEF CommitInsert
<1>3. \A r \in rows \cup gone : r.id # h.id
  BY <1>1 DEF CommitInsert, TableInv, HeldInv
<1>4. ASSUME NEW w \in Walkers PROVE WalkInv(w)'
  <2>1. WalkInv(w) /\ walk[w] \in Walk /\ GoneSince(w)' = GoneSince(w) /\ gone \subseteq gone'
    BY <1>2 DEF WalksInv, GoneSince
  <2>2. Ids(rows \cup gone) \subseteq Ids(rows \cup gone)'
    BY <1>2 DEF Ids
  <2>3. Listing(w) \subseteq Listing(w)' /\ Listing(w)' \subseteq Listing(w) \cup {h}
    BY <1>2 DEF Listing
  <2>4. /\ Ids(Listing(w)) \subseteq Ids(Listing(w))'
        /\ NamesOf(Listing(w)) \subseteq NamesOf(Listing(w))'
    BY <2>3 DEF Ids, NamesOf
  <2>5. walk[w].pc # "idle" => h.id \notin walk[w].start
    BY <1>3, <2>1 DEF WalkInv, Ids
  <2>6. walk[w].pc # "idle" => \A r \in Listing(w)' : r.id \in walk[w].start =>
            \E q \in Listing(w) : q.id = r.id /\ q.name = r.name
    BY <2>3, <2>5
  <2> QED
    BY <1>2, <2>1, <2>2, <2>4, <2>6, WalkKeeps
<1> QED
  BY <1>2, <1>4 DEF WalksInv

\* What is deleted from a listing is remembered by its walk.
LEMMA WalksShrink ==
  ASSUME TableInv, TableInv', WalksInv, LoopIsFree, NEW D \in SUBSET rows,
         rows' = rows \ D, gone' = gone \cup D, UNCHANGED walk
  PROVE  WalksInv'
<1>1. ASSUME NEW w \in Walkers PROVE WalkInv(w)'
  <2>1. WalkInv(w) /\ walk[w] \in Walk /\ gone \subseteq gone' /\ walk[w].pc # "counted"
    BY DEF WalksInv, LoopIsFree
  <2>2. GoneSince(w) \subseteq GoneSince(w)'
    BY DEF GoneSince
  <2>3. Ids(rows \cup gone) \subseteq Ids(rows \cup gone)'
    BY DEF Ids
  <2>4. ASSUME walk[w].pc # "idle", GoneSince(w)' = {} PROVE Listing(w)' = Listing(w)
    <3>1. ASSUME NEW r \in D, r.kind = walk[w].kind, r.home = walk[w].home PROVE FALSE
      <4>1. r \notin gone
        BY <3>1 DEF TableInv, RowsInv
      <4>2. r \notin walk[w].gone
        BY <2>1, <2>4, <4>1 DEF WalkInv
      <4>3. r \in GoneSince(w)'
        BY <3>1, <4>2 DEF GoneSince
      <4> QED
        BY <2>4, <4>3
    <3> QED
      BY <3>1 DEF Listing
  <2>5. ASSUME walk[w].pc # "idle", GoneSince(w)' = {}
        PROVE  /\ Ids(Listing(w)) \subseteq Ids(Listing(w))'
               /\ NamesOf(Listing(w)) \subseteq NamesOf(Listing(w))'
               /\ \A r \in Listing(w)' : \E q \in Listing(w) : q.id = r.id /\ q.name = r.name
    BY <2>4, <2>5 DEF Ids, NamesOf
  <2> QED
    BY <2>1, <2>2, <2>3, <2>5, WalkKeeps
<1> QED
  BY <1>1 DEF WalksInv

\* A patched row is where it was.
LEMMA WalksPatch ==
  ASSUME TableInv, TableInv', WalksInv, UNCHANGED <<walk, gone>>,
         \A q \in rows : \E p \in rows' : SamePlace(q, p),
         \A p \in rows' : \E q \in rows : SamePlace(p, q)
  PROVE  WalksInv'
<1>1. ASSUME NEW w \in Walkers PROVE WalkInv(w)'
  <2>1. WalkInv(w) /\ walk[w] \in Walk /\ GoneSince(w)' = GoneSince(w) /\ gone \subseteq gone'
    BY DEF WalksInv, GoneSince
  <2>2. \A q \in Listing(w) : \E p \in Listing(w)' : SamePlace(q, p)
    BY DEF Listing, SamePlace
  <2>3. \A p \in Listing(w)' : \E q \in Listing(w) : SamePlace(p, q)
    BY DEF Listing, SamePlace
  <2>4. Ids(rows \cup gone) \subseteq Ids(rows \cup gone)'
    BY DEF Ids, SamePlace
  <2>5. /\ Ids(Listing(w)) \subseteq Ids(Listing(w))'
        /\ NamesOf(Listing(w)) \subseteq NamesOf(Listing(w))'
    BY <2>2 DEF Ids, NamesOf, SamePlace
  <2>6. \A r \in Listing(w)' : \E q \in Listing(w) : q.id = r.id /\ q.name = r.name
    BY <2>3 DEF SamePlace
  <2> QED
    BY <2>1, <2>4, <2>5, <2>6, WalkKeeps
<1> QED
  BY <1>1 DEF WalksInv

\* A walk begins with nothing seen and nothing deleted since.
LEMMA WalksStart ==
  ASSUME TableInv, TableInv', WalksInv, NEW w \in Walkers, NEW kind \in Listed, NEW h \in Homes,
         StartWalk(w, kind, h)
  PROVE  WalksInv'
<1> DEFINE s == [pc |-> "between", kind |-> kind, home |-> h, offset |-> 0, total |-> 0,
                 page |-> {}, seen |-> {},
                 start |-> Ids({r \in rows : r.kind = kind /\ r.home = h}), gone |-> gone]
<1>1. UNCHANGED <<rows, gone>> /\ walk' = [walk EXCEPT ![w] = s]
  BY DEF StartWalk
<1>2. s \in Walk
  <2>1. Ids({r \in rows : r.kind = kind /\ r.home = h}) \subseteq Clients \cup Old \cup Homes
    BY DEF Ids, TableInv, TypeOK, Row
  <2>2. gone \subseteq Row
    BY DEF TableInv, TypeOK
  <2> QED
    BY <2>1, <2>2 DEF Walk
<1>3. walk' \in [Walkers -> Walk] /\ walk'[w] = s /\ \A v \in Walkers \ {w} : walk'[v] = walk[v]
  <2> HIDE DEF s
  <2> QED
    BY <1>1, <1>2 DEF WalksInv
<1>4. WalkInv(w)'
  <2>1. Listing(w)' = {r \in rows : r.kind = kind /\ r.home = h}
    BY <1>1, <1>3 DEF Listing
  <2>2. walk'[w].start \subseteq Ids(Listing(w))' /\ walk'[w].start \subseteq Ids(rows \cup gone)'
    BY <1>1, <1>3, <2>1 DEF Ids
  <2>3. PICK S : S = {r \in rows : r.kind = kind /\ r.home = h}
    OBVIOUS
  <2>4. \A r \in S : Place(S, r) \in Nat
    <3>1. S \in SUBSET Row /\ IsFiniteSet(S) /\ NamesDiffer(S) /\ 0 \in Nat
      BY <2>3, SelectedRows
    <3> QED
      BY <3>1, Pages
  <2>5. \A r \in S : ~(Place(S, r) < 0)
    BY <2>4
  <2>6. Listing(w)' = S
    BY <2>1, <2>3
  <2> QED
    BY <1>1, <1>3, <2>2, <2>5, <2>6 DEF WalkInv
<1>5. \A v \in Walkers \ {w} : WalkInv(v)'
  BY <1>1, <1>3, WalkQuiet DEF WalksInv
<1> QED
  BY <1>3, <1>4, <1>5 DEF WalksInv

\* The total is what is listed.
LEMMA WalksCount ==
  ASSUME TableInv, TableInv', WalksInv, NEW w \in Walkers, Count(w)
  PROVE  WalksInv'
<1>1. /\ UNCHANGED <<rows, gone>> /\ walk[w].pc = "between"
      /\ walk' = [walk EXCEPT ![w].pc = "counted", ![w].total = Cardinality(Listing(w))]
  BY DEF Count
<1>2. Cardinality(Listing(w)) \in Nat
  <2>1. walk[w].kind \in Listed
    BY <1>1 DEF WalksInv, WalkInv
  <2> QED
    BY <2>1, Listings, FS_CardinalityType
<1>3. /\ walk' \in [Walkers -> Walk]
      /\ walk'[w] = [walk[w] EXCEPT !.pc = "counted", !.total = Cardinality(Listing(w))]
      /\ \A v \in Walkers \ {w} : walk'[v] = walk[v]
  <2>1. walk \in [Walkers -> Walk]
    BY DEF WalksInv
  <2>2. [walk[w] EXCEPT !.pc = "counted", !.total = Cardinality(Listing(w))] \in Walk
    BY <1>2, <2>1 DEF Walk
  <2>3. walk' = [walk EXCEPT ![w] = [walk[w] EXCEPT !.pc = "counted", !.total = Cardinality(Listing(w))]]
    BY <1>1, <2>1 DEF Walk
  <2> QED
    BY <2>1, <2>2, <2>3
<1>4. /\ walk'[w].pc = "counted" /\ walk'[w].total = Cardinality(Listing(w))
      /\ walk'[w].kind = walk[w].kind /\ walk'[w].home = walk[w].home
      /\ walk'[w].gone = walk[w].gone /\ walk'[w].start = walk[w].start
      /\ walk'[w].offset = walk[w].offset /\ walk'[w].seen = walk[w].seen
  BY <1>3 DEF WalksInv, Walk
<1>5. Listing(w)' = Listing(w) /\ GoneSince(w)' = GoneSince(w)
  BY <1>1, <1>4 DEF Listing, GoneSince
<1>6. WalkInv(w)'
  <2>1. Cardinality(Listing(w)) <= Cardinality(Listing(w))
    BY <1>2
  <2>2. Ids(Listing(w))' = Ids(Listing(w)) /\ Ids(rows \cup gone)' = Ids(rows \cup gone)
        /\ Cardinality(Listing(w))' = Cardinality(Listing(w))
        /\ NamesOf(Listing(w))' = NamesOf(Listing(w))
    BY <1>1, <1>5 DEF Ids, NamesOf
  <2> QED
    BY <1>1, <1>4, <1>5, <2>1, <2>2 DEF WalksInv, WalkInv, Place
<1>7. \A v \in Walkers \ {w} : WalkInv(v)'
  BY <1>1, <1>3, WalkQuiet DEF WalksInv
<1> QED
  BY <1>3, <1>6, <1>7 DEF WalksInv

\* What is on the page has been seen, and what was before it; a page that is not
\* full leaves nothing after it.
LEMMA WalksFetch ==
  ASSUME TableInv, TableInv', WalksInv, NEW w \in Walkers, Fetch(w)
  PROVE  WalksInv'
<1> DEFINE P == Page(Listing(w), walk[w].offset)
           full == ~(Cardinality(P) < Limit)
           offset == IF full THEN walk[w].offset + Limit ELSE walk[w].offset
           point == IF full THEN "between" ELSE "done"
<1>1. UNCHANGED <<rows, gone>> /\ walk[w].pc = "counted" /\ walk[w].kind \in Listed
      /\ walk[w] \in Walk
  BY DEF Fetch, WalksInv, WalkInv
<1>2. walk' = [walk EXCEPT ![w] = [walk[w] EXCEPT
          !.pc = point, !.page = Ids(P), !.seen = walk[w].seen \cup Ids(P), !.offset = offset]]
  BY FetchIs
<1>3. PICK L : L = Listing(w)
  OBVIOUS
<1>4. /\ L \in SUBSET Row /\ IsFiniteSet(L) /\ NamesDiffer(L) /\ walk[w].offset \in Nat
      /\ Limit \in Nat /\ walk[w].total \in Nat
  BY <1>1, <1>3, Listings, PagesHaveRows DEF Walk
<1>5. /\ \A r \in L : Place(L, r) \in Nat
      /\ \A r \in L : r \in P <=> walk[w].offset <= Place(L, r) /\ Place(L, r) < walk[w].offset + Limit
      /\ ~full => /\ \A r \in L : Place(L, r) < walk[w].offset + Limit
                  /\ Cardinality(L) <= walk[w].offset + Cardinality(P)
  BY <1>3, <1>4, Pages
<1>6. P \in SUBSET L
  BY <1>3 DEF Page
<1>7. Cardinality(Ids(P)) = Cardinality(P) /\ Cardinality(P) \in Nat /\ Cardinality(L) \in Nat
  <2>1. IsFiniteSet(P)
    BY <1>4, <1>6, FS_Subset
  <2>2. \A q, r \in P : q.id = r.id => q = r
    BY <1>3, <1>6 DEF Listing, TableInv, TypeOK
  <2> DEFINE f == [r \in P |-> r.id]
  <2> HIDE DEF P
  <2>3. f \in Bijection(P, Ids(P))
    BY <2>2 DEF Ids, Bijection, Injection, IsInjective, Surjection
  <2>4. ExistsBijection(P, Ids(P))
    BY <2>3 DEF ExistsBijection
  <2> QED
    BY <2>1, <2>4, <1>4, FS_Bijection, FS_CardinalityType
<1>8. Ids(P) \subseteq Clients \cup Old \cup Homes
  BY <1>4, <1>6 DEF Ids, Row
<1>9. offset \in Nat /\ point \in {"between", "done"}
  BY <1>4
<1> HIDE DEF P, full, offset, point
<1>10. /\ walk' \in [Walkers -> Walk] /\ \A v \in Walkers \ {w} : walk'[v] = walk[v]
       /\ walk'[w].pc = point /\ walk'[w].page = Ids(P)
       /\ walk'[w].seen = walk[w].seen \cup Ids(P) /\ walk'[w].offset = offset
       /\ walk'[w].kind = walk[w].kind /\ walk'[w].home = walk[w].home
       /\ walk'[w].gone = walk[w].gone /\ walk'[w].start = walk[w].start
       /\ walk'[w].total = walk[w].total
  <2> DEFINE s == [walk[w] EXCEPT !.pc = point, !.page = Ids(P),
                                  !.seen = walk[w].seen \cup Ids(P), !.offset = offset]
  <2>1. /\ s \in Walk /\ s.pc = point /\ s.page = Ids(P) /\ s.seen = walk[w].seen \cup Ids(P)
        /\ s.offset = offset /\ s.kind = walk[w].kind /\ s.home = walk[w].home
        /\ s.gone = walk[w].gone /\ s.start = walk[w].start /\ s.total = walk[w].total
    BY <1>1, <1>8, <1>9 DEF Walk
  <2>2. walk \in [Walkers -> Walk] /\ walk' = [walk EXCEPT ![w] = s]
    BY <1>2 DEF WalksInv
  <2> HIDE DEF s
  <2> QED
    BY <2>1, <2>2
<1>11. Listing(w)' = L /\ GoneSince(w)' = GoneSince(w)
  BY <1>1, <1>3, <1>10 DEF Listing, GoneSince
<1>12. ASSUME NEW r \in L, r.id \in walk[w].start, GoneSince(w) = {},
              Place(L, r) < walk[w].offset + Limit
       PROVE  r.id \in walk'[w].seen
  <2>1. CASE Place(L, r) < walk[w].offset
    <3>1. r.id \in walk[w].seen
      BY <1>1, <1>3, <1>12, <2>1 DEF WalksInv, WalkInv
    <3> QED
      BY <1>10, <3>1
  <2>2. CASE ~(Place(L, r) < walk[w].offset)
    <3>1. r \in P
      BY <1>4, <1>5, <1>12, <2>2
    <3> QED
      BY <1>10, <3>1 DEF Ids
  <2> QED
    BY <2>1, <2>2
<1>13. walk[w].total <= Cardinality(L) /\ walk[w].gone \subseteq gone
       /\ walk[w].start \subseteq Ids(rows \cup gone)
       /\ (GoneSince(w) = {} => walk[w].start \subseteq Ids(L))
  BY <1>1, <1>3 DEF WalksInv, WalkInv
<1>14. WalkInv(w)'
  <2>1. CASE full
    <3>1. point = "between" /\ offset = walk[w].offset + Limit
      BY <2>1 DEF point, offset
    <3>2. /\ walk'[w].start \subseteq Ids(rows \cup gone)'
          /\ GoneSince(w)' = {} => walk'[w].start \subseteq Ids(L)
          /\ GoneSince(w)' = {} => \A r \in L : r.id \in walk'[w].start /\ Place(L, r) < walk'[w].offset
                                       => r.id \in walk'[w].seen
      BY <1>1, <1>10, <1>11, <1>12, <1>13, <3>1 DEF Ids
    <3> QED
      BY <1>1, <1>10, <1>11, <1>13, <3>1, <3>2 DEF WalkInv, Ids
  <2>2. CASE ~full
    <3>1. point = "done" /\ offset = walk[w].offset
      BY <2>2 DEF point, offset
    <3>2. walk[w].total <= walk[w].offset + Cardinality(Ids(P))
      BY <1>4, <1>5, <1>7, <1>13, <2>2
    <3>3. ASSUME GoneSince(w) = {} PROVE walk[w].start \subseteq walk'[w].seen
      BY <1>5, <1>12, <1>13, <2>2, <3>3 DEF Ids
    <3>4. walk'[w].start \subseteq Ids(rows \cup gone)'
          /\ (GoneSince(w)' = {} => walk'[w].start \subseteq Ids(L))
      BY <1>1, <1>10, <1>11, <1>13 DEF Ids
    <3> QED
      BY <1>1, <1>10, <1>11, <1>13, <3>1, <3>2, <3>3, <3>4 DEF WalkInv, Ids
  <2> QED
    BY <2>1, <2>2
<1>15. \A v \in Walkers \ {w} : WalkInv(v)'
  BY <1>1, <1>10, WalkQuiet DEF WalksInv
<1> QED
  BY <1>10, <1>14, <1>15 DEF WalksInv

-----------------------------------------------------------------------------
(***************************************************************************)
(* The invariant, and what follows from it.                                *)
(***************************************************************************)

IInv == TableInv /\ WalksInv

\* Every step keeps the tables and the walks in order.
LEMMA CatalogNext == IInv /\ [Next]_vars => IInv'
<1> SUFFICES ASSUME IInv, [Next]_vars PROVE IInv'
  OBVIOUS
<1>i. TableInv /\ WalksInv
  BY DEF IInv
<1>1. ASSUME NEW c \in Clients, Create(c) \/ Use(c) PROVE IInv'
  <2>1. TableInv'
    BY <1>i, <1>1, TableClient
  <2>2. CASE CommitInsert(c)
    BY <1>i, <2>1, <2>2, WalksGrow DEF IInv
  <2>3. CASE \E r \in rows :
                LoopIsFree /\ rows' = rows \ {r} /\ gone' = gone \cup {r} /\ UNCHANGED walk
    <3>1. PICK r \in rows :
                LoopIsFree /\ rows' = rows \ {r} /\ gone' = gone \cup {r} /\ UNCHANGED walk
      BY <2>3
    <3>2. {r} \in SUBSET rows
      BY <3>1
    <3> QED
      BY <1>i, <2>1, <3>1, <3>2, WalksShrink DEF IInv
  <2>4. CASE \E f \in Asked : UpdateApplication(c, f) \/ UpdateDirectory(c, f) \/ UpdateOrg(c, f)
    <3>1. PICK f \in Asked : UpdateApplication(c, f) \/ UpdateDirectory(c, f) \/ UpdateOrg(c, f)
      BY <2>4
    <3>2. Patch(c, f) /\ (pc[c] = "entered" \/ pc[c] = "patching")
      BY <1>i, <3>1, Patches
    <3>3. copy[c] \in Row /\ \A q \in rows : q.id = copy[c].id => SamePlace(q, copy[c])
      BY <1>i, <3>2, PatchKeepsPlace
    <3> DEFINE r == [copy[c] EXCEPT !.by[f] = c]
    <3>4. r \in Row /\ SamePlace(copy[c], r)
      BY <3>3, PatchedRow
    <3>5. Store(r) /\ UNCHANGED <<walk, gone>>
      BY <3>2 DEF Patch
    <3> HIDE DEF r
    <3>6. \A q \in rows : q.id = r.id => SamePlace(q, r)
      BY <3>3, <3>4 DEF SamePlace
    <3>7. /\ \A q \in rows : \E p \in rows' : SamePlace(q, p)
          /\ \A p \in rows' : \E q \in rows : SamePlace(p, q)
      BY <1>i, <3>4, <3>5, <3>6, StoreKeepsPlaces
    <3> QED
      BY <1>i, <2>1, <3>5, <3>7, WalksPatch DEF IInv
  <2>5. CASE UNCHANGED <<rows, gone, walk>>
    BY <1>i, <2>1, <2>5, WalksQuiet DEF IInv
  <2>6. ASSUME NEW kind \in Listed, Delete(c, kind)
        PROVE  \/ UNCHANGED <<rows, gone, walk>>
               \/ \E r \in rows :
                    LoopIsFree /\ rows' = rows \ {r} /\ gone' = gone \cup {r} /\ UNCHANGED walk
    BY <2>6 DEF Delete, Refuse, Found
  <2>7. \/ UNCHANGED <<rows, gone, walk>>
        \/ CommitInsert(c)
        \/ \E kind \in Listed : Delete(c, kind)
        \/ \E f \in Asked : UpdateApplication(c, f) \/ UpdateDirectory(c, f) \/ UpdateOrg(c, f)
    <3>1. ASSUME NEW r, Insert(c, r) PROVE UNCHANGED <<rows, gone, walk>>
      BY <3>1 DEF Insert
    <3>2. ASSUME Create(c) PROVE UNCHANGED <<rows, gone, walk>> \/ CommitInsert(c)
      BY <3>1, <3>2 DEF Create, Enter, EnterNowhere, CreateApplication, CreateDirectory, CreateWorkspace,
                        CreateFails, Refuse
    <3>3. ASSUME Use(c)
          PROVE  \/ UNCHANGED <<rows, gone, walk>>
                 \/ \E kind \in Listed : Delete(c, kind)
                 \/ \E f \in Asked : UpdateApplication(c, f) \/ UpdateDirectory(c, f) \/ UpdateOrg(c, f)
      BY <3>3 DEF Use, GetWorkspace, GetApplication, GetDirectory, Get, Read, PatchFails,
                  PatchIsInvalid, Refuse
    <3> QED
      BY <1>1, <3>2, <3>3
  <2> QED
    BY <2>2, <2>3, <2>4, <2>5, <2>6, <2>7
<1>2. ASSUME NEW w \in Walkers, List(w) PROVE IInv'
  <2>1. TableInv'
    BY <1>i, <1>2, TableList
  <2>2. WalksInv'
    BY <1>i, <1>2, <2>1, WalksStart, WalksCount, WalksFetch
    DEF List, ListApplications, ListDirectories, Listed
  <2> QED
    BY <2>1, <2>2 DEF IInv
<1>3. ASSUME NEW h \in Homes, WorkspaceIsWiped(h) PROVE IInv'
  <2>1. TableInv'
    BY <1>i, <1>3, TableWiped
  <2> DEFINE D == {r \in rows : r.home = h}
  <2>2. LoopIsFree /\ rows' = rows \ D /\ gone' = gone \cup D /\ UNCHANGED walk /\ D \in SUBSET rows
    BY <1>3 DEF WorkspaceIsWiped
  <2> HIDE DEF D
  <2> QED
    BY <1>i, <2>1, <2>2, WalksShrink DEF IInv
<1>4. CASE UNCHANGED vars
  <2>1. TableInv'
    BY <1>i, <1>4 DEF vars, client, TableInv, TypeOK, RowsInv, HeldInv, CopyInv, LoopInv, Exists, Workspaces,
                      SameName, Placed, Found
  <2> QED
    BY <1>i, <1>4, <2>1, WalksQuiet DEF IInv, vars
<1> QED
  BY <1>1, <1>2, <1>3, <1>4 DEF Next

\* Names, copies, insertions and walks are in order in every state, whichever
\* requests overlap.
THEOREM Inductive == Spec => []IInv
<1>1. Init => IInv
  BY TableInit, WalksInit DEF IInv
<1> QED
  BY <1>1, CatalogNext, PTL DEF Spec

\* Names are unique in each workspace, every row is in a workspace that is there,
\* and no list announces more rows than it shows.
THEOREM NamesAreUnique == Spec => []CatalogIsConsistent
<1>1. IInv => CatalogIsConsistent
  BY DEF IInv, TableInv, WalksInv, WalkInv, CatalogIsConsistent, TotalIsReached
<1> QED
  BY <1>1, Inductive, PTL

\* A list shows every row that was there when it began, whatever is inserted and
\* patched between its pages, as long as nothing is deleted.
THEOREM ListsAreComplete == Spec => []WalkMissesNothing
<1>1. IInv => WalkMissesNothing
  BY DEF IInv, WalksInv, WalkInv, WalkMissesNothing
<1> QED
  BY <1>1, Inductive, PTL

-----------------------------------------------------------------------------
(***************************************************************************)
(* What no step does.                                                      *)
(***************************************************************************)

\* The steps that change rows: whose they are, and which rows they change.
LEMMA RowSteps ==
  ASSUME TableInv, [Next]_vars
  PROVE  \/ UNCHANGED rows
         \/ \E c \in Clients : CommitInsert(c)
         \/ \E c \in Clients, r \in rows :
                /\ rows' = rows \ {r} /\ r.home = home[c]
                /\ \A d \in Clients \ {c} : pc'[d] = pc[d]
         \/ \E c \in Clients, f \in Asked :
                /\ Patch(c, f)
                /\ pc[c] = "entered" \/ pc[c] = "patching"
         \/ \E h \in Homes : WorkspaceIsWiped(h)
<1>1. ASSUME NEW c \in Clients, Create(c) PROVE UNCHANGED rows \/ CommitInsert(c)
  <2>1. ASSUME NEW r, Insert(c, r) PROVE UNCHANGED rows
    BY <2>1 DEF Insert
  <2> QED
    BY <1>1, <2>1 DEF Create, Enter, EnterNowhere, CreateApplication, CreateDirectory, CreateWorkspace,
                      CreateFails, Refuse
<1>2. ASSUME NEW c \in Clients, NEW kind \in Listed, Delete(c, kind)
      PROVE  \/ UNCHANGED rows
             \/ \E r \in rows :
                    /\ rows' = rows \ {r} /\ r.home = home[c]
                    /\ \A d \in Clients \ {c} : pc'[d] = pc[d]
  BY <1>2 DEF Delete, Refuse, Found, Answer, Goto, TableInv, TypeOK
<1>3. ASSUME NEW c \in Clients, Use(c)
      PROVE  \/ UNCHANGED rows
             \/ \E kind \in Listed : Delete(c, kind)
             \/ \E f \in Asked : UpdateApplication(c, f) \/ UpdateDirectory(c, f) \/ UpdateOrg(c, f)
  BY <1>3 DEF Use, GetWorkspace, GetApplication, GetDirectory, Get, Read, PatchFails,
              PatchIsInvalid, Refuse
<1>4. ASSUME NEW c \in Clients, NEW f \in Asked,
             UpdateApplication(c, f) \/ UpdateDirectory(c, f) \/ UpdateOrg(c, f)
      PROVE  Patch(c, f) /\ (pc[c] = "entered" \/ pc[c] = "patching")
  BY <1>4, Patches
<1>5. ASSUME NEW w \in Walkers, List(w) PROVE UNCHANGED rows
  BY <1>5 DEF List, ListApplications, ListDirectories, StartWalk, Count, Fetch
<1> QED
  BY <1>1, <1>2, <1>3, <1>4, <1>5 DEF Next, vars

\* What a patch does to the rows.
LEMMA PatchStep ==
  ASSUME TableInv, NEW c \in Clients, NEW f \in Asked, Patch(c, f),
         pc[c] = "entered" \/ pc[c] = "patching"
  PROVE  \E new \in Row :
            /\ Store(new)
            /\ new.id = copy[c].id /\ new.home = home[c]
            /\ \A q \in rows : q.id = new.id => SamePlace(q, new)
            /\ \A q \in rows, g \in Asked :
                    q.id = new.id /\ q.kind \in Listed /\ q.by[g] # new.by[g] => g = f
<1>1. /\ copy[c] \in Row
      /\ \A q \in rows : q.id = copy[c].id => SamePlace(q, copy[c])
      /\ pc[c] = "patching" => copy[c] \in rows
      /\ copy[c].home = home[c]
      /\ pc[c] = "entered" => copy[c].kind = "workspaces"
  BY PatchKeepsPlace
<1>2. PICK new : new = [copy[c] EXCEPT !.by[f] = c]
  OBVIOUS
<1>3. /\ new \in Row /\ SamePlace(copy[c], new)
      /\ \A g \in Asked : new.by[g] # copy[c].by[g] => g = f
  BY <1>1, <1>2, PatchedRow
<1>4. Store(new)
  BY <1>2 DEF Patch
<1>5. ASSUME NEW q \in rows, NEW g \in Asked, q.id = new.id, q.kind \in Listed, q.by[g] # new.by[g]
      PROVE  g = f
  <2>1. SamePlace(q, copy[c])
    BY <1>1, <1>3, <1>5 DEF SamePlace
  <2>2. pc[c] = "patching"
    BY <1>1, <1>5, <2>1 DEF SamePlace, Listed
  <2>3. q = copy[c]
    BY <1>1, <2>1, <2>2 DEF SamePlace, TableInv, TypeOK
  <2> QED
    BY <1>3, <1>5, <2>3
<1> QED
  BY <1>1, <1>3, <1>4, <1>5 DEF SamePlace

\* A step that patches an application or a directory changes one field of it.
LEMMA PatchesOneField ==
  ASSUME TableInv, [Next]_vars
  PROVE  \A q \in rows, r \in rows' : q.id = r.id /\ q.kind \in Listed =>
            \A f, g \in Asked : q.by[f] # r.by[f] /\ q.by[g] # r.by[g] => f = g
<1> SUFFICES ASSUME NEW q \in rows, NEW r \in rows', q.id = r.id, q.kind \in Listed,
                    NEW f \in Asked, NEW g \in Asked, q.by[f] # r.by[f], q.by[g] # r.by[g]
             PROVE  f = g
  OBVIOUS
<1>1. r \notin rows
  BY DEF TableInv, TypeOK
<1>2. CASE \E c \in Clients : CommitInsert(c)
  <2>1. PICK c \in Clients : rows' = rows \cup {held[c]} /\ pc[c] = "inserted"
    BY <1>2 DEF CommitInsert
  <2>2. q.id # held[c].id
    BY <2>1 DEF TableInv, HeldInv
  <2> QED
    BY <1>1, <2>1, <2>2
<1>3. CASE \E c \in Clients, e \in Asked : Patch(c, e) /\ (pc[c] = "entered" \/ pc[c] = "patching")
  <2>1. PICK c \in Clients, e \in Asked : Patch(c, e) /\ (pc[c] = "entered" \/ pc[c] = "patching")
    BY <1>3
  <2>2. PICK new \in Row :
            /\ Store(new)
            /\ \A p \in rows, h \in Asked :
                    p.id = new.id /\ p.kind \in Listed /\ p.by[h] # new.by[h] => h = e
    BY <2>1, PatchStep
  <2>3. r = new
    BY <1>1, <2>2 DEF Store
  <2> QED
    BY <2>2, <2>3
<1>4. \/ \E c \in Clients : CommitInsert(c)
      \/ \E c \in Clients, e \in Asked : Patch(c, e) /\ (pc[c] = "entered" \/ pc[c] = "patching")
  BY <1>1, RowSteps DEF WorkspaceIsWiped
<1> QED
  BY <1>2, <1>3, <1>4

\* No patch of an application or a directory undoes another one, though each writes
\* every column from a copy.
THEOREM PatchesKeepTheOthers == Spec => PatchChangesItsField
  BY Inductive, PatchesOneField, PTL DEF Spec, IInv, PatchChangesItsField

\* What one step of a client may change: rows of its own workspace, and no row that
\* is not there but the one it has inserted.
LEMMA WritesStayInPlace ==
  ASSUME TableInv, [Next]_vars
  PROVE  /\ \A c \in Clients : pc[c] \in {"entered", "patching"} /\ pc'[c] # pc[c] =>
                {r \in rows : r.home # home[c]} = {r \in rows' : r.home # home[c]}
         /\ \A r \in rows' : r.id \notin Ids(rows) => \E c \in Clients : held[c] = r
<1>1. CASE UNCHANGED rows
  BY <1>1 DEF Ids
<1>2. ASSUME NEW d \in Clients, CommitInsert(d)
      PROVE  /\ \A c \in Clients : ~(pc[c] \in {"entered", "patching"} /\ pc'[c] # pc[c])
             /\ \A r \in rows' : r.id \notin Ids(rows) => \E c \in Clients : held[c] = r
  <2>1. rows' = rows \cup {held[d]} /\ pc[d] = "inserted" /\ pc' = [pc EXCEPT ![d] = "over"]
    BY <1>2 DEF CommitInsert, Answer, Goto
  <2>2. \A c \in Clients : ~(pc[c] \in {"entered", "patching"} /\ pc'[c] # pc[c])
    BY <2>1 DEF TableInv, TypeOK
  <2>3. \A r \in rows' : r.id \notin Ids(rows) => r = held[d]
    BY <2>1 DEF Ids
  <2> QED
    BY <2>2, <2>3
<1>3. ASSUME NEW d \in Clients, NEW p \in rows, rows' = rows \ {p}, p.home = home[d],
             \A c \in Clients \ {d} : pc'[c] = pc[c]
      PROVE  /\ \A c \in Clients : pc[c] \in {"entered", "patching"} /\ pc'[c] # pc[c] =>
                    {r \in rows : r.home # home[c]} = {r \in rows' : r.home # home[c]}
             /\ \A r \in rows' : r.id \in Ids(rows)
  BY <1>3 DEF Ids
<1>4. ASSUME NEW d \in Clients, NEW f \in Asked, Patch(d, f), pc[d] = "entered" \/ pc[d] = "patching"
      PROVE  /\ \A c \in Clients : pc[c] \in {"entered", "patching"} /\ pc'[c] # pc[c] =>
                    {r \in rows : r.home # home[c]} = {r \in rows' : r.home # home[c]}
             /\ \A r \in rows' : r.id \in Ids(rows)
  <2>1. PICK new \in Row :
            /\ Store(new) /\ new.home = home[d]
            /\ \A q \in rows : q.id = new.id => SamePlace(q, new)
    BY <1>4, PatchStep
  <2>2. pc' = [pc EXCEPT ![d] = "over"]
    BY <1>4 DEF Patch, Answer, Goto
  <2>3. \A r \in rows' : r.id \in Ids(rows)
    BY <2>1 DEF Store, Ids
  <2>4. \A r : r.home # home[d] => (r \in rows <=> r \in rows')
    BY <2>1 DEF Store, SamePlace
  <2>5. {r \in rows : r.home # home[d]} = {r \in rows' : r.home # home[d]}
    BY <2>4
  <2>6. \A c \in Clients : pc'[c] # pc[c] => c = d
    BY <2>2 DEF TableInv, TypeOK
  <2> QED
    BY <2>3, <2>5, <2>6
<1>5. ASSUME NEW h \in Homes, WorkspaceIsWiped(h)
      PROVE  UNCHANGED pc /\ \A r \in rows' : r.id \in Ids(rows)
  BY <1>5 DEF WorkspaceIsWiped, client, Ids
<1> QED
  BY <1>1, <1>2, <1>3, <1>4, <1>5, RowSteps

\* A client changes nothing in a workspace other than its own, and what was deleted
\* does not come back.
THEOREM WritesStay == Spec => WritesKeepTheirPlace
  BY Inductive, WritesStayInPlace, PTL DEF Spec, IInv, WritesKeepTheirPlace

====
