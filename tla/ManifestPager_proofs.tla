------------------------- MODULE ManifestPager_proofs -------------------------
(***************************************************************************)
(* Proofs about ManifestPager, for every finite set of rows, every size of *)
(* a page, every window and every length of a second.                      *)
(***************************************************************************)
EXTENDS ManifestPager, FiniteSetTheorems, WellFoundedInduction, TLAPS

\* What a row shows of itself now was seen, and what was recorded was seen.
SeenInv ==
    pc # "failed" =>
        /\ \A k \in Keys : View(mod, k) \in seen[k]
        /\ \A k \in Keys : out[k] # NoTime => out[k] \in seen[k]

\* The cursor is a row's; a row that never left the window and is not recorded yet
\* lies ahead of it.
CursorInv ==
    /\ from.by # "start" => from.mod # NoTime /\ from.key # NoTime
    /\ pc = "page" => \A k \in readable :
          out[k] = NoTime /\ NoTime \notin seen[k] => Ahead(k)

PagerInv == TypeOK /\ SeenInv /\ CursorInv /\ ManifestIsCurrent
-----------------------------------------------------------------------------
(* Stamps and the order of the rows.                                       *)

LEMMA Numbers ==
    /\ Keys \subseteq Int /\ IsFiniteSet(Keys) /\ NoTime \notin Int /\ NoTime \notin Keys
    /\ PageSize \in Nat /\ PageSize > 0 /\ Unit \in Nat /\ Unit > 0
    /\ WinStart \in Nat /\ WinEnd \in Nat /\ StartNow \in Nat
  <1>1. {PageSize, Unit} \subseteq Nat \ {0}
    BY PagerAssumption
  <1>2. {WinStart, WinEnd, StartNow, MaxNow, MaxEdits} \subseteq Nat
    BY PagerAssumption
  <1>3. /\ PageSize \in Nat /\ PageSize # 0 /\ Unit \in Nat /\ Unit # 0
        /\ WinStart \in Nat /\ WinEnd \in Nat /\ StartNow \in Nat
    BY <1>1, <1>2
  <1>4. \A n \in Nat : n # 0 => n > 0
    OBVIOUS
  <1>5. Keys \subseteq Int /\ IsFiniteSet(Keys) /\ NoTime \notin Int
    BY PagerAssumption
  <1>6. NoTime \notin Keys
    BY <1>5
  <1> QED  BY <1>3, <1>4, <1>5, <1>6

LEMMA Rounding ==
  ASSUME NEW t \in Nat, NEW u \in Nat, u > 0
  PROVE  (t \div u) * u \in Nat /\ (t \div u) * u <= t
  <1>1. t \div u \in Nat
    OBVIOUS
  <1>2. (t \div u) * u \in Nat
    BY <1>1
  <1>3. (t \div u) * u <= t
    OBVIOUS
  <1> QED  BY <1>2, <1>3

LEMMA SecondFacts ==
  ASSUME NEW t \in Nat
  PROVE  Second(t) \in Nat /\ Second(t) <= t
  BY Rounding, Numbers DEF Second

Present == {k \in Keys : mod[k] # NoTime}

\* Rows that are there are in one strict order.
LEMMA OrderOfRows ==
  ASSUME TypeOK, NEW rows, rows \subseteq Present
  PROVE  /\ \A i, j, k \in rows : Before(i, j) /\ Before(j, k) => Before(i, k)
         /\ \A k \in rows : ~Before(k, k)
         /\ \A j, k \in rows : j # k => Before(j, k) \/ Before(k, j)
  <1>1. \A k \in rows : k \in Int /\ mod[k] \in Nat
    BY Numbers DEF TypeOK, Stamps, Present
  <1> QED  BY <1>1 DEF Before

\* How many rows come before a row: what the server counts a page by.
Rank(rows, k) == Cardinality({j \in rows : Before(j, k)})

LEMMA RankFacts ==
  ASSUME TypeOK, NEW rows, rows \subseteq Present
  PROVE  /\ IsFiniteSet(rows) /\ Cardinality(rows) \in Nat
         /\ \A k \in rows : Rank(rows, k) \in Nat /\ Rank(rows, k) <= Cardinality(rows)
         /\ \A j, k \in rows : Before(j, k) => Rank(rows, j) < Rank(rows, k)
  <1>1. IsFiniteSet(rows) /\ Cardinality(rows) \in Nat
    BY Numbers, FS_Subset, FS_CardinalityType DEF Present
  <1>2. ASSUME NEW k \in rows
        PROVE  /\ IsFiniteSet({j \in rows : Before(j, k)})
               /\ Rank(rows, k) \in Nat /\ Rank(rows, k) <= Cardinality(rows)
    BY <1>1, FS_Subset, FS_CardinalityType DEF Rank
  <1>3. ASSUME NEW j \in rows, NEW k \in rows, Before(j, k)
        PROVE  Rank(rows, j) < Rank(rows, k)
    <2> DEFINE ofJ == {i \in rows : Before(i, j)}
               ofK == {i \in rows : Before(i, k)}
    <2>1. ofJ \subseteq ofK /\ j \in ofK /\ j \notin ofJ
      BY <1>3, OrderOfRows
    <2>2. Rank(rows, j) = Cardinality(ofJ) /\ Rank(rows, k) = Cardinality(ofK)
      BY DEF Rank
    <2>3. IsFiniteSet(ofK)
      BY <1>2
    <2>4. Rank(rows, j) \in Nat /\ Rank(rows, k) \in Nat
      BY <1>2
    <2> HIDE DEF ofJ, ofK
    <2>5. Cardinality(ofJ) <= Cardinality(ofK) /\ Cardinality(ofJ) # Cardinality(ofK)
      BY <2>1, <2>3, FS_Subset
    <2> QED  BY <2>2, <2>4, <2>5
  <1> QED  BY <1>1, <1>2, <1>3

NatLess == OpToRel(<, Nat)

LEMMA NatLessMeaning == \A i, j \in Nat : <<i, j>> \in NatLess <=> i < j
  BY DEF NatLess, OpToRel

LEMMA LeastNumber ==
  ASSUME NEW S, S \subseteq Nat, S # {}
  PROVE  \E n \in S : \A m \in S : n <= m
  <1>1. IsWellFoundedOn(NatLess, Nat)
    BY NatLessThanWellFounded DEF NatLess
  <1>2. PICK n \in S : \A m \in S : <<m, n>> \notin NatLess
    BY <1>1, WFMin
  <1>3. ASSUME NEW m \in S
        PROVE  n <= m
    <2>1. m \in Nat /\ n \in Nat /\ ~(m < n)
      BY <1>2, NatLessMeaning
    <2> QED  BY <2>1
  <1> QED  BY <1>3

\* Some of the rows have a first one and a last one.
LEMMA Extremes ==
  ASSUME TypeOK, NEW rows, rows \subseteq Present,
         NEW some, some \subseteq rows, some # {}
  PROVE  /\ \E k \in some : \A j \in some \ {k} : Before(k, j)
         /\ \E k \in some : \A j \in some \ {k} : Before(j, k)
  <1> USE RankFacts
  <1>1. \A k \in some : Rank(rows, k) \in Nat /\ Rank(rows, k) <= Cardinality(rows)
    OBVIOUS
  <1>2. \A j, k \in some : j # k => Before(j, k) \/ Before(k, j)
    BY OrderOfRows
  <1>3. \A j, k \in some : Before(j, k) => Rank(rows, j) < Rank(rows, k)
    OBVIOUS
  <1>4. \E k \in some : \A j \in some \ {k} : Before(k, j)
    <2> DEFINE ranks == {Rank(rows, k) : k \in some}
    <2>1. ranks \subseteq Nat /\ ranks # {}
      BY <1>1
    <2>2. PICK n \in ranks : \A m \in ranks : n <= m
      <3> HIDE DEF ranks
      <3> QED  BY <2>1, LeastNumber
    <2>3. PICK k \in some : n = Rank(rows, k)
      OBVIOUS
    <2>4. ASSUME NEW j \in some, Before(j, k)
          PROVE  FALSE
      <3>1. Rank(rows, j) \in ranks
        OBVIOUS
      <3>2. Rank(rows, k) <= Rank(rows, j)
        BY <2>2, <2>3, <3>1
      <3> QED  BY <1>1, <1>3, <2>4, <3>2
    <2> QED  BY <1>2, <2>4
  <1>5. \E k \in some : \A j \in some \ {k} : Before(j, k)
    <2> DEFINE above(k) == Cardinality(rows) - Rank(rows, k)
               ranks == {above(k) : k \in some}
    <2>1. ranks \subseteq Nat /\ ranks # {}
      <3>1. \A k \in some : above(k) \in Nat
        BY <1>1
      <3> QED  BY <3>1
    <2>2. PICK n \in ranks : \A m \in ranks : n <= m
      <3> HIDE DEF ranks
      <3> QED  BY <2>1, LeastNumber
    <2>3. PICK k \in some : n = above(k)
      OBVIOUS
    <2>4. ASSUME NEW j \in some, Before(k, j)
          PROVE  FALSE
      <3>1. above(j) \in ranks
        OBVIOUS
      <3>2. above(k) <= above(j)
        BY <2>2, <2>3, <3>1
      <3>3. Rank(rows, k) < Rank(rows, j)
        BY <1>3, <2>4
      <3>4. Rank(rows, k) \in Nat /\ Rank(rows, j) \in Nat /\ Cardinality(rows) \in Nat
        BY <1>1
      <3> QED  BY <3>2, <3>3, <3>4
    <2> QED  BY <1>2, <2>4
  <1> QED  BY <1>4, <1>5
-----------------------------------------------------------------------------
(* Pages.                                                                  *)

LEMMA MatchingFacts ==
  ASSUME TypeOK
  PROVE  /\ Matching \subseteq Present
         /\ Page \subseteq Matching
         /\ \A k \in Matching : k \in Page <=> Rank(Matching, k) < PageSize
  BY DEF Matching, InManifest, Page, Rank, Present

LEMMA LastOfFacts ==
  ASSUME TypeOK, NEW rows, rows \subseteq Matching, rows # {}
  PROVE  LastOf(rows) \in rows
  <1>1. \E k \in rows : \A j \in rows \ {k} : Before(j, k)
    BY MatchingFacts, Extremes
  <1> QED  BY <1>1 DEF LastOf

\* A page has the first rows of those that match.
LEMMA PageIsFirst ==
  ASSUME TypeOK, NEW k \in Matching \ Page, NEW l \in Page
  PROVE  Before(l, k)
  <1>1. l \in Matching /\ Rank(Matching, l) < PageSize /\ ~(Rank(Matching, k) < PageSize)
    BY MatchingFacts
  <1>2. Rank(Matching, l) \in Nat /\ Rank(Matching, k) \in Nat
    BY <1>1, MatchingFacts, RankFacts
  <1>3. ~Before(k, l)
    <2> SUFFICES ASSUME Before(k, l)
                 PROVE  FALSE
      OBVIOUS
    <2>1. Rank(Matching, k) < Rank(Matching, l)
      BY <1>1, MatchingFacts, RankFacts
    <2> QED  BY <1>1, <1>2, <2>1, Numbers
  <1>4. Before(k, l) \/ Before(l, k)
    BY <1>1, MatchingFacts, OrderOfRows
  <1> QED  BY <1>3, <1>4

\* A page that leaves a row out is full.
LEMMA ShortPageIsLast ==
  ASSUME TypeOK, Page # Matching
  PROVE  Full /\ Page # {}
  <1> DEFINE rest == Matching \ Page
  <1>1. /\ Matching \subseteq Present
        /\ Page \subseteq Matching /\ rest # {} /\ rest \subseteq Matching
    BY MatchingFacts
  <1>2. IsFiniteSet(Matching) /\ IsFiniteSet(Page) /\ Cardinality(Page) \in Nat
    BY <1>1, RankFacts, FS_Subset, FS_CardinalityType
  <1>3. Cardinality(Page) >= PageSize
    <2>1. PICK k \in rest : \A j \in rest \ {k} : Before(k, j)
      <3> HIDE DEF rest
      <3> QED  BY <1>1, Extremes
    <2> DEFINE ahead == {j \in Matching : Before(j, k)}
    <2>2. ahead \subseteq Page
      <3> SUFFICES ASSUME NEW j \in ahead, j \notin Page
                   PROVE  FALSE
        OBVIOUS
      <3>1. j # k
        BY <1>1, OrderOfRows
      <3>2. Before(k, j) /\ Before(j, k)
        BY <2>1, <3>1
      <3>3. Before(k, k)
        BY <1>1, <3>2, OrderOfRows
      <3> QED  BY <1>1, <3>3, OrderOfRows
    <2>3. ~(Cardinality(ahead) < PageSize) /\ Cardinality(ahead) \in Nat
      BY <1>1, MatchingFacts, RankFacts DEF Rank
    <2>4. Cardinality(ahead) <= Cardinality(Page)
      BY <1>2, <2>2, FS_Subset
    <2> QED  BY <1>2, <2>3, <2>4, Numbers
  <1>4. Page # {}
    <2>1. Cardinality({}) = 0
      BY FS_EmptySet
    <2> QED  BY <1>3, <2>1, Numbers
  <1>5. Cardinality(Page) <= PageSize
    <2>1. PICK k \in Page : \A j \in Page \ {k} : Before(j, k)
      BY <1>1, <1>4, Extremes
    <2> DEFINE ahead == {j \in Matching : Before(j, k)}
    <2>2. Page \ {k} \subseteq ahead
      BY <1>1, <2>1
    <2>3. IsFiniteSet(ahead) /\ Cardinality(ahead) \in Nat
      BY <1>2, FS_Subset, FS_CardinalityType
    <2>4. Cardinality(ahead) < PageSize
      BY MatchingFacts DEF Rank
    <2>5. Cardinality(Page \ {k}) <= Cardinality(ahead)
      BY <2>2, <2>3, FS_Subset
    <2>6. Cardinality(Page \ {k}) = Cardinality(Page) - 1
      BY <1>2, FS_RemoveElement
    <2> QED  BY <1>2, <2>3, <2>4, <2>5, <2>6, Numbers
  <1> QED  BY <1>2, <1>3, <1>4, <1>5, Numbers DEF Full
-----------------------------------------------------------------------------
(* Every step keeps PagerInv.                                              *)

LEMMA InitPagerInv == Init => PagerInv
  <1> SUFFICES ASSUME Init
               PROVE  PagerInv
    OBVIOUS
  <1> USE Numbers DEF Init
  <1>1. mod \in [Keys -> Stamps]
    <2>1. (0 .. StartNow) \cup {NoTime} \subseteq Stamps
      BY DEF Stamps
    <2> QED  BY <2>1
  <1>2. \A k \in Keys : View(mod, k) \in Stamps
    BY <1>1 DEF View, Stamps
  <1>3. TypeOK
    BY <1>1, <1>2 DEF TypeOK, Nothing, FirstPage, Stamps
  <1>4. SeenInv
    BY DEF SeenInv, Nothing
  <1>5. CursorInv
    BY DEF CursorInv, FirstPage, Ahead
  <1> QED  BY <1>3, <1>4, <1>5 DEF PagerInv, ManifestIsCurrent

LEMMA StillKeepsInv ==
  ASSUME PagerInv, Tick \/ UNCHANGED vars
  PROVE  PagerInv'
  <1>1. UNCHANGED <<edits, mod, readable, fetch, seen>> /\ now' \in Nat
    BY DEF Tick, vars, server, PagerInv, TypeOK
  <1> USE <1>1 DEF PagerInv, fetch
  <1>2. TypeOK'
    BY DEF TypeOK
  <1>3. SeenInv' /\ ManifestIsCurrent'
    BY DEF SeenInv, ManifestIsCurrent, View, InManifest
  <1>4. CursorInv'
    BY DEF CursorInv, Ahead
  <1> QED  BY <1>2, <1>3, <1>4

\* A row that is ahead of the cursor is so with every later stamp.
LEMMA LaterIsAhead ==
  ASSUME PagerInv, NEW k \in Keys, mod[k] \in Nat, Ahead(k), UNCHANGED from,
         mod'[k] \in Nat, mod[k] <= mod'[k]
  PROVE  Ahead(k)'
  <1>1. from.by # "start" => from.mod \in Nat /\ Second(from.mod) \in Nat /\ from.key \in Int
    BY SecondFacts, Numbers DEF PagerInv, CursorInv, TypeOK, Stamps
  <1>2. from.by \in {"start", "cursor", "link"} /\ k \in Int
    BY Numbers DEF PagerInv, TypeOK
  <1>3. Second(from.mod)' = Second(from.mod)
    BY DEF Second
  <1>4. CASE from.by = "start"
    BY <1>4 DEF Ahead
  <1>5. CASE from.by = "cursor"
    <2>1. mod[k] > Second(from.mod) \/ (mod[k] = Second(from.mod) /\ k > from.key)
      BY <1>5 DEF Ahead
    <2>2. mod'[k] > Second(from.mod) \/ (mod'[k] = Second(from.mod) /\ k > from.key)
      BY <1>1, <1>5, <2>1
    <2> QED  BY <1>3, <1>5, <2>2 DEF Ahead
  <1>6. CASE from.by = "link"
    <2>1. mod[k] > from.mod \/ (mod[k] = from.mod /\ k > from.key)
      BY <1>6 DEF Ahead
    <2>2. mod'[k] > from.mod \/ (mod'[k] = from.mod /\ k > from.key)
      BY <1>1, <1>6, <2>1
    <2> QED  BY <1>6, <2>2 DEF Ahead
  <1> QED  BY <1>2, <1>4, <1>5, <1>6

LEMMA ChangeKeepsInv ==
  ASSUME PagerInv, NEW k \in Keys, NEW t \in Stamps, Change(k, t),
         NoTime \notin seen[k] => mod[k] = NoTime \/ t = NoTime \/ mod[k] <= t
  PROVE  PagerInv'
  <1> USE DEF PagerInv, Change, fetch
  <1>1. /\ mod' \in [Keys -> Stamps] /\ mod'[k] = t
        /\ \A j \in Keys \ {k} : mod'[j] = mod[j]
    BY DEF TypeOK
  <1>2. \A j \in Keys : View(mod', j) \in Stamps
    BY <1>1 DEF View, Stamps
  <1>3. /\ seen' \in [Keys -> SUBSET Stamps]
        /\ seen'[k] = seen[k] \cup {View(mod', k)}
        /\ \A j \in Keys \ {k} : seen'[j] = seen[j] /\ View(mod', j) = View(mod, j)
    <2>1. \A j \in Keys \ {k} : View(mod', j) = View(mod, j)
      BY <1>1 DEF View, InManifest
    <2> QED  BY <1>2, <2>1 DEF TypeOK
  <1>4. TypeOK'
    <2>1. edits' \in Nat /\ UNCHANGED <<now, readable, pc, from, out>>
      BY DEF TypeOK
    <2> HIDE DEF Change
    <2> QED  BY <1>1, <1>3, <2>1 DEF TypeOK
  <1>5. SeenInv'
    <2>1. \A j \in Keys : View(mod', j) \in seen'[j]
      BY <1>3 DEF SeenInv
    <2>2. \A j \in Keys : seen[j] \subseteq seen'[j]
      BY <1>3
    <2> QED  BY <2>1, <2>2 DEF SeenInv, View, InManifest
  <1>6. CursorInv'
    <2> SUFFICES ASSUME NEW j \in readable, out[j] = NoTime, NoTime \notin seen'[j]
                 PROVE  Ahead(j)'
      BY DEF CursorInv
    <2>1. j \in Keys /\ NoTime \notin seen[j] /\ Ahead(j)
      BY <1>3 DEF CursorInv, TypeOK
    <2>2. mod[j] # NoTime /\ mod'[j] # NoTime
      BY <1>3, <2>1 DEF SeenInv, View, InManifest
    <2>3. mod[j] \in Nat /\ mod'[j] \in Nat /\ mod[j] <= mod'[j]
      BY <1>1, <2>1, <2>2 DEF TypeOK, Stamps
    <2> QED  BY <2>1, <2>3, LaterIsAhead
  <1>7. ManifestIsCurrent'
    BY DEF ManifestIsCurrent
  <1> QED  BY <1>4, <1>5, <1>6, <1>7

LEMMA UserKeepsInv ==
  ASSUME PagerInv, User
  PROVE  PagerInv'
  <1> USE DEF PagerInv
  <1>1. ASSUME NEW k \in Keys, Edit(k)
        PROVE  PagerInv'
    <2>1. Second(now) \in Stamps
      BY SecondFacts DEF TypeOK, Stamps
    <2> QED  BY <1>1, <2>1, ChangeKeepsInv DEF Edit
  <1>2. ASSUME NEW k \in Keys, Delete(k)
        PROVE  PagerInv'
    BY <1>2, ChangeKeepsInv DEF Delete, Stamps
  <1>3. ASSUME NEW k \in Keys, Import(k)
        PROVE  PagerInv'
    <2>1. PICK t \in 0 .. now : Change(k, t)
      BY <1>3 DEF Import
    <2>2. t \in Stamps
      BY <2>1 DEF TypeOK, Stamps
    <2> QED  BY <1>3, <2>1, <2>2, ChangeKeepsInv DEF Import
  <1> QED  BY <1>1, <1>2, <1>3 DEF User

\* What a page adds to the manifest, and what may be missing after it.
LEMMA CollectFacts ==
  ASSUME PagerInv, pc = "page", Collect
  PROVE  /\ out' \in [Keys -> Stamps]
         /\ \A k \in Keys : out'[k] # NoTime => out'[k] \in seen[k]
         /\ \A k \in readable : out'[k] = NoTime /\ NoTime \notin seen[k] =>
               k \in Matching \ Page /\ mod[k] \in Nat
  <1> USE DEF PagerInv
  <1>1. out' = [k \in Keys |-> IF k \in Page \cap readable THEN mod[k] ELSE out[k]]
    BY DEF Collect
  <1>2. ASSUME NEW k \in Page
        PROVE  mod[k] \in Stamps /\ mod[k] # NoTime /\ mod[k] \in seen[k]
    <2>1. k \in Keys /\ InManifest(mod, k)
      BY MatchingFacts DEF Matching
    <2> QED  BY <2>1 DEF SeenInv, View, InManifest, TypeOK
  <1>3. ASSUME NEW k \in readable, out'[k] = NoTime, NoTime \notin seen[k]
        PROVE  k \in Matching \ Page /\ mod[k] \in Nat
    <2>1. k \in Keys /\ k \notin Page /\ out[k] = NoTime
      BY <1>1, <1>2, <1>3 DEF TypeOK
    <2>2. Ahead(k)
      BY <1>3, <2>1 DEF CursorInv
    <2>3. InManifest(mod, k)
      BY <1>3, <2>1 DEF SeenInv, View
    <2>4. mod[k] \in Nat
      BY <2>1, <2>3 DEF InManifest, TypeOK, Stamps
    <2> QED  BY <2>1, <2>2, <2>3, <2>4 DEF Matching
  <1> HIDE DEF Page
  <1>4. out' \in [Keys -> Stamps]
    BY <1>1, <1>2 DEF TypeOK
  <1>5. \A k \in Keys : out'[k] # NoTime => out'[k] \in seen[k]
    BY <1>1, <1>2 DEF SeenInv
  <1> QED  BY <1>3, <1>4, <1>5

\* The next page begins behind a row of this one.
LEMMA NextPageKeepsInv ==
  ASSUME PagerInv, pc = "page", Collect, NEW last \in Page, NEW by \in {"cursor", "link"},
         from' = [by |-> by, mod |-> mod[last], key |-> last], UNCHANGED pc
  PROVE  PagerInv'
  <1>1. /\ last \in Keys /\ last # NoTime /\ last \in Int
        /\ mod[last] \in Nat /\ mod[last] # NoTime
    BY MatchingFacts, Numbers DEF PagerInv, Present, TypeOK, Stamps
  <1>2. UNCHANGED <<server, seen>>
    BY DEF Collect
  <1>3. TypeOK'
    <2>1. from' \in [by : {"start", "cursor", "link"}, mod : Stamps, key : Keys \cup {NoTime}]
      BY <1>1 DEF Stamps
    <2> QED  BY <1>2, <2>1, CollectFacts DEF PagerInv, TypeOK, server
  <1>4. SeenInv'
    BY <1>2, CollectFacts DEF PagerInv, SeenInv, server, View, InManifest
  <1>5. CursorInv'
    <2>1. from'.mod # NoTime /\ from'.key # NoTime
      BY <1>1
    <2>2. ASSUME NEW k \in readable, out'[k] = NoTime, NoTime \notin seen[k]
          PROVE  Ahead(k)'
      <3>1. k \in Matching \ Page /\ mod[k] \in Nat /\ k \in Int
        BY <2>2, CollectFacts, Numbers DEF PagerInv, TypeOK
      <3>2. Before(last, k)
        BY <3>1, PageIsFirst DEF PagerInv
      <3>3. Second(mod[last]) \in Nat /\ Second(mod[last]) <= mod[last]
        BY <1>1, SecondFacts
      <3>4. mod[k] > Second(mod[last]) \/ (mod[k] = Second(mod[last]) /\ k > last)
        BY <1>1, <3>1, <3>2, <3>3 DEF Before
      <3>5. mod[k] > mod[last] \/ (mod[k] = mod[last] /\ k > last)
        BY <1>1, <3>1, <3>2 DEF Before
      <3>6. /\ from'.by = by /\ from'.mod = mod[last] /\ from'.key = last
            /\ Second(from.mod)' = Second(mod[last]) /\ mod' = mod
        BY <1>2 DEF Second, server
      <3> QED  BY <3>4, <3>5, <3>6 DEF Ahead
    <2> QED  BY <1>2, <2>1, <2>2 DEF CursorInv, server
  <1>6. ManifestIsCurrent'
    BY DEF ManifestIsCurrent
  <1> QED  BY <1>3, <1>4, <1>5, <1>6 DEF PagerInv

LEMMA LastPageKeepsInv ==
  ASSUME PagerInv, LastPage
  PROVE  PagerInv'
  <1> USE DEF PagerInv, LastPage
  <1>1. UNCHANGED <<server, seen, from>> /\ pc' = "ended"
    BY DEF Collect
  <1>2. Page = Matching
    BY ShortPageIsLast
  <1>3. TypeOK'
    BY <1>1, CollectFacts DEF TypeOK, server
  <1>4. SeenInv'
    BY <1>1, CollectFacts DEF SeenInv, server, View, InManifest
  <1>5. CursorInv'
    BY <1>1 DEF CursorInv
  <1>6. ManifestIsCurrent'
    <2> SUFFICES ASSUME NEW k \in readable
                 PROVE  out'[k] \in seen[k]
      BY <1>1 DEF ManifestIsCurrent, server
    <2>1. k \in Keys
      BY DEF TypeOK
    <2>2. CASE out'[k] # NoTime
      BY <2>1, <2>2, CollectFacts
    <2>3. CASE out'[k] = NoTime
      BY <1>2, <2>3, CollectFacts
    <2> QED  BY <2>2, <2>3
  <1> QED  BY <1>3, <1>4, <1>5, <1>6

LEMMA FailKeepsInv ==
  ASSUME PagerInv, Fail
  PROVE  PagerInv'
  <1> USE DEF PagerInv, Fail, server
  <1>1. TypeOK'
    BY DEF TypeOK, FirstPage, Nothing, Stamps
  <1>2. SeenInv' /\ ManifestIsCurrent'
    BY DEF SeenInv, ManifestIsCurrent
  <1>3. CursorInv'
    BY DEF CursorInv, FirstPage
  <1> QED  BY <1>1, <1>2, <1>3

LEMMA StepPagerInv == PagerInv /\ [Next]_vars => PagerInv'
  <1> SUFFICES ASSUME PagerInv, [Next]_vars
               PROVE  PagerInv'
    OBVIOUS
  <1>1. CASE FollowLink
    <2>1. LastOf(Page) \in Page
      BY <1>1, ShortPageIsLast, MatchingFacts, LastOfFacts DEF FollowLink, PagerInv
    <2> QED  BY <1>1, <2>1, NextPageKeepsInv DEF FollowLink
  <1>2. CASE NextByCursor
    <2>1. LastOf(Page \cap readable) \in Page
      <3>1. Page \cap readable \subseteq Matching /\ Page \cap readable # {}
        BY <1>2, MatchingFacts DEF NextByCursor, PagerInv
      <3> QED  BY <3>1, LastOfFacts DEF PagerInv
    <2> QED  BY <1>2, <2>1, NextPageKeepsInv DEF NextByCursor
  <1>3. CASE LastPage
    BY <1>3, LastPageKeepsInv
  <1>4. CASE NoCursor \/ PageFails
    BY <1>4, FailKeepsInv DEF NoCursor, PageFails
  <1>5. CASE Tick \/ Done \/ UNCHANGED vars
    BY <1>5, StillKeepsInv DEF Done
  <1> QED  BY <1>1, <1>2, <1>3, <1>4, <1>5, UserKeepsInv DEF Next, ReadPage

\* The invariant of a fetch, from which the results below follow.
THEOREM PagerInvariant == Spec => []PagerInv
  BY InitPagerInv, StepPagerInv, PTL DEF Spec

\* Every variable of the fetch keeps its type.
THEOREM PagerTypeCorrect == Spec => []TypeOK
  <1>1. PagerInv => TypeOK
    BY DEF PagerInv
  <1> QED  BY <1>1, PagerInvariant, PTL

\* Pages read one after another while users edit come to one reading of every row:
\* none of the rows that stayed in the window is skipped.
THEOREM PagesAreCurrent == Spec => []ManifestIsCurrent
  <1>1. PagerInv => ManifestIsCurrent
    BY DEF PagerInv
  <1> QED  BY <1>1, PagerInvariant, PTL
=============================================================================
