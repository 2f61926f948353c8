--------------------------- MODULE PageWalkProofs ---------------------------
(***************************************************************************)
(* A walk gives a row that nobody touched once, and gives it at all, for   *)
(* every table, page size and number of changes.                           *)
(***************************************************************************)
EXTENDS PageWalk, OrderLemmas

(***************************************************************************)
(* The order of the rows: Before is a strict total order, and After is the *)
(* same relation written as a keyset predicate.                            *)
(***************************************************************************)
Spots == [key : Column(sort), id : Docs]

TableOK == sort \in AllSorts /\ table \in [Docs -> Column(sort) \cup {Gone}]

LEMMA ColumnOK ==
  /\ \A s \in AllSorts : Column(s) \subseteq Keys \cup {Null}
  /\ \A s \in AllSorts \ ChunkSorts : Column(s) \subseteq Int
  /\ \A s \in AllSorts : Gone \notin Column(s)
BY ConstantsOK DEF Column, AllSorts, ChunkSorts

LEMMA PositionIsSpot ==
  ASSUME TableOK, NEW d \in Rows
  PROVE  Position(d) \in Spots /\ Position(d).id = d
BY DEF TableOK, Rows, Position, Spots

LEMMA SpotOK ==
  ASSUME sort \in AllSorts, NEW p \in Spots
  PROVE  /\ p.id \in Int
         /\ p.key \in Int \cup {Null}
         /\ sort \notin ChunkSorts => p.key \in Int
<1>1. p.key \in Column(sort) /\ p.id \in Docs
  BY DEF Spots
<1>2. p.id \in Int
  BY <1>1, ConstantsOK DEF Docs
<1>3. p.key \in Int \cup {Null}
  <2>1. p.key \in Keys \cup {Null}
    BY <1>1, ColumnOK, Zenon
  <2> QED BY <2>1, ConstantsOK
<1>4. sort \notin ChunkSorts => p.key \in Int
  BY <1>1, ColumnOK, Zenon
<1> QED BY <1>2, <1>3, <1>4

LEMMA BeforeIsStrict ==
  ASSUME sort \in AllSorts, NEW p \in Spots
  PROVE  ~Before(p, p)
<1>1. CASE sort \in ChunkSorts
  <2>1. p.key \in Int \cup {Null} /\ p.id \in Int
    BY SpotOK
  <2> QED BY <1>1, <2>1 DEF Before, Chunked, ChunkSorts
<1>2. CASE sort \notin ChunkSorts
  <2>1. p.key \in Int /\ p.id \in Int
    BY <1>2, SpotOK
  <2> QED BY <1>2, <2>1 DEF Before, ChunkSorts
<1> QED BY <1>1, <1>2

LEMMA BeforeIsTransitive ==
  ASSUME sort \in AllSorts, NEW p \in Spots, NEW q \in Spots, NEW r \in Spots,
         Before(p, q), Before(q, r)
  PROVE  Before(p, r)
<1>1. CASE sort \in ChunkSorts
  <2>1. /\ {p.key, q.key, r.key} \subseteq Int \cup {Null}
        /\ {p.id, q.id, r.id} \subseteq Int
    BY SpotOK
  <2> QED BY <1>1, <2>1 DEF Before, Chunked, ChunkSorts
<1>2. CASE sort \notin ChunkSorts
  <2>1. {p.key, q.key, r.key, p.id, q.id, r.id} \subseteq Int
    BY <1>2, SpotOK
  <2> QED BY <1>2, <2>1 DEF Before, ChunkSorts, AllSorts
<1> QED BY <1>1, <1>2

LEMMA BeforeIsTotal ==
  ASSUME sort \in AllSorts, NEW p \in Spots, NEW q \in Spots, p.id # q.id
  PROVE  Before(p, q) \/ Before(q, p)
<1>1. CASE sort \in ChunkSorts
  <2>1. {p.key, q.key} \subseteq Int \cup {Null} /\ {p.id, q.id} \subseteq Int
    BY SpotOK
  <2> QED BY <1>1, <2>1 DEF Before, Chunked, ChunkSorts
<1>2. CASE sort \notin ChunkSorts
  <2>1. {p.key, q.key, p.id, q.id} \subseteq Int
    BY <1>2, SpotOK
  <2> QED BY <1>2, <2>1 DEF Before, ChunkSorts, AllSorts
<1> QED BY <1>1, <1>2

LEMMA AfterIsBefore ==
  ASSUME sort \in AllSorts, NEW p \in Spots, NEW q \in Spots
  PROVE  After(p, q) <=> Before(p, q)
<1>1. CASE sort \in ChunkSorts
  <2>1. {p.key, q.key} \subseteq Int \cup {Null} /\ {p.id, q.id} \subseteq Int
    BY SpotOK
  <2> QED BY <1>1, <2>1 DEF After, Before, Chunked, ChunkSorts
<1>2. CASE sort \notin ChunkSorts
  <2>1. {p.key, q.key, p.id, q.id} \subseteq Int
    BY <1>2, SpotOK
  <2> QED BY <1>2, <2>1 DEF After, Before, ChunkSorts, AllSorts
<1> QED BY <1>1, <1>2

(***************************************************************************)
(* Ranks: a slice keeps the rows of a set whose rank is in a range.        *)
(***************************************************************************)
Under(S, d) == {e \in S : Before(Position(e), Position(d))}
Rank(S, d) == Cardinality(Under(S, d))

LEMMA RowsFinite ==
  ASSUME NEW S \in SUBSET Rows
  PROVE  IsFiniteSet(S)
<1>1. IsFiniteSet(Docs)
  BY FS_Interval, ConstantsOK DEF Docs
<1> QED BY <1>1, FS_Subset DEF Rows

LEMMA RowsOrdered ==
  ASSUME TableOK, NEW d \in Rows, NEW e \in Rows
  PROVE  /\ ~Before(Position(d), Position(d))
         /\ d # e => Before(Position(d), Position(e)) \/ Before(Position(e), Position(d))
         /\ \A f \in Rows : Before(Position(d), Position(e)) /\ Before(Position(e), Position(f))
              => Before(Position(d), Position(f))
<1>1. sort \in AllSorts
  BY DEF TableOK
<1>2. \A f \in Rows : Position(f) \in Spots /\ Position(f).id = f
  BY PositionIsSpot
<1>3. ~Before(Position(d), Position(d))
  BY <1>1, <1>2, BeforeIsStrict
<1>4. ASSUME d # e PROVE Before(Position(d), Position(e)) \/ Before(Position(e), Position(d))
  BY <1>1, <1>2, <1>4, BeforeIsTotal
<1>5. ASSUME NEW f \in Rows, Before(Position(d), Position(e)), Before(Position(e), Position(f))
      PROVE  Before(Position(d), Position(f))
  BY <1>1, <1>2, <1>5, BeforeIsTransitive
<1> QED BY <1>3, <1>4, <1>5

RowOrder(S) == {p \in S \X S : Before(Position(p[1]), Position(p[2]))}

LEMMA RowOrderTotal ==
  ASSUME TableOK, NEW S \in SUBSET Rows
  PROVE  IsStrictTotalOrder(RowOrder(S), S)
<1>1. \A d, e \in S : <<d, e>> \in RowOrder(S) <=> Before(Position(d), Position(e))
  BY DEF RowOrder
<1>2. ASSUME NEW x \in S PROVE <<x, x>> \notin RowOrder(S)
  BY <1>1, RowsOrdered
<1>3. ASSUME NEW x \in S, NEW y \in S, NEW z \in S,
             <<x, y>> \in RowOrder(S), <<y, z>> \in RowOrder(S)
      PROVE  <<x, z>> \in RowOrder(S)
  BY <1>1, <1>3, RowsOrdered
<1>4. ASSUME NEW x \in S, NEW y \in S, x # y
      PROVE  <<x, y>> \in RowOrder(S) \/ <<y, x>> \in RowOrder(S)
  BY <1>1, <1>4, RowsOrdered
<1> QED BY <1>2, <1>3, <1>4 DEF IsStrictTotalOrder

LEMMA FirstRow ==
  ASSUME TableOK, NEW S \in SUBSET Rows, S # {}
  PROVE  \E d \in S : \A e \in S \ {d} : Before(Position(d), Position(e))
<1>1. PICK d \in S : \A e \in S \ {d} : <<d, e>> \in RowOrder(S)
  BY RowOrderTotal, RowsFinite, FirstExists
<1> QED BY <1>1 DEF RowOrder

LEMMA LastRow ==
  ASSUME TableOK, NEW S \in SUBSET Rows, S # {}
  PROVE  /\ LastOf(S) \in S
         /\ \A e \in S \ {LastOf(S)} : Before(Position(e), Position(LastOf(S)))
<1>1. PICK d \in S : \A e \in S \ {d} : <<e, d>> \in RowOrder(S)
  BY RowOrderTotal, RowsFinite, LastExists
<1>2. \A e \in S \ {d} : Before(Position(e), Position(d))
  BY <1>1 DEF RowOrder
<1> QED BY <1>2 DEF LastOf

LEMMA RankIsNat ==
  ASSUME NEW S \in SUBSET Rows, NEW d
  PROVE  Rank(S, d) \in Nat
<1>1. Under(S, d) \in SUBSET Rows
  BY DEF Under
<1> QED BY <1>1, RowsFinite, FS_CardinalityType DEF Rank

LEMMA RankGrows ==
  ASSUME TableOK, NEW S \in SUBSET Rows, NEW d \in S, NEW e \in S,
         Before(Position(d), Position(e))
  PROVE  Rank(S, d) <= Rank(S, e)
<1>1. Under(S, d) \in SUBSET Under(S, e)
  <2>1. ASSUME NEW f \in S, Before(Position(f), Position(d))
        PROVE  Before(Position(f), Position(e))
    BY <2>1, RowsOrdered
  <2> QED BY <2>1 DEF Under
<1>2. IsFiniteSet(Under(S, e))
  BY RowsFinite DEF Under
<1> QED BY <1>1, <1>2, FS_Subset DEF Rank

\* A row is the one after its predecessor: no rank is left out.
LEMMA NoRankLeftOut ==
  ASSUME TableOK, NEW S \in SUBSET Rows, NEW n \in Nat, NEW d \in S, n <= Rank(S, d)
  PROVE  \E e \in S : Rank(S, e) = n
<1> DEFINE T == {e \in S : n <= Rank(S, e)}
<1>1. PICK m \in T : \A e \in T \ {m} : Before(Position(m), Position(e))
  <2>1. T \in SUBSET Rows /\ T # {}
    OBVIOUS
  <2> HIDE DEF T
  <2> QED BY <2>1, FirstRow
<1>2. m \in S /\ n <= Rank(S, m) /\ Rank(S, m) \in Nat
  BY <1>1, RankIsNat
<1>3. IsFiniteSet(Under(S, m)) /\ Under(S, m) \in SUBSET S
  BY RowsFinite DEF Under
<1>4. CASE Under(S, m) = {}
  BY <1>2, <1>4, FS_EmptySet DEF Rank
<1>5. CASE Under(S, m) # {}
  <2>1. PICK x \in Under(S, m) : \A e \in Under(S, m) \ {x} : Before(Position(e), Position(x))
    BY <1>3, <1>5, LastRow
  <2>2. x \in S /\ Before(Position(x), Position(m))
    BY <2>1 DEF Under
  <2>3. Rank(S, x) < n
    <3>1. ~Before(Position(m), Position(x)) /\ x # m
      BY <1>2, <2>2, RowsOrdered
    <3>2. x \notin T
      BY <1>1, <3>1
    <3> QED BY <2>2, <3>2, RankIsNat
  <2>4. Under(S, x) = Under(S, m) \ {x}
    <3>1. ASSUME NEW e \in Under(S, x) PROVE e \in Under(S, m) \ {x}
      <4>1. e \in S /\ Before(Position(e), Position(x))
        BY <3>1 DEF Under
      <4>2. Before(Position(e), Position(m)) /\ e # x
        BY <1>2, <2>2, <4>1, RowsOrdered
      <4> QED BY <4>1, <4>2 DEF Under
    <3>2. ASSUME NEW e \in Under(S, m) \ {x} PROVE e \in Under(S, x)
      BY <2>1, <3>2 DEF Under
    <3> QED BY <3>1, <3>2
  <2>5. Rank(S, x) = Rank(S, m) - 1
    BY <1>3, <2>1, <2>4, FS_RemoveElement DEF Rank
  <2> QED BY <1>2, <2>3, <2>5, RankIsNat, <2>2
<1> QED BY <1>4, <1>5

LEMMA SliceOK ==
  ASSUME NEW S, NEW skip, NEW n
  PROVE  Slice(S, skip, n) \in SUBSET S
BY DEF Slice

LEMMA InSlice ==
  ASSUME NEW S, NEW skip, NEW n, NEW d
  PROVE  d \in Slice(S, skip, n) <=> d \in S /\ skip <= Rank(S, d) /\ Rank(S, d) < skip + n
BY DEF Slice, Rank, Under

\* When one more row is not there, a slice has what was left.
LEMMA SliceEnds ==
  ASSUME TableOK, NEW S \in SUBSET Rows, NEW skip \in Nat, NEW n \in Nat,
         Slice(S, skip, n + 1) = Slice(S, skip, n)
  PROVE  \A d \in S : Rank(S, d) < skip + n
<1> SUFFICES ASSUME NEW d \in S, ~(Rank(S, d) < skip + n)
             PROVE  FALSE
  OBVIOUS
<1>1. skip + n \in Nat /\ skip + n <= Rank(S, d)
  BY RankIsNat
<1>2. PICK e \in S : Rank(S, e) = skip + n
  BY <1>1, NoRankLeftOut
<1>3. e \in Slice(S, skip, n + 1)
  BY <1>2, InSlice, skip <= skip + n, skip + n < skip + (n + 1)
<1>4. e \notin Slice(S, skip, n)
  BY <1>2, InSlice, ~(skip + n < skip + n)
<1> QED BY <1>3, <1>4

\* When there is one more row, the slice has a last one.
LEMMA SliceGoesOn ==
  ASSUME TableOK, NEW S \in SUBSET Rows, NEW skip \in Nat, NEW n \in Nat \ {0},
         Slice(S, skip, n + 1) # Slice(S, skip, n)
  PROVE  Slice(S, skip, n) # {}
<1>1. Slice(S, skip, n) \subseteq Slice(S, skip, n + 1)
  <2>1. ASSUME NEW d \in Slice(S, skip, n) PROVE d \in Slice(S, skip, n + 1)
    <3>1. d \in S /\ skip <= Rank(S, d) /\ Rank(S, d) < skip + n
      BY <2>1, InSlice
    <3>2. Rank(S, d) < skip + (n + 1)
      BY <3>1, RankIsNat
    <3> QED BY <3>1, <3>2, InSlice
  <2> QED BY <2>1
<1>2. PICK d \in S : skip <= Rank(S, d)
  <2>1. PICK d \in Slice(S, skip, n + 1) : TRUE
    BY <1>1
  <2> QED BY <2>1, InSlice
<1>3. PICK e \in S : Rank(S, e) = skip
  BY <1>2, NoRankLeftOut
<1>4. e \in Slice(S, skip, n)
  BY <1>3, InSlice, skip <= skip, skip < skip + n
<1> QED BY <1>4

\* A slice that is not full has all there is.
LEMMA ShortSlice ==
  ASSUME TableOK, NEW S \in SUBSET Rows, NEW n \in Nat,
         Cardinality(Slice(S, 0, n)) < n
  PROVE  Slice(S, 0, n) = S
<1> SUFFICES ASSUME NEW d \in S, d \notin Slice(S, 0, n)
             PROVE  FALSE
  BY SliceOK
<1>1. n <= Rank(S, d)
  <2>1. Rank(S, d) \in Nat
    BY RankIsNat
  <2>2. ~(0 <= Rank(S, d) /\ Rank(S, d) < 0 + n)
    BY InSlice
  <2> QED BY <2>1, <2>2
<1>2. PICK e \in S : Rank(S, e) = n
  BY <1>1, NoRankLeftOut
<1>3. Under(S, e) \in SUBSET Slice(S, 0, n)
  <2>1. ASSUME NEW f \in Under(S, e) PROVE f \in Slice(S, 0, n)
    <3>1. f \in S /\ Before(Position(f), Position(e))
      BY DEF Under
    <3>2. Rank(S, f) # Rank(S, e)
      <4>1. f \in Under(S, e) /\ f \notin Under(S, f) /\ Under(S, f) \in SUBSET Under(S, e)
        <5>1. \A g \in S : Before(Position(g), Position(f)) => Before(Position(g), Position(e))
          BY <3>1, RowsOrdered
        <5>2. ~Before(Position(f), Position(f))
          BY <3>1, RowsOrdered
        <5> QED BY <5>1, <5>2 DEF Under
      <4>2. IsFiniteSet(Under(S, e))
        BY RowsFinite DEF Under
      <4> QED BY <4>1, <4>2, FS_Subset DEF Rank
    <3>3. Rank(S, f) <= Rank(S, e)
      BY <3>1, RankGrows
    <3>4. 0 <= Rank(S, f) /\ Rank(S, f) < 0 + n
      BY <1>2, <3>1, <3>2, <3>3, RankIsNat
    <3> QED BY <3>1, <3>4, InSlice
  <2> QED BY <2>1
<1>4. IsFiniteSet(Slice(S, 0, n))
  BY SliceOK, RowsFinite
<1>5. Rank(S, e) <= Cardinality(Slice(S, 0, n)) /\ Cardinality(Slice(S, 0, n)) \in Nat
  BY <1>3, <1>4, FS_Subset, FS_CardinalityType DEF Rank
<1> QED BY <1>2, <1>5

\* The last row of a first slice separates the slice from the rest.
LEMMA SliceIsCut ==
  ASSUME TableOK, NEW S \in SUBSET Rows, NEW n \in Nat, Slice(S, 0, n) # {}
  PROVE  /\ LastOf(Slice(S, 0, n)) \in Slice(S, 0, n)
         /\ \A d \in S : d \in Slice(S, 0, n)
                          <=> ~After(Position(LastOf(Slice(S, 0, n))), Position(d))
<1> DEFINE P == Slice(S, 0, n)
           last == LastOf(P)
<1>1. P \in SUBSET S /\ P \in SUBSET Rows
  BY SliceOK
<1>2. last \in P /\ \A e \in P \ {last} : Before(Position(e), Position(last))
  <2>1. P # {}
    OBVIOUS
  <2> HIDE DEF P
  <2> QED BY <1>1, <2>1, LastRow
<1>3. ASSUME NEW d \in S
      PROVE  After(Position(last), Position(d)) <=> Before(Position(last), Position(d))
  <2>1. Position(last) \in Spots /\ Position(d) \in Spots /\ sort \in AllSorts
    BY <1>1, <1>2, PositionIsSpot DEF TableOK
  <2> QED BY <2>1, AfterIsBefore
<1>4. ASSUME NEW d \in P PROVE ~Before(Position(last), Position(d))
  <2>1. CASE d = last
    BY <1>1, <1>2, <2>1, RowsOrdered
  <2>2. CASE d # last
    BY <1>1, <1>2, <2>2, RowsOrdered
  <2> QED BY <2>1, <2>2
<1>5. ASSUME NEW d \in S, d \notin P PROVE Before(Position(last), Position(d))
  <2>1. CASE Before(Position(d), Position(last))
    <3>1. Rank(S, d) <= Rank(S, last)
      BY <1>1, <1>2, <2>1, RankGrows
    <3>2. Rank(S, last) < 0 + n
      BY <1>2, InSlice
    <3>3. Rank(S, d) \in Nat /\ Rank(S, last) \in Nat
      BY RankIsNat
    <3>4. 0 <= Rank(S, d) /\ Rank(S, d) < 0 + n
      BY <3>1, <3>2, <3>3
    <3>5. d \in P
      BY <3>4, InSlice
    <3> QED BY <1>5, <3>5
  <2>2. d # last
    BY <1>2, <1>5
  <2> QED BY <1>1, <1>2, <2>1, <2>2, RowsOrdered
<1> QED BY <1>1, <1>2, <1>3, <1>4, <1>5

(***************************************************************************)
(* The invariant of a walk: what it was given is what its position has     *)
(* passed, and the page under way begins there and ends at its cursor.     *)
(***************************************************************************)
Passed(d, at) == at # Gone /\ ~After(at, Position(d))
Reach(at) == IF at = Gone THEN Rows ELSE {d \in Rows : After(at, Position(d))}

WalkShape ==
  /\ walk.at \in Spots \cup {Gone} /\ answer.next \in Spots \cup {Gone}
  /\ walk.page \in Nat \ {0}
  /\ walk.kind = "numbered" => walk.at = Gone
  /\ walk.kind # "numbered" => walk.page = 1
  /\ walk.pc = "asked" => walk.kind # "stream"

GivenSoFar ==
  walk.pc \in {"ready", "asked"} =>
    /\ walk.kind # "numbered" =>
         \A d \in Docs \ touched : d \in seen <=> d \in Rows /\ Passed(d, walk.at)
    /\ walk.kind = "numbered" /\ touched = {} =>
         \A d \in Docs : d \in seen <=> d \in Rows /\ Rank(Rows, d) < OffsetForPage(walk.page)

PageUnderWay ==
  walk.pc = "asked" =>
    /\ walk.kind # "numbered" =>
         /\ \A d \in Docs \ touched :
              d \in answer.got <=> /\ d \in Rows /\ ~Passed(d, walk.at)
                                   /\ answer.next = Gone \/ Passed(d, answer.next)
         /\ walk.at # Gone /\ answer.next # Gone => Before(walk.at, answer.next)
    /\ walk.kind = "numbered" /\ touched = {} =>
         \A d \in Docs :
           /\ d \in answer.got <=> /\ d \in Rows
                                   /\ OffsetForPage(walk.page) <= Rank(Rows, d)
                                   /\ Rank(Rows, d) < OffsetForPage(walk.page) + Limit
           /\ d \in Rows /\ answer.next = Gone
                => Rank(Rows, d) < OffsetForPage(walk.page) + Limit

WalkInv == TypeOK /\ NoRowTwice /\ WalkComplete /\ WalkShape /\ GivenSoFar /\ PageUnderWay

LEMMA Typed ==
  ASSUME TypeOK
  PROVE  /\ TableOK
         /\ Spots \subseteq Positions
         /\ Gone \notin Spots
<1>1. TableOK
  BY ConstantsOK DEF TypeOK, TableOK
<1>2. Column(sort) \subseteq Keys \cup {Null}
  BY <1>1, ColumnOK DEF TableOK
<1>3. Spots \subseteq Positions
  BY <1>2 DEF Spots, Positions
<1> QED BY <1>1, <1>3, ConstantsOK DEF Positions

LEMMA PassedOn ==
  ASSUME TableOK, NEW p \in Spots, NEW q \in Spots, Before(p, q), NEW d \in Rows,
         Passed(d, p), Gone \notin Spots
  PROVE  Passed(d, q)
<1>1. Position(d) \in Spots /\ sort \in AllSorts
  BY PositionIsSpot DEF TableOK
<1>2. ~Before(p, Position(d))
  BY <1>1, AfterIsBefore DEF Passed
<1>3. ~Before(q, Position(d))
  BY <1>1, <1>2, BeforeIsTransitive
<1> QED BY <1>1, <1>3, AfterIsBefore DEF Passed

LEMMA FetchedIsSlice ==
  ASSUME NEW at, NEW n \in Nat
  PROVE  /\ Fetched(at, 0, n) = Slice(Reach(at), 0, n)
         /\ Reach(at) \in SUBSET Rows
         /\ \A d \in Docs : d \in Reach(at) <=> d \in Rows /\ ~Passed(d, at)
BY DEF Fetched, Reach, Passed, Rows

\* What a query at a cursor gives, and the cursor it leaves.
LEMMA CutAt ==
  ASSUME TableOK, NEW at \in Spots \cup {Gone}, NEW n \in Nat, Gone \notin Spots,
         Fetched(at, 0, n) # {}
  PROVE  LET got == Fetched(at, 0, n)
             next == Position(LastOf(got)) IN
         /\ next \in Spots
         /\ \A d \in Docs : d \in got <=> d \in Rows /\ ~Passed(d, at) /\ Passed(d, next)
         /\ at # Gone => Before(at, next)
<1> DEFINE got == Fetched(at, 0, n)
           last == LastOf(got)
           next == Position(last)
<1>1. got = Slice(Reach(at), 0, n) /\ Reach(at) \in SUBSET Rows
  BY FetchedIsSlice
<1>2. /\ last \in got
      /\ \A d \in Reach(at) : d \in got <=> ~After(next, Position(d))
  BY <1>1, SliceIsCut
<1>3. got \in SUBSET Reach(at)
  BY <1>1, SliceOK
<1>4. next \in Spots
  BY <1>1, <1>2, <1>3, PositionIsSpot
<1>5. ASSUME NEW d \in Docs
      PROVE  d \in got <=> d \in Rows /\ ~Passed(d, at) /\ Passed(d, next)
  BY <1>2, <1>3, <1>4, FetchedIsSlice DEF Passed
<1>6. ASSUME at # Gone PROVE Before(at, next)
  <2>1. After(at, next)
    BY <1>2, <1>3, <1>6 DEF Reach
  <2> QED BY <1>4, <1>6, <2>1, AfterIsBefore DEF TableOK
<1> QED BY <1>4, <1>5, <1>6

(***************************************************************************)
(* The invariant holds at first, and every action keeps it.                *)
(***************************************************************************)
LEMMA SameTable ==
  ASSUME UNCHANGED <<sort, table>>
  PROVE  /\ Rows' = Rows
         /\ Spots' = Spots
         /\ \A d \in Docs : Rank(Rows, d)' = Rank(Rows, d)
<1>1. Rows' = Rows
  BY DEF Rows
<1>2. Spots' = Spots
  BY DEF Spots, Column
<1>3. ASSUME NEW d \in Docs PROVE Rank(Rows, d)' = Rank(Rows, d)
  BY DEF Rank, Under, Rows, Before, Chunked, Position
<1> QED BY <1>1, <1>2, <1>3

LEMMA SamePassed ==
  ASSUME sort' = sort, NEW d \in Docs, table'[d] = table[d]
  PROVE  /\ (d \in Rows)' <=> d \in Rows
         /\ walk'.at = walk.at => (Passed(d, walk.at)' <=> Passed(d, walk.at))
         /\ walk'.at = answer.next => (Passed(d, walk.at)' <=> Passed(d, answer.next))
         /\ answer' = answer => (Passed(d, answer.next)' <=> Passed(d, answer.next))
<1>1. (d \in Rows)' <=> d \in Rows
  BY DEF Rows
<1>2. ASSUME walk'.at = walk.at PROVE Passed(d, walk.at)' <=> Passed(d, walk.at)
  BY <1>2 DEF Passed, After, Position
<1>3. ASSUME walk'.at = answer.next PROVE Passed(d, walk.at)' <=> Passed(d, answer.next)
  BY <1>3 DEF Passed, After, Position
<1>4. ASSUME answer' = answer PROVE Passed(d, answer.next)' <=> Passed(d, answer.next)
  BY <1>4 DEF Passed, After, Position
<1> QED BY <1>1, <1>2, <1>3, <1>4

LEMMA WalkInit == Init => WalkInv
<1> SUFFICES ASSUME Init PROVE WalkInv
  OBVIOUS
<1>1. TypeOK
  BY ConstantsOK DEF Init, TypeOK, Walk, Idle, Answer, NoAnswer
<1>2. NoRowTwice /\ WalkComplete
  BY DEF Init, NoRowTwice, WalkComplete, Idle
<1>3. WalkShape /\ GivenSoFar /\ PageUnderWay
  BY DEF Init, WalkShape, GivenSoFar, PageUnderWay, Idle, NoAnswer
<1> QED BY <1>1, <1>2, <1>3 DEF WalkInv

LEMMA BeginWalk ==
  ASSUME WalkInv, NEW kind \in Kinds, Begin(kind)
  PROVE  WalkInv'
<1>1. kind \in {"cursor", "numbered", "stream"} /\ UNCHANGED <<sort, table>>
  BY ConstantsOK DEF Begin
<1>2. TypeOK'
  BY <1>1, ConstantsOK DEF WalkInv, TypeOK, Begin, Walk, Idle, Column, Positions, Answer
<1>3. NoRowTwice' /\ WalkComplete'
  BY DEF Begin, NoRowTwice, WalkComplete, Idle
<1>4. WalkShape' /\ PageUnderWay'
  BY <1>1, SameTable DEF WalkInv, Begin, WalkShape, PageUnderWay, Idle
<1>5. GivenSoFar'
  <2>1. OffsetForPage(1) = 0
    BY ConstantsOK DEF OffsetForPage
  <2>2. seen' = {} /\ walk'.at = Gone /\ walk'.page = 1
    BY DEF Begin, Idle
  <2>3. \A d \in Docs : ~(Rank(Rows, d)' < 0)
    BY <1>1, SameTable, RankIsNat
  <2> QED BY <2>1, <2>2, <2>3 DEF GivenSoFar, Passed, OffsetForPage
<1> QED BY <1>2, <1>3, <1>4, <1>5 DEF WalkInv

LEMMA OffsetOK ==
  ASSUME WalkInv
  PROVE  /\ OffsetForPage(walk.page) \in Nat
         /\ walk.kind # "numbered" => OffsetForPage(walk.page) = 0
         /\ OffsetForPage(walk.page + 1) = OffsetForPage(walk.page) + Limit
<1>1. walk.page \in Nat \ {0} /\ (walk.kind # "numbered" => walk.page = 1) /\ Limit \in Nat
  BY ConstantsOK DEF WalkInv, WalkShape
<1>2. (walk.page - 1) * Limit \in Nat /\ (1 - 1) * Limit = 0
  BY <1>1
<1>3. (walk.page + 1 - 1) * Limit = (walk.page - 1) * Limit + Limit
  BY <1>1
<1> QED BY <1>1, <1>2, <1>3 DEF OffsetForPage

LEMMA AskPageWalk ==
  ASSUME WalkInv, AskPage
  PROVE  WalkInv'
<1> DEFINE skip == OffsetForPage(walk.page)
           rows == Fetched(walk.at, skip, Limit + 1)
           got == Fetched(walk.at, skip, Limit)
<1>1. /\ walk.pc = "ready" /\ walk.kind # "stream"
      /\ answer' = [got |-> got, next |-> IF rows = got THEN Gone ELSE Position(LastOf(got))]
      /\ walk' = [walk EXCEPT !.pc = "asked"]
      /\ UNCHANGED <<sort, table, seen, twice, touched, edits, faults>>
  BY DEF AskPage, given
<1>2. TableOK /\ Gone \notin Spots /\ Spots \subseteq Positions /\ walk \in Walk
  BY Typed DEF WalkInv, TypeOK
<1>3. walk.at \in Spots \cup {Gone} /\ skip \in Nat /\ Limit \in Nat \ {0} /\ Limit + 1 \in Nat
  BY OffsetOK, ConstantsOK DEF WalkInv, WalkShape
<1>4. /\ walk' \in Walk /\ walk'.pc = "asked" /\ walk'.at = walk.at /\ walk'.page = walk.page
      /\ walk'.kind = walk.kind /\ answer'.got = got
      /\ answer'.next = IF rows = got THEN Gone ELSE Position(LastOf(got))
  BY <1>1, <1>2 DEF Walk
\* A walk by cursor reads what its position has not passed.
<1>5. ASSUME walk.kind # "numbered"
      PROVE  /\ got \subseteq Rows
             /\ answer'.next \in Spots \cup {Gone}
             /\ \A d \in Docs : d \in got <=> /\ d \in Rows /\ ~Passed(d, walk.at)
                                              /\ answer'.next = Gone \/ Passed(d, answer'.next)
             /\ walk.at # Gone /\ answer'.next # Gone => Before(walk.at, answer'.next)
  <2>1. skip = 0
    BY <1>5, OffsetOK
  <2>2. /\ got = Slice(Reach(walk.at), 0, Limit) /\ rows = Slice(Reach(walk.at), 0, Limit + 1)
        /\ Reach(walk.at) \in SUBSET Rows
        /\ \A d \in Docs : d \in Reach(walk.at) <=> d \in Rows /\ ~Passed(d, walk.at)
    BY <1>3, <2>1, FetchedIsSlice
  <2>3. got \subseteq Reach(walk.at)
    BY <2>2, SliceOK, <1>3
  <2>4. CASE rows = got
    <3>1. ASSUME NEW d \in Reach(walk.at) PROVE d \in got
      <4>1. Rank(Reach(walk.at), d) < 0 + Limit
        BY <1>2, <1>3, <2>2, <2>4, SliceEnds
      <4> QED BY <2>2, <4>1, InSlice, RankIsNat
    <3> QED BY <1>4, <2>2, <2>3, <2>4, <3>1
  <2>5. CASE rows # got
    <3>1. got # {}
      BY <1>2, <1>3, <2>2, <2>5, SliceGoesOn
    <3>2. /\ Position(LastOf(got)) \in Spots
          /\ \A d \in Docs : d \in got <=> /\ d \in Rows /\ ~Passed(d, walk.at)
                                           /\ Passed(d, Position(LastOf(got)))
          /\ walk.at # Gone => Before(walk.at, Position(LastOf(got)))
      BY <1>2, <1>3, <2>1, <3>1, CutAt
    <3>3. answer'.next = Position(LastOf(got)) /\ answer'.next # Gone
      BY <1>2, <1>4, <2>5, <3>2
    <3> QED BY <2>2, <2>3, <3>2, <3>3
  <2> QED BY <2>4, <2>5
\* A numbered walk reads the ranks of its page.
<1>6. ASSUME walk.kind = "numbered"
      PROVE  /\ got \subseteq Rows
             /\ answer'.next \in Spots \cup {Gone}
             /\ \A d \in Docs :
                  /\ d \in got <=> d \in Rows /\ skip <= Rank(Rows, d) /\ Rank(Rows, d) < skip + Limit
                  /\ d \in Rows /\ answer'.next = Gone => Rank(Rows, d) < skip + Limit
  <2>1. walk.at = Gone
    BY <1>6 DEF WalkInv, WalkShape
  <2>2. got = Slice(Rows, skip, Limit) /\ rows = Slice(Rows, skip, Limit + 1)
    BY <2>1 DEF Fetched
  <2>3. got \subseteq Rows
    BY <2>2, SliceOK, <1>3
  <2>4. CASE rows = got
    <3>1. \A d \in Rows : Rank(Rows, d) < skip + Limit
      BY <1>2, <1>3, <2>2, <2>4, SliceEnds
    <3> QED BY <1>4, <2>2, <2>3, <2>4, <3>1, InSlice
  <2>5. CASE rows # got
    <3>1. got # {}
      BY <1>2, <1>3, <2>2, <2>5, SliceGoesOn
    <3>2. LastOf(got) \in got
      BY <1>2, <2>3, <3>1, LastRow
    <3>3. Position(LastOf(got)) \in Spots
      BY <1>2, <2>3, <3>2, PositionIsSpot
    <3> QED BY <1>2, <1>4, <2>2, <2>3, <2>5, <3>3, InSlice
  <2> QED BY <2>4, <2>5
<1>7. got \subseteq Docs /\ answer'.next \in Spots \cup {Gone}
  BY <1>5, <1>6 DEF Rows
<1>8. TypeOK'
  <2>1. answer' \in Answer
    <3>1. answer'.next \in Positions \cup {Gone}
      BY <1>2, <1>7
    <3> QED BY <1>1, <1>4, <1>7, <3>1 DEF Answer
  <2> QED BY <1>1, <1>4, <2>1 DEF WalkInv, TypeOK, Column
<1>9. NoRowTwice' /\ WalkComplete'
  BY <1>1, <1>4 DEF WalkInv, NoRowTwice, WalkComplete, Steady
<1>10. WalkShape'
  BY <1>1, <1>4, <1>7, SameTable DEF WalkInv, WalkShape
<1>11. GivenSoFar'
  BY <1>1, <1>4, SameTable, SamePassed DEF WalkInv, GivenSoFar, TypeOK, OffsetForPage
<1>12. PageUnderWay'
  <2>1. ASSUME walk.kind # "numbered"
        PROVE  /\ \A d \in Docs \ touched' :
                    d \in answer'.got <=> /\ (d \in Rows)' /\ ~(Passed(d, walk.at)')
                                          /\ answer'.next = Gone \/ Passed(d, answer.next)'
               /\ walk'.at # Gone /\ answer'.next # Gone => Before(walk.at, answer.next)'
    <3>1. \A d \in Docs : Passed(d, answer.next)' <=> Passed(d, answer'.next)
      BY <1>1 DEF Passed, After, Position
    <3>2. Before(walk.at, answer.next)' <=> Before(walk.at, answer'.next)
      BY <1>1, <1>4 DEF Before, Chunked
    <3>3. \A d \in Docs : /\ (d \in Rows)' <=> d \in Rows
                          /\ Passed(d, walk.at)' <=> Passed(d, walk.at)
      BY <1>1, <1>4, SamePassed
    <3>4. ASSUME NEW d \in Docs
          PROVE  d \in answer'.got <=> /\ (d \in Rows)' /\ ~(Passed(d, walk.at)')
                                       /\ answer'.next = Gone \/ Passed(d, answer.next)'
      <4>1. d \in got <=> /\ d \in Rows /\ ~Passed(d, walk.at)
                          /\ answer'.next = Gone \/ Passed(d, answer'.next)
        BY <1>5, <2>1
      <4>2. answer'.got = got
        BY <1>4
      <4> HIDE DEF got
      <4> QED BY <4>1, <4>2, <3>1, <3>3
    <3>5. walk'.at # Gone /\ answer'.next # Gone => Before(walk.at, answer.next)'
      BY <1>4, <1>5, <2>1, <3>2
    <3> QED BY <3>4, <3>5
  <2>2. ASSUME walk.kind = "numbered"
        PROVE  \A d \in Docs :
           /\ d \in answer'.got <=> /\ (d \in Rows)'
                                    /\ OffsetForPage(walk'.page) <= Rank(Rows, d)'
                                    /\ Rank(Rows, d)' < OffsetForPage(walk'.page) + Limit
           /\ (d \in Rows)' /\ answer'.next = Gone
                => Rank(Rows, d)' < OffsetForPage(walk'.page) + Limit
    BY <1>1, <1>4, <1>6, <2>2, SameTable, SamePassed
  <2> QED BY <1>4, <2>1, <2>2 DEF PageUnderWay, OffsetForPage
<1> QED BY <1>8, <1>9, <1>10, <1>11, <1>12 DEF WalkInv

LEMMA RefuseDeepPageWalk ==
  ASSUME WalkInv, RefuseDeepPage
  PROVE  WalkInv'
<1>1. /\ walk' = [walk EXCEPT !.pc = "ended", !.end = "cut"]
      /\ UNCHANGED <<sort, table, answer, seen, twice, touched, edits, faults>>
  BY DEF RefuseDeepPage, Ended, given
<1>2. /\ walk' \in Walk /\ walk'.pc = "ended" /\ walk'.end = "cut" /\ walk'.at = walk.at
      /\ walk'.page = walk.page /\ walk'.kind = walk.kind
  BY <1>1 DEF WalkInv, TypeOK, Walk
<1>3. TypeOK'
  BY <1>1, <1>2 DEF WalkInv, TypeOK, Column
<1>4. NoRowTwice' /\ WalkComplete'
  BY <1>1, <1>2 DEF WalkInv, NoRowTwice, WalkComplete, Steady
<1>5. WalkShape' /\ GivenSoFar' /\ PageUnderWay'
  BY <1>1, <1>2, SameTable DEF WalkInv, WalkShape, GivenSoFar, PageUnderWay
<1> QED BY <1>3, <1>4, <1>5 DEF WalkInv

LEMMA LosePageWalk ==
  ASSUME WalkInv, LosePage
  PROVE  WalkInv'
<1>1. /\ walk' = [walk EXCEPT !.pc = "ready"] /\ answer' = NoAnswer /\ walk.pc = "asked"
      /\ faults > 0 /\ faults' = faults - 1
      /\ UNCHANGED <<sort, table, seen, twice, touched, edits>>
  BY DEF LosePage, given
<1>2. /\ walk' \in Walk /\ walk'.pc = "ready" /\ walk'.at = walk.at /\ walk'.page = walk.page
      /\ walk'.kind = walk.kind
  BY <1>1 DEF WalkInv, TypeOK, Walk
<1>3. TypeOK'
  BY <1>1, <1>2 DEF WalkInv, TypeOK, Column, Answer, NoAnswer
<1>4. NoRowTwice' /\ WalkComplete'
  BY <1>1, <1>2 DEF WalkInv, NoRowTwice, WalkComplete, Steady
<1>5. WalkShape' /\ PageUnderWay'
  BY <1>1, <1>2, SameTable DEF WalkInv, WalkShape, PageUnderWay, NoAnswer
<1>6. GivenSoFar'
  BY <1>1, <1>2, SameTable, SamePassed DEF WalkInv, GivenSoFar, TypeOK, OffsetForPage
<1> QED BY <1>3, <1>4, <1>5, <1>6 DEF WalkInv

LEMMA TakePageWalk ==
  ASSUME WalkInv, TakePage
  PROVE  WalkInv'
<1>1. /\ walk.pc = "asked" /\ walk.kind # "stream"
      /\ seen' = seen \cup answer.got /\ twice' = twice \cup (seen \cap answer.got)
      /\ answer' = NoAnswer
      /\ UNCHANGED <<sort, table, touched, edits, faults>>
  BY DEF TakePage, Give, WalkInv, WalkShape
<1>2. /\ TableOK /\ Gone \notin Spots /\ Spots \subseteq Positions /\ walk \in Walk
      /\ answer.got \subseteq Docs /\ seen \subseteq Docs /\ twice \subseteq seen
  BY Typed DEF WalkInv, TypeOK, Answer
<1>3. walk.at \in Spots \cup {Gone} /\ answer.next \in Spots \cup {Gone}
  BY DEF WalkInv, WalkShape
<1>4. walk.kind \in {"cursor", "numbered"} /\ walk.page \in Nat \ {0}
  BY <1>1, <1>2 DEF Walk, WalkInv, WalkShape
\* The three ways it goes on.
<1>5. CASE answer.next = Gone
  <2>1. /\ walk' \in Walk /\ walk'.pc = "ended" /\ walk'.end = "all" /\ walk'.at = walk.at
        /\ walk'.page = walk.page /\ walk'.kind = walk.kind
    BY <1>2, <1>5 DEF TakePage, Ended, Walk
  <2>2. TypeOK'
    BY <1>1, <1>2, <2>1 DEF WalkInv, TypeOK, Column, Answer, NoAnswer
  <2>3. NoRowTwice'
    <3>1. CASE walk.kind = "cursor"
      <4>1. seen \cap answer.got \subseteq touched
        BY <1>1, <1>2, <3>1 DEF WalkInv, GivenSoFar, PageUnderWay
      <4> QED BY <1>1, <2>1, <3>1, <4>1 DEF WalkInv, NoRowTwice, Steady
    <3>2. CASE walk.kind = "numbered"
      <4>1. ASSUME touched = {}, NEW d \in seen \cap answer.got PROVE FALSE
        <5>1. /\ d \in Docs /\ Rank(Rows, d) < OffsetForPage(walk.page)
              /\ OffsetForPage(walk.page) <= Rank(Rows, d)
          BY <1>1, <1>2, <3>2, <4>1 DEF WalkInv, GivenSoFar, PageUnderWay
        <5> QED BY <5>1, OffsetOK, RankIsNat
      <4> QED BY <1>1, <2>1, <3>2, <4>1 DEF WalkInv, NoRowTwice, Steady
    <3> QED BY <1>4, <3>1, <3>2
  <2>4. WalkComplete'
    <3>1. Rows' = Rows /\ Rows \subseteq Docs
      BY <1>1, SameTable DEF Rows
    <3>2. CASE walk.kind = "cursor"
      <4>1. \A d \in Rows \ touched : d \in seen \/ d \in answer.got
        BY <1>1, <1>5, <3>1, <3>2 DEF WalkInv, GivenSoFar, PageUnderWay
      <4> QED BY <1>1, <3>1, <4>1 DEF WalkComplete
    <3>3. CASE walk.kind = "numbered"
      <4>1. ASSUME touched = {}, NEW d \in Rows PROVE d \in seen \/ d \in answer.got
        <5>1. /\ d \in seen <=> Rank(Rows, d) < OffsetForPage(walk.page)
              /\ d \in answer.got <=> /\ OffsetForPage(walk.page) <= Rank(Rows, d)
                                      /\ Rank(Rows, d) < OffsetForPage(walk.page) + Limit
              /\ Rank(Rows, d) < OffsetForPage(walk.page) + Limit
          BY <1>1, <1>5, <3>1, <3>3, <4>1 DEF WalkInv, GivenSoFar, PageUnderWay
        <5> QED BY <5>1, OffsetOK, RankIsNat
      <4> QED BY <1>1, <2>1, <3>1, <3>3, <4>1 DEF WalkComplete, Steady
    <3> QED BY <1>4, <3>2, <3>3
  <2>5. WalkShape' /\ GivenSoFar' /\ PageUnderWay'
    BY <1>1, <2>1, SameTable DEF WalkInv, WalkShape, GivenSoFar, PageUnderWay, NoAnswer
  <2> QED BY <2>2, <2>3, <2>4, <2>5 DEF WalkInv
<1>6. CASE answer.next # Gone /\ walk.kind = "cursor"
  <2>1. /\ walk' \in Walk /\ walk'.pc = "ready" /\ walk'.at = answer.next
        /\ walk'.page = walk.page /\ walk'.kind = "cursor"
    BY <1>2, <1>3, <1>6 DEF TakePage, Walk
  <2>2. TypeOK'
    BY <1>1, <1>2, <2>1 DEF WalkInv, TypeOK, Column, Answer, NoAnswer
  <2>3. NoRowTwice'
    <3>1. seen \cap answer.got \subseteq touched
      BY <1>1, <1>2, <1>6 DEF WalkInv, GivenSoFar, PageUnderWay
    <3> QED BY <1>1, <1>6, <2>1, <3>1 DEF WalkInv, NoRowTwice, Steady
  <2>4. WalkComplete'
    BY <2>1 DEF WalkComplete
  <2>5. WalkShape' /\ PageUnderWay'
    BY <1>1, <1>3, <1>6, <2>1, SameTable DEF WalkInv, WalkShape, PageUnderWay, NoAnswer
  <2>6. ASSUME NEW d \in Docs \ touched
        PROVE  d \in seen' <=> (d \in Rows)' /\ Passed(d, walk.at)'
    <3>1. (d \in Rows)' <=> d \in Rows
      BY <1>1, SamePassed
    <3>2. Passed(d, walk.at)' <=> Passed(d, answer.next)
      BY <1>1, <2>1, SamePassed
    <3>3. /\ d \in seen <=> d \in Rows /\ Passed(d, walk.at)
          /\ d \in answer.got <=> d \in Rows /\ ~Passed(d, walk.at) /\ Passed(d, answer.next)
      BY <1>1, <1>6 DEF WalkInv, GivenSoFar, PageUnderWay
    <3>4. d \in Rows /\ Passed(d, walk.at) => Passed(d, answer.next)
      <4>1. CASE walk.at = Gone
        BY <4>1 DEF Passed
      <4>2. CASE walk.at # Gone
        <5>1. Before(walk.at, answer.next) /\ walk.at \in Spots /\ answer.next \in Spots
          BY <1>1, <1>3, <1>6, <4>2 DEF WalkInv, PageUnderWay
        <5> QED BY <1>2, <5>1, PassedOn
      <4> QED BY <4>1, <4>2
    <3> QED BY <1>1, <3>1, <3>2, <3>3, <3>4
  <2>7. GivenSoFar'
    BY <1>1, <2>1, <2>6 DEF GivenSoFar
  <2> QED BY <2>2, <2>3, <2>4, <2>5, <2>7 DEF WalkInv
<1>7. CASE answer.next # Gone /\ walk.kind = "numbered"
  <2>1. /\ walk' \in Walk /\ walk'.pc = "ready" /\ walk'.at = walk.at
        /\ walk'.page = walk.page + 1 /\ walk'.kind = "numbered"
    <3>1. walk' = [walk EXCEPT !.pc = "ready", !.page = walk.page + 1]
      BY <1>7 DEF TakePage
    <3>2. walk.page + 1 \in Nat
      BY <1>4
    <3> QED BY <1>2, <1>7, <3>1, <3>2 DEF Walk
  <2>2. TypeOK'
    BY <1>1, <1>2, <2>1 DEF WalkInv, TypeOK, Column, Answer, NoAnswer
  <2>3. OffsetForPage(walk.page + 1) = OffsetForPage(walk.page) + Limit
        /\ OffsetForPage(walk.page) \in Nat /\ Limit \in Nat
    BY OffsetOK, ConstantsOK
  <2>4. ASSUME touched = {}, NEW d \in Docs
        PROVE  /\ d \in seen <=> d \in Rows /\ Rank(Rows, d) < OffsetForPage(walk.page)
               /\ d \in answer.got <=> /\ d \in Rows
                                       /\ OffsetForPage(walk.page) <= Rank(Rows, d)
                                       /\ Rank(Rows, d) < OffsetForPage(walk.page) + Limit
               /\ Rank(Rows, d) \in Nat
    BY <1>1, <1>7, <2>4, RankIsNat DEF WalkInv, GivenSoFar, PageUnderWay
  <2>5. NoRowTwice'
    <3>1. ASSUME touched = {}, NEW d \in seen \cap answer.got PROVE FALSE
      <4>1. d \in Docs
        BY <1>2, <3>1
      <4> QED BY <2>3, <2>4, <3>1, <4>1
    <3> QED BY <1>1, <1>7, <2>1, <3>1 DEF WalkInv, NoRowTwice, Steady
  <2>6. WalkComplete'
    BY <2>1 DEF WalkComplete
  <2>7. WalkShape' /\ PageUnderWay'
    BY <1>1, <1>4, <1>7, <2>1, SameTable DEF WalkInv, WalkShape, PageUnderWay, NoAnswer
  <2>8. ASSUME touched = {}, NEW d \in Docs
        PROVE  d \in seen' <=> (d \in Rows)' /\ Rank(Rows, d)' < OffsetForPage(walk'.page)
    <3>1. (d \in Rows)' <=> d \in Rows
      BY <1>1, SamePassed
    <3>2. Rank(Rows, d)' = Rank(Rows, d)
      BY <1>1, SameTable
    <3>3. OffsetForPage(walk'.page) = OffsetForPage(walk.page) + Limit
      BY <2>1, <2>3
    <3>4. /\ d \in seen <=> d \in Rows /\ Rank(Rows, d) < OffsetForPage(walk.page)
          /\ d \in answer.got <=> /\ d \in Rows
                                  /\ OffsetForPage(walk.page) <= Rank(Rows, d)
                                  /\ Rank(Rows, d) < OffsetForPage(walk.page) + Limit
          /\ Rank(Rows, d) \in Nat
      BY <2>4, <2>8
    <3>5. d \in seen \cup answer.got
            <=> d \in Rows /\ Rank(Rows, d) < OffsetForPage(walk.page) + Limit
      BY <2>3, <3>4
    <3> QED BY <1>1, <3>1, <3>2, <3>3, <3>5
  <2>9. GivenSoFar'
    BY <1>1, <2>1, <2>8 DEF GivenSoFar, OffsetForPage
  <2> QED BY <2>2, <2>5, <2>6, <2>7, <2>9 DEF WalkInv
<1> QED BY <1>4, <1>5, <1>6, <1>7

\* What StreamBatch and StreamBreaks send is new to the client.
LEMMA StreamSends ==
  ASSUME WalkInv, walk.pc = "ready", walk.kind = "stream", NEW n \in Nat
  PROVE  /\ Fetched(walk.at, 0, n) \subseteq Rows
         /\ \A d \in Docs \ touched : d \in seen <=> d \in Rows /\ Passed(d, walk.at)
         /\ seen \cap Fetched(walk.at, 0, n) \subseteq touched
<1> DEFINE P == Fetched(walk.at, 0, n)
<1>1. \A d \in Docs \ touched : d \in seen <=> d \in Rows /\ Passed(d, walk.at)
  BY DEF WalkInv, GivenSoFar
<1>2. P = Slice(Reach(walk.at), 0, n)
  BY FetchedIsSlice
<1>3. P \subseteq Reach(walk.at) /\ Reach(walk.at) \subseteq Rows
  BY <1>2, SliceOK, FetchedIsSlice
<1>4. \A d \in P : d \in Docs /\ ~Passed(d, walk.at)
  BY <1>3, FetchedIsSlice, 0 \in Nat DEF Rows
<1> QED BY <1>1, <1>3, <1>4

LEMMA StreamBatchWalk ==
  ASSUME WalkInv, StreamBatch
  PROVE  WalkInv'
<1> DEFINE size == IF walk.left < Batch THEN walk.left ELSE Batch
           got == Fetched(walk.at, 0, size)
<1>1. /\ walk.pc = "ready" /\ walk.kind = "stream"
      /\ UNCHANGED <<sort, table, answer, touched, edits, faults>>
      /\ IF size = 0 THEN walk' = [walk EXCEPT !.pc = "ended", !.end = "cut"] /\ UNCHANGED <<seen, twice>>
         ELSE /\ seen' = seen \cup got /\ twice' = twice \cup (seen \cap got)
              /\ walk' = IF Cardinality(got) < size THEN [walk EXCEPT !.pc = "ended", !.end = "all"]
                         ELSE [walk EXCEPT !.left = @ - size, !.at = Position(LastOf(got))]
  BY DEF StreamBatch, Give, Ended, given
<1>2. /\ TableOK /\ Gone \notin Spots /\ Spots \subseteq Positions /\ walk \in Walk
      /\ seen \subseteq Docs /\ twice \subseteq seen
  BY Typed DEF WalkInv, TypeOK
<1>3. /\ walk.at \in Spots \cup {Gone} /\ walk.page = 1 /\ walk.left \in Nat
      /\ size \in Nat /\ walk.left - size \in Nat
  <2>1. walk.at \in Spots \cup {Gone} /\ walk.page = 1 /\ walk.left \in Nat
    BY <1>1, <1>2 DEF WalkInv, WalkShape, Walk
  <2>2. size \in Nat /\ walk.left - size \in Nat
    BY <2>1, ConstantsOK
  <2> QED BY <2>1, <2>2
<1>4. /\ got \subseteq Rows
      /\ \A d \in Docs \ touched : d \in seen <=> d \in Rows /\ Passed(d, walk.at)
      /\ seen \cap got \subseteq touched
  BY <1>1, <1>3, StreamSends
<1>5. Rows' = Rows /\ Rows \subseteq Docs /\ Spots' = Spots
  BY <1>1, SameTable DEF Rows
<1> HIDE DEF got, size
<1>6. CASE size = 0
  <2>1. /\ walk' \in Walk /\ walk'.pc = "ended" /\ walk'.end = "cut" /\ walk'.at = walk.at
        /\ walk'.page = walk.page /\ walk'.kind = walk.kind /\ seen' = seen /\ twice' = twice
    BY <1>1, <1>2, <1>6 DEF Walk
  <2>2. TypeOK'
    BY <1>1, <1>2, <2>1 DEF WalkInv, TypeOK, Column
  <2>3. NoRowTwice' /\ WalkComplete'
    BY <1>1, <2>1 DEF WalkInv, NoRowTwice, WalkComplete, Steady
  <2>4. WalkShape' /\ GivenSoFar' /\ PageUnderWay'
    BY <1>1, <1>5, <2>1 DEF WalkInv, WalkShape, GivenSoFar, PageUnderWay
  <2> QED BY <2>2, <2>3, <2>4 DEF WalkInv
<1>7. CASE size # 0
  <2>1. /\ seen' = seen \cup got /\ twice' = twice \cup (seen \cap got)
        /\ seen' \subseteq Docs /\ twice' \subseteq seen'
    BY <1>1, <1>2, <1>4, <1>5, <1>7
  <2>2. CASE Cardinality(got) < size
    <3>1. /\ walk' \in Walk /\ walk'.pc = "ended" /\ walk'.end = "all" /\ walk'.at = walk.at
          /\ walk'.page = walk.page /\ walk'.kind = walk.kind
      BY <1>1, <1>2, <1>7, <2>2 DEF Walk
    <3>2. TypeOK'
      BY <1>1, <2>1, <3>1 DEF WalkInv, TypeOK, Column
    <3>3. NoRowTwice'
      BY <1>1, <1>4, <2>1, <3>1 DEF WalkInv, NoRowTwice, Steady
    <3>4. WalkComplete'
      <4>1. got = Slice(Reach(walk.at), 0, size) /\ Reach(walk.at) \in SUBSET Rows
        BY <1>3, FetchedIsSlice DEF got
      <4>2. got = Reach(walk.at)
        BY <1>2, <1>3, <2>2, <4>1, ShortSlice
      <4>3. \A d \in Rows : d \in got <=> ~Passed(d, walk.at)
        BY <1>3, <1>5, <4>2, FetchedIsSlice
      <4> QED BY <1>1, <1>4, <1>5, <2>1, <4>3 DEF WalkComplete
    <3>5. WalkShape' /\ GivenSoFar' /\ PageUnderWay'
      BY <1>1, <1>5, <3>1 DEF WalkInv, WalkShape, GivenSoFar, PageUnderWay
    <3> QED BY <3>2, <3>3, <3>4, <3>5 DEF WalkInv
  <2>3. CASE ~(Cardinality(got) < size)
    <3>1. got # {}
      BY <1>3, <1>7, <2>3, FS_EmptySet
    <3>2. /\ Position(LastOf(got)) \in Spots
          /\ \A d \in Docs : d \in got <=> /\ d \in Rows /\ ~Passed(d, walk.at)
                                           /\ Passed(d, Position(LastOf(got)))
          /\ walk.at # Gone => Before(walk.at, Position(LastOf(got)))
      BY <1>2, <1>3, <3>1, CutAt DEF got
    <3>3. /\ walk' \in Walk /\ walk'.pc = "ready" /\ walk'.at = Position(LastOf(got))
          /\ walk'.page = walk.page /\ walk'.kind = walk.kind
      <4>1. walk' = [walk EXCEPT !.left = walk.left - size, !.at = Position(LastOf(got))]
        BY <1>1, <1>7, <2>3
      <4>2. Position(LastOf(got)) \in Positions
        BY <1>2, <3>2
      <4> QED BY <1>1, <1>2, <1>3, <4>1, <4>2 DEF Walk
    <3>4. TypeOK'
      BY <1>1, <2>1, <3>3 DEF WalkInv, TypeOK, Column
    <3>5. NoRowTwice' /\ WalkComplete'
      BY <1>1, <1>4, <2>1, <3>3 DEF WalkInv, NoRowTwice, WalkComplete, Steady
    <3>6. WalkShape' /\ PageUnderWay'
      BY <1>1, <1>5, <3>2, <3>3 DEF WalkInv, WalkShape, PageUnderWay
    <3>7. ASSUME NEW d \in Docs \ touched
          PROVE  d \in seen' <=> (d \in Rows)' /\ Passed(d, walk.at)'
      <4>1. Passed(d, walk.at)' <=> Passed(d, Position(LastOf(got)))
        BY <1>1, <3>3 DEF Passed, After, Position
      <4>2. d \in Rows /\ Passed(d, walk.at) => Passed(d, Position(LastOf(got)))
        <5>1. CASE walk.at = Gone
          BY <5>1 DEF Passed
        <5>2. CASE walk.at # Gone
          BY <1>2, <1>3, <3>2, <5>2, PassedOn
        <5> QED BY <5>1, <5>2
      <4> QED BY <1>4, <1>5, <2>1, <3>2, <4>1, <4>2
    <3>8. GivenSoFar'
      BY <1>1, <3>3, <3>7 DEF GivenSoFar
    <3> QED BY <3>4, <3>5, <3>6, <3>8 DEF WalkInv
  <2> QED BY <2>2, <2>3
<1> QED BY <1>6, <1>7

LEMMA StreamBreaksWalk ==
  ASSUME WalkInv, StreamBreaks
  PROVE  WalkInv'
<1>1. PICK n \in 0 .. Batch - 1 : Give(Fetched(walk.at, 0, n))
  BY DEF StreamBreaks
<1> DEFINE got == Fetched(walk.at, 0, n)
<1>2. /\ walk.pc = "ready" /\ walk.kind = "stream" /\ faults > 0 /\ faults' = faults - 1
      /\ walk' = [walk EXCEPT !.pc = "ended", !.end = "cut"]
      /\ seen' = seen \cup got /\ twice' = twice \cup (seen \cap got)
      /\ UNCHANGED <<sort, table, answer, touched, edits>>
  BY <1>1 DEF StreamBreaks, Give, Ended
<1>3. got \subseteq Rows /\ seen \cap got \subseteq touched /\ Rows \subseteq Docs
  <2>1. n \in Nat
    BY ConstantsOK
  <2> QED BY <1>2, <2>1, StreamSends DEF Rows
<1> HIDE DEF got
<1>4. /\ walk' \in Walk /\ walk'.pc = "ended" /\ walk'.end = "cut" /\ walk'.at = walk.at
      /\ walk'.page = walk.page /\ walk'.kind = walk.kind
  BY <1>2 DEF WalkInv, TypeOK, Walk
<1>5. TypeOK'
  BY <1>2, <1>3, <1>4 DEF WalkInv, TypeOK, Column
<1>6. NoRowTwice' /\ WalkComplete'
  BY <1>2, <1>3, <1>4 DEF WalkInv, NoRowTwice, WalkComplete, Steady
<1>7. WalkShape' /\ GivenSoFar' /\ PageUnderWay'
  BY <1>2, <1>4, SameTable DEF WalkInv, WalkShape, GivenSoFar, PageUnderWay
<1> QED BY <1>5, <1>6, <1>7 DEF WalkInv

\* A change frees its row, and a numbered walk, from what the walk promises.
LEMMA ChangeWalk ==
  ASSUME WalkInv, NEW d \in Docs, Change(d)
  PROVE  WalkInv'
<1>1. PICK k \in (Column(sort) \cup {Gone}) \ {table[d]} : table' = [table EXCEPT ![d] = k]
  BY DEF Change
<1>2. /\ touched' = touched \cup {d} /\ edits > 0 /\ edits' = edits - 1
      /\ UNCHANGED <<sort, walk, answer, seen, twice, faults>>
  BY DEF Change, given
<1>3. ASSUME NEW e \in Docs \ touched'
      PROVE  /\ e \in Docs \ touched
             /\ (e \in Rows)' <=> e \in Rows
             /\ Passed(e, walk.at)' <=> Passed(e, walk.at)
             /\ Passed(e, answer.next)' <=> Passed(e, answer.next)
  <2>1. table \in [Docs -> Column(sort) \cup {Gone}] /\ e # d
    BY <1>2 DEF WalkInv, TypeOK
  <2>2. table'[e] = table[e]
    BY <1>1, <2>1
  <2> QED BY <1>2, <2>2, SamePassed
<1>4. touched' # {} /\ Rows' \subseteq Docs
  BY <1>2 DEF Rows
<1>5. TypeOK'
  BY <1>1, <1>2 DEF WalkInv, TypeOK, Column
<1>6. NoRowTwice' /\ WalkComplete'
  BY <1>2, <1>3, <1>4 DEF WalkInv, NoRowTwice, WalkComplete, Steady
<1>7. WalkShape'
  BY <1>2 DEF WalkInv, WalkShape, Spots, Column
<1>8. GivenSoFar'
  BY <1>2, <1>3, <1>4 DEF WalkInv, GivenSoFar
<1>9. PageUnderWay'
  <2>1. Before(walk.at, answer.next)' <=> Before(walk.at, answer.next)
    BY <1>2 DEF Before, Chunked
  <2> QED BY <1>2, <1>3, <1>4, <2>1 DEF WalkInv, PageUnderWay
<1> QED BY <1>5, <1>6, <1>7, <1>8, <1>9 DEF WalkInv

LEMMA WalkStep == WalkInv /\ [Next]_vars => WalkInv'
<1> SUFFICES ASSUME WalkInv, [Next]_vars PROVE WalkInv'
  OBVIOUS
<1>1. ASSUME NEW kind \in Kinds, Begin(kind) PROVE WalkInv'
  BY <1>1, BeginWalk
<1>2. ASSUME NEW d \in Docs, Change(d) PROVE WalkInv'
  BY <1>2, ChangeWalk
<1>3. CASE UNCHANGED vars
  <2>1. UNCHANGED <<sort, table, walk, answer, seen, twice, touched, edits, faults>>
    BY <1>3 DEF vars, given
  <2>2. TypeOK' /\ NoRowTwice' /\ WalkComplete'
    BY <2>1 DEF WalkInv, TypeOK, NoRowTwice, WalkComplete, Steady, Rows, Column
  <2>3. WalkShape'
    BY <2>1, SameTable DEF WalkInv, WalkShape
  <2>4. GivenSoFar'
    BY <2>1, SameTable, SamePassed DEF WalkInv, GivenSoFar, OffsetForPage
  <2>5. PageUnderWay'
    <3>1. Before(walk.at, answer.next)' <=> Before(walk.at, answer.next)
      BY <2>1 DEF Before, Chunked
    <3> QED BY <2>1, <3>1, SameTable, SamePassed DEF WalkInv, PageUnderWay, OffsetForPage
  <2> QED BY <2>2, <2>3, <2>4, <2>5 DEF WalkInv
<1> QED
  BY <1>1, <1>2, <1>3, AskPageWalk, RefuseDeepPageWalk, TakePageWalk, LosePageWalk,
     StreamBatchWalk, StreamBreaksWalk DEF Next

(***************************************************************************)
(* The theorems.                                                           *)
(***************************************************************************)

\* The walk, its page and the table keep their shape.
THEOREM WalkTyped == Spec => []TypeOK
<1>1. WalkInv => TypeOK
  BY DEF WalkInv
<1> QED BY WalkInit, WalkStep, <1>1, PTL DEF Spec

\* No document that nobody changed during a walk is given twice (push_keyset
\* agrees with order_by, ties and NULL keys included).
THEOREM NoDocumentTwice == Spec => []NoRowTwice
<1>1. WalkInv => NoRowTwice
  BY DEF WalkInv
<1> QED BY WalkInit, WalkStep, <1>1, PTL DEF Spec

\* A walk that ends because there is no more has given every document that
\* nobody changed.
THEOREM NothingLeftOut == Spec => []WalkComplete
<1>1. WalkInv => WalkComplete
  BY DEF WalkInv
<1> QED BY WalkInit, WalkStep, <1>1, PTL DEF Spec
=============================================================================
