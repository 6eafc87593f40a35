------------------------ MODULE PublishedRowsProofs ------------------------
(***************************************************************************)
(* Theorems about the rows a publication writes: the stored roots and      *)
(* depths are those of the published parents, what is published passes its *)
(* own validation, and the delta is the difference.                        *)
(*                                                                         *)
(* Records are named by their source and place (LogInv), and a change set  *)
(* is those of its sources that are not yet read, in order.  From there    *)
(* the tables are followed one by one: sessions and their roots, the folds *)
(* of transitions, counts, the tail of calls, and the delta.               *)
(***************************************************************************)
EXTENDS PublishedRowsProperties, FiniteSetTheorems, WellFoundedInduction, TLAPS

-----------------------------------------------------------------------------
(* Induction over numbers, for sets of numbers.                            *)

\* A set of numbers has a least one.
LEMMA Least ==
    ASSUME NEW S \in SUBSET Nat, S # {}
    PROVE  \E n \in S : \A m \in S : n <= m
<1> DEFINE T == {0 .. n : n \in S}
           R == StrictSubsetOrdering(Nat)
<1>1. IsWellFoundedOn(R, FiniteSubsetsOf(Nat))
  BY FS_StrictSubsetOrderingWellFounded
<1>2. T \subseteq FiniteSubsetsOf(Nat) /\ T # {}
  <2>1. ASSUME NEW n \in S PROVE 0 .. n \in SUBSET Nat /\ IsFiniteSet(0 .. n)
    BY FS_Interval
  <2> QED
    BY <2>1 DEF FiniteSubsetsOf
<1>3. \E x \in T : \A y \in T : ~(<<y, x>> \in R)
  <2> HIDE DEF T, R
  <2> QED
    BY <1>1, <1>2, WFMin
<1>4. PICK n \in S : \A m \in S : ~(<<0 .. m, 0 .. n>> \in R)
  BY <1>3
<1>5. ASSUME NEW m \in S, m < n PROVE FALSE
  <2>1. 0 .. m \subseteq 0 .. n /\ n \in 0 .. n /\ n \notin 0 .. m /\ 0 .. n \subseteq Nat
    BY <1>5
  <2>2. <<0 .. m, 0 .. n>> \in R
    BY <2>1 DEF StrictSubsetOrdering
  <2> QED
    BY <2>2, <1>4
<1> QED
  BY <1>5

\* Induction, for a set of numbers.
LEMMA Reaches ==
    ASSUME NEW P \in SUBSET Nat, 0 \in P, \A n \in P : n + 1 \in P
    PROVE  P = Nat
<1> SUFFICES ASSUME Nat \ P # {} PROVE FALSE
  OBVIOUS
<1>1. PICK n \in Nat \ P : \A m \in Nat \ P : n <= m
  BY Least
<1>2. n - 1 \in Nat /\ n - 1 \notin Nat \ P
  BY <1>1
<1> QED
  BY <1>1, <1>2

-----------------------------------------------------------------------------
(* Picking from a sequence. *)

LEMMA SizeIsNat == ASSUME NEW S, IsFiniteSet(S) PROVE Cardinality(S) \in Nat
BY FS_CardinalityType

\* A strict linear order of a finite set, and the rank of an element in it.
Linear(S, before) ==
    /\ \A x, y \in S : x # y => <<x, y>> \in before \/ <<y, x>> \in before
    /\ \A x, y, z \in S : <<x, y>> \in before /\ <<y, z>> \in before => <<x, z>> \in before
    /\ \A x \in S : <<x, x>> \notin before

Rank(S, before, x) == Cardinality({y \in S : <<y, x>> \in before})

\* The rank of an element is below the size of the set, and ranks grow with the order.
LEMMA Ranks ==
    ASSUME NEW S, IsFiniteSet(S), NEW before, Linear(S, before)
    PROVE  /\ \A x \in S : /\ Rank(S, before, x) \in Nat /\ Rank(S, before, x) < Cardinality(S)
           /\ \A x, y \in S : <<x, y>> \in before => Rank(S, before, x) < Rank(S, before, y)
           /\ \A x, y \in S : Rank(S, before, x) = Rank(S, before, y) => x = y
<1> DEFINE B(x) == {y \in S : <<y, x>> \in before}
           n == Cardinality(S)
<1>0. n \in Nat
  BY SizeIsNat
<1>1. ASSUME NEW x \in S PROVE IsFiniteSet(B(x)) /\ Cardinality(B(x)) \in Nat /\ Cardinality(B(x)) < n
  <2>1. B(x) \subseteq S \ {x}
    BY DEF Linear
  <2>2. IsFiniteSet(S \ {x}) /\ Cardinality(S \ {x}) = n - 1
    BY FS_RemoveElement
  <2>3. IsFiniteSet(B(x)) /\ Cardinality(B(x)) <= Cardinality(S \ {x})
    BY <2>1, <2>2, FS_Subset
  <2> QED
    BY <1>0, <2>2, <2>3, SizeIsNat
<1>2. ASSUME NEW x \in S, NEW y \in S, <<x, y>> \in before
      PROVE  Cardinality(B(x)) < Cardinality(B(y))
  <2>1. B(x) \subseteq B(y) /\ x \in B(y) /\ x \notin B(x)
    BY <1>2 DEF Linear
  <2> HIDE DEF B
  <2>2. Cardinality(B(x)) <= Cardinality(B(y)) /\ (Cardinality(B(y)) = Cardinality(B(x)) => B(y) = B(x))
    BY <1>1, <2>1, FS_Subset
  <2> QED
    BY <1>1, <2>1, <2>2
<1>3. \A x \in S : Rank(S, before, x) = Cardinality(B(x))
  BY DEF Rank
<1> HIDE DEF B, n
<1>4. \A x, y \in S : Rank(S, before, x) = Rank(S, before, y) => x = y
  <2>1. \A x, y \in S : x # y => <<x, y>> \in before \/ <<y, x>> \in before
    BY DEF Linear
  <2>2. ASSUME NEW x \in S, NEW y \in S, x # y
        PROVE  Cardinality(B(x)) # Cardinality(B(y))
    <3>1. Cardinality(B(x)) < Cardinality(B(y)) \/ Cardinality(B(y)) < Cardinality(B(x))
      BY <1>2, <2>1, <2>2
    <3> QED
      BY <1>1, <3>1
  <2> QED
    BY <1>3, <2>2
<1> QED
  BY <1>1, <1>2, <1>3, <1>4 DEF n

\* Every rank below the size of the set is that of one element.
LEMMA Numbered ==
    ASSUME NEW S, IsFiniteSet(S), NEW before, Linear(S, before), NEW k \in 1 .. Cardinality(S)
    PROVE  \E x \in S : Rank(S, before, x) = k - 1
<1> DEFINE n == Cardinality(S)
           T == 0 .. n - 1
           f == [x \in S |-> Rank(S, before, x)]
<1>1. n \in Nat
  BY SizeIsNat
<1>2. f \in Injection(S, T)
  <2>1. \A x \in S : Rank(S, before, x) \in T
    BY <1>1, Ranks
  <2>2. \A x, y \in S : f[x] = f[y] => x = y
    BY Ranks
  <2> QED
    BY <2>1, <2>2 DEF Injection, IsInjective
<1>3. IsFiniteSet(T) /\ Cardinality(T) = n
  <2>1. n >= 1 /\ 0 \in Int /\ n - 1 \in Int
    BY <1>1
  <2>2. /\ IsFiniteSet(0 .. (n - 1))
        /\ Cardinality(0 .. (n - 1)) = IF 0 > n - 1 THEN 0 ELSE (n - 1) - 0 + 1
    <3> HIDE DEF n
    <3> QED
      BY <2>1, FS_Interval
  <2> QED
    BY <1>1, <2>1, <2>2
<1>4. f \in Surjection(S, T)
  <2> HIDE DEF f, T
  <2> QED
    BY <1>2, <1>3, FS_Injection
<1>5. k - 1 \in T
  BY <1>1
<1>6. PICK x \in S : f[x] = k - 1
  BY <1>4, <1>5 DEF Surjection
<1> QED
  BY <1>6

\* The places before one.
Before(I, i) == {j \in I : j < i}

\* Numbers in their order.
Below(I) == {p \in I \X I : p[1] < p[2]}

LEMMA BelowIsLinear ==
    ASSUME NEW I \in SUBSET Int
    PROVE  Linear(I, Below(I)) /\ \A i \in I : Rank(I, Below(I), i) = Cardinality(Before(I, i))
<1>1. \A i, j \in I : <<i, j>> \in Below(I) <=> i < j
  BY DEF Below
<1>2. Linear(I, Below(I))
  BY <1>1 DEF Linear
<1>3. ASSUME NEW i \in I PROVE {j \in I : <<j, i>> \in Below(I)} = Before(I, i)
  BY <1>1 DEF Before
<1> QED
  BY <1>2, <1>3 DEF Rank

\* What is picked comes from the places it is picked from.
LEMMA PickedFrom ==
    ASSUME NEW s, NEW I \in SUBSET (1 .. Len(s)), Len(s) \in Nat
    PROVE  /\ Cardinality(I) \in Nat /\ IsFiniteSet(I)
           /\ (Cardinality(I) = 0 <=> I = {})
           /\ Picked(s, I) = [k \in 1 .. Cardinality(I) |-> Picked(s, I)[k]]
           /\ Len(Picked(s, I)) = Cardinality(I)
<1>1. IsFiniteSet(I) /\ Cardinality(I) \in Nat /\ (Cardinality(I) = 0 <=> I = {})
  <2>1. IsFiniteSet(1 .. Len(s))
    BY FS_Interval
  <2>2. IsFiniteSet(I)
    BY <2>1, FS_Subset
  <2> QED
    BY <2>2, FS_EmptySet, SizeIsNat
<1>2. Picked(s, I) = [k \in 1 .. Cardinality(I) |-> Picked(s, I)[k]]
  BY DEF Picked
<1>3. Len(Picked(s, I)) = Cardinality(I)
  BY <1>1 DEF Picked
<1> QED
  BY <1>1, <1>2, <1>3

\* The element at a place is picked in the rank of the place.
LEMMA PickedAt ==
    ASSUME NEW s, NEW I \in SUBSET (1 .. Len(s)), Len(s) \in Nat, NEW k \in 1 .. Cardinality(I)
    PROVE  \E i \in I : Picked(s, I)[k] = s[i] /\ Cardinality(Before(I, i)) = k - 1
<1>1. I \in SUBSET Int /\ IsFiniteSet(I)
  <2>1. I \in SUBSET Int
    OBVIOUS
  <2> QED
    BY <2>1, PickedFrom
<1>2. \E i \in I : Cardinality(Before(I, i)) = k - 1
  BY <1>1, BelowIsLinear, Numbered
<1> DEFINE c == CHOOSE i \in I : Cardinality({j \in I : j < i}) = k - 1
<1>3. \E i \in I : Cardinality({j \in I : j < i}) = k - 1
  BY <1>2 DEF Before
<1>4. c \in I /\ Cardinality({j \in I : j < c}) = k - 1
  BY ONLY <1>3, ZenonT(40)
<1>5. Picked(s, I)[k] = s[c]
  BY DEF Picked
<1> QED
  BY <1>4, <1>5 DEF Before

\* Every place is picked, and what is picked keeps its order.
LEMMA PickedHas ==
    ASSUME NEW s, NEW I \in SUBSET (1 .. Len(s)), Len(s) \in Nat, NEW i \in I
    PROVE  /\ Cardinality(Before(I, i)) + 1 \in 1 .. Cardinality(I)
           /\ Picked(s, I)[Cardinality(Before(I, i)) + 1] = s[i]
           /\ \A j \in I : i < j => Cardinality(Before(I, i)) < Cardinality(Before(I, j))
<1>1. I \in SUBSET Int /\ IsFiniteSet(I) /\ Cardinality(I) \in Nat
  <2>1. I \in SUBSET Int
    OBVIOUS
  <2> QED
    BY <2>1, PickedFrom
<1>2. Linear(I, Below(I)) /\ \A j \in I : Rank(I, Below(I), j) = Cardinality(Before(I, j))
  BY <1>1, BelowIsLinear
<1> DEFINE k == Cardinality(Before(I, i)) + 1
<1>3. k - 1 = Cardinality(Before(I, i)) /\ k \in 1 .. Cardinality(I)
  BY <1>1, <1>2, Ranks
<1>4. PICK j \in I : Picked(s, I)[k] = s[j] /\ Cardinality(Before(I, j)) = k - 1
  BY <1>3, PickedAt
<1>5. j = i
  BY <1>1, <1>2, <1>3, <1>4, Ranks
<1>6. \A h \in I : i < h => <<i, h>> \in Below(I)
  BY DEF Below
<1>7. \A h \in I : i < h => Rank(I, Below(I), i) < Rank(I, Below(I), h)
  BY <1>1, <1>2, <1>6, Ranks
<1> QED
  BY <1>2, <1>3, <1>4, <1>5, <1>7
-----------------------------------------------------------------------------
(* Sorting records. *)

\* The records can be told apart by their source and their number.
Distinct(S) == \A o, p \in S : o.src = p.src /\ o.n = p.n => o = p

\* The order of a change set as a relation.
Earlier(S) == {p \in S \X S : Precedes(p[1], p[2])}

\* The place of a record in a sorted change set.
Place(S, o) == Cardinality({p \in S : Precedes(p, o)}) + 1

LEMMA EarlierIsLinear ==
    ASSUME NEW S \in SUBSET Observation, Distinct(S)
    PROVE  Linear(S, Earlier(S)) /\ \A o \in S : Rank(S, Earlier(S), o) + 1 = Place(S, o)
<1>1. \A o, p \in S : <<o, p>> \in Earlier(S) <=> Precedes(o, p)
  BY DEF Earlier
<1>2. ASSUME NEW o \in S PROVE o.at \in Int /\ o.src \in Int /\ o.n \in Int
  <2>1. o \in Observation
    OBVIOUS
  <2>2. o.at \in Nat /\ o.src \in Sources /\ o.n \in Nat
    BY <2>1 DEF Observation
  <2>3. Sources \subseteq Nat
    BY RowsAssumption
  <2>4. o.at \in Nat /\ o.src \in Nat /\ o.n \in Nat
    BY <2>2, <2>3
  <2> QED
    BY <2>4
<1>3. /\ \A o, p \in S : o # p => Precedes(o, p) \/ Precedes(p, o)
      /\ \A o \in S : ~Precedes(o, o)
  BY <1>2 DEF Precedes, Distinct
<1>4. \A o, p, q \in S : Precedes(o, p) /\ Precedes(p, q) => Precedes(o, q)
  BY <1>2 DEF Precedes
<1>5. Linear(S, Earlier(S))
  BY <1>1, <1>3, <1>4 DEF Linear
<1>6. ASSUME NEW o \in S PROVE {p \in S : <<p, o>> \in Earlier(S)} = {p \in S : Precedes(p, o)}
  BY <1>1
<1> QED
  BY <1>5, <1>6 DEF Rank, Place

\* A sorted set has its elements, one by one.
LEMMA SortedFrom ==
    ASSUME NEW S \in SUBSET Observation, IsFiniteSet(S), Distinct(S)
    PROVE  /\ Cardinality(S) \in Nat /\ Sorted(S) \in Seq(Observation)
           /\ Len(Sorted(S)) = Cardinality(S)
           /\ \A k \in 1 .. Cardinality(S) : Sorted(S)[k] \in S /\ Place(S, Sorted(S)[k]) = k
<1>1. Cardinality(S) \in Nat
  BY SizeIsNat
<1>2. ASSUME NEW k \in 1 .. Cardinality(S)
      PROVE  Sorted(S)[k] \in S /\ Place(S, Sorted(S)[k]) = k
  <2>1. \E o \in S : Rank(S, Earlier(S), o) = k - 1
    BY EarlierIsLinear, Numbered
  <2>2. \A o \in S : Rank(S, Earlier(S), o) \in Nat
    BY EarlierIsLinear, Ranks
  <2>3. ASSUME NEW o \in S
        PROVE  Place(S, o) = k <=> Cardinality({p \in S : Precedes(p, o)}) = k - 1
    <3>1. {p \in S : Precedes(p, o)} \in SUBSET S
      OBVIOUS
    <3>2. Cardinality({p \in S : Precedes(p, o)}) \in Nat
      BY <3>1, FS_Subset, SizeIsNat
    <3> QED
      BY <3>2 DEF Place
  <2>4. \E o \in S : Cardinality({p \in S : Precedes(p, o)}) = k - 1
    BY <2>1, <2>2, <2>3, EarlierIsLinear
  <2> DEFINE c == CHOOSE o \in S : Cardinality({p \in S : Precedes(p, o)}) = k - 1
  <2>5. c \in S /\ Cardinality({p \in S : Precedes(p, c)}) = k - 1
    BY <2>4
  <2>6. Sorted(S)[k] = c
    BY DEF Sorted
  <2> QED
    BY <2>3, <2>5, <2>6
<1>3. Sorted(S) = [k \in 1 .. Cardinality(S) |-> Sorted(S)[k]]
  BY DEF Sorted
<1>4. Len(Sorted(S)) = Cardinality(S)
  BY <1>1 DEF Sorted
<1>5. Sorted(S) \in Seq(Observation)
  BY <1>1, <1>2, <1>3
<1> QED
  BY <1>1, <1>2, <1>4, <1>5

\* Every record is sorted in, and a record that precedes another one comes first.
LEMMA SortedHas ==
    ASSUME NEW S \in SUBSET Observation, IsFiniteSet(S), Distinct(S), NEW o \in S
    PROVE  /\ Place(S, o) \in 1 .. Cardinality(S) /\ Sorted(S)[Place(S, o)] = o
           /\ \A p \in S : Precedes(o, p) => Place(S, o) < Place(S, p)
<1>1. Linear(S, Earlier(S)) /\ \A p \in S : Rank(S, Earlier(S), p) + 1 = Place(S, p)
  BY EarlierIsLinear
<1>2. Cardinality(S) \in Nat /\ \A p \in S : Rank(S, Earlier(S), p) \in Nat
  BY <1>1, Ranks, SizeIsNat
<1>3. Place(S, o) \in 1 .. Cardinality(S)
  BY <1>1, <1>2, Ranks
<1>4. Sorted(S)[Place(S, o)] \in S /\ Place(S, Sorted(S)[Place(S, o)]) = Place(S, o)
  BY <1>3, SortedFrom
<1>5. \A p \in S : Place(S, p) = Place(S, o) => p = o
  BY <1>1, <1>2, Ranks
<1>6. \A p \in S : Precedes(o, p) => <<o, p>> \in Earlier(S)
  BY DEF Earlier
<1>7. \A p \in S : Precedes(o, p) => Rank(S, Earlier(S), o) < Rank(S, Earlier(S), p)
  BY <1>1, <1>6, Ranks
<1>8. \A p \in S : Precedes(o, p) => Place(S, o) < Place(S, p)
  BY <1>1, <1>2, <1>7
<1> QED
  BY <1>3, <1>4, <1>5, <1>8

-----------------------------------------------------------------------------
(* Climbing from a session to its root.                                    *)

N == Cardinality(Sessions)

\* The parent of a session, or itself if it is a root.
Above(p, s) == IF s \in DOMAIN p /\ p[s] \in Sessions THEN p[s] ELSE s

LEMMA SizeOfSessions == N \in Nat
BY SessionsAssumption, SizeIsNat DEF N

\* The root and the depth of a session are found by climbing, one parent at a time.
LEMMA Climbs ==
    ASSUME NEW p, NEW s
    PROVE  /\ Upwards(p, s)[0] = s
           /\ \A k \in 1 .. N : Upwards(p, s)[k] = Above(p, Upwards(p, s)[k - 1])
<1> DEFINE Is(f, n) == f = [k \in 0 .. n |-> IF k = 0 THEN s ELSE Above(p, f[k - 1])]
           S == {n \in Nat : \E f : Is(f, n)}
<1>1. 0 \in S
  <2>1. Is([k \in 0 .. 0 |-> s], 0)
    OBVIOUS
  <2> QED
    BY <2>1
<1>2. ASSUME NEW n \in S PROVE n + 1 \in S
  <2>1. PICK f : Is(f, n)
    OBVIOUS
  <2> DEFINE g == [k \in 0 .. n + 1 |-> IF k \in 0 .. n THEN f[k] ELSE Above(p, f[n])]
  <2>2. ASSUME NEW k \in 0 .. n + 1 PROVE g[k] = IF k = 0 THEN s ELSE Above(p, g[k - 1])
    <3>1. CASE k \in 1 .. n
      <4>1. k - 1 \in 0 .. n /\ k \in 0 .. n /\ k # 0
        BY <3>1
      <4>2. f[k] = Above(p, f[k - 1])
        BY <2>1, <4>1
      <4> QED
        BY <4>1, <4>2
    <3>2. CASE k = 0
      <4>1. f[0] = s
        BY <2>1
      <4> QED
        BY <3>2, <4>1
    <3>3. CASE k = n + 1
      <4>1. k - 1 = n /\ k # 0 /\ k \notin 0 .. n /\ n \in 0 .. n + 1 /\ n \in 0 .. n
        BY <3>3
      <4>2. g[n] = f[n] /\ g[k] = Above(p, f[n])
        BY <4>1
      <4> QED
        BY <4>1, <4>2
    <3> QED
      BY <3>1, <3>2, <3>3
  <2>3. Is(g, n + 1)
    <3> HIDE DEF g
    <3>1. g = [k \in 0 .. n + 1 |-> g[k]]
      BY DEF g
    <3> QED
      BY <2>2, <3>1
  <2>4. n + 1 \in Nat
    OBVIOUS
  <2> HIDE DEF Is, g
  <2> QED
    BY <2>3, <2>4
<1>3. N \in S
  <2> HIDE DEF S
  <2>1. S \in SUBSET Nat
    BY DEF S
  <2> QED
    BY <1>1, <1>2, <2>1, Reaches, SizeOfSessions
<1>4. PICK f : Is(f, N)
  BY <1>3
<1> DEFINE up == CHOOSE g : Is(g, N)
<1>5. Is(up, N)
  <2> HIDE DEF Is
  <2> QED
    BY <1>4
<1>6. Upwards(p, s) = up
  BY DEF Upwards, Above, N
<1> HIDE DEF up
<1>7. \A k \in 0 .. N : up[k] = IF k = 0 THEN s ELSE Above(p, up[k - 1])
  BY <1>5
<1>8. 0 \in 0 .. N /\ \A k \in 1 .. N : k \in 0 .. N /\ k # 0
  BY SizeOfSessions
<1> QED
  BY <1>6, <1>7, <1>8

\* What holds of the start and goes up holds all the way.
LEMMA AllTheWay ==
    ASSUME NEW p, NEW s, NEW A, s \in A, \A t \in A : Above(p, t) \in A
    PROVE  \A k \in 0 .. N : Upwards(p, s)[k] \in A
<1> DEFINE S == {n \in Nat : n <= N => Upwards(p, s)[n] \in A}
<1>1. 0 \in S
  BY Climbs
<1>2. ASSUME NEW n \in S PROVE n + 1 \in S
  <2> SUFFICES ASSUME n + 1 <= N PROVE Upwards(p, s)[n + 1] \in A
    OBVIOUS
  <2>1. n + 1 \in 1 .. N /\ (n + 1) - 1 = n /\ Upwards(p, s)[n] \in A
    BY SizeOfSessions
  <2>2. Upwards(p, s)[n + 1] = Above(p, Upwards(p, s)[n])
    BY <2>1, Climbs
  <2> QED
    BY <2>1, <2>2
<1>3. S = Nat
  <2>1. S \in SUBSET Nat
    OBVIOUS
  <2> HIDE DEF S
  <2> QED
    BY <1>1, <1>2, <2>1, Reaches
<1> QED
  BY <1>3, SizeOfSessions

\* Two hierarchies that agree on a set that nobody leaves going up agree on the way up.
LEMMA SameWay ==
    ASSUME NEW p, NEW q, NEW A,
           \A t \in A : Above(p, t) = Above(q, t) /\ Above(p, t) \in A,
           NEW s \in A
    PROVE  /\ RootOf(p, s) = RootOf(q, s) /\ DepthOf(p, s) = DepthOf(q, s)
           /\ RootOf(p, s) \in A
<1> DEFINE S == {n \in Nat : n <= N => Upwards(p, s)[n] = Upwards(q, s)[n]}
<1>0. \A k \in 0 .. N : Upwards(p, s)[k] \in A
  BY AllTheWay
<1>1. 0 \in S
  BY Climbs
<1>2. ASSUME NEW n \in S PROVE n + 1 \in S
  <2> SUFFICES ASSUME n + 1 <= N PROVE Upwards(p, s)[n + 1] = Upwards(q, s)[n + 1]
    OBVIOUS
  <2>1. n + 1 \in 1 .. N /\ (n + 1) - 1 = n /\ n \in 0 .. N /\ Upwards(p, s)[n] = Upwards(q, s)[n]
    BY SizeOfSessions
  <2>2. /\ Upwards(p, s)[n + 1] = Above(p, Upwards(p, s)[n])
        /\ Upwards(q, s)[n + 1] = Above(q, Upwards(q, s)[n])
    BY <2>1, Climbs
  <2> QED
    BY <1>0, <2>1, <2>2
<1>3. S = Nat
  <2>1. S \in SUBSET Nat
    OBVIOUS
  <2> HIDE DEF S
  <2> QED
    BY <1>1, <1>2, <2>1, Reaches
<1>4. \A k \in 0 .. N : Upwards(p, s)[k] = Upwards(q, s)[k]
  BY <1>3, SizeOfSessions
<1>5. N \in 0 .. N
  BY SizeOfSessions
<1>6. RootOf(p, s) = RootOf(q, s) /\ RootOf(p, s) \in A
  BY <1>0, <1>4, <1>5 DEF RootOf, N
<1>7. {k \in 0 .. N : Upwards(p, s)[k] = RootOf(p, s)} = {k \in 0 .. N : Upwards(q, s)[k] = RootOf(q, s)}
  BY <1>4, <1>6
<1>8. DepthOf(p, s) = DepthOf(q, s)
  BY <1>7 DEF DepthOf, N
<1> QED
  BY <1>6, <1>8

LEMMA PlaceTyped ==
    ASSUME NEW p, NEW s \in Sessions
    PROVE  RootOf(p, s) \in Sessions /\ DepthOf(p, s) \in Nat
<1>1. \A t \in Sessions : Above(p, t) \in Sessions
  BY DEF Above
<1>2. \A k \in 0 .. N : Upwards(p, s)[k] \in Sessions
  BY <1>1, AllTheWay
<1>3. N \in 0 .. N
  BY SizeOfSessions
<1> DEFINE S == {k \in 0 .. N : Upwards(p, s)[k] = RootOf(p, s)}
<1>4. S \in SUBSET Nat /\ N \in S
  BY <1>3 DEF RootOf, N
<1>5. \E n \in S : \A m \in S : n <= m
  BY <1>4, Least
<1>6. Min(S) \in S
  <2> HIDE DEF S
  <2> QED
    BY <1>5 DEF Min
<1>7. DepthOf(p, s) = Min(S)
  BY DEF DepthOf, N
<1> QED
  BY <1>2, <1>3, <1>4, <1>6, <1>7 DEF RootOf, N

\* In a forest the parents are there.
LEMMA ParentsAreThere ==
    ASSUME NEW p, IsForest(p), NEW s \in DOMAIN p, p[s] \in Sessions
    PROVE  p[s] \in DOMAIN p
<1> SUFFICES ASSUME p[s] \notin DOMAIN p PROVE FALSE
  OBVIOUS
<1> DEFINE t == p[s]
           S == {n \in Nat : n + 1 <= N => Upwards(p, s)[n + 1] = t}
<1>1. Above(p, s) = t /\ Above(p, t) = t
  BY DEF Above
<1>2. 0 \in S
  <2>1. N >= 1 => Upwards(p, s)[1] = Above(p, s)
    <3> SUFFICES ASSUME N >= 1 PROVE Upwards(p, s)[1] = Above(p, s)
      OBVIOUS
    <3>1. 1 \in 1 .. N /\ 1 - 1 = 0
      BY SizeOfSessions
    <3> QED
      BY <3>1, Climbs
  <2> QED
    BY <1>1, <2>1
<1>3. ASSUME NEW n \in S PROVE n + 1 \in S
  <2> SUFFICES ASSUME n + 2 <= N PROVE Upwards(p, s)[n + 2] = t
    OBVIOUS
  <2>1. n + 2 \in 1 .. N /\ (n + 2) - 1 = n + 1 /\ Upwards(p, s)[n + 1] = t
    BY SizeOfSessions
  <2>2. Upwards(p, s)[n + 2] = Above(p, Upwards(p, s)[n + 1])
    BY <2>1, Climbs
  <2> QED
    BY <1>1, <2>1, <2>2
<1>4. S = Nat
  <2>1. S \in SUBSET Nat
    OBVIOUS
  <2> HIDE DEF S
  <2> QED
    BY <1>2, <1>3, <2>1, Reaches
<1>5. N - 1 \in Nat /\ (N - 1) + 1 = N
  <2>1. N # 0
    BY SessionsAssumption, FS_EmptySet DEF N
  <2> QED
    BY <2>1, SizeOfSessions
<1>6. RootOf(p, s) = t
  <2>1. N - 1 \in S
    BY <1>4, <1>5
  <2> QED
    BY <1>5, <2>1 DEF RootOf, N
<1> QED
  BY <1>6 DEF IsForest
-----------------------------------------------------------------------------
(* The relatives of a change: nobody outside is the parent or a child.     *)

\* Whoever has a relative as parent or child is a relative.
LEMMA RelativesAreClosed ==
    ASSUME NEW p, DOMAIN p \subseteq Sessions, NEW seeds
    PROVE  LET R == Relatives(p, seeds)
           IN  /\ R \subseteq DOMAIN p /\ seeds \cap DOMAIN p \subseteq R
               /\ \A t \in R : \A s \in DOMAIN p : p[t] = s \/ p[s] = t => s \in R
<1> DEFINE Near(A) == A \cup {s \in DOMAIN p : \E t \in A : p[t] = s \/ p[s] = t}
           start == seeds \cap DOMAIN p
           Is(f, n) == f = [k \in 0 .. n |-> IF k = 0 THEN start ELSE Near(f[k - 1])]
           S == {n \in Nat : \E f : Is(f, n)}
<1>1. 0 \in S
  <2>1. Is([k \in 0 .. 0 |-> start], 0)
    OBVIOUS
  <2> QED
    BY <2>1
<1>2. ASSUME NEW n \in S PROVE n + 1 \in S
  <2> HIDE DEF Near, start
  <2>1. PICK f : Is(f, n)
    OBVIOUS
  <2> DEFINE g == [k \in 0 .. n + 1 |-> IF k \in 0 .. n THEN f[k] ELSE Near(f[n])]
  <2>2. ASSUME NEW k \in 0 .. n + 1 PROVE g[k] = IF k = 0 THEN start ELSE Near(g[k - 1])
    <3>1. CASE k \in 1 .. n
      <4>1. k - 1 \in 0 .. n /\ k \in 0 .. n /\ k # 0
        BY <3>1
      <4>2. f[k] = Near(f[k - 1])
        BY <2>1, <4>1
      <4> QED
        BY <4>1, <4>2
    <3>2. CASE k = 0
      <4>1. f[0] = start
        BY <2>1
      <4> QED
        BY <3>2, <4>1
    <3>3. CASE k = n + 1
      <4>1. k - 1 = n /\ k # 0 /\ k \notin 0 .. n /\ n \in 0 .. n + 1 /\ n \in 0 .. n
        BY <3>3
      <4>2. g[n] = f[n] /\ g[k] = Near(f[n])
        BY <4>1
      <4> QED
        BY <4>1, <4>2
    <3> QED
      BY <3>1, <3>2, <3>3
  <2>3. Is(g, n + 1)
    <3> HIDE DEF g
    <3>1. g = [k \in 0 .. n + 1 |-> g[k]]
      BY DEF g
    <3> QED
      BY <2>2, <3>1
  <2>4. n + 1 \in Nat
    OBVIOUS
  <2> HIDE DEF Is, g
  <2> QED
    BY <2>3, <2>4
<1>3. N \in S
  <2> HIDE DEF S
  <2>1. S \in SUBSET Nat
    BY DEF S
  <2> QED
    BY <1>1, <1>2, <2>1, Reaches, SizeOfSessions
<1>4. PICK f : Is(f, N)
  BY <1>3
<1> DEFINE grown == CHOOSE h : Is(h, N)
<1>5. Is(grown, N)
  <2> HIDE DEF Is
  <2> QED
    BY <1>4
<1>6. Relatives(p, seeds) = grown[N]
  BY DEF Relatives, N
<1> HIDE DEF grown
<1>7. /\ grown[0] = start
      /\ \A k \in Nat : k + 1 <= N => grown[k + 1] = Near(grown[k])
  <2> HIDE DEF Near, start
  <2>1. \A k \in 0 .. N : grown[k] = IF k = 0 THEN start ELSE Near(grown[k - 1])
    BY <1>5
  <2>2. ASSUME NEW k \in Nat, k + 1 <= N PROVE grown[k + 1] = Near(grown[k])
    <3>1. k + 1 \in 0 .. N /\ k + 1 # 0 /\ (k + 1) - 1 = k
      BY <2>2, SizeOfSessions
    <3> QED
      BY <2>1, <3>1
  <2>3. 0 \in 0 .. N
    BY SizeOfSessions
  <2> QED
    BY <2>1, <2>2, <2>3
<1> DEFINE Closed(A) == Near(A) = A
           T == {n \in Nat : n <= N =>
                   /\ start \subseteq grown[n] /\ grown[n] \subseteq DOMAIN p
                   /\ Closed(grown[n]) \/ Cardinality(grown[n]) >= n + 1}
<1>8. \A A \in SUBSET (DOMAIN p) : IsFiniteSet(A) /\ Cardinality(A) \in Nat /\ Cardinality(A) <= N
  <2>1. \A A \in SUBSET (DOMAIN p) : A \in SUBSET Sessions
    OBVIOUS
  <2> QED
    BY <2>1, SessionsAssumption, FS_Subset, SizeIsNat DEF N
<1>9. 0 \in T
  <2>1. start \in SUBSET (DOMAIN p)
    OBVIOUS
  <2>2. CASE start = {}
    <3>1. Closed(start)
      BY <2>2
    <3> HIDE DEF start, Closed
    <3> QED
      BY <2>1, <3>1, <1>7
  <2>3. CASE start # {}
    <3> HIDE DEF start
    <3>1. Cardinality(start) # 0
      BY <1>8, <2>1, <2>3, FS_EmptySet
    <3>2. Cardinality(start) >= 0 + 1
      BY <1>8, <2>1, <3>1
    <3> HIDE DEF Closed
    <3> QED
      BY <1>7, <2>1, <3>2
  <2> QED
    BY <2>2, <2>3
<1>10. ASSUME NEW n \in T PROVE n + 1 \in T
  <2> SUFFICES ASSUME n + 1 <= N
               PROVE  /\ start \subseteq grown[n + 1] /\ grown[n + 1] \subseteq DOMAIN p
                      /\ Closed(grown[n + 1]) \/ Cardinality(grown[n + 1]) >= n + 2
    OBVIOUS
  <2>1. /\ start \subseteq grown[n] /\ grown[n] \subseteq DOMAIN p
        /\ Closed(grown[n]) \/ Cardinality(grown[n]) >= n + 1
    BY SizeOfSessions
  <2>2. grown[n + 1] = Near(grown[n])
    BY <1>7
  <2>3. grown[n] \subseteq grown[n + 1] /\ grown[n + 1] \subseteq DOMAIN p
    BY <2>1, <2>2
  <2>4. CASE Closed(grown[n])
    <3> HIDE DEF Near, start
    <3>1. grown[n + 1] = grown[n]
      BY <2>2, <2>4
    <3> QED
      BY <2>1, <2>3, <2>4, <3>1
  <2>5. CASE ~Closed(grown[n])
    <3>1. grown[n + 1] # grown[n]
      BY <2>2, <2>5
    <3> HIDE DEF Near, start, Closed
    <3>2. IsFiniteSet(grown[n + 1]) /\ Cardinality(grown[n + 1]) \in Nat /\ Cardinality(grown[n]) \in Nat
      BY <1>8, <2>1, <2>3
    <3>3. Cardinality(grown[n]) <= Cardinality(grown[n + 1])
          /\ Cardinality(grown[n]) # Cardinality(grown[n + 1])
      BY <2>3, <3>1, <3>2, FS_Subset
    <3>4. Cardinality(grown[n]) >= n + 1
      BY <2>1, <2>5
    <3>5. Cardinality(grown[n + 1]) >= n + 2
      BY <3>2, <3>3, <3>4
    <3> QED
      BY <2>1, <2>3, <3>5
  <2> QED
    BY <2>4, <2>5
<1>11. T = Nat
  <2> HIDE DEF T
  <2>1. T \in SUBSET Nat
    BY DEF T
  <2> QED
    BY <1>9, <1>10, <2>1, Reaches
<1>12. /\ start \subseteq grown[N] /\ grown[N] \subseteq DOMAIN p
       /\ Closed(grown[N]) \/ Cardinality(grown[N]) >= N + 1
  BY <1>11, SizeOfSessions
<1>13. Closed(grown[N])
  <2> HIDE DEF Closed, Near, start
  <2>1. Cardinality(grown[N]) <= N /\ Cardinality(grown[N]) \in Nat
    BY <1>8, <1>12
  <2> QED
    BY <1>12, <2>1, SizeOfSessions
<1> QED
  BY <1>6, <1>12, <1>13

-----------------------------------------------------------------------------
(* Records: their types, and that a source and a place name one of them.   *)

LogTyped == log \in Seq(Observation) /\ world \in Worlds

\* A record is numbered by its place among those of its source.
Numbers ==
    \A i \in 1 .. Len(log) : log[i].n = Cardinality({j \in 1 .. i : log[j].src = log[i].src})

LogInv == LogTyped /\ Numbers

OfSource(s) == {i \in 1 .. Len(log) : log[i].src = s}

LEMMA UpToThis ==
    ASSUME NEW I, NEW i \in I, I \subseteq Int, IsFiniteSet(Before(I, i))
    PROVE  Cardinality({j \in I : j <= i}) = Cardinality(Before(I, i)) + 1
<1>1. {j \in I : j <= i} = Before(I, i) \cup {i}
  <2>1. \A j \in I : j <= i <=> j < i \/ j = i
    OBVIOUS
  <2> QED
    BY <2>1, Zenon DEF Before
<1>2. i \notin Before(I, i)
  BY DEF Before
<1> QED
  BY <1>1, <1>2, FS_AddElement

\* The records of a source are those of the log, numbered by their places.
LEMMA RecordsAre ==
    ASSUME LogInv, NEW s \in Sources
    PROVE  /\ Records(s) \in Seq(Observation)
           /\ Len(Records(s)) = Cardinality(OfSource(s))
           /\ \A k \in 1 .. Len(Records(s)) :
                 /\ Records(s)[k].n = k /\ Records(s)[k].src = s
                 /\ \E i \in OfSource(s) : Records(s)[k] = log[i]
<1>0. Len(log) \in Nat /\ log \in Seq(Observation)
  BY DEF LogInv, LogTyped
<1> DEFINE I == OfSource(s)
           r == Records(s)
<1>1. I \in SUBSET (1 .. Len(log))
  BY DEF OfSource
<1>2. r = Picked(log, I)
  BY DEF Records, OfSource
<1> HIDE DEF I, r
<1>3. /\ Cardinality(I) \in Nat /\ IsFiniteSet(I)
      /\ r = [k \in 1 .. Cardinality(I) |-> r[k]]
      /\ Len(r) = Cardinality(I)
      /\ \A k \in 1 .. Cardinality(I) : \E i \in I :
            r[k] = log[i] /\ Cardinality(Before(I, i)) = k - 1
  <2>1. /\ Cardinality(I) \in Nat /\ IsFiniteSet(I)
        /\ Picked(log, I) = [k \in 1 .. Cardinality(I) |-> Picked(log, I)[k]]
        /\ Len(Picked(log, I)) = Cardinality(I)
        /\ \A k \in 1 .. Cardinality(I) : \E i \in I :
              Picked(log, I)[k] = log[i] /\ Cardinality(Before(I, i)) = k - 1
    <3>1. Cardinality(I) \in Nat /\ IsFiniteSet(I)
      BY <1>0, <1>1, PickedFrom
    <3>2. Picked(log, I) = [k \in 1 .. Cardinality(I) |-> Picked(log, I)[k]]
      BY DEF Picked
    <3>3. Len(Picked(log, I)) = Cardinality(I)
      BY <1>0, <1>1, PickedFrom
    <3>4. ASSUME NEW k \in 1 .. Cardinality(I)
          PROVE  \E i \in I : Picked(log, I)[k] = log[i] /\ Cardinality(Before(I, i)) = k - 1
      BY <1>0, <1>1, <3>4, PickedAt
    <3> QED
      BY <3>1, <3>2, <3>3, <3>4
  <2> QED
    BY <1>2, <2>1
<1>4. ASSUME NEW k \in 1 .. Cardinality(I)
      PROVE  r[k] \in Observation /\ r[k].n = k /\ r[k].src = s /\ \E i \in I : r[k] = log[i]
  <2>1. PICK i \in I : r[k] = log[i] /\ Cardinality(Before(I, i)) = k - 1
    BY <1>3
  <2>2. i \in 1 .. Len(log) /\ log[i] \in Observation /\ log[i].src = s
    BY <1>0, <1>1 DEF I, OfSource
  <2>3. {j \in 1 .. i : log[j].src = log[i].src} = {j \in I : j <= i}
    BY <1>0, <2>2 DEF I, OfSource
  <2>4. I \subseteq Int /\ IsFiniteSet(Before(I, i))
    <3>1. Before(I, i) \in SUBSET I
      BY DEF Before
    <3> QED
      BY <1>1, <1>3, <3>1, FS_Subset
  <2>5. Cardinality({j \in I : j <= i}) = k
    <3>1. Cardinality({j \in I : j <= i}) = Cardinality(Before(I, i)) + 1
      BY <2>4, UpToThis, Zenon
    <3> QED
      BY <2>1, <3>1
  <2>6. log[i].n = k
    BY <2>2, <2>3, <2>5 DEF LogInv, Numbers
  <2> QED
    BY <2>1, <2>2, <2>6
<1>5. r \in Seq(Observation)
  BY <1>3, <1>4
<1> QED
  BY <1>3, <1>4, <1>5 DEF I, r

\* A source and a number belong to one record.
LEMMA NamesOneRecord ==
    ASSUME LogInv, NEW i \in 1 .. Len(log), NEW j \in 1 .. Len(log),
           log[i].src = log[j].src, log[i].n = log[j].n
    PROVE  i = j
<1> DEFINE P(k) == {h \in 1 .. k : log[h].src = log[k].src}
<1>0. Len(log) \in Nat
  BY DEF LogInv, LogTyped
<1>1. ASSUME NEW k \in 1 .. Len(log), NEW l \in 1 .. Len(log), k < l, log[k].src = log[l].src
      PROVE  Cardinality(P(k)) # Cardinality(P(l))
  <2>1. P(k) \in SUBSET P(l) /\ l \in P(l) /\ l \notin P(k)
    BY <1>1
  <2>2. IsFiniteSet(P(l))
    <3>1. P(l) \in SUBSET (1 .. l) /\ l \in Int /\ 1 \in Int
      OBVIOUS
    <3>2. IsFiniteSet(1 .. l)
      BY <3>1, FS_Interval
    <3> QED
      BY <3>1, <3>2, FS_Subset
  <2> HIDE DEF P
  <2>3. Cardinality(P(l)) = Cardinality(P(k)) => P(l) = P(k)
    BY <2>1, <2>2, FS_Subset
  <2> QED
    BY <2>1, <2>3
<1>2. Cardinality(P(i)) = Cardinality(P(j))
  BY DEF LogInv, Numbers
<1> HIDE DEF P
<1>3. ~(i < j) /\ ~(j < i)
  BY <1>1, <1>2
<1> QED
  BY <1>0, <1>3

\* A record that is written gets the next place of its source.
LEMMA RecordAppended ==
    ASSUME LogInv, NEW o \in Observation, o.n = Len(Records(o.src)) + 1,
           log' = Append(log, o), UNCHANGED world
    PROVE  LogInv'
<1>0. log \in Seq(Observation) /\ Len(log) \in Nat /\ world \in Worlds /\ o.src \in Sources
  BY DEF LogInv, LogTyped, Observation
<1>1. /\ log' \in Seq(Observation) /\ Len(log') = Len(log) + 1
      /\ log'[Len(log) + 1] = o /\ \A i \in 1 .. Len(log) : log'[i] = log[i]
  BY <1>0
<1>2. ASSUME NEW i \in 1 .. Len(log) + 1
      PROVE  log'[i].n = Cardinality({j \in 1 .. i : log'[j].src = log'[i].src})
  <2>1. CASE i \in 1 .. Len(log)
    <3>1. {j \in 1 .. i : log'[j].src = log'[i].src} = {j \in 1 .. i : log[j].src = log[i].src}
      BY <1>0, <1>1, <2>1
    <3> QED
      BY <1>1, <2>1, <3>1 DEF LogInv, Numbers
  <2>2. CASE i = Len(log) + 1
    <3>1. {j \in 1 .. i : log'[j].src = log'[i].src} = OfSource(o.src) \cup {i}
      BY <1>0, <1>1, <2>2 DEF OfSource
    <3>2. i \notin OfSource(o.src) /\ OfSource(o.src) \in SUBSET (1 .. Len(log))
      BY <1>0, <2>2 DEF OfSource
    <3>3. IsFiniteSet(OfSource(o.src))
      <4>1. IsFiniteSet(1 .. Len(log))
        BY <1>0, FS_Interval
      <4> QED
        BY <3>2, <4>1, FS_Subset
    <3>4. Cardinality(OfSource(o.src) \cup {i}) = Cardinality(OfSource(o.src)) + 1
      BY <3>2, <3>3, FS_AddElement
    <3>5. Len(Records(o.src)) = Cardinality(OfSource(o.src))
      BY <1>0, RecordsAre
    <3> QED
      BY <1>1, <2>2, <3>1, <3>4, <3>5
  <2>3. i \in 1 .. Len(log) \/ i = Len(log) + 1
    BY <1>0
  <2> QED
    BY <2>1, <2>2, <2>3
<1> QED
  BY <1>0, <1>1, <1>2 DEF LogInv, LogTyped, Numbers

\* A source that is copied to an empty one keeps its places.
LEMMA SourceCopied ==
    ASSUME LogInv, NEW s \in Sources, NEW t \in Sources, CopySource(s, t)
    PROVE  LogInv'
<1> DEFINE r == Records(s)
           c == [i \in 1 .. Len(r) |-> [r[i] EXCEPT !.src = t]]
           m == Len(log)
<1>0. log \in Seq(Observation) /\ m \in Nat /\ world' \in Worlds
  BY DEF LogInv, LogTyped, CopySource
<1>1. r \in Seq(Observation) /\ \A k \in 1 .. Len(r) : r[k].n = k
  BY RecordsAre
<1> HIDE DEF r
<1>2. /\ c \in Seq(Observation) /\ Len(c) = Len(r)
      /\ \A k \in 1 .. Len(r) : c[k].n = k /\ c[k].src = t
  <2>1. ASSUME NEW k \in 1 .. Len(r)
        PROVE  c[k] \in Observation /\ c[k].n = k /\ c[k].src = t
    <3>1. r[k] \in Observation /\ c[k] = [r[k] EXCEPT !.src = t]
      BY <1>1
    <3> HIDE DEF c
    <3> QED
      BY <1>1, <3>1 DEF Observation
  <2> QED
    BY <1>1, <2>1
<1>3. log' = log \o c
  BY DEF CopySource, r
<1> HIDE DEF c
<1>4. /\ log' \in Seq(Observation) /\ Len(log') = m + Len(r)
      /\ \A i \in 1 .. m : log'[i] = log[i]
      /\ \A i \in m + 1 .. m + Len(r) : log'[i] = c[i - m] /\ i - m \in 1 .. Len(r)
  BY <1>0, <1>1, <1>2, <1>3
<1>5. \A i \in 1 .. m : log[i].src # t
  <2>1. Len(Records(t)) = 0
    BY DEF CopySource
  <2>2. Cardinality(OfSource(t)) = 0
    BY <2>1, RecordsAre
  <2>3. OfSource(t) \in SUBSET (1 .. Len(log)) /\ IsFiniteSet(1 .. Len(log))
    BY <1>0, FS_Interval DEF OfSource
  <2>4. OfSource(t) = {}
    BY <2>2, <2>3, FS_Subset, FS_EmptySet
  <2> QED
    BY <2>4 DEF OfSource
<1>6. ASSUME NEW i \in 1 .. m + Len(r)
      PROVE  log'[i].n = Cardinality({j \in 1 .. i : log'[j].src = log'[i].src})
  <2>1. CASE i \in 1 .. m
    <3>1. {j \in 1 .. i : log'[j].src = log'[i].src} = {j \in 1 .. i : log[j].src = log[i].src}
      BY <1>0, <1>4, <2>1
    <3> QED
      BY <1>4, <2>1, <3>1 DEF LogInv, Numbers
  <2>2. CASE i \in m + 1 .. m + Len(r)
    <3>1. log'[i].src = t /\ log'[i].n = i - m
      BY <1>2, <1>4, <2>2
    <3>2. ASSUME NEW j \in 1 .. i
          PROVE  log'[j].src = t <=> j \in m + 1 .. i
      <4>1. CASE j \in 1 .. m
        <5>1. log'[j].src # t
          BY <1>4, <1>5, <4>1
        <5> QED
          BY <1>0, <4>1, <5>1
      <4>2. CASE j \in m + 1 .. i
        <5>1. j \in m + 1 .. m + Len(r)
          BY <1>0, <1>1, <2>2, <4>2
        <5> QED
          BY <1>2, <1>4, <4>2, <5>1
      <4> QED
        BY <1>0, <2>2, <4>1, <4>2
    <3>3. {j \in 1 .. i : log'[j].src = log'[i].src} = m + 1 .. i
      BY <1>0, <2>2, <3>1, <3>2
    <3>4. Cardinality(m + 1 .. i) = i - m
      <4>1. m + 1 \in Int /\ i \in Int /\ ~(m + 1 > i)
        BY <1>0, <1>1, <2>2
      <4>2. Cardinality(m + 1 .. i) = IF m + 1 > i THEN 0 ELSE i - (m + 1) + 1
        BY <4>1, FS_Interval
      <4> QED
        BY <1>0, <4>1, <4>2
    <3> QED
      BY <3>1, <3>3, <3>4
  <2> QED
    BY <1>0, <1>1, <2>1, <2>2
<1> QED
  BY <1>0, <1>4, <1>6 DEF LogInv, LogTyped, Numbers

-----------------------------------------------------------------------------
(* Folds. *)

Transition == [state : Statuses, at : Nat]

\* The fold of each beginning of a history.
Folds(h, up) ==
    /\ up[0] = Unfolded
    /\ \A i \in Nat : i < Len(h) => up[i + 1] = FoldNext(up[i], h[i + 1])
    /\ FoldOf(h) = up[Len(h)]

\* The fold of a history is built from the folds of its beginnings.
LEMMA FoldsUp ==
    ASSUME NEW h, Len(h) \in Nat
    PROVE  \E up : Folds(h, up)
<1> DEFINE Is(f, n) == f = [k \in 0 .. n |-> IF k = 0 THEN Unfolded ELSE FoldNext(f[k - 1], h[k])]
           S == {n \in Nat : \E f : Is(f, n)}
<1>1. 0 \in S
  <2>1. Is([k \in 0 .. 0 |-> Unfolded], 0)
    OBVIOUS
  <2> QED
    BY <2>1
<1>2. ASSUME NEW n \in S PROVE n + 1 \in S
  <2>1. PICK f : Is(f, n)
    OBVIOUS
  <2> DEFINE g == [k \in 0 .. n + 1 |-> IF k \in 0 .. n THEN f[k] ELSE FoldNext(f[n], h[n + 1])]
  <2>2. ASSUME NEW k \in 0 .. n + 1 PROVE g[k] = IF k = 0 THEN Unfolded ELSE FoldNext(g[k - 1], h[k])
    <3>1. CASE k \in 1 .. n
      <4>1. k - 1 \in 0 .. n /\ k \in 0 .. n /\ k # 0
        BY <3>1
      <4>2. f[k] = FoldNext(f[k - 1], h[k])
        BY <2>1, <4>1
      <4> QED
        BY <4>1, <4>2
    <3>2. CASE k = 0
      <4>1. f[0] = Unfolded
        BY <2>1
      <4> QED
        BY <3>2, <4>1
    <3>3. CASE k = n + 1
      <4>1. k - 1 = n /\ k # 0 /\ k \notin 0 .. n /\ n \in 0 .. n + 1 /\ n \in 0 .. n
        BY <3>3
      <4>2. g[n] = f[n] /\ g[k] = FoldNext(f[n], h[k])
        BY <3>3, <4>1
      <4> QED
        BY <4>1, <4>2
    <3> QED
      BY <3>1, <3>2, <3>3
  <2>3. Is(g, n + 1)
    <3> HIDE DEF g
    <3>1. g = [k \in 0 .. n + 1 |-> g[k]]
      BY DEF g
    <3> QED
      BY <2>2, <3>1
  <2>4. n + 1 \in Nat
    OBVIOUS
  <2> HIDE DEF Is, g
  <2> QED
    BY <2>3, <2>4
<1>3. Len(h) \in S
  <2> HIDE DEF S
  <2>1. S \in SUBSET Nat
    BY DEF S
  <2> QED
    BY <1>1, <1>2, <2>1, Reaches
<1>4. PICK f : Is(f, Len(h))
  BY <1>3
<1> DEFINE up == CHOOSE g : Is(g, Len(h))
<1>5. Is(up, Len(h))
  <2> HIDE DEF Is
  <2> QED
    BY <1>4
<1>6. FoldOf(h) = up[Len(h)]
  BY DEF FoldOf
<1> HIDE DEF up
<1>7. \A k \in 0 .. Len(h) : up[k] = IF k = 0 THEN Unfolded ELSE FoldNext(up[k - 1], h[k])
  BY <1>5
<1>8. ASSUME NEW i \in Nat, i < Len(h) PROVE up[i + 1] = FoldNext(up[i], h[i + 1])
  <2>1. i + 1 \in 0 .. Len(h) /\ i + 1 # 0 /\ (i + 1) - 1 = i
    BY <1>8
  <2> QED
    BY <1>7, <2>1
<1>9. up[0] = Unfolded
  BY <1>7
<1> QED
  BY <1>6, <1>8, <1>9 DEF Folds

\* The version is the number of transitions.
LEMMA FoldTyped ==
    ASSUME NEW h \in Seq(Transition)
    PROVE  /\ FoldOf(h).version = Len(h) /\ FoldOf(h).state \in Statuses
           /\ FoldOf(h).start \in Time /\ FoldOf(h).end \in Time
<1>0. Len(h) \in Nat
  OBVIOUS
<1>1. PICK up : Folds(h, up)
  BY <1>0, FoldsUp
<1> DEFINE Typed(f, n) == /\ f.version = n /\ f.state \in Statuses
                          /\ f.start \in Time /\ f.end \in Time
           S == {n \in Nat : n <= Len(h) => Typed(up[n], n)}
<1>2. 0 \in S
  <2>1. up[0] = Unfolded
    BY <1>1 DEF Folds
  <2>2. Typed(Unfolded, 0)
    BY DEF Unfolded, Statuses, States, Time
  <2> HIDE DEF Typed
  <2> QED
    BY <2>1, <2>2
<1>3. ASSUME NEW n \in S PROVE n + 1 \in S
  <2> SUFFICES ASSUME n + 1 <= Len(h) PROVE Typed(up[n + 1], n + 1)
    OBVIOUS
  <2>1. Typed(up[n], n) /\ n < Len(h) /\ n \in Nat
    BY <1>0
  <2>2. up[n + 1] = FoldNext(up[n], h[n + 1])
    BY <1>1, <2>1 DEF Folds
  <2>3. h[n + 1].state \in Statuses /\ h[n + 1].at \in Nat
    <3>1. n + 1 \in 1 .. Len(h)
      BY <1>0, <2>1
    <3>2. h[n + 1] \in Transition
      BY <3>1
    <3> QED
      BY <3>2 DEF Transition
  <2> QED
    BY <2>1, <2>2, <2>3 DEF FoldNext, Time
<1>4. S = Nat
  <2>1. S \in SUBSET Nat
    OBVIOUS
  <2> HIDE DEF S
  <2> QED
    BY <1>2, <1>3, <2>1, Reaches
<1>5. Typed(up[Len(h)], Len(h))
  BY <1>0, <1>4
<1> QED
  BY <1>1, <1>5 DEF Folds
-----------------------------------------------------------------------------
(* A change set. *)

LogRecords == {log[i] : i \in 1 .. Len(log)}

LEMMA SomeRecords ==
    ASSUME LogInv, NEW S \in SUBSET LogRecords
    PROVE  S \in SUBSET Observation /\ IsFiniteSet(S) /\ Distinct(S)
<1>0. log \in Seq(Observation) /\ Len(log) \in Nat
  BY DEF LogInv, LogTyped
<1>1. S \in SUBSET Observation
  BY <1>0 DEF LogRecords
<1>2. IsFiniteSet(LogRecords)
  <2>1. IsFiniteSet(1 .. Len(log))
    BY <1>0, FS_Interval
  <2> DEFINE f == [i \in 1 .. Len(log) |-> log[i]]
  <2>2. f \in Surjection(1 .. Len(log), LogRecords)
    BY DEF Surjection, LogRecords
  <2> QED
    BY <2>1, <2>2, FS_Surjection
<1>3. Distinct(LogRecords)
  BY NamesOneRecord DEF LogRecords, Distinct
<1> QED
  BY <1>1, <1>2, <1>3, FS_Subset DEF Distinct

\* How much of a source is read is a number.
ReadTyped == read \in [Sources -> Nat]

LEMMA UnreadAre ==
    ASSUME LogInv, ReadTyped, NEW s \in Sources
    PROVE  /\ Len(Unread(s)) \in Nat /\ DOMAIN Unread(s) = 1 .. Len(Unread(s))
           /\ \A i \in 1 .. Len(Unread(s)) : Unread(s)[i] \in LogRecords /\ Unread(s)[i].src = s
<1>1. Records(s) \in Seq(Observation) /\ Len(Records(s)) \in Nat
  BY RecordsAre
<1>2. ASSUME NEW k \in 1 .. Len(Records(s)) PROVE Records(s)[k] \in LogRecords /\ Records(s)[k].src = s
  <2>1. PICK i \in OfSource(s) : Records(s)[k] = log[i]
    BY RecordsAre
  <2> QED
    BY <2>1 DEF OfSource, LogRecords
<1>3. read[s] \in Nat
  BY DEF ReadTyped
<1> DEFINE r == Records(s)
           u == SubSeq(r, read[s] + 1, Len(r))
<1> HIDE DEF r
<1>4. Len(u) \in Nat /\ DOMAIN u = 1 .. Len(u) /\ \A i \in 1 .. Len(u) : u[i] = r[read[s] + i] /\ read[s] + i \in 1 .. Len(r)
  BY <1>1, <1>3 DEF r
<1> QED
  BY <1>2, <1>4 DEF r, Unread

LEMMA ChangeSetIs ==
    ASSUME LogInv, ReadTyped, NEW S \in SUBSET Sources
    PROVE  UNION {Range(Unread(s)) : s \in S} \in SUBSET LogRecords
<1>1. ASSUME NEW s \in S PROVE Range(Unread(s)) \in SUBSET LogRecords
  BY UnreadAre DEF Range
<1> QED
  BY <1>1

\* A change set is a sequence of observations.
LEMMA ChangeSetTyped ==
    ASSUME LogInv, ReadTyped, NEW S \in SUBSET Sources
    PROVE  ChangeSet(S) \in Seq(Observation)
<1> DEFINE C == UNION {Range(Unread(s)) : s \in S}
<1>1. C \in SUBSET LogRecords
  BY ChangeSetIs
<1> HIDE DEF C
<1>2. C \in SUBSET Observation /\ IsFiniteSet(C) /\ Distinct(C)
  BY <1>1, SomeRecords
<1>3. Sorted(C) \in Seq(Observation)
  BY <1>2, SortedFrom
<1> QED
  BY <1>3 DEF ChangeSet, C

\* What a change set tells of an entity.
LEMMA AboutTyped ==
    ASSUME NEW b \in Seq(Observation), NEW type, NEW id
    PROVE  /\ About(b, type, id) \in Seq(Observation)
           /\ \A k \in 1 .. Len(About(b, type, id)) :
                 \E i \in 1 .. Len(b) : /\ About(b, type, id)[k] = b[i]
                                        /\ b[i].type = type /\ b[i].id = id
<1> DEFINE I == {i \in 1 .. Len(b) : b[i].type = type /\ b[i].id = id}
           r == Picked(b, I)
<1>0. Len(b) \in Nat /\ I \in SUBSET (1 .. Len(b))
  OBVIOUS
<1>1. \A i \in I : b[i].type = type /\ b[i].id = id /\ i \in 1 .. Len(b)
  OBVIOUS
<1>2. About(b, type, id) = r
  BY DEF About
<1> HIDE DEF I
<1>3. Cardinality(I) \in Nat /\ Len(r) = Cardinality(I)
  BY <1>0, PickedFrom
<1>4. r = [k \in 1 .. Cardinality(I) |-> r[k]]
  BY DEF Picked
<1> HIDE DEF r
<1>5. ASSUME NEW k \in 1 .. Cardinality(I) PROVE \E i \in I : r[k] = b[i]
  BY <1>0, PickedAt DEF r
<1>6. ASSUME NEW k \in 1 .. Cardinality(I) PROVE r[k] \in Observation
  BY <1>1, <1>5
<1>7. r \in Seq(Observation)
  BY <1>3, <1>4, <1>6
<1> QED
  BY <1>1, <1>2, <1>3, <1>5, <1>7

-----------------------------------------------------------------------------
(* The rows that a publication writes. *)

\* Histories and sessions are well formed.
RowsTyped ==
    /\ db.transitions \in [Folded -> Seq(Transition)]
    /\ db.sessions \in [Sessions -> Session \cup {None}]

LEMMA ObservedAre ==
    ASSUME NEW b \in Seq(Observation), NEW e, Group(b, e) # <<>>
    PROVE  /\ Group(b, e)[Len(Group(b, e))] \in Observation
           /\ \E i \in 1 .. Len(b) : b[i].id = e /\ b[i].type = "entity"
<1> DEFINE g == About(b, "entity", e)
<1>1. g = Group(b, e) /\ g \in Seq(Observation)
  BY AboutTyped DEF Group
<1> HIDE DEF g
<1>2. Len(g) \in 1 .. Len(g) /\ g[Len(g)] \in Observation
  BY <1>1
<1>3. \E i \in 1 .. Len(b) : g[Len(g)] = b[i] /\ b[i].type = "entity" /\ b[i].id = e
  BY <1>2, AboutTyped DEF g
<1> QED
  BY <1>1, <1>2, <1>3

LEMMA HistoryTyped ==
    ASSUME RowsTyped, NEW b \in Seq(Observation), NEW e \in Folded
    PROVE  History(db, b, e) \in Seq(Transition)
<1> DEFINE g == Group(b, e)
           new == [i \in 1 .. Len(g) |-> [state |-> g[i].state, at |-> g[i].at]]
<1>1. g \in Seq(Observation)
  BY AboutTyped DEF Group
<1> HIDE DEF g
<1>2. ASSUME NEW i \in 1 .. Len(g) PROVE [state |-> g[i].state, at |-> g[i].at] \in Transition
  <2>1. g[i] \in Observation
    BY <1>1
  <2> QED
    BY <2>1 DEF Observation, Transition
<1>3. new \in Seq(Transition)
  BY <1>1, <1>2
<1>4. db.transitions[e] \in Seq(Transition)
  BY DEF RowsTyped
<1> HIDE DEF new
<1>5. db.transitions[e] \o new \in Seq(Transition)
  BY <1>3, <1>4
<1> QED
  BY <1>5 DEF History, new, g

\* The parents of the published rows.
LEMMA OldParents ==
    ASSUME RowsTyped
    PROVE  /\ DOMAIN ParentsIn(db.sessions) = There(db.sessions)
           /\ There(db.sessions) = {s \in Sessions : db.sessions[s] # None}
           /\ \A s \in There(db.sessions) :
                 /\ db.sessions[s] \in Session
                 /\ ParentsIn(db.sessions)[s] = db.sessions[s].parent
                 /\ db.sessions[s].parent \in Sessions \cup {None}
<1>1. There(db.sessions) = {s \in Sessions : db.sessions[s] # None}
  BY DEF RowsTyped, There
<1>2. ASSUME NEW s \in There(db.sessions)
      PROVE  db.sessions[s] \in Session
  BY <1>1 DEF RowsTyped
<1>3. ASSUME NEW s \in There(db.sessions)
      PROVE  db.sessions[s].parent \in Sessions \cup {None}
  BY <1>2 DEF Session
<1> QED
  BY <1>1, <1>2, <1>3 DEF ParentsIn

\* What is loaded is there; what is observed and there is loaded.
LEMMA AvailableAre ==
    ASSUME RowsTyped, NEW b \in Seq(Observation)
    PROVE  /\ Loaded(db, b) \subseteq There(db.sessions)
           /\ Available(db, b) \subseteq Sessions
           /\ Available(db, b) \cap There(db.sessions) \subseteq Loaded(db, b)
           /\ \A t \in Loaded(db, b) : \A s \in There(db.sessions) :
                 db.sessions[s].parent = t => s \in Loaded(db, b)
<1> DEFINE p == ParentsIn(db.sessions)
           T == There(db.sessions)
           R == Relatives(p, Seeds(b))
<1>1. /\ DOMAIN p = T /\ T \subseteq Sessions
      /\ \A s \in T : p[s] = db.sessions[s].parent
  BY OldParents
<1>2. R = Loaded(db, b)
  BY DEF Loaded
<1> HIDE DEF p, T
<1>3. /\ R \subseteq T /\ Seeds(b) \cap T \subseteq R
      /\ \A t \in R : \A s \in T : p[t] = s \/ p[s] = t => s \in R
  BY <1>1, RelativesAreClosed
<1> HIDE DEF R
<1>4. ASSUME NEW s \in Observed(b, Sessions) PROVE s \in Seeds(b)
  <2>1. s \in Sessions /\ Group(b, s) # <<>>
    BY DEF Observed
  <2>2. PICK i \in 1 .. Len(b) : b[i].id = s
    BY <2>1, ObservedAre
  <2> QED
    BY <2>1, <2>2 DEF Seeds
<1>5. Observed(b, Sessions) \subseteq Sessions
  BY DEF Observed
<1>6. R \subseteq Sessions /\ \A s \in Available(db, b) : s \in T => s \in R
  BY <1>1, <1>2, <1>3, <1>4 DEF Available
<1>7. \A t \in R : \A s \in T : db.sessions[s].parent = t => s \in R
  BY <1>1, <1>3
<1> QED
  BY <1>2, <1>3, <1>5, <1>6, <1>7 DEF Available, T

\* A publication names a parent, or none, for every session that is available.
LEMMA NewParentsTyped ==
    ASSUME RowsTyped, NEW b \in Seq(Observation)
    PROVE  NewParents(db, b) \in [Available(db, b) -> Sessions \cup {None}]
<1> DEFINE w == Winners(db, b)
<1> SUFFICES ASSUME NEW s \in Available(db, b)
             PROVE  (IF w[s] # None /\ Disposition(db, w[s]) = "current" THEN w[s].parent
                     ELSE IF s \in Observed(b, Sessions) THEN Group(b, s)[Len(Group(b, s))].parent
                     ELSE db.sessions[s].parent) \in Sessions \cup {None}
  BY DEF NewParents
<1>1. \A o \in Observation : o.parent \in Sessions \cup {None}
  BY DEF Observation
<1>2. s \in Sessions
  BY AvailableAre
<1>3. w[s] # None => w[s] \in Observation
  <2> DEFINE g == About(b, "relationship", s)
  <2>1. g \in Seq(Observation) /\ g = Edges(b, s)
    BY AboutTyped DEF Edges
  <2> HIDE DEF g
  <2>2. g # <<>> => g[Len(g)] \in Observation
    BY <2>1
  <2>3. w[s] = None \/ (g # <<>> /\ w[s] = g[Len(g)])
    BY <1>2, <2>1 DEF Winners
  <2> QED
    BY <2>2, <2>3
<1> HIDE DEF w
<1>4. s \in Observed(b, Sessions) => Group(b, s)[Len(Group(b, s))] \in Observation
  BY ObservedAre DEF Observed
<1>5. s \notin Observed(b, Sessions) => db.sessions[s].parent \in Sessions \cup {None}
  <2> SUFFICES ASSUME s \notin Observed(b, Sessions)
               PROVE  db.sessions[s].parent \in Sessions \cup {None}
    OBVIOUS
  <2>1. s \in There(db.sessions)
    BY AvailableAre DEF Available
  <2> QED
    BY <2>1, OldParents
<1> QED
  BY <1>1, <1>3, <1>4, <1>5

\* The row of a session that is available, as it is written.
LEMMA NewRowTyped ==
    ASSUME RowsTyped, NEW b \in Seq(Observation), NEW s \in Available(db, b)
    PROVE  /\ SessionRow(db, b, NewParents(db, b), s) \in Session
           /\ NewSessions(db, b)[s] = SessionRow(db, b, NewParents(db, b), s)
<1> DEFINE up == NewParents(db, b)
           fold == IF s \in Observed(b, Sessions) THEN Fold(db, b, s) ELSE db.sessions[s]
<1>1. up \in [Available(db, b) -> Sessions \cup {None}] /\ s \in Sessions
  BY NewParentsTyped, AvailableAre
<1> HIDE DEF up
<1>2. fold.state \in Statuses /\ fold.version \in Nat /\ fold.start \in Time /\ fold.end \in Time
  <2>1. CASE s \in Observed(b, Sessions)
    <3>1. History(db, b, s) \in Seq(Transition)
      BY <1>1, HistoryTyped DEF Folded
    <3>2. Len(History(db, b, s)) \in Nat
      BY <3>1
    <3> QED
      BY <2>1, <3>1, <3>2, FoldTyped DEF Fold
  <2>2. CASE s \notin Observed(b, Sessions)
    <3>1. s \in There(db.sessions)
      BY <2>2, AvailableAre DEF Available
    <3>2. db.sessions[s] \in Session
      BY <3>1, OldParents
    <3> QED
      BY <2>2, <3>2 DEF Session
  <2> QED
    BY <2>1, <2>2
<1> HIDE DEF fold
<1>3. SessionRow(db, b, up, s) =
        [state |-> fold.state, version |-> fold.version, start |-> fold.start, end |-> fold.end,
         parent |-> up[s], root |-> RootOf(up, s), depth |-> DepthOf(up, s)]
  BY DEF SessionRow, fold
<1>4. up[s] \in Sessions \cup {None} /\ RootOf(up, s) \in Sessions /\ DepthOf(up, s) \in Nat
  BY <1>1, PlaceTyped
<1>5. SessionRow(db, b, up, s) \in Session
  BY <1>2, <1>3, <1>4 DEF Session
<1>6. NewSessions(db, b)[s] = SessionRow(db, b, up, s)
  BY <1>1 DEF NewSessions, up
<1> QED
  BY <1>5, <1>6 DEF up

\* The rows of sessions after a publication: those available, and those that were there.
LEMMA SessionsTyped ==
    ASSUME RowsTyped, NEW b \in Seq(Observation)
    PROVE  /\ NewSessions(db, b) \in [Sessions -> Session \cup {None}]
           /\ \A s \in Sessions \ Available(db, b) : NewSessions(db, b)[s] = db.sessions[s]
           /\ There(NewSessions(db, b)) = Available(db, b) \cup There(db.sessions)
<1> DEFINE new == NewSessions(db, b)
           A == Available(db, b)
<1>1. DOMAIN NewParents(db, b) = A
  BY NewParentsTyped
<1>2. new = [s \in Sessions |-> new[s]]
  BY DEF NewSessions
<1>3. ASSUME NEW s \in Sessions \ A PROVE new[s] = db.sessions[s]
  BY <1>1 DEF NewSessions
<1>4. ASSUME NEW s \in A PROVE new[s] \in Session
  BY NewRowTyped
<1>5. A \subseteq Sessions /\ None \notin Session
  BY AvailableAre, AbsentAssumption
<1>6. There(db.sessions) = {s \in Sessions : db.sessions[s] # None}
  BY OldParents
<1> HIDE DEF new, A
<1>7. new \in [Sessions -> Session \cup {None}]
  BY <1>2, <1>3, <1>4 DEF RowsTyped
<1>8. There(new) = {s \in Sessions : new[s] # None}
  BY <1>2 DEF There
<1>9. There(new) = A \cup There(db.sessions)
  BY <1>3, <1>4, <1>5, <1>6, <1>8
<1> QED
  BY <1>3, <1>7, <1>9 DEF new, A

-----------------------------------------------------------------------------
(* Roots. *)

\* A session that is not available, and its parent, are left as they are.
LEMMA OthersStay ==
    ASSUME RowsTyped, RootsAreCurrent, NEW b \in Seq(Observation),
           NEW s \in There(db.sessions) \ Available(db, b),
           ParentsIn(db.sessions)[s] \in Sessions
    PROVE  ParentsIn(db.sessions)[s] \in There(db.sessions) \ Available(db, b)
<1> DEFINE p == ParentsIn(db.sessions)
<1>1. DOMAIN p = There(db.sessions) /\ p[s] = db.sessions[s].parent
  BY OldParents
<1>2. IsForest(p)
  BY DEF RootsAreCurrent
<1> HIDE DEF p
<1>3. p[s] \in There(db.sessions)
  BY <1>1, <1>2, ParentsAreThere DEF p
<1>4. p[s] \in Available(db, b) => s \in Loaded(db, b)
  BY <1>1, <1>3, AvailableAre
<1>5. s \notin Loaded(db, b)
  BY DEF Available
<1> QED
  BY <1>3, <1>4, <1>5 DEF p

\* A publication that keeps the hierarchy a forest leaves roots and depths current.
LEMMA RootsPublished ==
    ASSUME RowsTyped, RootsAreCurrent, NEW b \in Seq(Observation),
           IsForest(NewParents(db, b)),
           db'.sessions = NewSessions(db, b)
    PROVE  RootsAreCurrent'
<1> DEFINE A == Available(db, b)
           old == ParentsIn(db.sessions)
           up == NewParents(db, b)
           rows == NewSessions(db, b)
           new == ParentsIn(rows)
           O == There(db.sessions) \ A
<1>1. /\ up \in [A -> Sessions \cup {None}]
      /\ A \subseteq Sessions /\ There(db.sessions) \subseteq Sessions
  BY NewParentsTyped, AvailableAre, OldParents
<1>2. /\ rows \in [Sessions -> Session \cup {None}]
      /\ There(rows) = A \cup O
      /\ \A s \in O : rows[s] = db.sessions[s]
  BY <1>1, SessionsTyped
<1>3. ASSUME NEW s \in A
      PROVE  rows[s].parent = up[s] /\ rows[s].root = RootOf(up, s) /\ rows[s].depth = DepthOf(up, s)
  <2>1. rows[s] = SessionRow(db, b, up, s)
    BY NewRowTyped
  <2> HIDE DEF up, rows
  <2>2. /\ SessionRow(db, b, up, s).parent = up[s] /\ SessionRow(db, b, up, s).root = RootOf(up, s)
        /\ SessionRow(db, b, up, s).depth = DepthOf(up, s)
    BY DEF SessionRow
  <2> QED
    BY <2>1, <2>2
<1>4. DOMAIN new = A \cup O /\ \A s \in A \cup O : new[s] = rows[s].parent
  BY <1>2 DEF ParentsIn
<1>5. DOMAIN old = There(db.sessions) /\ \A s \in O : old[s] = db.sessions[s].parent
  BY OldParents
<1>6. ASSUME NEW s \in A PROVE Above(new, s) = Above(up, s) /\ Above(new, s) \in A
  <2>1. new[s] = up[s] /\ s \in DOMAIN new /\ s \in DOMAIN up /\ DOMAIN up = A
    BY <1>1, <1>3, <1>4
  <2>2. up[s] \in Sessions => up[s] \in A
    BY <2>1, ParentsAreThere
  <2> HIDE DEF new, up, A
  <2> QED
    BY <2>1, <2>2 DEF Above
<1>7. ASSUME NEW s \in O PROVE Above(new, s) = Above(old, s) /\ Above(new, s) \in O
  <2>1. new[s] = old[s] /\ s \in DOMAIN new /\ s \in DOMAIN old
    BY <1>2, <1>4, <1>5
  <2>2. old[s] \in Sessions => old[s] \in O
    BY OthersStay
  <2> HIDE DEF new, old, O
  <2> QED
    BY <2>1, <2>2 DEF Above
<1>8. ASSUME NEW s \in A
      PROVE  /\ RootOf(new, s) = RootOf(up, s) /\ DepthOf(new, s) = DepthOf(up, s)
             /\ RootOf(new, s) \in A
  <2> HIDE DEF new, up, A
  <2> QED
    BY <1>6, SameWay
<1>9. ASSUME NEW s \in O
      PROVE  /\ RootOf(new, s) = RootOf(old, s) /\ DepthOf(new, s) = DepthOf(old, s)
             /\ RootOf(new, s) \in O
  <2> HIDE DEF new, old, O
  <2> QED
    BY <1>7, SameWay
<1>10. ASSUME NEW s \in A
       PROVE  /\ RootOf(new, s) \in DOMAIN new /\ new[RootOf(new, s)] \notin Sessions
              /\ rows[s].root = RootOf(new, s) /\ rows[s].depth = DepthOf(new, s)
  <2>1. RootOf(up, s) \in DOMAIN up /\ up[RootOf(up, s)] \notin Sessions
    BY <1>1 DEF IsForest
  <2>2. new[RootOf(new, s)] = up[RootOf(up, s)]
    BY <1>3, <1>4, <1>8
  <2> QED
    BY <1>3, <1>4, <1>8, <2>1, <2>2
<1>11. ASSUME NEW s \in O
       PROVE  /\ RootOf(new, s) \in DOMAIN new /\ new[RootOf(new, s)] \notin Sessions
              /\ rows[s].root = RootOf(new, s) /\ rows[s].depth = DepthOf(new, s)
  <2>1. /\ RootOf(old, s) \in DOMAIN old /\ old[RootOf(old, s)] \notin Sessions
        /\ db.sessions[s].root = RootOf(old, s) /\ db.sessions[s].depth = DepthOf(old, s)
    BY <1>5 DEF RootsAreCurrent, IsForest
  <2>2. new[RootOf(new, s)] = old[RootOf(old, s)]
    BY <1>2, <1>4, <1>5, <1>9
  <2> QED
    BY <1>2, <1>4, <1>9, <2>1, <2>2
<1>12. \A s \in A \cup O :
          /\ RootOf(new, s) \in DOMAIN new /\ new[RootOf(new, s)] \notin Sessions
          /\ rows[s].root = RootOf(new, s) /\ rows[s].depth = DepthOf(new, s)
  BY <1>10, <1>11
<1> HIDE DEF A, O, old, up, rows
<1>13. db'.sessions = rows
  BY DEF rows
<1> HIDE DEF new
<1>14. IsForest(new)
  BY <1>4, <1>12 DEF IsForest
<1>15. RootsAreCurrent' = (/\ IsForest(new)
                           /\ \A s \in There(rows) :
                                 rows[s].root = RootOf(new, s) /\ rows[s].depth = DepthOf(new, s))
  BY <1>13 DEF RootsAreCurrent, new
<1> QED
  BY <1>2, <1>12, <1>14, <1>15
-----------------------------------------------------------------------------
(* The invariant. *)

\* The inductive invariant of the rows of sessions.
RowsInv == LogInv /\ ReadTyped /\ RowsTyped /\ RootsAreCurrent

LEMMA RowsInit == Init => RowsInv
<1> SUFFICES ASSUME Init PROVE RowsInv
  OBVIOUS
<1>1. LogInv
  BY DEF Init, LogInv, LogTyped, Numbers
<1>2. ReadTyped
  BY DEF Init, ReadTyped
<1>3. db.transitions = [e \in Folded |-> <<>>] /\ db.sessions = NoRows(Sessions)
  BY DEF Init, EmptyDb
<1>4. RowsTyped
  <2>1. <<>> \in Seq(Transition)
    OBVIOUS
  <2> QED
    BY <1>3, <2>1 DEF RowsTyped, NoRows
<1>5. There(db.sessions) = {}
  BY <1>3 DEF There, NoRows
<1>6. RootsAreCurrent
  BY <1>5 DEF RootsAreCurrent, ParentsIn, IsForest
<1> QED
  BY <1>1, <1>2, <1>4, <1>6 DEF RowsInv

\* What the clients may write of whom.
Writable(s, type, id, state, parent, value) ==
    /\ type \in {"entity", "relationship", "allowance"} /\ id \in Entities \cup {None}
    /\ state \in Statuses /\ parent \in Sessions \cup {None} /\ value \in Nat \cup {None}
    /\ id \in Calls => value \in Nat
    /\ id \in Components => "component" \in world.kinds
    /\ id \in Tools =>
         /\ type = "entity" /\ state \in {"running", "succeeded"}
         /\ state = "running" => "tool" \in world.kinds
         /\ state = "succeeded" /\ "tool" \in world.kinds => Known(id) /\ Home(id) = s

\* Whatever the clients do, they write one record, or copy a source.
LEMMA CodexIs ==
    ASSUME LogInv, Codex
    PROVE  \/ \E s \in Sources : \E type, id, state, parent, value :
                 /\ Writable(s, type, id, state, parent, value)
                 /\ Write(s, type, id, state, parent, value)
           \/ \E s, t \in Sources : CopySource(s, t)
<1> PICK s \in Sources :
        \/ \E id \in Sessions, parent \in Sessions \cup {None} :
              StartSession(s, id, parent) \/ EndSession(s, id, parent)
        \/ \E child, parent \in Sessions : LateParent(s, child, parent)
        \/ \E id \in Tools : StartTool(s, id) \/ EndTool(s, id)
        \/ \E id \in Calls, tokens \in 1 .. 2 : ReportCall(s, id, tokens)
        \/ \E id \in Components : ReportComponent(s, id)
        \/ \E status \in {"open", "completed"} : ReportAllowance(s, status)
        \/ \E t \in Sources : CopySource(s, t)
  BY DEF Codex
<1> DEFINE Wrote == \E type, id, state, parent, value :
                       /\ Writable(s, type, id, state, parent, value)
                       /\ Write(s, type, id, state, parent, value)
<1>0. /\ {"running", "succeeded", "", "unknown", "open", "completed"} \subseteq Statuses
      /\ Entities = Sessions \cup Tools \cup Calls \cup Components
  BY DEF Statuses, States, Active, Terminal, Entities, Folded
<1>d. /\ Sessions \cap Tools = {} /\ Sessions \cap Calls = {} /\ Tools \cap Calls = {}
      /\ Components \cap (Sessions \cup Tools \cup Calls) = {}
  BY RowsAssumption
<1>n. None \notin Entities
  BY AbsentAssumption
<1>1. ASSUME NEW id \in Sessions, NEW parent \in Sessions \cup {None},
             StartSession(s, id, parent) \/ EndSession(s, id, parent)
      PROVE  Wrote
  <2>1. \A state \in {"running", "succeeded"} : Writable(s, "entity", id, state, parent, None)
    BY <1>0, <1>d DEF Writable
  <2>2. \/ Write(s, "entity", id, "running", parent, None)
        \/ Write(s, "entity", id, "succeeded", parent, None)
    BY <1>1 DEF StartSession, EndSession
  <2> QED
    BY <2>1, <2>2
<1>2. ASSUME NEW child \in Sessions, NEW parent \in Sessions, LateParent(s, child, parent)
      PROVE  Wrote
  <2>1. Writable(s, "relationship", child, "", parent, None)
    BY <1>0, <1>d DEF Writable
  <2>2. Write(s, "relationship", child, "", parent, None)
    BY <1>2 DEF LateParent
  <2> QED
    BY <2>1, <2>2
<1>3. ASSUME NEW id \in Tools, StartTool(s, id) \/ EndTool(s, id)
      PROVE  Wrote
  <2>1. CASE StartTool(s, id)
    <3>1. Writable(s, "entity", id, "running", None, Operation)
      BY <1>0, <1>d, <2>1 DEF Writable, StartTool, Operation
    <3>2. Write(s, "entity", id, "running", None, Operation)
      BY <2>1 DEF StartTool
    <3> QED
      BY <3>1, <3>2
  <2>2. CASE EndTool(s, id)
    <3> DEFINE v == IF "bare_end" \in world.kinds THEN None ELSE Operation
    <3>1. v \in Nat \cup {None}
      BY DEF Operation
    <3>2. /\ Write(s, "entity", id, "succeeded", None, v)
          /\ "tool" \in world.kinds => Known(id) /\ Home(id) = s
      BY <2>2 DEF EndTool
    <3> HIDE DEF v
    <3>3. Writable(s, "entity", id, "succeeded", None, v)
      BY <1>0, <1>d, <3>1, <3>2 DEF Writable
    <3> QED
      BY <3>2, <3>3
  <2> QED
    BY <1>3, <2>1, <2>2
<1>4. ASSUME NEW id \in Calls, NEW tokens \in 1 .. 2, ReportCall(s, id, tokens)
      PROVE  Wrote
  <2>1. Writable(s, "entity", id, "succeeded", None, tokens)
    <3>1. tokens \in Nat
      OBVIOUS
    <3>2. id \in Entities /\ id \notin Tools /\ id \notin Components /\ "succeeded" \in Statuses
      BY <1>0, <1>d
    <3> QED
      BY <3>1, <3>2 DEF Writable
  <2>2. Write(s, "entity", id, "succeeded", None, tokens)
    BY <1>4 DEF ReportCall
  <2> QED
    BY <2>1, <2>2
<1>5. ASSUME NEW id \in Components, ReportComponent(s, id)
      PROVE  Wrote
  <2>1. Writable(s, "entity", id, "unknown", None, 1)
    BY <1>0, <1>d, <1>5 DEF Writable, ReportComponent
  <2>2. Write(s, "entity", id, "unknown", None, 1)
    BY <1>5 DEF ReportComponent
  <2> QED
    BY <2>1, <2>2
<1>6. ASSUME NEW status \in {"open", "completed"}, ReportAllowance(s, status)
      PROVE  Wrote
  <2>1. Cardinality(Allowances) + 1 \in Nat \cup {None}
    <3>1. Len(log) \in Nat
      BY DEF LogInv, LogTyped
    <3>2. IsFiniteSet(1 .. Len(log)) /\ Allowances \in SUBSET (1 .. Len(log))
      BY <3>1, FS_Interval DEF Allowances
    <3>3. Cardinality(Allowances) \in Nat
      BY <3>2, FS_Subset, SizeIsNat
    <3> QED
      BY <3>3
  <2>2. Writable(s, "allowance", None, status, None, Cardinality(Allowances) + 1)
    BY <1>0, <1>n, <2>1 DEF Writable
  <2>3. Write(s, "allowance", None, status, None, Cardinality(Allowances) + 1)
    BY <1>6 DEF ReportAllowance
  <2> QED
    BY <2>2, <2>3
<1> HIDE DEF Wrote
<1>7. Wrote \/ \E t \in Sources : CopySource(s, t)
  BY <1>1, <1>2, <1>3, <1>4, <1>5, <1>6
<1> QED
  BY <1>7 DEF Wrote

\* The record that is written.
LEMMA Written ==
    ASSUME LogInv, NEW s \in Sources, NEW type, NEW id, NEW state, NEW parent, NEW value,
           Writable(s, type, id, state, parent, value),
           Write(s, type, id, state, parent, value)
    PROVE  \E o \in Observation :
              /\ log' = Append(log, o) /\ UNCHANGED world
              /\ o.src = s /\ o.n = Len(Records(s)) + 1 /\ o.type = type /\ o.id = id
              /\ o.state = state /\ o.value = value
<1>0. log \in Seq(Observation) /\ Len(log) \in Nat
  BY DEF LogInv, LogTyped
<1>1. PICK at \in Times : log' = Append(log, Record(s, at, type, id, state, parent, value))
  BY DEF Write
<1>2. at \in Nat
  BY <1>0 DEF Times
<1>3. Len(Records(s)) \in Nat
  <2>1. Records(s) \in Seq(Observation)
    BY RecordsAre
  <2> QED
    BY <2>1
<1> DEFINE o == Record(s, at, type, id, state, parent, value)
<1>4. /\ o.src = s /\ o.n = Len(Records(s)) + 1 /\ o.type = type /\ o.id = id
      /\ o.state = state /\ o.value = value
  BY DEF Record
<1>5. o \in Observation
  BY <1>2, <1>3 DEF Record, Observation, Writable
<1>6. world' = world
  BY DEF Write
<1> HIDE DEF o
<1> QED
  BY <1>1, <1>4, <1>5, <1>6 DEF o

\* Records keep their places, and nothing is published by writing them.
LEMMA CodexKeepsLog ==
    ASSUME LogInv, Codex
    PROVE  LogInv' /\ UNCHANGED <<read, db>>
<1>1. ASSUME NEW s \in Sources, NEW type, NEW id, NEW state, NEW parent, NEW value,
             Writable(s, type, id, state, parent, value),
             Write(s, type, id, state, parent, value)
      PROVE  LogInv' /\ UNCHANGED <<read, db>>
  <2>1. PICK o \in Observation :
           log' = Append(log, o) /\ UNCHANGED world /\ o.src = s /\ o.n = Len(Records(s)) + 1
    BY <1>1, Written
  <2>2. LogInv'
    BY <2>1, RecordAppended
  <2> QED
    BY <1>1, <2>2 DEF Write
<1>2. ASSUME NEW s \in Sources, NEW t \in Sources, CopySource(s, t)
      PROVE  LogInv' /\ UNCHANGED <<read, db>>
  <2>1. LogInv'
    BY <1>2, SourceCopied
  <2> QED
    BY <1>2, <2>1 DEF CopySource
<1> QED
  BY <1>1, <1>2, CodexIs

\* A publication keeps the types of what is published.
LEMMA PublishTyped ==
    ASSUME LogInv, ReadTyped, RowsTyped, NEW S \in SUBSET Sources, Publish(S)
    PROVE  LogInv' /\ ReadTyped' /\ RowsTyped'
<1> DEFINE b == ChangeSet(S)
<1>1. b \in Seq(Observation) /\ db' = Applied(db, b)
  BY ChangeSetTyped DEF Publish
<1>2. db'.transitions = [e \in Folded |-> History(db, b, e)] /\ db'.sessions = NewSessions(db, b)
  BY <1>1 DEF Applied, Proposed
<1> HIDE DEF b
<1>3. LogInv'
  BY DEF Publish, LogInv, LogTyped, Numbers
<1>4. ReadTyped'
  <2>1. \A s \in Sources : Len(Records(s)) \in Nat
    <3>1. \A s \in Sources : Records(s) \in Seq(Observation)
      BY RecordsAre
    <3> QED
      BY <3>1
  <2> QED
    BY <2>1 DEF Publish, ReadTyped
<1>5. \A e \in Folded : History(db, b, e) \in Seq(Transition)
  BY <1>1, HistoryTyped
<1>6. NewSessions(db, b) \in [Sessions -> Session \cup {None}]
  BY <1>1, SessionsTyped
<1>7. RowsTyped'
  BY <1>2, <1>5, <1>6 DEF RowsTyped
<1> QED
  BY <1>3, <1>4, <1>7

LEMMA RowsNext == RowsInv /\ [Next]_vars => RowsInv'
<1> SUFFICES ASSUME RowsInv, [Next]_vars PROVE RowsInv'
  OBVIOUS
<1>0. LogInv /\ ReadTyped /\ RowsTyped /\ RootsAreCurrent
  BY DEF RowsInv
<1>1. CASE Codex
  <2>1. LogInv' /\ UNCHANGED <<read, db>>
    BY <1>0, <1>1, CodexKeepsLog
  <2>2. ReadTyped' /\ RowsTyped' /\ RootsAreCurrent'
    BY <1>0, <2>1 DEF ReadTyped, RowsTyped, RootsAreCurrent
  <2> QED
    BY <2>1, <2>2 DEF RowsInv
<1>2. ASSUME NEW S \in SUBSET Sources, Publish(S) PROVE RowsInv'
  <2>1. LogInv' /\ ReadTyped' /\ RowsTyped'
    BY <1>0, <1>2, PublishTyped
  <2>2. /\ ChangeSet(S) \in Seq(Observation)
        /\ IsForest(NewParents(db, ChangeSet(S)))
    BY <1>0, <1>2, ChangeSetTyped DEF Publish, Publishable, Accepts
  <2>3. db'.sessions = NewSessions(db, ChangeSet(S))
    BY <1>2 DEF Publish, Applied, Proposed
  <2>4. RootsAreCurrent'
    BY <1>0, <2>2, <2>3, RootsPublished
  <2> QED
    BY <2>1, <2>4 DEF RowsInv
<1>3. CASE UNCHANGED vars
  BY <1>0, <1>3 DEF vars, RowsInv, LogInv, LogTyped, Numbers, ReadTyped, RowsTyped, RootsAreCurrent
<1> QED
  BY <1>1, <1>2, <1>3 DEF Next

\* Every published session stores the root and the depth that the published parents
\* give (_complete_session_hierarchy), for any sessions, sources and records.
THEOREM RowsAlwaysCurrent == Spec => []RootsAreCurrent
<1>1. Spec => []RowsInv
  BY RowsInit, RowsNext, PTL DEF Spec
<1>2. RowsInv => RootsAreCurrent
  BY DEF RowsInv
<1> QED
  BY <1>1, <1>2, PTL

-----------------------------------------------------------------------------
(* What a history says of its fold. *)

\* A history that begins with an active state starts with its first transition.
LEMMA FoldStarts ==
    ASSUME NEW h \in Seq(Transition), Len(h) > 0, h[1].state \in Active
    PROVE  FoldOf(h).start = h[1].at
<1>0. Len(h) \in Nat /\ h[1] \in Transition
  OBVIOUS
<1>1. PICK up : Folds(h, up)
  BY <1>0, FoldsUp
<1> DEFINE S == {n \in Nat : n + 1 <= Len(h) => up[n + 1].start = h[1].at}
<1>2. 0 \in S
  <2>1. up[0] = Unfolded /\ up[0 + 1] = FoldNext(up[0], h[0 + 1])
    BY <1>0, <1>1 DEF Folds
  <2>2. up[1].start = h[1].at
    BY <2>1 DEF FoldNext, Unfolded
  <2> QED
    BY <2>2
<1>3. ASSUME NEW n \in S PROVE n + 1 \in S
  <2> SUFFICES ASSUME n + 2 <= Len(h) PROVE up[n + 2].start = h[1].at
    OBVIOUS
  <2>1. n \in Nat /\ up[n + 1].start = h[1].at /\ n + 1 < Len(h) /\ n + 1 \in Nat
    BY <1>0
  <2>2. up[(n + 1) + 1] = FoldNext(up[n + 1], h[(n + 1) + 1])
    BY <1>1, <2>1 DEF Folds
  <2>3. h[1].at # None
    <3>1. h[1].at \in Nat
      BY <1>0 DEF Transition
    <3> QED
      BY <3>1, AbsentAssumption
  <2>4. up[(n + 1) + 1].start = h[1].at
    BY <2>1, <2>2, <2>3 DEF FoldNext
  <2> QED
    BY <2>1, <2>4
<1>4. S = Nat
  <2>1. S \in SUBSET Nat
    OBVIOUS
  <2> HIDE DEF S
  <2> QED
    BY <1>2, <1>3, <2>1, Reaches
<1>5. Len(h) - 1 \in S /\ (Len(h) - 1) + 1 = Len(h)
  <2>1. Len(h) - 1 \in Nat /\ (Len(h) - 1) + 1 = Len(h)
    BY <1>0
  <2> HIDE DEF S
  <2> QED
    BY <1>4, <2>1
<1>6. up[Len(h)].start = h[1].at
  BY <1>0, <1>5
<1> QED
  BY <1>1, <1>6 DEF Folds

\* A history that begins with the end, and is allowed, has nothing else.
LEMMA NothingAfterTheEnd ==
    ASSUME NEW h \in Seq(Transition), Len(h) > 0, h[1].state = "succeeded", FoldOf(h).ok,
           NEW i \in 1 .. Len(h)
    PROVE  h[i].state = "succeeded"
<1>0. Len(h) \in Nat
  OBVIOUS
<1>1. PICK up : Folds(h, up)
  BY <1>0, FoldsUp
<1> DEFINE Ends(n) == up[n].state = "succeeded" /\ \A j \in 1 .. n : h[j].state = "succeeded"
           S == {n \in Nat : n + 1 <= Len(h) /\ up[n + 1].ok => Ends(n + 1)}
<1>2. 0 \in S
  <2>1. up[0 + 1] = FoldNext(up[0], h[0 + 1])
    BY <1>0, <1>1 DEF Folds
  <2>2. up[1].state = "succeeded"
    BY <2>1 DEF FoldNext
  <2> QED
    BY <2>2
<1>3. ASSUME NEW n \in S PROVE n + 1 \in S
  <2> SUFFICES ASSUME n + 2 <= Len(h), up[n + 2].ok PROVE Ends(n + 2)
    OBVIOUS
  <2>1. n \in Nat /\ n + 1 < Len(h) /\ n + 1 \in Nat /\ (n + 1) + 1 = n + 2
    BY <1>0
  <2>2. up[n + 2] = FoldNext(up[n + 1], h[n + 2])
    BY <1>1, <2>1 DEF Folds
  <2>3. up[n + 1].ok /\ h[n + 2].state \in AllowedAfter[up[n + 1].state] /\ up[n + 2].state = h[n + 2].state
    <3>1. FoldNext(up[n + 1], h[n + 2]).ok
      BY <2>2
    <3>2. up[n + 1].ok /\ h[n + 2].state \in AllowedAfter[up[n + 1].state]
      BY <3>1, Zenon DEF FoldNext
    <3>3. FoldNext(up[n + 1], h[n + 2]).state = h[n + 2].state
      BY DEF FoldNext
    <3> QED
      BY <2>2, <3>2, <3>3
  <2>4. Ends(n + 1)
    BY <2>1, <2>3
  <2>5. AllowedAfter["succeeded"] = {"succeeded"}
    BY DEF AllowedAfter, States, Active, Terminal
  <2>6. h[n + 2].state = "succeeded"
    BY <2>3, <2>4, <2>5
  <2>7. \A j \in 1 .. n + 2 : j \in 1 .. n + 1 \/ j = n + 2
    OBVIOUS
  <2> QED
    BY <2>3, <2>4, <2>6, <2>7
<1>4. S = Nat
  <2>1. S \in SUBSET Nat
    OBVIOUS
  <2> HIDE DEF S
  <2> QED
    BY <1>2, <1>3, <2>1, Reaches
<1>5. up[Len(h)].ok
  BY <1>1 DEF Folds
<1>6. Len(h) - 1 \in S /\ (Len(h) - 1) + 1 = Len(h)
  <2>1. Len(h) - 1 \in Nat /\ (Len(h) - 1) + 1 = Len(h)
    BY <1>0
  <2> HIDE DEF S
  <2> QED
    BY <1>4, <2>1
<1>7. Ends(Len(h))
  BY <1>0, <1>5, <1>6
<1> QED
  BY <1>7
-----------------------------------------------------------------------------
(* Histories go on. *)

\* The history after a publication: what is published, and then what is observed.
LEMMA HistoryIs ==
    ASSUME RowsTyped, NEW b \in Seq(Observation), NEW e \in Folded
    PROVE  LET h == History(db, b, e)
               t == db.transitions[e]
               g == Group(b, e)
           IN  /\ Len(t) \in Nat /\ Len(g) \in Nat /\ Len(h) = Len(t) + Len(g)
               /\ (g = <<>> => h = t) /\ (g # <<>> => Len(g) > 0)
               /\ \A i \in 1 .. Len(t) : h[i] = t[i]
               /\ \A i \in 1 .. Len(g) :
                     h[Len(t) + i].state = g[i].state /\ h[Len(t) + i].at = g[i].at
<1> DEFINE g == Group(b, e)
           t == db.transitions[e]
           new == [i \in 1 .. Len(g) |-> [state |-> g[i].state, at |-> g[i].at]]
           h == t \o new
<1>1. g \in Seq(Observation) /\ Len(g) \in Nat
  <2>1. About(b, "entity", e) \in Seq(Observation)
    BY AboutTyped
  <2>2. g \in Seq(Observation)
    BY <2>1 DEF Group
  <2> QED
    BY <2>2
<1>2. t \in Seq(Transition) /\ Len(t) \in Nat
  BY DEF RowsTyped
<1> HIDE DEF g, t
<1>3. ASSUME NEW i \in 1 .. Len(g) PROVE [state |-> g[i].state, at |-> g[i].at] \in Transition
  <2>1. g[i] \in Observation
    BY <1>1
  <2> QED
    BY <2>1 DEF Observation, Transition
<1>4. /\ new \in Seq(Transition) /\ Len(new) = Len(g)
      /\ \A i \in 1 .. Len(g) : new[i].state = g[i].state /\ new[i].at = g[i].at
  BY <1>1, <1>3
<1> HIDE DEF new
<1>5. /\ Len(h) = Len(t) + Len(g) /\ h \in Seq(Transition)
      /\ \A i \in 1 .. Len(t) : h[i] = t[i]
      /\ \A i \in 1 .. Len(g) : h[Len(t) + i] = new[i]
  <2>0. h \in Seq(Transition)
    BY <1>2, <1>4
  <2>1. Len(h) = Len(t) + Len(g) /\ h \in Seq(Transition)
    <3>0. \A p, q \in Seq(Transition) : Len(p \o q) = Len(p) + Len(q)
      OBVIOUS
    <3>1. Len(t \o new) = Len(t) + Len(new)
      BY <1>2, <1>4, <3>0
    <3> QED
      BY <1>4, <2>0, <3>1
  <2>2. \A i \in 1 .. Len(t) : h[i] = t[i]
    BY <1>1, <1>2, <1>4
  <2>3. ASSUME NEW i \in 1 .. Len(g) PROVE h[Len(t) + i] = new[i]
    <3>1. Len(t) + i \in 1 .. Len(t) + Len(new) /\ ~(Len(t) + i <= Len(t)) /\ (Len(t) + i) - Len(t) = i
      BY <1>1, <1>2, <1>4
    <3> QED
      BY <1>2, <1>4, <3>1
  <2> QED
    BY <2>1, <2>2, <2>3
<1>6. h = History(db, b, e)
  BY DEF History, new, g, t
<1> HIDE DEF h
<1>7. g = <<>> => h = t
  BY <1>1, <1>2, <1>5
<1>8. g # <<>> => Len(g) > 0
  BY <1>1
<1> QED
  BY <1>1, <1>2, <1>4, <1>5, <1>6, <1>7, <1>8 DEF g, t
-----------------------------------------------------------------------------
(* What is read. *)

\* A record of the log is found at its place among those of its source.
LEMMA RecordOfSource ==
    ASSUME LogInv, NEW i \in 1 .. Len(log)
    PROVE  /\ log[i].src \in Sources
           /\ log[i].n \in 1 .. Len(Records(log[i].src))
           /\ Records(log[i].src)[log[i].n] = log[i]
<1> DEFINE s == log[i].src
           I == OfSource(s)
<1>0. log \in Seq(Observation) /\ Len(log) \in Nat /\ log[i] \in Observation /\ s \in Sources
  <2>1. log \in Seq(Observation) /\ Len(log) \in Nat
    BY DEF LogInv, LogTyped
  <2>2. log[i] \in Observation
    BY <2>1
  <2> QED
    BY <2>1, <2>2 DEF Observation
<1>1. I \in SUBSET (1 .. Len(log)) /\ i \in I /\ Records(s) = Picked(log, I)
  BY DEF OfSource, Records
<1> HIDE DEF s, I
<1>2. Len(Records(s)) = Cardinality(I)
  BY <1>0, RecordsAre DEF I
<1> DEFINE k == Cardinality(Before(I, i)) + 1
<1>3. k \in 1 .. Cardinality(I) /\ Picked(log, I)[k] = log[i]
  BY <1>0, <1>1, PickedHas
<1> HIDE DEF k
<1>4. Records(s)[k].n = k
  BY <1>0, <1>2, <1>3, RecordsAre
<1> QED
  BY <1>0, <1>1, <1>2, <1>3, <1>4 DEF s

\* A record of a source that is published and not yet read is in the change set.
LEMMA ChangeSetHas ==
    ASSUME LogInv, ReadTyped, NEW S \in SUBSET Sources, NEW i \in 1 .. Len(log),
           log[i].src \in S, log[i].n > read[log[i].src]
    PROVE  \E k \in 1 .. Len(ChangeSet(S)) : ChangeSet(S)[k] = log[i]
<1> DEFINE C == UNION {Range(Unread(s)) : s \in S}
           s == log[i].src
           r == Records(s)
           k == log[i].n - read[s]
<1>1. s \in Sources /\ log[i].n \in 1 .. Len(r) /\ r[log[i].n] = log[i] /\ r \in Seq(Observation)
  BY RecordOfSource, RecordsAre
<1>2. read[s] \in Nat
  BY <1>1 DEF ReadTyped
<1> DEFINE u == SubSeq(r, read[s] + 1, Len(r))
<1> HIDE DEF r, s
<1>3. k \in 1 .. Len(u) /\ DOMAIN u = 1 .. Len(u) /\ u[k] = log[i]
  <2>1. Len(r) \in Nat /\ log[i].n \in Nat /\ log[i].n <= Len(r) /\ log[i].n > read[s]
    BY <1>1 DEF s
  <2>2. Len(u) = Len(r) - read[s] /\ DOMAIN u = 1 .. Len(u)
    BY <1>1, <1>2, <2>1
  <2>3. k \in 1 .. Len(r) - read[s] /\ read[s] + k = log[i].n
    BY <1>2, <2>1
  <2>4. u[k] = r[read[s] + k]
    BY <1>1, <1>2, <2>1, <2>3
  <2> QED
    BY <1>1, <2>2, <2>3, <2>4
<1>4. u = Unread(s)
  BY DEF Unread, r
<1>5. log[i] \in C
  <2>1. log[i] \in Range(Unread(s))
    BY <1>3, <1>4 DEF Range
  <2> QED
    BY <2>1 DEF s
<1>6. C \in SUBSET LogRecords
  BY ChangeSetIs
<1> HIDE DEF C
<1>7. C \in SUBSET Observation /\ IsFiniteSet(C) /\ Distinct(C)
  BY <1>6, SomeRecords
<1>8. Place(C, log[i]) \in 1 .. Cardinality(C) /\ Sorted(C)[Place(C, log[i])] = log[i]
  BY <1>5, <1>7, SortedHas
<1>9. Len(Sorted(C)) = Cardinality(C)
  BY <1>7, SortedFrom
<1> QED
  BY <1>8, <1>9 DEF ChangeSet, C

\* A change set has records of the log only.
LEMMA ChangeSetOfLog ==
    ASSUME LogInv, ReadTyped, NEW S \in SUBSET Sources, NEW k \in 1 .. Len(ChangeSet(S))
    PROVE  \E i \in 1 .. Len(log) : ChangeSet(S)[k] = log[i]
<1> DEFINE C == UNION {Range(Unread(s)) : s \in S}
<1>1. C \in SUBSET LogRecords
  BY ChangeSetIs
<1> HIDE DEF C
<1>2. C \in SUBSET Observation /\ IsFiniteSet(C) /\ Distinct(C)
  BY <1>1, SomeRecords
<1>3. Len(Sorted(C)) = Cardinality(C) /\ ChangeSet(S) = Sorted(C)
  BY <1>2, SortedFrom DEF ChangeSet, C
<1>4. Sorted(C)[k] \in C
  BY <1>2, <1>3, SortedFrom
<1> QED
  BY <1>1, <1>3, <1>4 DEF LogRecords

\* An observation of an entity is in the group of the entity.
LEMMA GroupHas ==
    ASSUME NEW b \in Seq(Observation), NEW k \in 1 .. Len(b), b[k].type = "entity"
    PROVE  \E j \in 1 .. Len(Group(b, b[k].id)) : Group(b, b[k].id)[j] = b[k]
<1> DEFINE e == b[k].id
           I == {i \in 1 .. Len(b) : b[i].type = "entity" /\ b[i].id = e}
<1>0. Len(b) \in Nat /\ I \in SUBSET (1 .. Len(b)) /\ k \in I
  OBVIOUS
<1>1. Group(b, e) = Picked(b, I)
  BY DEF Group, About
<1> HIDE DEF I
<1>2. Len(Picked(b, I)) = Cardinality(I)
  BY <1>0, PickedFrom
<1> DEFINE j == Cardinality(Before(I, k)) + 1
<1>3. j \in 1 .. Cardinality(I) /\ Picked(b, I)[j] = b[k]
  BY <1>0, PickedHas
<1> HIDE DEF j
<1> QED
  BY <1>1, <1>2, <1>3

\* A group holds records of the log, of its entity.
LEMMA GroupOf ==
    ASSUME LogInv, ReadTyped, NEW S \in SUBSET Sources, NEW e,
           NEW k \in 1 .. Len(Group(ChangeSet(S), e))
    PROVE  \E i \in 1 .. Len(log) : /\ Group(ChangeSet(S), e)[k] = log[i]
                                    /\ log[i].type = "entity" /\ log[i].id = e
<1> DEFINE b == ChangeSet(S)
<1>1. b \in Seq(Observation)
  BY ChangeSetTyped
<1>2. \A j \in 1 .. Len(b) : \E i \in 1 .. Len(log) : b[j] = log[i]
  BY ChangeSetOfLog
<1> HIDE DEF b
<1>3. PICK j \in 1 .. Len(b) :
         Group(b, e)[k] = b[j] /\ b[j].type = "entity" /\ b[j].id = e
  BY <1>1, AboutTyped DEF Group, b
<1>4. PICK i \in 1 .. Len(log) : b[j] = log[i]
  BY <1>2
<1> QED
  BY <1>3, <1>4 DEF b

-----------------------------------------------------------------------------
(* What the log holds, what of it is read, and what is there of it. *)

\* The start of a tool is in the source of its end.
Runs(o) ==
    \E j \in 1 .. Len(log) : /\ log[j].type = "entity" /\ log[j].state = "running"
                             /\ log[j].id = o.id /\ log[j].src = o.src

\* What a record tells of whom.
RecordOk(o) ==
    /\ o.id \in Calls => o.value \in Nat
    /\ o.id \in Components => "component" \in world.kinds
    /\ o.id \in Tools =>
         /\ o.type = "entity" /\ o.state \in {"running", "succeeded"}
         /\ o.state = "running" => "tool" \in world.kinds
         /\ o.state = "succeeded" /\ "tool" \in world.kinds => Runs(o)

LogKinds == \A i \in 1 .. Len(log) : RecordOk(log[i])

\* No more of a source is read than it holds.
ReadWithin == \A s \in Sources : read[s] <= Cardinality(OfSource(s))

\* What is read of an entity is among its transitions, and they are of records.
ReadKnown ==
    /\ \A i \in 1 .. Len(log) :
          /\ log[i].type = "entity" /\ log[i].id \in Folded
          /\ log[i].n <= read[log[i].src]
          => db.transitions[log[i].id] # <<>>
    /\ \A e \in Folded : db.transitions[e] # <<>> => Known(e)

LEMMA SourceIsFinite ==
    ASSUME LogInv, NEW s
    PROVE  IsFiniteSet(OfSource(s)) /\ Cardinality(OfSource(s)) \in Nat
<1>1. Len(log) \in Nat
  BY DEF LogInv, LogTyped
<1>2. OfSource(s) \in SUBSET (1 .. Len(log)) /\ IsFiniteSet(1 .. Len(log))
  BY <1>1, FS_Interval DEF OfSource
<1> QED
  BY <1>2, FS_Subset, SizeIsNat

\* The log grows: what holds of what is in it stays.
LEMMA LogGrows ==
    ASSUME LogInv, LogInv', LogKinds, ReadTyped, ReadWithin, ReadKnown,
           UNCHANGED <<world, read, db>>,
           Len(log) <= Len(log'), \A i \in 1 .. Len(log) : log'[i] = log[i],
           \A i \in 1 .. Len(log') : i > Len(log) =>
              RecordOk(log[i])' /\ log'[i].n > read[log'[i].src]
    PROVE  LogKinds' /\ ReadTyped' /\ ReadWithin' /\ ReadKnown'
<1>0. /\ Len(log) \in Nat /\ Len(log') \in Nat
      /\ \A i \in 1 .. Len(log') : i \in 1 .. Len(log) \/ i > Len(log)
      /\ \A i \in 1 .. Len(log) : i \in 1 .. Len(log')
  <2>1. Len(log) \in Nat
    BY DEF LogInv, LogTyped
  <2>2. Len(log') \in Nat
    BY DEF LogInv, LogTyped
  <2> QED
    BY <2>1, <2>2
<1>1. ASSUME NEW i \in 1 .. Len(log) PROVE RecordOk(log[i])'
  <2>1. RecordOk(log[i]) /\ log'[i] = log[i] /\ world' = world
    BY DEF LogKinds
  <2>2. Runs(log[i]) => Runs(log[i])'
    BY <1>0, <2>1 DEF Runs
  <2> QED
    BY <2>1, <2>2 DEF RecordOk
<1>2. LogKinds'
  BY <1>0, <1>1 DEF LogKinds
<1>3. ASSUME NEW s \in Sources PROVE read'[s] <= Cardinality(OfSource(s))'
  <2>1. OfSource(s) \in SUBSET OfSource(s)'
    BY <1>0 DEF OfSource
  <2>2. IsFiniteSet(OfSource(s)')
    <3>1. OfSource(s)' \in SUBSET (1 .. Len(log')) /\ IsFiniteSet(1 .. Len(log'))
      BY <1>0, FS_Interval DEF OfSource
    <3> QED
      BY <3>1, FS_Subset
  <2>3. Cardinality(OfSource(s)) <= Cardinality(OfSource(s)')
    BY <2>1, <2>2, FS_Subset
  <2>4. Cardinality(OfSource(s)) \in Nat /\ Cardinality(OfSource(s)') \in Nat
    BY <2>2, SourceIsFinite, SizeIsNat
  <2>5. read[s] \in Nat /\ read[s] <= Cardinality(OfSource(s)) /\ read' = read
    BY DEF ReadTyped, ReadWithin
  <2> QED
    BY <2>3, <2>4, <2>5
<1>4. ReadWithin'
  BY <1>3 DEF ReadWithin
<1>5. ASSUME NEW i \in 1 .. Len(log'), log'[i].type = "entity", log'[i].id \in Folded,
             log'[i].n <= read[log'[i].src]
      PROVE  db.transitions[log'[i].id] # <<>>
  <2>1. CASE i \in 1 .. Len(log)
    BY <1>5, <2>1 DEF ReadKnown
  <2>2. CASE i > Len(log)
    <3>1. log' \in Seq(Observation)
      BY DEF LogInv, LogTyped
    <3>2. log'[i] \in Observation
      BY <1>0, <3>1
    <3>3. log'[i].n \in Nat /\ log'[i].src \in Sources
      BY <3>2 DEF Observation
    <3>4. read[log'[i].src] \in Nat
      BY <3>3 DEF ReadTyped
    <3>5. log'[i].n > read[log'[i].src]
      BY <2>2
    <3> QED
      BY <1>5, <3>3, <3>4, <3>5
  <2> QED
    BY <1>0, <2>1, <2>2
<1>6. ASSUME NEW e \in Folded, db.transitions[e] # <<>> PROVE Known(e)'
  BY <1>0, <1>6 DEF ReadKnown, Known
<1>7. ReadKnown'
  BY <1>5, <1>6 DEF ReadKnown
<1> QED
  BY <1>2, <1>4, <1>7 DEF ReadTyped

\* The source an entity is at home in tells of it.
LEMMA HomeHolds ==
    ASSUME LogInv, NEW e, Known(e)
    PROVE  \E j \in 1 .. Len(log) : log[j].type = "entity" /\ log[j].id = e /\ log[j].src = Home(e)
<1> DEFINE I == {i \in 1 .. Len(log) : log[i].type = "entity" /\ log[i].id = e}
<1>1. I \in SUBSET Nat /\ I # {}
  BY DEF Known
<1>2. Home(e) = log[Min(I)].src
  BY DEF Home
<1>3. Min(I) \in I
  <2> HIDE DEF I
  <2>1. \E n \in I : \A m \in I : n <= m
    BY <1>1, Least
  <2> QED
    BY <2>1 DEF Min
<1> QED
  BY <1>2, <1>3

\* A record that is written is not yet read, and in order.
LEMMA WriteGrows ==
    ASSUME LogInv, LogKinds, ReadTyped, ReadWithin, ReadKnown,
           NEW s \in Sources, NEW type, NEW id, NEW state, NEW parent, NEW value,
           Writable(s, type, id, state, parent, value),
           Write(s, type, id, state, parent, value)
    PROVE  LogKinds' /\ ReadTyped' /\ ReadWithin' /\ ReadKnown'
<1>0. log \in Seq(Observation) /\ Len(log) \in Nat
  BY DEF LogInv, LogTyped
<1>1. PICK o \in Observation :
         /\ log' = Append(log, o) /\ UNCHANGED world
         /\ o.src = s /\ o.n = Len(Records(s)) + 1 /\ o.type = type /\ o.id = id
         /\ o.state = state /\ o.value = value
  BY Written
<1>2. LogInv' /\ UNCHANGED <<world, read, db>>
  <2>1. LogInv'
    BY <1>1, RecordAppended
  <2> QED
    BY <2>1 DEF Write
<1>3. /\ Len(log') = Len(log) + 1 /\ log'[Len(log) + 1] = o
      /\ \A i \in 1 .. Len(log) : log'[i] = log[i] /\ i \in 1 .. Len(log')
  BY <1>0, <1>1
<1>4. o.n > read[o.src]
  <2>1. Len(Records(s)) = Cardinality(OfSource(s))
    BY RecordsAre
  <2>2. read[s] \in Nat /\ Cardinality(OfSource(s)) \in Nat /\ read[s] <= Cardinality(OfSource(s))
    BY SourceIsFinite DEF ReadTyped, ReadWithin
  <2> QED
    BY <1>1, <2>1, <2>2
<1>5. o.id \in Tools /\ o.state = "succeeded" /\ "tool" \in world.kinds => Runs(o)
  <2> SUFFICES ASSUME o.id \in Tools, o.state = "succeeded", "tool" \in world.kinds PROVE Runs(o)
    OBVIOUS
  <2>1. Known(o.id) /\ Home(o.id) = o.src
    BY <1>1 DEF Writable
  <2>2. PICK j \in 1 .. Len(log) :
           log[j].type = "entity" /\ log[j].id = o.id /\ log[j].src = o.src
    BY <2>1, HomeHolds
  <2>3. RecordOk(log[j])
    BY DEF LogKinds
  <2>4. CASE log[j].state = "running"
    BY <2>2, <2>4 DEF Runs
  <2>5. CASE log[j].state = "succeeded"
    <3>1. Runs(log[j])
      BY <2>2, <2>3, <2>5 DEF RecordOk
    <3> QED
      BY <2>2, <3>1 DEF Runs
  <2> QED
    BY <2>2, <2>3, <2>4, <2>5 DEF RecordOk
<1>6. RecordOk(o)'
  <2>1. Runs(o) => Runs(o)'
    BY <1>3 DEF Runs
  <2>2. RecordOk(o)
    BY <1>1, <1>5 DEF RecordOk, Writable
  <2> QED
    BY <1>1, <2>1, <2>2 DEF RecordOk
<1>7. \A i \in 1 .. Len(log') : i > Len(log) => log'[i] = o
  BY <1>0, <1>3
<1>8. \A i \in 1 .. Len(log') : i > Len(log) => RecordOk(log[i])' /\ log'[i].n > read[log'[i].src]
  BY <1>4, <1>6, <1>7
<1>9. Len(log) <= Len(log')
  BY <1>0, <1>3
<1> QED
  BY <1>2, <1>3, <1>8, <1>9, LogGrows

\* Records that are copied are not yet read, and in order.
LEMMA CopyGrows ==
    ASSUME LogInv, LogKinds, ReadTyped, ReadWithin, ReadKnown,
           NEW s \in Sources, NEW t \in Sources, CopySource(s, t)
    PROVE  LogKinds' /\ ReadTyped' /\ ReadWithin' /\ ReadKnown'
<1>r. PICK r : r = Records(s)
  OBVIOUS
<1>c. PICK c : c = [i \in 1 .. Len(r) |-> [r[i] EXCEPT !.src = t]]
  OBVIOUS
<1>m. PICK m : m = Len(log)
  OBVIOUS
<1>0. log \in Seq(Observation) /\ m \in Nat /\ LogInv' /\ UNCHANGED <<world, read, db>>
  <2>1. LogInv'
    BY SourceCopied
  <2> QED
    BY <1>m, <2>1 DEF LogInv, LogTyped, CopySource
<1>1. r \in Seq(Observation) /\ Len(r) \in Nat /\ \A k \in 1 .. Len(r) : r[k].n = k
  <2>1. r \in Seq(Observation) /\ \A k \in 1 .. Len(r) : r[k].n = k
    BY <1>r, RecordsAre
  <2> QED
    BY <2>1
<1>2. ASSUME NEW k \in 1 .. Len(r) PROVE \E i \in OfSource(s) : r[k] = log[i]
  BY <1>r, RecordsAre
<1>3. ASSUME NEW k \in 1 .. Len(r)
      PROVE  /\ c[k] \in Observation /\ c[k].src = t /\ c[k].n = k /\ c[k].type = r[k].type
             /\ c[k].id = r[k].id /\ c[k].state = r[k].state /\ c[k].value = r[k].value
  <2>1. r[k] \in Observation /\ c[k] = [r[k] EXCEPT !.src = t] /\ r[k].n = k
    BY <1>1, <1>c
  <2> QED
    BY <2>1 DEF Observation
<1>4. c \in Seq(Observation) /\ Len(c) = Len(r)
  BY <1>1, <1>3, <1>c
<1>5. log' = log \o c
  BY <1>r, <1>c DEF CopySource
<1>6. /\ Len(log') = m + Len(r)
      /\ \A i \in 1 .. m : log'[i] = log[i]
      /\ \A k \in 1 .. Len(r) : log'[m + k] = c[k] /\ m + k \in 1 .. Len(log')
      /\ \A i \in 1 .. Len(log') : i > m => i - m \in 1 .. Len(r) /\ log'[i] = c[i - m]
  <2>0. \A p, q \in Seq(Observation) : Len(p \o q) = Len(p) + Len(q)
    OBVIOUS
  <2>1. Len(log) = m /\ Len(c) \in Nat /\ Len(log') = m + Len(r)
    BY <1>0, <1>1, <1>4, <1>5, <1>m, <2>0
  <2>2. \A i \in 1 .. m : log'[i] = log[i]
    BY <1>0, <1>4, <1>5, <2>1
  <2>3. ASSUME NEW i \in m + 1 .. m + Len(r)
        PROVE  i - m \in 1 .. Len(r) /\ log'[i] = c[i - m]
    BY <1>0, <1>1, <1>4, <1>5, <2>1
  <2>4. ASSUME NEW k \in 1 .. Len(r) PROVE log'[m + k] = c[k] /\ m + k \in 1 .. Len(log')
    <3>1. m + k \in m + 1 .. m + Len(r) /\ (m + k) - m = k
      BY <1>0, <1>1
    <3> QED
      BY <1>0, <1>1, <2>1, <2>3, <3>1
  <2>5. \A i \in 1 .. Len(log') : i > m => i \in m + 1 .. m + Len(r)
    BY <1>0, <1>1, <2>1
  <2> QED
    BY <2>1, <2>2, <2>3, <2>4, <2>5
<1>7. read[t] = 0
  <2>1. Len(Records(t)) = 0
    BY DEF CopySource
  <2>2. Cardinality(OfSource(t)) = 0
    BY <2>1, RecordsAre
  <2> QED
    BY <2>2 DEF ReadTyped, ReadWithin
<1>8. ASSUME NEW k \in 1 .. Len(r) PROVE RecordOk(c[k])' /\ c[k].n > read[c[k].src]
  <2>1. PICK i \in 1 .. m : r[k] = log[i] /\ log[i].src = s
    BY <1>2, <1>m DEF OfSource
  <2>2. RecordOk(r[k])
    BY <2>1, <1>m DEF LogKinds
  <2>3. Runs(r[k]) => Runs(c[k])'
    <3> SUFFICES ASSUME Runs(r[k]) PROVE Runs(c[k])'
      OBVIOUS
    <3>1. PICK j \in 1 .. m : /\ log[j].type = "entity" /\ log[j].state = "running"
                              /\ log[j].id = r[k].id /\ log[j].src = s
      BY <2>1, <1>m DEF Runs
    <3>2. log[j].n \in 1 .. Len(r) /\ r[log[j].n] = log[j]
      BY <3>1, <1>m, <1>r, RecordOfSource
    <3>3. PICK l \in 1 .. Len(r) : r[l] = log[j]
      BY <3>2
    <3>4. /\ log'[m + l] = c[l] /\ m + l \in 1 .. Len(log')
          /\ c[l].src = t /\ c[l].type = "entity" /\ c[l].state = "running" /\ c[l].id = r[k].id
      BY <1>3, <1>6, <3>1, <3>3
    <3> QED
      BY <1>3, <3>4 DEF Runs
  <2>4. RecordOk(c[k])'
    BY <1>0, <1>3, <2>2, <2>3 DEF RecordOk
  <2>5. c[k].n > read[c[k].src]
    BY <1>3, <1>7
  <2> QED
    BY <2>4, <2>5
<1>9. \A i \in 1 .. Len(log') : i > Len(log) => RecordOk(log[i])' /\ log'[i].n > read[log'[i].src]
  <2>1. ASSUME NEW i \in 1 .. Len(log'), i > m PROVE RecordOk(log[i])' /\ log'[i].n > read[log'[i].src]
    <3>1. PICK k \in 1 .. Len(r) : log'[i] = c[k]
      BY <1>6, <2>1
    <3>2. PICK o : o = c[k]
      OBVIOUS
    <3> QED
      BY <1>8, <3>1, <3>2
  <2> QED
    BY <1>m, <2>1
<1>10. Len(log) <= Len(log')
  BY <1>0, <1>1, <1>6, <1>m
<1> QED
  BY <1>0, <1>6, <1>9, <1>10, <1>m, LogGrows

\* A publication reads on, and keeps what it reads.
LEMMA PublishReads ==
    ASSUME LogInv, LogKinds, ReadTyped, ReadWithin, ReadKnown, RowsTyped,
           NEW S \in SUBSET Sources, Publish(S)
    PROVE  LogKinds' /\ ReadWithin' /\ ReadKnown'
<1> DEFINE b == ChangeSet(S)
<1>0. b \in Seq(Observation) /\ world' = world /\ log' = log
  BY ChangeSetTyped DEF Publish
<1>1. LogKinds'
  BY <1>0 DEF LogKinds, RecordOk, Runs
<1>2. /\ \A s \in Sources \ S : read'[s] = read[s]
      /\ \A s \in S : read'[s] = Cardinality(OfSource(s))
  BY RecordsAre DEF Publish
<1>3. ReadWithin'
  <2>1. \A s \in Sources : Cardinality(OfSource(s)) \in Nat
    BY SourceIsFinite
  <2>2. \A s \in Sources : OfSource(s)' = OfSource(s)
    BY <1>0 DEF OfSource
  <2> QED
    BY <1>2, <2>1, <2>2 DEF ReadWithin
<1>4. \A e \in Folded : db'.transitions[e] = History(db, b, e)
  BY DEF Publish, Applied
<1> HIDE DEF b
<1>5. ASSUME NEW e \in Folded
      PROVE  /\ db.transitions[e] # <<>> => db'.transitions[e] # <<>>
             /\ Group(b, e) # <<>> => db'.transitions[e] # <<>>
             /\ db'.transitions[e] # <<>> => db.transitions[e] # <<>> \/ Group(b, e) # <<>>
  <2> DEFINE h == History(db, b, e)
             t == db.transitions[e]
             g == Group(b, e)
  <2>1. /\ Len(t) \in Nat /\ Len(g) \in Nat /\ Len(h) = Len(t) + Len(g)
        /\ (g = <<>> => h = t) /\ (g # <<>> => Len(g) > 0)
    BY <1>0, HistoryIs
  <2>2. t # <<>> => Len(t) > 0
    <3>1. t \in Seq(Transition)
      BY DEF RowsTyped
    <3> HIDE DEF t
    <3> QED
      BY <3>1
  <2> HIDE DEF h, t, g
  <2>3. Len(h) > 0 => h # <<>>
    OBVIOUS
  <2>4. (t # <<>> => h # <<>>) /\ (g # <<>> => h # <<>>) /\ (h # <<>> => t # <<>> \/ g # <<>>)
    BY <2>1, <2>2, <2>3
  <2> QED
    BY <1>4, <2>4 DEF h, t, g
<1>6. ASSUME NEW i \in 1 .. Len(log), log[i].type = "entity", log[i].id \in Folded,
             log[i].n <= read'[log[i].src]
      PROVE  db'.transitions[log[i].id] # <<>>
  <2>1. log[i].src \in Sources /\ log[i].n \in Nat
    BY RecordOfSource
  <2>2. CASE log[i].n <= read[log[i].src]
    BY <1>5, <1>6, <2>2 DEF ReadKnown
  <2>3. CASE ~(log[i].n <= read[log[i].src])
    <3>1. log[i].src \in S /\ log[i].n > read[log[i].src]
      BY <1>2, <1>6, <2>1, <2>3 DEF ReadTyped
    <3>2. PICK k \in 1 .. Len(b) : b[k] = log[i]
      BY <3>1, ChangeSetHas DEF b
    <3>3. PICK j \in 1 .. Len(Group(b, b[k].id)) : Group(b, b[k].id)[j] = b[k]
      BY <1>0, <1>6, <3>2, GroupHas
    <3>4. Group(b, log[i].id) # <<>>
      BY <3>2, <3>3
    <3> QED
      BY <1>5, <1>6, <3>4
  <2> QED
    BY <2>2, <2>3
<1>7. ASSUME NEW e \in Folded, db'.transitions[e] # <<>> PROVE Known(e)'
  <2>1. CASE db.transitions[e] # <<>>
    BY <1>0, <2>1 DEF ReadKnown, Known
  <2>2. CASE Group(b, e) # <<>>
    <3>1. 1 \in 1 .. Len(Group(b, e))
      <4>1. Len(Group(b, e)) \in Nat /\ Len(Group(b, e)) > 0
        BY <1>0, <2>2, HistoryIs
      <4> QED
        BY <4>1
    <3>2. \E i \in 1 .. Len(log) : log[i].type = "entity" /\ log[i].id = e
      BY <3>1, GroupOf DEF b
    <3> QED
      BY <1>0, <3>2 DEF Known
  <2> QED
    BY <1>5, <1>7, <2>1, <2>2
<1>8. ReadKnown'
  BY <1>0, <1>6, <1>7 DEF ReadKnown
<1> QED
  BY <1>1, <1>3, <1>8

-----------------------------------------------------------------------------
(* The rows of tools, calls, components and allowances. *)

TablesTyped ==
    /\ db.tools \in [Tools -> Tool \cup {None}]
    /\ db.calls \in [Calls -> Call \cup {None}]
    /\ db.components \in [Components -> Component \cup {None}]
    /\ db.allowances \in [Places -> Observation \cup {None}]
    /\ db.tail.rows \in Nat

LEMMA GroupEnds ==
    ASSUME NEW b \in Seq(Observation), NEW e, Group(b, e) # <<>>
    PROVE  /\ Group(b, e)[1] \in Observation /\ Group(b, e)[Len(Group(b, e))] \in Observation
           /\ Len(Group(b, e)) \in Nat /\ Len(Group(b, e)) > 0
<1> DEFINE g == About(b, "entity", e)
<1>1. g = Group(b, e) /\ g \in Seq(Observation)
  BY AboutTyped DEF Group
<1> HIDE DEF g
<1>2. Len(g) \in Nat /\ Len(g) > 0
  BY <1>1
<1>3. g[Len(g)] \in Observation /\ g[1] \in Observation
  BY <1>1, <1>2
<1> QED
  BY <1>1, <1>2, <1>3

\* The elements of a finite set, one after the other.
LEMMA Enumerated ==
    ASSUME NEW T, IsFiniteSet(T)
    PROVE  LET f == SetToSeq(T)
               n == Cardinality(T)
           IN  /\ n \in Nat /\ f \in [1 .. n -> T] /\ Len(f) = n
               /\ \A i, j \in 1 .. n : f[i] = f[j] => i = j
               /\ \A x \in T : \E i \in 1 .. n : f[i] = x
<1> DEFINE n == Cardinality(T)
           f == SetToSeq(T)
<1>1. n \in Nat /\ \E g : g \in Bijection(1 .. n, T)
  BY FS_CardinalityType DEF ExistsBijection
<1>2. PICK g \in Bijection(1 .. n, T) : TRUE
  BY <1>1
<1>3. g \in [1 .. n -> T] /\ IsInjective(g)
  BY <1>2 DEF Bijection, Injection
<1>4. f \in [1 .. n -> T] /\ IsInjective(f)
  BY <1>3 DEF SetToSeq
<1> HIDE DEF f
<1>5. f \in Injection(1 .. n, T)
  BY <1>4 DEF Injection
<1>6. IsFiniteSet(1 .. n) /\ Cardinality(1 .. n) = n
  <2>1. /\ IsFiniteSet(1 .. n)
        /\ Cardinality(1 .. n) = IF 1 > n THEN 0 ELSE n - 1 + 1
    <3>1. 1 \in Int /\ n \in Int
      BY <1>1
    <3> HIDE DEF n
    <3> QED
      BY <3>1, FS_Interval
  <2> QED
    BY <1>1, <2>1
<1>7. f \in Surjection(1 .. n, T)
  <2>1. Cardinality(1 .. n) = Cardinality(T)
    BY <1>6
  <2> HIDE DEF n
  <2> QED
    BY <1>5, <1>6, <2>1, FS_Injection
<1>8. Len(f) = n
  <2>1. DOMAIN f = 1 .. n
    BY <1>4
  <2> HIDE DEF n
  <2> QED
    BY <1>1, <1>4, <2>1
<1>9. \A i, j \in 1 .. n : f[i] = f[j] => i = j
  BY <1>4 DEF IsInjective
<1>10. \A x \in T : \E i \in 1 .. n : f[i] = x
  BY <1>7 DEF Surjection
<1> QED
  BY <1>1, <1>4, <1>8, <1>9, <1>10 DEF f

LEMMA ObservedIsFinite ==
    ASSUME NEW b, NEW T, IsFiniteSet(T)
    PROVE  IsFiniteSet(Observed(b, T)) /\ Observed(b, T) \subseteq T
<1>1. Observed(b, T) \in SUBSET T
  BY DEF Observed
<1> QED
  BY <1>1, FS_Subset

\* The calls that a change set adds.
NewOnes(b) == Observed(b, Calls) \ There(db.calls)

\* A new call is numbered by its place among the new ones.
LEMMA Numbering ==
    ASSUME NEW b, TablesTyped
    PROVE  LET f == SetToSeq(NewOnes(b))
               n == Cardinality(NewOnes(b))
               number(c) == CHOOSE i \in 1 .. Len(f) : f[i] = c
           IN  /\ n \in Nat
               /\ \A c \in NewOnes(b) : /\ number(c) \in 1 .. n
                                        /\ Ordinals(db, b)[c] = db.tail.rows + number(c)
               /\ \A i \in 1 .. n : \E c \in NewOnes(b) : number(c) = i
               /\ \A c \in There(db.calls) : Ordinals(db, b)[c] = db.calls[c].ordinal
<1> DEFINE T == NewOnes(b)
           f == SetToSeq(T)
           n == Cardinality(T)
           number(c) == CHOOSE i \in 1 .. Len(f) : f[i] = c
<1>0. There(db.calls) = {c \in Calls : db.calls[c] # None}
  BY DEF There, TablesTyped
<1>1. IsFiniteSet(T) /\ T \subseteq Calls /\ \A c \in T : db.calls[c] = None /\ c \in Observed(b, Calls)
  <2>1. IsFiniteSet(Observed(b, Calls)) /\ Observed(b, Calls) \subseteq Calls
    BY RowsAssumption, ObservedIsFinite
  <2>2. T \in SUBSET Observed(b, Calls)
    BY DEF NewOnes
  <2>3. IsFiniteSet(T)
    BY <2>1, <2>2, FS_Subset
  <2> QED
    BY <1>0, <2>1, <2>2, <2>3 DEF NewOnes
<1> HIDE DEF T
<1>2. /\ n \in Nat /\ f \in [1 .. n -> T] /\ Len(f) = n
      /\ \A i, j \in 1 .. n : f[i] = f[j] => i = j
      /\ \A x \in T : \E i \in 1 .. n : f[i] = x
  BY <1>1, Enumerated
<1>3. \A c : number(c) = CHOOSE i \in 1 .. Len(f) : f[i] = c
  OBVIOUS
<1>4. ASSUME NEW c \in T PROVE number(c) \in 1 .. n /\ f[number(c)] = c
  <2>1. \E i \in 1 .. Len(f) : f[i] = c
    BY <1>2
  <2> QED
    BY <1>2, <2>1
<1>5. ASSUME NEW c \in T PROVE Ordinals(db, b)[c] = db.tail.rows + number(c)
  <2>1. c \in Calls /\ db.calls[c] = None /\ c \in Observed(b, Calls)
    BY <1>1
  <2>2. f = SetToSeq(Observed(b, Calls) \ There(db.calls))
    BY DEF T, NewOnes
  <2> HIDE DEF f
  <2> QED
    BY <2>1, <2>2 DEF Ordinals
<1>6. ASSUME NEW i \in 1 .. n PROVE \E c \in T : number(c) = i
  <2>1. f[i] \in T
    BY <1>2
  <2>2. number(f[i]) \in 1 .. n /\ f[number(f[i])] = f[i]
    BY <1>4, <2>1
  <2> HIDE DEF number, f
  <2> QED
    BY <1>2, <2>1, <2>2
<1>7. \A c \in There(db.calls) : Ordinals(db, b)[c] = db.calls[c].ordinal
  BY <1>0 DEF Ordinals
<1> HIDE DEF number
<1> QED
  BY <1>2, <1>3, <1>4, <1>5, <1>6, <1>7 DEF T, number

\* A tool as it is proposed.
LEMMA NewToolTyped ==
    ASSUME RowsTyped, NEW b \in Seq(Observation), NEW t \in Observed(b, Tools)
    PROVE  /\ ProposedTool(db, b, t) \in Tool
           /\ ProposedTool(db, b, t).state = Fold(db, b, t).state
           /\ ProposedTool(db, b, t).version = Fold(db, b, t).version
           /\ ProposedTool(db, b, t).end = Fold(db, b, t).end
           /\ ProposedTool(db, b, t).start = Group(b, t)[1].at
<1> DEFINE f == Fold(db, b, t)
           g == Group(b, t)
<1>1. t \in Folded /\ g # <<>>
  BY DEF Observed, Folded
<1>2. g[1] \in Observation /\ g[Len(g)] \in Observation
  BY <1>1, GroupEnds
<1>3. f.state \in Statuses /\ f.version \in Nat /\ f.end \in Time
  <2>1. History(db, b, t) \in Seq(Transition)
    BY <1>1, HistoryTyped
  <2>2. Len(History(db, b, t)) \in Nat
    BY <2>1
  <2> QED
    BY <2>1, <2>2, FoldTyped DEF Fold
<1> HIDE DEF f, g
<1>4. ProposedTool(db, b, t) = [state |-> f.state, version |-> f.version, end |-> f.end,
                                start |-> g[1].at, value |-> g[Len(g)].value]
  BY DEF ProposedTool, f, g
<1>5. g[1].at \in Nat /\ g[Len(g)].value \in Nat \cup {None}
  BY <1>2 DEF Observation
<1> QED
  BY <1>3, <1>4, <1>5 DEF Tool, f, g

\* The rows of tools after a publication.
LEMMA ToolsAre ==
    ASSUME RowsTyped, TablesTyped, NEW b \in Seq(Observation)
    PROVE  /\ NewTools(db, b) \in [Tools -> Tool \cup {None}]
           /\ There(NewTools(db, b)) = Observed(b, Tools) \cup There(db.tools)
           /\ \A t \in Tools \ Observed(b, Tools) : NewTools(db, b)[t] = db.tools[t]
           /\ \A t \in Observed(b, Tools) :
                 LET new == NewTools(db, b)[t]
                     proposed == ProposedTool(db, b, t)
                 IN  /\ new.state = proposed.state /\ new.version = proposed.version
                     /\ new.end = proposed.end
                     /\ new.start = IF db.tools[t] = None THEN proposed.start ELSE db.tools[t].start
<1> DEFINE new == NewTools(db, b)
           O == Observed(b, Tools)
<1>0. O \subseteq Tools /\ None \notin Tool /\ DOMAIN new = Tools
  BY AbsentAssumption DEF Observed, NewTools
<1>1. ASSUME NEW t \in Tools \ O PROVE new[t] = db.tools[t]
  BY DEF NewTools
<1>2. ASSUME NEW t \in O
      PROVE  /\ new[t] \in Tool
             /\ new[t].state = ProposedTool(db, b, t).state
             /\ new[t].version = ProposedTool(db, b, t).version
             /\ new[t].end = ProposedTool(db, b, t).end
             /\ new[t].start = IF db.tools[t] = None THEN ProposedTool(db, b, t).start ELSE db.tools[t].start
  <2> DEFINE p == ProposedTool(db, b, t)
             old == db.tools[t]
  <2>1. p \in Tool
    BY NewToolTyped
  <2>2. old \in Tool \cup {None}
    BY <1>0 DEF TablesTyped
  <2>3. new[t] = IF old = None THEN p ELSE [p EXCEPT !.start = old.start, !.value = old.value]
    BY <1>0 DEF NewTools
  <2> HIDE DEF new, p, old
  <2>4. CASE old = None
    BY <2>1, <2>3, <2>4 DEF p, old
  <2>5. CASE old # None
    <3>1. new[t] = [p EXCEPT !.start = old.start, !.value = old.value] /\ old \in Tool
      BY <2>2, <2>3, <2>5
    <3>2. /\ new[t] \in Tool /\ new[t].state = p.state /\ new[t].version = p.version
          /\ new[t].end = p.end /\ new[t].start = old.start
      BY <2>1, <3>1 DEF Tool
    <3> QED
      BY <2>5, <3>2 DEF p, old
  <2> QED
    BY <2>4, <2>5
<1> HIDE DEF new, O
<1>3. new \in [Tools -> Tool \cup {None}]
  <2>1. new = [t \in Tools |-> new[t]]
    BY DEF new, NewTools
  <2>2. \A t \in Tools : new[t] \in Tool \cup {None}
    BY <1>1, <1>2 DEF TablesTyped
  <2> QED
    BY <2>1, <2>2
<1>4. There(new) = O \cup There(db.tools)
  <2>1. There(db.tools) = {t \in Tools : db.tools[t] # None}
    BY DEF There, TablesTyped
  <2>2. There(new) = {t \in Tools : new[t] # None}
    BY <1>0 DEF There
  <2> QED
    BY <1>0, <1>1, <1>2, <2>1, <2>2
<1> QED
  BY <1>1, <1>2, <1>3, <1>4 DEF new, O

\* The rows of calls after a publication.
LEMMA CallsAre ==
    ASSUME RowsTyped, TablesTyped, NEW b \in Seq(Observation)
    PROVE  /\ NewCalls(db, b) \in [Calls -> Call \cup {None}]
           /\ There(NewCalls(db, b)) = Observed(b, Calls) \cup There(db.calls)
           /\ \A c \in Calls \ Observed(b, Calls) : NewCalls(db, b)[c] = db.calls[c]
           /\ \A c \in Observed(b, Calls) :
                 LET new == NewCalls(db, b)[c]
                 IN  /\ new.state = Fold(db, b, c).state /\ new.version = Fold(db, b, c).version
                     /\ new.value = Group(b, c)[Len(Group(b, c))].value
                     /\ new.ordinal = Ordinals(db, b)[c]
<1> DEFINE new == NewCalls(db, b)
           O == Observed(b, Calls)
<1>0. O \subseteq Calls /\ None \notin Call /\ DOMAIN new = Calls
  BY AbsentAssumption DEF Observed, NewCalls
<1>1. ASSUME NEW c \in Calls \ O PROVE new[c] = db.calls[c]
  BY DEF NewCalls
<1>2. ASSUME NEW c \in O
      PROVE  /\ new[c] \in Call
             /\ new[c].state = Fold(db, b, c).state /\ new[c].version = Fold(db, b, c).version
             /\ new[c].value = Group(b, c)[Len(Group(b, c))].value
             /\ new[c].ordinal = Ordinals(db, b)[c]
  <2> DEFINE f == Fold(db, b, c)
             last == Group(b, c)[Len(Group(b, c))]
             o == Ordinals(db, b)[c]
  <2>1. c \in Folded /\ Group(b, c) # <<>>
    BY DEF Observed, Folded
  <2>2. last \in Observation
    BY <2>1, GroupEnds
  <2>3. f.state \in Statuses /\ f.version \in Nat
    <3>1. History(db, b, c) \in Seq(Transition)
      BY <2>1, HistoryTyped
    <3>2. Len(History(db, b, c)) \in Nat
      BY <3>1
    <3> QED
      BY <3>1, <3>2, FoldTyped DEF Fold
  <2>4. o \in Nat
    <3>1. There(db.calls) = {k \in Calls : db.calls[k] # None} /\ db.tail.rows \in Nat
      BY DEF There, TablesTyped
    <3>2. CASE c \in There(db.calls)
      <4>1. o = db.calls[c].ordinal
        BY <3>2, Numbering
      <4>2. db.calls[c] \in Call
        BY <3>1, <3>2 DEF TablesTyped
      <4> QED
        BY <4>1, <4>2 DEF Call
    <3>3. CASE c \notin There(db.calls)
      <4>1. c \in NewOnes(b)
        BY <3>3 DEF NewOnes
      <4>2. \E i \in Nat : o = db.tail.rows + i
        BY <4>1, Numbering
      <4> QED
        BY <3>1, <4>2
    <3> QED
      BY <3>2, <3>3
  <2>5. new[c] = [state |-> f.state, version |-> f.version, at |-> last.at, value |-> last.value,
                  ordinal |-> o]
    BY <1>0 DEF NewCalls
  <2> HIDE DEF new, f, last, o
  <2>6. last.at \in Nat /\ last.value \in Nat \cup {None}
    BY <2>2 DEF Observation
  <2>7. new[c] \in Call
    BY <2>3, <2>4, <2>5, <2>6 DEF Call
  <2> QED
    BY <2>5, <2>7 DEF f, last, o
<1> HIDE DEF new, O
<1>3. new \in [Calls -> Call \cup {None}]
  <2>1. new = [c \in Calls |-> new[c]]
    BY DEF new, NewCalls
  <2>2. \A c \in Calls : new[c] \in Call \cup {None}
    BY <1>1, <1>2 DEF TablesTyped
  <2> QED
    BY <2>1, <2>2
<1>4. There(new) = O \cup There(db.calls)
  <2>1. There(db.calls) = {c \in Calls : db.calls[c] # None}
    BY DEF There, TablesTyped
  <2>2. There(new) = {c \in Calls : new[c] # None}
    BY <1>0 DEF There
  <2> QED
    BY <1>0, <1>1, <1>2, <2>1, <2>2
<1> QED
  BY <1>1, <1>2, <1>3, <1>4 DEF new, O

\* The rows of components after a publication.
LEMMA ComponentsAre ==
    ASSUME TablesTyped, NEW b \in Seq(Observation)
    PROVE  /\ NewComponents(db, b) \in [Components -> Component \cup {None}]
           /\ There(NewComponents(db, b)) = Observed(b, Components) \cup There(db.components)
<1> DEFINE new == NewComponents(db, b)
           O == Observed(b, Components)
<1>0. O \subseteq Components /\ None \notin Component /\ DOMAIN new = Components
  BY AbsentAssumption DEF Observed, NewComponents
<1>1. ASSUME NEW c \in Components \ O PROVE new[c] = db.components[c]
  BY DEF NewComponents
<1>2. ASSUME NEW c \in O PROVE new[c] \in Component
  <2> DEFINE last == Group(b, c)[Len(Group(b, c))]
  <2>1. Group(b, c) # <<>>
    BY DEF Observed
  <2>2. last \in Observation
    BY <2>1, GroupEnds
  <2>3. new[c] = [at |-> last.at, value |-> last.value]
    BY <1>0 DEF NewComponents
  <2> HIDE DEF new, last
  <2>4. last.at \in Nat /\ last.value \in Nat \cup {None}
    BY <2>2 DEF Observation
  <2> QED
    BY <2>3, <2>4 DEF Component
<1> HIDE DEF new, O
<1>3. new \in [Components -> Component \cup {None}]
  <2>1. new = [c \in Components |-> new[c]]
    BY DEF new, NewComponents
  <2>2. \A c \in Components : new[c] \in Component \cup {None}
    BY <1>1, <1>2 DEF TablesTyped
  <2> QED
    BY <2>1, <2>2
<1>4. There(new) = O \cup There(db.components)
  <2>1. There(db.components) = {c \in Components : db.components[c] # None}
    BY DEF There, TablesTyped
  <2>2. There(new) = {c \in Components : new[c] # None}
    BY <1>0 DEF There
  <2> QED
    BY <1>0, <1>1, <1>2, <2>1, <2>2
<1> QED
  BY <1>3, <1>4 DEF new, O

\* The rows of allowances after a publication.
LEMMA AllowancesAre ==
    ASSUME TablesTyped, NEW b \in Seq(Observation)
    PROVE  /\ NewAllowances(db, b) \in [Places -> Observation \cup {None}]
           /\ There(db.allowances) \subseteq There(NewAllowances(db, b))
<1> DEFINE new == NewAllowances(db, b)
           Told(p) == \E o \in AllowancesOf(b) : PlaceOf(o) = p
<1>0. AllowancesOf(b) \subseteq Observation /\ None \notin Observation
  <2>1. \A i \in DOMAIN b : b[i] \in Observation
    OBVIOUS
  <2> QED
    BY <2>1, AbsentAssumption DEF AllowancesOf, Range
<1>1. \A p \in Places : new[p] = IF Told(p) THEN CHOOSE o \in AllowancesOf(b) : PlaceOf(o) = p
                                 ELSE db.allowances[p]
  BY DEF NewAllowances
<1>2. \A p \in Places : Told(p) => (CHOOSE o \in AllowancesOf(b) : PlaceOf(o) = p) \in AllowancesOf(b)
  OBVIOUS
<1>3. new = [p \in Places |-> new[p]]
  BY DEF NewAllowances
<1> HIDE DEF new, Told
<1>4. \A p \in Places : new[p] = db.allowances[p] \/ new[p] \in Observation
  BY <1>0, <1>1, <1>2
<1>5. new \in [Places -> Observation \cup {None}]
  BY <1>3, <1>4 DEF TablesTyped
<1>6. There(db.allowances) = {p \in Places : db.allowances[p] # None}
  BY DEF There, TablesTyped
<1>7. There(new) = {p \in Places : new[p] # None}
  BY <1>5 DEF There
<1> QED
  BY <1>0, <1>4, <1>5, <1>6, <1>7 DEF new

-----------------------------------------------------------------------------
(* The rows are the folds of their transitions. *)

\* A row is there when it has transitions, and is their fold.
Standing(row, e) ==
    LET fold == FoldOf(db.transitions[e])
    IN  /\ row # None <=> db.transitions[e] # <<>>
        /\ row # None => fold.ok /\ row.state = fold.state /\ row.version = fold.version

\* Every row is the fold of its transitions. The start of a tool is that of its first
\* publication, which is that of the fold if the start is always recorded first.
FoldsStand ==
    /\ \A s \in Sessions :
          /\ Standing(db.sessions[s], s)
          /\ db.sessions[s] # None =>
                LET fold == FoldOf(db.transitions[s])
                IN  db.sessions[s].start = fold.start /\ db.sessions[s].end = fold.end
    /\ \A t \in Tools :
          /\ Standing(db.tools[t], t)
          /\ db.tools[t] # None =>
                /\ db.tools[t].end = FoldOf(db.transitions[t]).end
                /\ "tool" \in world.kinds =>
                     /\ db.transitions[t][1].state = "running"
                     /\ db.tools[t].start = db.transitions[t][1].at
    /\ \A c \in Calls : Standing(db.calls[c], c)

\* The facts of a publication that the lemmas below need.
Publishing(b) ==
    /\ b \in Seq(Observation)
    /\ db'.transitions = [e \in Folded |-> History(db, b, e)]
    /\ db'.sessions = NewSessions(db, b) /\ db'.tools = NewTools(db, b)
    /\ db'.calls = NewCalls(db, b) /\ db'.components = NewComponents(db, b)
    /\ db'.allowances = NewAllowances(db, b)
    /\ db'.tail = CallTail(db, b) /\ db'.counts = NewCounts(db, Proposed(db, b))
    /\ db'.delta = Delta(db, Proposed(db, b))
    /\ FoldsHold(db, b) /\ world' = world

\* A publication gives the facts of Publishing.
LEMMA PublishIs ==
    ASSUME LogInv, ReadTyped, NEW S \in SUBSET Sources, Publish(S)
    PROVE  Publishing(ChangeSet(S))
<1>1. ChangeSet(S) \in Seq(Observation)
  BY ChangeSetTyped
<1>2. /\ db' = Applied(db, ChangeSet(S)) /\ FoldsHold(db, ChangeSet(S)) /\ world' = world
  BY DEF Publish, Publishable, Accepts
<1> HIDE DEF Publish
<1> QED
  BY <1>1, <1>2 DEF Publishing, Applied, Proposed

\* An entity that is observed has the fold of its history, which goes on.
LEMMA Goes ==
    ASSUME RowsTyped, NEW b, Publishing(b), NEW e \in Folded
    PROVE  /\ Group(b, e) # <<>> =>
                /\ db'.transitions[e] # <<>> /\ FoldOf(db'.transitions[e]) = Fold(db, b, e)
                /\ Fold(db, b, e).ok
                /\ Fold(db, b, e).version > Len(db.transitions[e])
           /\ Group(b, e) = <<>> => db'.transitions[e] = db.transitions[e]
<1> DEFINE h == History(db, b, e)
           t == db.transitions[e]
           g == Group(b, e)
<1>1. /\ Len(t) \in Nat /\ Len(g) \in Nat /\ Len(h) = Len(t) + Len(g)
      /\ (g = <<>> => h = t) /\ (g # <<>> => Len(g) > 0)
  BY HistoryIs DEF Publishing
<1>2. db'.transitions[e] = h
  BY DEF Publishing
<1>3. g # <<>> => Fold(db, b, e).ok
  BY DEF Publishing, FoldsHold, Observed
<1>4. FoldOf(h) = Fold(db, b, e)
  BY DEF Fold
<1>5. FoldOf(h).version = Len(h)
  <2>1. h \in Seq(Transition)
    BY HistoryTyped DEF Publishing
  <2> HIDE DEF h
  <2> QED
    BY <2>1, FoldTyped
<1> HIDE DEF h, t, g
<1>6. g # <<>> => h # <<>>
  <2>1. Len(<<>>) = 0
    OBVIOUS
  <2> QED
    BY <1>1, <2>1
<1> QED
  BY <1>1, <1>2, <1>3, <1>4, <1>5, <1>6 DEF h, t, g

\* A row of a session is the fold of its transitions after a publication.
LEMMA SessionsStand ==
    ASSUME RowsTyped, FoldsStand, NEW b, Publishing(b), NEW s \in Sessions
    PROVE  /\ Standing(db.sessions[s], s)'
           /\ db'.sessions[s] # None =>
                LET fold == FoldOf(db'.transitions[s])
                IN  db'.sessions[s].start = fold.start /\ db'.sessions[s].end = fold.end
<1> DEFINE A == Available(db, b)
           new == NewSessions(db, b)[s]
           old == db.sessions[s]
           f == FoldOf(db'.transitions[s])
<1>0. s \in Folded /\ b \in Seq(Observation) /\ db'.sessions[s] = new /\ None \notin Session
  BY AbsentAssumption DEF Folded, Publishing
<1>1. old # None => old \in Session
  BY DEF RowsTyped
<1>2. CASE s \in Observed(b, Sessions)
  <2>1. /\ db'.transitions[s] # <<>> /\ f = Fold(db, b, s) /\ f.ok
    BY <1>0, <1>2, Goes DEF Observed
  <2>2. s \in A
    BY <1>2 DEF Available
  <2>3. new \in Session /\ new = SessionRow(db, b, NewParents(db, b), s)
    BY <1>0, <2>2, NewRowTyped
  <2> HIDE DEF new
  <2>4. new.state = f.state /\ new.version = f.version /\ new.start = f.start /\ new.end = f.end
    BY <1>2, <2>1, <2>3 DEF SessionRow
  <2> HIDE DEF f
  <2> QED
    BY <1>0, <2>1, <2>3, <2>4 DEF Standing, f
<1>3. CASE s \notin Observed(b, Sessions)
  <2>1. db'.transitions[s] = db.transitions[s]
    BY <1>0, <1>3, Goes DEF Observed
  <2>2. /\ (old # None <=> db.transitions[s] # <<>>)
        /\ old # None => f.ok /\ old.state = f.state /\ old.version = f.version
                         /\ old.start = f.start /\ old.end = f.end
    BY <2>1 DEF FoldsStand, Standing
  <2>3. CASE s \in A
    <3>1. old # None
      BY <1>0, <1>3, <2>3, AvailableAre, OldParents DEF Available
    <3>2. new \in Session /\ new = SessionRow(db, b, NewParents(db, b), s)
      BY <1>0, <2>3, NewRowTyped
    <3> HIDE DEF new, old
    <3>3. new.state = old.state /\ new.version = old.version /\ new.start = old.start /\ new.end = old.end
      BY <1>3, <3>2 DEF SessionRow, old
    <3> HIDE DEF f
    <3> QED
      BY <1>0, <2>1, <2>2, <3>1, <3>2, <3>3 DEF Standing, f
  <2>4. CASE s \notin A
    <3>1. new = old
      BY <1>0, <2>4, SessionsTyped
    <3> HIDE DEF f, new, old
    <3> QED
      BY <1>0, <2>1, <2>2, <3>1 DEF Standing, f
  <2> QED
    BY <2>3, <2>4
<1> QED
  BY <1>2, <1>3

\* So is that of a call.
LEMMA CallsStand ==
    ASSUME RowsTyped, TablesTyped, FoldsStand, NEW b, Publishing(b), NEW c \in Calls
    PROVE  Standing(db.calls[c], c)'
<1> DEFINE new == NewCalls(db, b)[c]
           old == db.calls[c]
           f == FoldOf(db'.transitions[c])
<1>0. c \in Folded /\ b \in Seq(Observation) /\ db'.calls[c] = new /\ None \notin Call
  BY AbsentAssumption DEF Folded, Publishing
<1>1. CASE c \in Observed(b, Calls)
  <2>1. db'.transitions[c] # <<>> /\ f = Fold(db, b, c) /\ f.ok
    BY <1>0, <1>1, Goes DEF Observed
  <2>2. new.state = f.state /\ new.version = f.version
    BY <1>0, <1>1, <2>1, CallsAre
  <2>3. new # None
    <3>1. c \in There(NewCalls(db, b))
      BY <1>0, <1>1, CallsAre
    <3> QED
      BY <3>1 DEF There
  <2> HIDE DEF f, new
  <2> QED
    BY <1>0, <2>1, <2>2, <2>3 DEF Standing, f
<1>2. CASE c \notin Observed(b, Calls)
  <2>1. db'.transitions[c] = db.transitions[c]
    BY <1>0, <1>2, Goes DEF Observed
  <2>2. new = old
    BY <1>0, <1>2, CallsAre
  <2>3. /\ (old # None <=> db.transitions[c] # <<>>)
        /\ old # None => f.ok /\ old.state = f.state /\ old.version = f.version
    BY <2>1 DEF FoldsStand, Standing
  <2> HIDE DEF f, new, old
  <2> QED
    BY <1>0, <2>1, <2>2, <2>3 DEF Standing, f
<1> QED
  BY <1>1, <1>2

\* A tool is published with the record of its start first.
LEMMA ToolBegins ==
    ASSUME LogInv, ReadTyped, LogKinds, ReadKnown, RowsTyped, FoldsStand, TablesTyped,
           NEW S \in SUBSET Sources, Publish(S),
           NEW t \in Tools, t \in Observed(ChangeSet(S), Tools), db.tools[t] = None,
           "tool" \in world.kinds
    PROVE  /\ db'.transitions[t][1].state = "running"
           /\ db'.transitions[t][1].at = Group(ChangeSet(S), t)[1].at
<1> DEFINE b == ChangeSet(S)
           g == Group(b, t)
           h == db'.transitions[t]
<1>0. t \in Folded /\ g # <<>> /\ Publishing(b) /\ b \in Seq(Observation)
  BY PublishIs, ChangeSetTyped DEF Folded, Observed
<1>1. db.transitions[t] = <<>>
  BY DEF FoldsStand, Standing
<1>2. /\ Len(db.transitions[t]) = 0 /\ Len(g) \in Nat /\ Len(g) > 0 /\ Len(History(db, b, t)) = Len(g)
      /\ \A i \in 1 .. Len(g) : /\ History(db, b, t)[0 + i].state = g[i].state
                                /\ History(db, b, t)[0 + i].at = g[i].at
  <2>1. Len(db.transitions[t]) = 0
    BY <1>1
  <2> QED
    BY <1>0, <2>1, HistoryIs
<1>3. h = History(db, b, t)
  BY <1>0 DEF Publishing
<1>4. h \in Seq(Transition) /\ FoldOf(h).ok
  <2>1. h \in Seq(Transition)
    BY <1>0, <1>3, HistoryTyped
  <2>2. FoldOf(h) = Fold(db, b, t) /\ Fold(db, b, t).ok
    BY <1>0, Goes
  <2> QED
    BY <2>1, <2>2
<1>5. ASSUME NEW j \in 1 .. Len(g)
      PROVE  \E i \in 1 .. Len(log) : g[j] = log[i] /\ log[i].type = "entity" /\ log[i].id = t
  BY GroupOf
<1> HIDE DEF g, h, b
<1>6. Len(h) = Len(g) /\ \A i \in 1 .. Len(g) : h[i].state = g[i].state /\ h[i].at = g[i].at
  BY <1>2, <1>3
<1>7. 1 \in 1 .. Len(g)
  BY <1>2
<1>8. PICK i \in 1 .. Len(log) : g[1] = log[i] /\ log[i].type = "entity" /\ log[i].id = t
  BY <1>5, <1>7
<1>9. RecordOk(log[i])
  BY DEF LogKinds
<1>10. ASSUME g[1].state # "running" PROVE FALSE
  <2>1. g[1].state = "succeeded" /\ Runs(log[i])
    BY <1>8, <1>9, <1>10 DEF RecordOk
  <2>2. PICK j \in 1 .. Len(log) : /\ log[j].type = "entity" /\ log[j].state = "running"
                                   /\ log[j].id = t /\ log[j].src = log[i].src
    BY <1>8, <2>1 DEF Runs
  <2>3. log[j].src \in S /\ log[j].n > read[log[j].src]
    <3>1. log[j].n \in Nat /\ log[j].src \in Sources
      BY RecordOfSource
    <3>2. \A k \in 1 .. Len(b) : b[k].src \in S
      <4> DEFINE C == UNION {Range(Unread(s)) : s \in S}
      <4>1. \A o \in C : o.src \in S
        <5>1. ASSUME NEW s \in S, NEW o \in Range(Unread(s)) PROVE o.src = s
          BY UnreadAre DEF Range
        <5> QED
          BY <5>1
      <4>2. C \in SUBSET LogRecords
        BY ChangeSetIs
      <4> HIDE DEF C
      <4>3. C \in SUBSET Observation /\ IsFiniteSet(C) /\ Distinct(C)
        BY <4>2, SomeRecords
      <4>4. \A k \in 1 .. Len(Sorted(C)) : Sorted(C)[k] \in C
        BY <4>3, SortedFrom
      <4> QED
        BY <4>1, <4>4 DEF b, ChangeSet, C
    <3>3. PICK k \in 1 .. Len(b) : g[1] = b[k]
      BY <1>0, <1>7, AboutTyped DEF g, Group
    <3>4. log[i].src \in S
      BY <1>8, <3>2, <3>3
    <3>5. ~(log[j].n <= read[log[j].src])
      BY <1>0, <1>1, <2>2 DEF ReadKnown
    <3>6. read[log[j].src] \in Nat
      BY <3>1 DEF ReadTyped
    <3> QED
      BY <2>2, <3>1, <3>4, <3>5, <3>6
  <2>4. PICK k \in 1 .. Len(b) : b[k] = log[j]
    BY <2>3, ChangeSetHas DEF b
  <2>5. PICK l \in 1 .. Len(g) : g[l] = b[k]
    BY <1>0, <2>2, <2>4, GroupHas DEF g
  <2>6. h[1].state = "succeeded" /\ Len(h) > 0 /\ l \in 1 .. Len(h) /\ h[l].state = "running"
    BY <1>2, <1>6, <1>7, <2>1, <2>2, <2>4, <2>5
  <2>7. h[l].state = "succeeded"
    BY <1>4, <2>6, NothingAfterTheEnd
  <2> QED
    BY <2>6, <2>7
<1> QED
  BY <1>6, <1>7, <1>10 DEF h, g, b

\* So is that of a tool, which starts with its first transition.
LEMMA ToolsStand ==
    ASSUME LogInv, ReadTyped, LogKinds, ReadKnown, RowsTyped, FoldsStand, TablesTyped,
           NEW S \in SUBSET Sources, Publish(S), NEW t \in Tools
    PROVE  /\ Standing(db.tools[t], t)'
           /\ db'.tools[t] # None =>
                /\ db'.tools[t].end = FoldOf(db'.transitions[t]).end
                /\ "tool" \in world'.kinds =>
                     /\ db'.transitions[t][1].state = "running"
                     /\ db'.tools[t].start = db'.transitions[t][1].at
<1> DEFINE b == ChangeSet(S)
           new == NewTools(db, b)[t]
           p == ProposedTool(db, b, t)
           old == db.tools[t]
           f == FoldOf(db'.transitions[t])
<1>0. /\ t \in Folded /\ b \in Seq(Observation) /\ db'.tools[t] = new /\ world' = world
      /\ Publishing(b)
  BY PublishIs, ChangeSetTyped DEF Folded, Publishing
<1>1. /\ (old # None <=> db.transitions[t] # <<>>)
      /\ old # None /\ "tool" \in world.kinds => /\ db.transitions[t][1].state = "running"
                                                  /\ old.start = db.transitions[t][1].at
  BY DEF FoldsStand, Standing
<1>2. CASE t \in Observed(b, Tools)
  <2>1. db'.transitions[t] # <<>> /\ f = Fold(db, b, t) /\ f.ok
    BY <1>0, <1>2, Goes DEF Observed
  <2>2. /\ new.state = f.state /\ new.version = f.version /\ new.end = f.end
        /\ new.start = IF old = None THEN Group(b, t)[1].at ELSE old.start
    BY <1>0, <1>2, <2>1, ToolsAre, NewToolTyped
  <2>3. new # None
    <3>1. t \in There(NewTools(db, b))
      BY <1>0, <1>2, ToolsAre
    <3> QED
      BY <3>1 DEF There
  <2>4. "tool" \in world.kinds =>
          db'.transitions[t][1].state = "running" /\ new.start = db'.transitions[t][1].at
    <3> SUFFICES ASSUME "tool" \in world.kinds
                 PROVE  db'.transitions[t][1].state = "running" /\ new.start = db'.transitions[t][1].at
      OBVIOUS
    <3>1. CASE old = None
      BY <1>2, <2>2, <3>1, ToolBegins
    <3>2. CASE old # None
      <4>1. db'.transitions[t][1] = db.transitions[t][1]
        <5>1. db.transitions[t] \in Seq(Transition) /\ db.transitions[t] # <<>>
          BY <1>0, <1>1, <3>2 DEF RowsTyped
        <5>2. 1 \in 1 .. Len(db.transitions[t])
          BY <5>1
        <5>3. History(db, b, t)[1] = db.transitions[t][1]
          BY <1>0, <5>2, HistoryIs
        <5> QED
          BY <1>0, <5>3 DEF Publishing
      <4> QED
        BY <1>1, <2>2, <3>2, <4>1
    <3> QED
      BY <3>1, <3>2
  <2> HIDE DEF f, new, old
  <2> QED
    BY <1>0, <2>1, <2>2, <2>3, <2>4 DEF Standing, f
<1>3. CASE t \notin Observed(b, Tools)
  <2>1. db'.transitions[t] = db.transitions[t]
    BY <1>0, <1>3, Goes DEF Observed
  <2>2. new = old
    BY <1>0, <1>3, ToolsAre
  <2>3. old # None => f.ok /\ old.state = f.state /\ old.version = f.version /\ old.end = f.end
    BY <2>1 DEF FoldsStand, Standing
  <2> HIDE DEF f, new, old
  <2> QED
    BY <1>0, <1>1, <2>1, <2>2, <2>3 DEF Standing, f
<1> QED
  BY <1>2, <1>3

LEMMA FoldsPublished ==
    ASSUME LogInv, ReadTyped, LogKinds, ReadKnown, RowsTyped, FoldsStand, TablesTyped,
           NEW S \in SUBSET Sources, Publish(S)
    PROVE  FoldsStand'
<1>1. Publishing(ChangeSet(S))
  BY PublishIs
<1>2. \A s \in Sessions :
          /\ Standing(db.sessions[s], s)'
          /\ db'.sessions[s] # None =>
                LET fold == FoldOf(db'.transitions[s])
                IN  db'.sessions[s].start = fold.start /\ db'.sessions[s].end = fold.end
  BY <1>1, SessionsStand
<1>3. \A c \in Calls : Standing(db.calls[c], c)'
  BY <1>1, CallsStand
<1>4. \A t \in Tools :
          /\ Standing(db.tools[t], t)'
          /\ db'.tools[t] # None =>
                /\ db'.tools[t].end = FoldOf(db'.transitions[t]).end
                /\ "tool" \in world'.kinds =>
                     /\ db'.transitions[t][1].state = "running"
                     /\ db'.tools[t].start = db'.transitions[t][1].at
  BY ToolsStand
<1> QED
  BY <1>2, <1>3, <1>4 DEF FoldsStand

-----------------------------------------------------------------------------
(* The counts are those of the rows. *)

\* The count of a table.
Counted(k) == IF k \in DOMAIN db.counts THEN db.counts[k] ELSE 0

\* The counts are those of all tables.
CountsStand ==
    /\ DOMAIN db.counts \subseteq Tables
    /\ \A k \in DOMAIN db.counts : db.counts[k] \in Nat /\ db.counts[k] > 0
    /\ \A k \in Tables : Cardinality(There(db[k])) = Counted(k)
    /\ There(db.components) # {} => "component" \in world.kinds

\* New rows and those that were there are all rows.
Fresh(old, new) == {e \in There(new) : old[e] = None}

LEMMA RowsAdd ==
    ASSUME NEW T, IsFiniteSet(T), NEW old, NEW new, DOMAIN old = T, DOMAIN new = T,
           There(old) \subseteq There(new)
    PROVE  /\ Cardinality(There(new)) = Cardinality(Fresh(old, new)) + Cardinality(There(old))
           /\ Cardinality(Fresh(old, new)) \in Nat /\ Cardinality(There(old)) \in Nat
<1> DEFINE added == Fresh(old, new)
<1>1. There(new) \in SUBSET T /\ There(old) \in SUBSET T /\ added \in SUBSET T
  BY DEF There, Fresh
<1>2. There(new) = added \cup There(old) /\ added \cap There(old) = {}
  BY DEF There, Fresh
<1> HIDE DEF added
<1>3. IsFiniteSet(added) /\ IsFiniteSet(There(old))
  BY <1>1, FS_Subset
<1>4. Cardinality(added \cup There(old)) =
        Cardinality(added) + Cardinality(There(old)) - Cardinality(added \cap There(old))
  BY <1>3, FS_Union
<1>5. Cardinality(added \cap There(old)) = 0
  BY <1>2, FS_EmptySet
<1>6. Cardinality(added) \in Nat /\ Cardinality(There(old)) \in Nat
  BY <1>3, SizeIsNat
<1>7. Cardinality(added \cup There(old)) = Cardinality(added) + Cardinality(There(old))
  BY <1>4, <1>5, <1>6
<1> QED
  BY <1>2, <1>6, <1>7 DEF added

LEMMA PlacesAreFinite == ASSUME LogInv PROVE IsFiniteSet(Places)
<1>1. world.records \in Nat
  <2>1. world \in Worlds
    BY DEF LogInv, LogTyped
  <2> QED
    BY <2>1, RowsAssumption
<1>2. IsFiniteSet(1 .. world.records) /\ IsFiniteSet(Sources)
  BY <1>1, FS_Interval, RowsAssumption
<1> QED
  BY <1>2, FS_Product DEF Places

\* The tables before and after, and as they are proposed.
LEMMA TablesGrow ==
    ASSUME LogInv, RowsTyped, TablesTyped, NEW b, Publishing(b), NEW k \in Tables
    PROVE  \E T : /\ IsFiniteSet(T) /\ DOMAIN db[k] = T /\ DOMAIN Proposed(db, b)[k] = T
                  /\ There(db[k]) \subseteq There(Proposed(db, b)[k])
                  /\ There(db'[k]) = There(Proposed(db, b)[k])
<1> DEFINE rows == Proposed(db, b)
<1>0. b \in Seq(Observation)
  BY DEF Publishing
<1>1. /\ rows["sessions"] = NewSessions(db, b) /\ rows["calls"] = NewCalls(db, b)
      /\ rows["components"] = NewComponents(db, b) /\ rows["allowances"] = NewAllowances(db, b)
      /\ rows["tools"] = [t \in Tools |-> IF t \in Observed(b, Tools) THEN ProposedTool(db, b, t)
                                          ELSE db.tools[t]]
  BY DEF Proposed
<1>2. /\ db'["sessions"] = NewSessions(db, b) /\ db'["calls"] = NewCalls(db, b)
      /\ db'["components"] = NewComponents(db, b) /\ db'["allowances"] = NewAllowances(db, b)
      /\ db'["tools"] = NewTools(db, b)
  BY DEF Publishing
<1>3. /\ IsFiniteSet(Sessions) /\ IsFiniteSet(Tools) /\ IsFiniteSet(Calls)
      /\ IsFiniteSet(Components) /\ IsFiniteSet(Places)
  BY SessionsAssumption, RowsAssumption, PlacesAreFinite
<1>4. CASE k = "sessions"
  <2>1. DOMAIN db[k] = Sessions
    BY <1>4 DEF RowsTyped
  <2>2. /\ DOMAIN NewSessions(db, b) = Sessions
        /\ There(db[k]) \subseteq There(NewSessions(db, b))
    BY <1>0, <1>4, SessionsTyped
  <2> HIDE DEF rows
  <2> QED
    BY <1>1, <1>2, <1>3, <1>4, <2>1, <2>2 DEF rows
<1>5. CASE k = "calls"
  <2>1. DOMAIN db[k] = Calls
    BY <1>5 DEF TablesTyped
  <2>2. /\ DOMAIN NewCalls(db, b) = Calls
        /\ There(db[k]) \subseteq There(NewCalls(db, b))
    BY <1>0, <1>5, CallsAre
  <2> HIDE DEF rows
  <2> QED
    BY <1>1, <1>2, <1>3, <1>5, <2>1, <2>2 DEF rows
<1>6. CASE k = "components"
  <2>1. DOMAIN db[k] = Components
    BY <1>6 DEF TablesTyped
  <2>2. /\ DOMAIN NewComponents(db, b) = Components
        /\ There(db[k]) \subseteq There(NewComponents(db, b))
    BY <1>0, <1>6, ComponentsAre
  <2> HIDE DEF rows
  <2> QED
    BY <1>1, <1>2, <1>3, <1>6, <2>1, <2>2 DEF rows
<1>7. CASE k = "allowances"
  <2>1. DOMAIN db[k] = Places
    BY <1>7 DEF TablesTyped
  <2>2. /\ DOMAIN NewAllowances(db, b) = Places
        /\ There(db[k]) \subseteq There(NewAllowances(db, b))
    BY <1>0, <1>7, AllowancesAre
  <2> HIDE DEF rows
  <2> QED
    BY <1>1, <1>2, <1>3, <1>7, <2>1, <2>2 DEF rows
<1>8. CASE k = "tools"
  <2>1. DOMAIN db[k] = Tools
    BY <1>8 DEF TablesTyped
  <2> DEFINE p == [t \in Tools |-> IF t \in Observed(b, Tools) THEN ProposedTool(db, b, t)
                                   ELSE db.tools[t]]
  <2>2. There(db[k]) = {t \in Tools : db.tools[t] # None}
    BY <1>8, <2>1 DEF There
  <2>3. Observed(b, Tools) \subseteq Tools
    BY DEF Observed
  <2>4. \A t \in Observed(b, Tools) : p[t] \in Tool
    BY <1>0, <2>3, NewToolTyped
  <2>5. There(p) = Observed(b, Tools) \cup There(db[k])
    <3>1. None \notin Tool
      BY AbsentAssumption
    <3>2. DOMAIN p = Tools /\ \A t \in Tools \ Observed(b, Tools) : p[t] = db.tools[t]
      OBVIOUS
    <3> HIDE DEF p
    <3> QED
      BY <2>2, <2>3, <2>4, <3>1, <3>2 DEF There
  <2>6. There(NewTools(db, b)) = Observed(b, Tools) \cup There(db[k])
    BY <1>0, <1>8, ToolsAre
  <2>7. DOMAIN p = Tools
    OBVIOUS
  <2> HIDE DEF rows, p
  <2> QED
    BY <1>1, <1>2, <1>3, <1>8, <2>1, <2>5, <2>6, <2>7 DEF rows, p
<1> QED
  BY <1>4, <1>5, <1>6, <1>7, <1>8 DEF Tables

\* A publication counts on from the counts that are published.
LEMMA CountsPublished ==
    ASSUME LogInv, ReadTyped, LogKinds, RowsTyped, TablesTyped, CountsStand,
           NEW S \in SUBSET Sources, Publish(S)
    PROVE  CountsStand'
<1> DEFINE b == ChangeSet(S)
           rows == Proposed(db, b)
           old == DOMAIN db.counts
<1>0. Publishing(b) /\ b \in Seq(Observation) /\ world' = world /\ db'.counts = NewCounts(db, rows)
  BY PublishIs DEF Publishing
<1> HIDE DEF b, rows
<1>1. ASSUME NEW k \in Tables
      PROVE  /\ Inserted(db, rows, k) \in Nat
             /\ Cardinality(There(db'[k])) = Inserted(db, rows, k) + Counted(k)
             /\ Counted(k) \in Nat
  <2>1. PICK T : /\ IsFiniteSet(T) /\ DOMAIN db[k] = T /\ DOMAIN rows[k] = T
                 /\ There(db[k]) \subseteq There(rows[k])
                 /\ There(db'[k]) = There(rows[k])
    BY <1>0, TablesGrow DEF rows
  <2>2. /\ Cardinality(There(rows[k])) = Inserted(db, rows, k) + Cardinality(There(db[k]))
        /\ Inserted(db, rows, k) \in Nat /\ Cardinality(There(db[k])) \in Nat
    <3>1. Inserted(db, rows, k) = Cardinality(Fresh(db[k], rows[k]))
      BY DEF Inserted, Fresh
    <3> QED
      BY <2>1, <3>1, RowsAdd
  <2>3. Cardinality(There(db[k])) = Counted(k)
    BY DEF CountsStand
  <2> QED
    BY <2>1, <2>2, <2>3
<1>2. /\ DOMAIN db'.counts = old \cup {k \in Tables : Inserted(db, rows, k) > 0}
      /\ \A k \in DOMAIN db'.counts : db'.counts[k] = Inserted(db, rows, k) + Counted(k)
  BY <1>0 DEF NewCounts, Counted
<1>3. old \subseteq Tables /\ \A k \in old : Counted(k) \in Nat /\ Counted(k) > 0
  BY DEF CountsStand, Counted
<1>4. DOMAIN db'.counts \subseteq Tables
  BY <1>2, <1>3
<1>5. ASSUME NEW k \in DOMAIN db'.counts PROVE db'.counts[k] \in Nat /\ db'.counts[k] > 0
  <2>1. k \in Tables /\ Inserted(db, rows, k) \in Nat /\ Counted(k) \in Nat
    BY <1>1, <1>4
  <2>2. Inserted(db, rows, k) > 0 \/ Counted(k) > 0
    BY <1>2, <1>3
  <2>3. db'.counts[k] = Inserted(db, rows, k) + Counted(k)
    BY <1>2
  <2> QED
    BY <2>1, <2>2, <2>3
<1>6. ASSUME NEW k \in Tables PROVE Cardinality(There(db'[k])) = Counted(k)'
  <2>1. CASE k \in DOMAIN db'.counts
    BY <1>1, <1>2, <2>1 DEF Counted
  <2>2. CASE k \notin DOMAIN db'.counts
    <3>1. Inserted(db, rows, k) = 0 /\ k \notin old
      BY <1>1, <1>2, <2>2
    <3>2. Counted(k) = 0
      BY <3>1 DEF Counted
    <3> QED
      BY <1>1, <2>2, <3>1, <3>2 DEF Counted
  <2> QED
    BY <2>1, <2>2
<1>7. There(db'.components) # {} => "component" \in world'.kinds
  <2>1. There(db'.components) = Observed(b, Components) \cup There(db.components)
    BY <1>0, ComponentsAre DEF Publishing
  <2>2. ASSUME NEW c \in Observed(b, Components) PROVE "component" \in world.kinds
    <3>1. Group(b, c) # <<>> /\ c \in Components
      BY DEF Observed
    <3>2. 1 \in 1 .. Len(Group(b, c))
      <4>1. Len(Group(b, c)) \in Nat /\ Len(Group(b, c)) > 0
        BY <1>0, <3>1, GroupEnds
      <4> QED
        BY <4>1
    <3>3. PICK i \in 1 .. Len(log) : log[i].id = c
      BY <3>2, GroupOf DEF b
    <3> QED
      BY <3>1, <3>3 DEF LogKinds, RecordOk
  <2> QED
    BY <1>0, <2>1, <2>2 DEF CountsStand
<1> QED
  BY <1>4, <1>5, <1>6, <1>7 DEF CountsStand

\* Without components, the counts are those the validation asks for.
LEMMA CountsSuffice ==
    ASSUME CountsStand, "component" \notin world.kinds
    PROVE  CountsReconcile
<1>1. Cardinality(There(db.components)) = 0
  BY FS_EmptySet DEF CountsStand
<1>2. Cardinality(There(db.components)) = Counted("components")
  <2>1. "components" \in Tables /\ db.components = db["components"]
    BY DEF Tables
  <2> QED
    BY <2>1 DEF CountsStand
<1>3. "components" \notin DOMAIN db.counts
  BY <1>1, <1>2 DEF CountsStand, Counted
<1> QED
  BY <1>3 DEF CountsStand, CountsReconcile, Counted, Tables

-----------------------------------------------------------------------------
(* The tail of calls: its bounds, and the ordinals. *)

LEMMA MinIs ==
    ASSUME NEW S \in SUBSET Nat, S # {}
    PROVE  Min(S) \in S /\ \A m \in S : Min(S) <= m
<1>1. \E n \in S : \A m \in S : n <= m
  BY Least
<1> QED
  BY <1>1 DEF Min

LEMMA MaxIs ==
    ASSUME NEW S \in SUBSET Nat, IsFiniteSet(S), S # {}
    PROVE  Max(S) \in S /\ \A m \in S : m <= Max(S)
<1> DEFINE n == Cardinality(S)
<1>1. n \in Nat /\ n > 0
  BY FS_EmptySet, SizeIsNat
<1>2. Linear(S, Below(S))
  <2>1. S \in SUBSET Int
    OBVIOUS
  <2> QED
    BY <2>1, BelowIsLinear
<1>3. PICK x \in S : Rank(S, Below(S), x) = n - 1
  <2>1. n \in 1 .. n
    BY <1>1
  <2> QED
    BY <1>2, <2>1, Numbered
<1>4. ASSUME NEW y \in S PROVE y <= x
  <2>1. ASSUME x < y PROVE FALSE
    <3>1. <<x, y>> \in Below(S)
      BY <2>1 DEF Below
    <3>2. Rank(S, Below(S), x) < Rank(S, Below(S), y)
      BY <1>2, <3>1, Ranks
    <3>3. Rank(S, Below(S), y) < n /\ Rank(S, Below(S), y) \in Nat
      BY <1>2, Ranks
    <3> QED
      BY <1>1, <1>3, <3>2, <3>3
  <2> QED
    BY <2>1
<1>5. \E z \in S : \A y \in S : z >= y
  BY <1>4
<1> QED
  BY <1>5 DEF Max

LEMMA NoneIsNoNumber == None \notin Nat
BY AbsentAssumption

\* The least and the greatest of some times.
Low(A)  == IF A = {} THEN None ELSE Min(A)
High(A) == IF A = {} THEN None ELSE Max(A)

\* The least of two sets is the less of the two least.
LEMMA LowOfBoth ==
    ASSUME NEW A \in SUBSET Nat, NEW B \in SUBSET Nat
    PROVE  LET S == {Low(A), Low(B)} \ {None}
           IN  (IF S = {} THEN None ELSE Min(S)) = Low(A \cup B)
<1> DEFINE S == {Low(A), Low(B)} \ {None}
<1>1. A # {} => Low(A) \in A /\ \A m \in A : Low(A) <= m
  BY MinIs DEF Low
<1>2. B # {} => Low(B) \in B /\ \A m \in B : Low(B) <= m
  BY MinIs DEF Low
<1>3. (A = {} => Low(A) = None) /\ (B = {} => Low(B) = None)
  BY DEF Low
<1>4. S = {} <=> A = {} /\ B = {}
  BY <1>1, <1>2, <1>3, NoneIsNoNumber
<1>5. S \in SUBSET Nat
  <2>1. Low(A) \in Nat \cup {None}
    BY <1>1, <1>3
  <2>2. Low(B) \in Nat \cup {None}
    BY <1>2, <1>3
  <2> QED
    BY <2>1, <2>2
<1>6. CASE S # {}
  <2>1. A \cup B # {} /\ A \cup B \in SUBSET Nat
    BY <1>4, <1>6
  <2>2. Min(S) \in S /\ \A m \in S : Min(S) <= m
    BY <1>5, <1>6, MinIs
  <2>3. Min(A \cup B) \in A \cup B /\ \A m \in A \cup B : Min(A \cup B) <= m
    BY <2>1, MinIs
  <2>4. Min(S) \in A \cup B
    BY <1>1, <1>2, <1>3, <2>2
  <2>5. \A m \in A \cup B : Min(S) <= m
    <3>1. ASSUME NEW m \in A PROVE Min(S) <= m
      <4>1. Low(A) \in S /\ Low(A) \in Nat /\ Low(A) <= m
        BY <1>1, <3>1, NoneIsNoNumber
      <4>2. Min(S) \in Nat /\ Min(S) <= Low(A)
        BY <1>5, <2>2, <4>1
      <4> QED
        BY <4>1, <4>2
    <3>2. ASSUME NEW m \in B PROVE Min(S) <= m
      <4>1. Low(B) \in S /\ Low(B) \in Nat /\ Low(B) <= m
        BY <1>2, <3>2, NoneIsNoNumber
      <4>2. Min(S) \in Nat /\ Min(S) <= Low(B)
        BY <1>5, <2>2, <4>1
      <4> QED
        BY <4>1, <4>2
    <3> QED
      BY <3>1, <3>2
  <2>6. Min(S) = Min(A \cup B)
    <3>1. Min(S) <= Min(A \cup B) /\ Min(A \cup B) <= Min(S)
      BY <2>3, <2>4, <2>5
    <3>2. Min(S) \in Nat /\ Min(A \cup B) \in Nat
      BY <2>1, <2>3, <2>4
    <3> QED
      BY <3>1, <3>2
  <2> QED
    BY <1>6, <2>1, <2>6 DEF Low
<1>7. CASE S = {}
  BY <1>4, <1>7 DEF Low
<1> QED
  BY <1>6, <1>7

\* The greatest of two sets is the greater of the two greatest.
LEMMA HighOfBoth ==
    ASSUME NEW A \in SUBSET Nat, NEW B \in SUBSET Nat, IsFiniteSet(A), IsFiniteSet(B)
    PROVE  LET S == {High(A), High(B)} \ {None}
           IN  (IF S = {} THEN None ELSE Max(S)) = High(A \cup B)
<1> DEFINE S == {High(A), High(B)} \ {None}
<1>1. A # {} => High(A) \in A /\ \A m \in A : m <= High(A)
  BY MaxIs DEF High
<1>2. B # {} => High(B) \in B /\ \A m \in B : m <= High(B)
  BY MaxIs DEF High
<1>3. (A = {} => High(A) = None) /\ (B = {} => High(B) = None)
  BY DEF High
<1>4. S = {} <=> A = {} /\ B = {}
  BY <1>1, <1>2, <1>3, NoneIsNoNumber
<1>5. S \in SUBSET Nat /\ IsFiniteSet(S) /\ IsFiniteSet(A \cup B)
  <2>1. S \in SUBSET (A \cup B)
    BY <1>1, <1>2, <1>3
  <2>2. IsFiniteSet(A \cup B)
    BY FS_Union
  <2> QED
    BY <2>1, <2>2, FS_Subset
<1>6. CASE S # {}
  <2>1. A \cup B # {} /\ A \cup B \in SUBSET Nat
    BY <1>4, <1>6
  <2>2. Max(S) \in S /\ \A m \in S : m <= Max(S)
    BY <1>5, <1>6, MaxIs
  <2>3. Max(A \cup B) \in A \cup B /\ \A m \in A \cup B : m <= Max(A \cup B)
    BY <1>5, <2>1, MaxIs
  <2>4. Max(S) \in A \cup B
    BY <1>1, <1>2, <1>3, <2>2
  <2>5. \A m \in A \cup B : m <= Max(S)
    <3>1. ASSUME NEW m \in A PROVE m <= Max(S)
      <4>1. High(A) \in S /\ High(A) \in Nat /\ m <= High(A)
        BY <1>1, <3>1, NoneIsNoNumber
      <4>2. Max(S) \in Nat /\ High(A) <= Max(S)
        BY <1>5, <2>2, <4>1
      <4> QED
        BY <4>1, <4>2
    <3>2. ASSUME NEW m \in B PROVE m <= Max(S)
      <4>1. High(B) \in S /\ High(B) \in Nat /\ m <= High(B)
        BY <1>2, <3>2, NoneIsNoNumber
      <4>2. Max(S) \in Nat /\ High(B) <= Max(S)
        BY <1>5, <2>2, <4>1
      <4> QED
        BY <4>1, <4>2
    <3> QED
      BY <3>1, <3>2
  <2>6. Max(S) = Max(A \cup B)
    <3>1. Max(S) <= Max(A \cup B) /\ Max(A \cup B) <= Max(S)
      BY <2>3, <2>4, <2>5
    <3>2. Max(S) \in Nat /\ Max(A \cup B) \in Nat
      BY <2>1, <2>3, <2>4
    <3> QED
      BY <3>1, <3>2
  <2> QED
    BY <1>6, <2>1, <2>6 DEF High
<1>7. CASE S = {}
  BY <1>4, <1>7 DEF High
<1> QED
  BY <1>6, <1>7

\* The times of rows.
Ats(rows) == {rows[c].at : c \in There(rows)}

\* The bounds of some rows.
LEMMA BoundsAre ==
    ASSUME NEW rows
    PROVE  Bounds(rows) = [rows |-> Cardinality(There(rows)), first |-> Low(Ats(rows)),
                           last |-> High(Ats(rows))]
<1>1. There(rows) = {} <=> Ats(rows) = {}
  BY DEF Ats
<1>2. Ats(rows) = {rows[c].at : c \in There(rows)}
  BY DEF Ats
<1> QED
  BY <1>1, <1>2 DEF Bounds, Low, High

\* The bounds of some rows, widened by those of the others, are those of all.
LEMMA BoundsWiden ==
    ASSUME NEW T, IsFiniteSet(T), NEW f, DOMAIN f = T,
           \A c \in There(f) : f[c].at \in Nat,
           NEW O \in SUBSET T,
           NEW g, DOMAIN g = O, \A c \in O : g[c] = f[c],
           NEW h, DOMAIN h = T \ O, \A c \in T \ O : h[c] = f[c]
    PROVE  Widened(Bounds(h), Bounds(g)) = Bounds(f)
<1>1. /\ There(f) = There(h) \cup There(g) /\ There(h) \cap There(g) = {}
      /\ There(h) \in SUBSET T /\ There(g) \in SUBSET T
      /\ (\A c \in There(h) : h[c] = f[c]) /\ (\A c \in There(g) : g[c] = f[c])
  BY DEF There
<1>2. Ats(f) = Ats(h) \cup Ats(g)
  BY <1>1 DEF Ats
<1>3. IsFiniteSet(There(h)) /\ IsFiniteSet(There(g)) /\ IsFiniteSet(There(f))
  <2>1. There(f) \in SUBSET T
    BY DEF There
  <2> QED
    BY <1>1, <2>1, FS_Subset
<1>4. Ats(f) \in SUBSET Nat /\ IsFiniteSet(Ats(f))
  <2> DEFINE at == [c \in There(f) |-> f[c].at]
  <2>1. at \in Surjection(There(f), Ats(f))
    BY DEF Surjection, Ats
  <2>2. IsFiniteSet(Ats(f))
    BY <1>3, <2>1, FS_Surjection
  <2> QED
    BY <2>2 DEF Ats
<1>5. /\ Ats(h) \in SUBSET Nat /\ Ats(g) \in SUBSET Nat
      /\ IsFiniteSet(Ats(h)) /\ IsFiniteSet(Ats(g))
  <2>1. Ats(h) \in SUBSET Ats(f) /\ Ats(g) \in SUBSET Ats(f)
    BY <1>2
  <2> QED
    BY <1>4, <2>1, FS_Subset
<1>6. Cardinality(There(f)) = Cardinality(There(h)) + Cardinality(There(g))
  <2>1. Cardinality(There(h) \cup There(g)) =
          Cardinality(There(h)) + Cardinality(There(g)) - Cardinality(There(h) \cap There(g))
    BY <1>3, FS_Union
  <2>2. Cardinality(There(h) \cap There(g)) = 0
    BY <1>1, FS_EmptySet
  <2>3. Cardinality(There(h)) \in Nat /\ Cardinality(There(g)) \in Nat
    BY <1>3, SizeIsNat
  <2>4. Cardinality(There(h) \cup There(g)) = Cardinality(There(h)) + Cardinality(There(g))
    BY <2>1, <2>2, <2>3
  <2> QED
    BY <1>1, <2>4
<1> DEFINE firsts == {Low(Ats(h)), Low(Ats(g))} \ {None}
           lasts == {High(Ats(h)), High(Ats(g))} \ {None}
<1>7. (IF firsts = {} THEN None ELSE Min(firsts)) = Low(Ats(f))
  BY <1>2, <1>5, LowOfBoth
<1>8. (IF lasts = {} THEN None ELSE Max(lasts)) = High(Ats(f))
  BY <1>2, <1>5, HighOfBoth
<1>9. /\ Bounds(h).rows = Cardinality(There(h)) /\ Bounds(g).rows = Cardinality(There(g))
      /\ Bounds(h).first = Low(Ats(h)) /\ Bounds(g).first = Low(Ats(g))
      /\ Bounds(h).last = High(Ats(h)) /\ Bounds(g).last = High(Ats(g))
  BY BoundsAre
<1>10. Widened(Bounds(h), Bounds(g)) =
         [rows  |-> Cardinality(There(h)) + Cardinality(There(g)),
          first |-> IF firsts = {} THEN None ELSE Min(firsts),
          last  |-> IF lasts = {} THEN None ELSE Max(lasts)]
  BY <1>9 DEF Widened
<1> HIDE DEF firsts, lasts
<1> QED
  BY <1>6, <1>7, <1>8, <1>10, BoundsAre
-----------------------------------------------------------------------------
\* A publication leaves the tail with the bounds of its rows and ordinals without a gap.
LEMMA TailPublished ==
    ASSUME RowsTyped, TablesTyped, TailReconciles, NEW b, Publishing(b)
    PROVE  TailReconciles' /\ db'.tail.rows \in Nat
<1> DEFINE O == Observed(b, Calls)
           new == NewCalls(db, b)
<1>0. /\ b \in Seq(Observation) /\ db'.calls = new /\ db'.tail = CallTail(db, b)
      /\ IsFiniteSet(Calls) /\ O \subseteq Calls
  BY RowsAssumption DEF Publishing, Observed
<1>1. /\ new \in [Calls -> Call \cup {None}] /\ There(new) = O \cup There(db.calls)
      /\ \A c \in Calls \ O : new[c] = db.calls[c]
      /\ \A c \in O : new[c].ordinal = Ordinals(db, b)[c]
  BY <1>0, CallsAre
<1>2. db.calls \in [Calls -> Call \cup {None}] /\ db.tail.rows \in Nat
  BY DEF TablesTyped
<1> HIDE DEF O, new
<1>3. There(db.calls) = {c \in Calls : db.calls[c] # None} /\ There(new) = {c \in Calls : new[c] # None}
  BY <1>1, <1>2 DEF There
<1>4. db'.tail = Bounds(new)
  <2>1. CASE O = {}
    <3>1. new = db.calls
      BY <1>1, <1>2, <2>1
    <3>2. db'.tail = db.tail
      BY <1>0, <2>1 DEF CallTail, O
    <3> QED
      BY <3>1, <3>2 DEF TailReconciles
  <2>2. CASE O # {}
    <3> DEFINE g == [c \in O |-> new[c]]
               h == [c \in Calls \ O |-> db.calls[c]]
    <3>1. \A c \in There(new) : new[c].at \in Nat
      <4>1. \A c \in There(new) : new[c] \in Call
        BY <1>1, <1>3
      <4> QED
        BY <4>1 DEF Call
    <3>2. /\ DOMAIN new = Calls /\ O \in SUBSET Calls
          /\ DOMAIN g = O /\ (\A c \in O : g[c] = new[c])
          /\ DOMAIN h = Calls \ O /\ (\A c \in Calls \ O : h[c] = new[c])
      BY <1>0, <1>1
    <3>3. Touched(db, b) = Bounds(g)
      BY DEF Touched, O, new
    <3>4. CallTail(db, b) = Widened(Bounds(h), Bounds(g))
      BY <2>2, <3>3 DEF CallTail, O
    <3> HIDE DEF g, h
    <3>5. Widened(Bounds(h), Bounds(g)) = Bounds(new)
      <4>1. PICK F, G, H, T : F = new /\ G = g /\ H = h /\ T = O
        OBVIOUS
      <4>2. /\ IsFiniteSet(Calls) /\ DOMAIN F = Calls /\ T \in SUBSET Calls
            /\ \A c \in There(F) : F[c].at \in Nat
        BY <1>0, <3>1, <3>2, <4>1
      <4>3. DOMAIN G = T /\ \A c \in T : G[c] = F[c]
        BY <3>2, <4>1
      <4>4. DOMAIN H = Calls \ T /\ \A c \in Calls \ T : H[c] = F[c]
        BY <3>2, <4>1
      <4>5. Widened(Bounds(H), Bounds(G)) = Bounds(F)
        BY <4>2, <4>3, <4>4, BoundsWiden
      <4> QED
        BY <4>1, <4>5
    <3> QED
      BY <1>0, <3>4, <3>5
  <2> QED
    BY <2>1, <2>2
<1>5. /\ db'.tail.rows = Cardinality(There(new)) /\ db.tail.rows = Cardinality(There(db.calls))
  BY <1>4, BoundsAre DEF TailReconciles
<1> DEFINE n == Cardinality(NewOnes(b))
           m == db.tail.rows
<1>6. n \in Nat /\ db'.tail.rows = m + n
  <2>1. DOMAIN db.calls = Calls /\ DOMAIN new = Calls /\ There(db.calls) \subseteq There(new)
    BY <1>1, <1>2
  <2>2. Fresh(db.calls, new) = NewOnes(b)
    BY <1>0, <1>1, <1>3 DEF Fresh, NewOnes, O
  <2>3. /\ Cardinality(There(new)) = Cardinality(Fresh(db.calls, new)) + Cardinality(There(db.calls))
        /\ Cardinality(Fresh(db.calls, new)) \in Nat
    BY <1>0, <2>1, RowsAdd
  <2> QED
    BY <1>2, <1>5, <2>2, <2>3
<1>7. ASSUME NEW c \in There(db.calls) PROVE new[c].ordinal = db.calls[c].ordinal
  <2>1. CASE c \in O
    BY <1>1, <2>1, Numbering
  <2>2. CASE c \notin O
    BY <1>1, <1>3, <2>2
  <2> QED
    BY <2>1, <2>2
<1>8. ASSUME NEW c \in NewOnes(b)
      PROVE  \E i \in 1 .. n : new[c].ordinal = m + i
  <2>1. new[c].ordinal = Ordinals(db, b)[c]
    BY <1>1 DEF NewOnes, O
  <2>2. \E i \in 1 .. Cardinality(NewOnes(b)) : Ordinals(db, b)[c] = db.tail.rows + i
    BY Numbering
  <2> QED
    BY <2>1, <2>2
<1>9. ASSUME NEW i \in 1 .. n PROVE \E c \in NewOnes(b) : new[c].ordinal = m + i
  <2>1. \E c \in NewOnes(b) : Ordinals(db, b)[c] = m + i
    BY Numbering
  <2> QED
    BY <1>1, <2>1 DEF NewOnes, O
<1>10. {db.calls[c].ordinal : c \in There(db.calls)} = 1 .. m
  BY DEF TailReconciles
<1>11. There(new) = There(db.calls) \cup NewOnes(b)
  BY <1>1 DEF NewOnes, O
<1> HIDE DEF n, m
<1>12. m \in Nat
  BY <1>2 DEF m
<1>13. {new[c].ordinal : c \in There(new)} = 1 .. m + n
  <2>1. ASSUME NEW c \in There(new) PROVE new[c].ordinal \in 1 .. m + n
    <3>1. CASE c \in There(db.calls)
      <4>1. new[c].ordinal \in 1 .. m
        BY <1>7, <1>10, <3>1
      <4> QED
        BY <1>6, <1>12, <4>1
    <3>2. CASE c \in NewOnes(b)
      BY <1>6, <1>8, <1>12, <3>2
    <3> QED
      BY <1>11, <3>1, <3>2
  <2>2. ASSUME NEW j \in 1 .. m + n PROVE \E c \in There(new) : new[c].ordinal = j
    <3>1. CASE j <= m
      <4>1. PICK c \in There(db.calls) : db.calls[c].ordinal = j
        <5>1. j \in 1 .. m
          BY <1>12, <3>1
        <5> QED
          BY <1>10, <5>1
      <4> QED
        BY <1>7, <1>11, <4>1
    <3>2. CASE j > m
      <4>1. j - m \in 1 .. n /\ m + (j - m) = j
        BY <1>6, <1>12, <3>2
      <4> QED
        BY <1>9, <1>11, <4>1
    <3> QED
      BY <1>6, <1>12, <3>1, <3>2
  <2> QED
    BY <2>1, <2>2
<1>14. db'.tail.rows = m + n /\ n \in Nat
  BY <1>6
<1> QED
  BY <1>0, <1>4, <1>12, <1>13, <1>14 DEF TailReconciles

-----------------------------------------------------------------------------
(* What is published validates. *)

\* The inductive invariant of what is published.
ArtifactInv ==
    /\ RowsInv
    /\ LogKinds /\ ReadWithin /\ ReadKnown
    /\ TablesTyped /\ FoldsStand /\ CountsStand /\ TailReconciles

LEMMA ArtifactInit == Init => ArtifactInv
<1> SUFFICES ASSUME Init PROVE ArtifactInv
  OBVIOUS
<1>1. RowsInv
  BY RowsInit
<1>2. log = <<>> /\ read = [s \in Sources |-> 0] /\ db = EmptyDb
  BY DEF Init
<1>3. /\ db.transitions = [e \in Folded |-> <<>>]
      /\ db.sessions = NoRows(Sessions) /\ db.tools = NoRows(Tools) /\ db.calls = NoRows(Calls)
      /\ db.components = NoRows(Components) /\ db.allowances = NoRows(Places)
      /\ db.tail = [rows |-> 0, first |-> None, last |-> None]
      /\ db.counts = [k \in {} |-> 0]
  BY <1>2 DEF EmptyDb
<1>4. LogKinds
  BY <1>2 DEF LogKinds
<1>5. ReadWithin
  <2>1. ASSUME NEW s \in Sources PROVE read[s] <= Cardinality(OfSource(s))
    <3>1. OfSource(s) = {}
      BY <1>2 DEF OfSource
    <3>2. Cardinality(OfSource(s)) = 0
      BY <3>1, FS_EmptySet
    <3> QED
      BY <1>2, <3>2
  <2> QED
    BY <2>1 DEF ReadWithin
<1>6. ReadKnown
  BY <1>2, <1>3 DEF ReadKnown
<1>7. TablesTyped
  BY <1>3 DEF TablesTyped, NoRows
<1>8. FoldsStand
  <2>1. Sessions \subseteq Folded /\ Tools \subseteq Folded /\ Calls \subseteq Folded
    BY DEF Folded
  <2>2. /\ \A s \in Sessions : db.sessions[s] = None /\ db.transitions[s] = <<>>
        /\ \A t \in Tools : db.tools[t] = None /\ db.transitions[t] = <<>>
        /\ \A c \in Calls : db.calls[c] = None /\ db.transitions[c] = <<>>
    BY <1>3, <2>1 DEF NoRows
  <2> QED
    BY <2>2 DEF FoldsStand, Standing
<1>9. \A k \in Tables : There(db[k]) = {}
  <2>1. \A S : There(NoRows(S)) = {}
    BY DEF There, NoRows
  <2>2. \A k \in Tables : \E S : db[k] = NoRows(S)
    BY <1>3 DEF Tables
  <2> QED
    BY <2>1, <2>2
<1>10. CountsStand
  <2>1. DOMAIN db.counts = {}
    BY <1>3
  <2>2. \A k \in Tables : Cardinality(There(db[k])) = 0 /\ Counted(k) = 0
    BY <1>9, <2>1, FS_EmptySet DEF Counted
  <2>3. There(db.components) = {}
    BY <1>9 DEF Tables
  <2> QED
    BY <2>1, <2>2, <2>3 DEF CountsStand
<1>11. TailReconciles
  <2>1. There(db.calls) = {}
    BY <1>9 DEF Tables
  <2>2. Bounds(db.calls) = [rows |-> 0, first |-> None, last |-> None]
    BY <2>1, FS_EmptySet DEF Bounds
  <2>3. {db.calls[c].ordinal : c \in There(db.calls)} = {} /\ 1 .. 0 = {}
    BY <2>1
  <2>4. db.tail = Bounds(db.calls) /\ db.tail.rows = 0
    BY <1>3, <2>2
  <2> QED
    BY <2>3, <2>4 DEF TailReconciles
<1> QED
  BY <1>1, <1>4, <1>5, <1>6, <1>7, <1>8, <1>10, <1>11 DEF ArtifactInv

\* The rows that are typed stay typed.
LEMMA TablesPublished ==
    ASSUME LogInv, RowsTyped, TablesTyped, NEW b, Publishing(b), db'.tail.rows \in Nat
    PROVE  TablesTyped'
<1>0. b \in Seq(Observation)
  BY DEF Publishing
<1>1. Places' = Places
  BY DEF Publishing, Places
<1>2. /\ db'.tools \in [Tools -> Tool \cup {None}]
      /\ db'.calls \in [Calls -> Call \cup {None}]
      /\ db'.components \in [Components -> Component \cup {None}]
      /\ db'.allowances \in [Places -> Observation \cup {None}]
  BY <1>0, ToolsAre, CallsAre, ComponentsAre, AllowancesAre DEF Publishing
<1> QED
  BY <1>1, <1>2 DEF TablesTyped

\* A record that is written leaves what is published as it is.
LEMMA LogStep ==
    ASSUME ArtifactInv, Codex
    PROVE  /\ LogInv' /\ LogKinds' /\ ReadTyped' /\ ReadWithin' /\ ReadKnown'
           /\ UNCHANGED <<world, read, db>>
<1>0. LogInv /\ ReadTyped /\ LogKinds /\ ReadWithin /\ ReadKnown
  BY DEF ArtifactInv, RowsInv
<1>1. LogInv' /\ UNCHANGED <<read, db>>
  BY <1>0, CodexKeepsLog
<1>2. ASSUME NEW s \in Sources, NEW type, NEW id, NEW state, NEW parent, NEW value,
             Writable(s, type, id, state, parent, value),
             Write(s, type, id, state, parent, value)
      PROVE  LogKinds' /\ ReadTyped' /\ ReadWithin' /\ ReadKnown' /\ UNCHANGED world
  <2>1. UNCHANGED world
    BY <1>2 DEF Write
  <2> QED
    BY <1>0, <1>2, <2>1, WriteGrows
<1>3. ASSUME NEW s \in Sources, NEW t \in Sources, CopySource(s, t)
      PROVE  LogKinds' /\ ReadTyped' /\ ReadWithin' /\ ReadKnown' /\ UNCHANGED world
  <2>1. UNCHANGED world
    BY <1>3 DEF CopySource
  <2> QED
    BY <1>0, <1>3, <2>1, CopyGrows
<1> QED
  BY <1>0, <1>1, <1>2, <1>3, CodexIs

LEMMA ArtifactNext == ArtifactInv /\ [Next]_vars => ArtifactInv'
<1> SUFFICES ASSUME ArtifactInv, [Next]_vars PROVE ArtifactInv'
  OBVIOUS
<1>0. /\ RowsInv /\ LogInv /\ ReadTyped /\ RowsTyped
      /\ LogKinds /\ ReadWithin /\ ReadKnown
      /\ TablesTyped /\ FoldsStand /\ CountsStand /\ TailReconciles
  BY DEF ArtifactInv, RowsInv
<1>1. RowsInv'
  BY <1>0, RowsNext
<1>2. ASSUME UNCHANGED <<world, db>> PROVE TablesTyped' /\ FoldsStand' /\ CountsStand' /\ TailReconciles'
  <2>1. TablesTyped'
    BY <1>0, <1>2 DEF TablesTyped, Places
  <2>2. FoldsStand'
    BY <1>0, <1>2 DEF FoldsStand, Standing
  <2>3. CountsStand'
    BY <1>0, <1>2 DEF CountsStand, Counted
  <2>4. TailReconciles'
    BY <1>0, <1>2 DEF TailReconciles
  <2> QED
    BY <2>1, <2>2, <2>3, <2>4
<1>3. CASE Codex
  <2>1. /\ LogKinds' /\ ReadWithin' /\ ReadKnown' /\ UNCHANGED <<world, db>>
    BY <1>3, LogStep
  <2> QED
    BY <1>1, <1>2, <2>1 DEF ArtifactInv
<1>4. ASSUME NEW S \in SUBSET Sources, Publish(S) PROVE ArtifactInv'
  <2>1. Publishing(ChangeSet(S))
    BY <1>0, <1>4, PublishIs
  <2>2. LogKinds' /\ ReadWithin' /\ ReadKnown'
    BY <1>0, <1>4, PublishReads
  <2>3. FoldsStand'
    BY <1>0, <1>4, FoldsPublished
  <2>4. CountsStand'
    BY <1>0, <1>4, CountsPublished
  <2>5. TailReconciles' /\ db'.tail.rows \in Nat
    BY <1>0, <2>1, TailPublished
  <2>6. TablesTyped'
    BY <1>0, <2>1, <2>5, TablesPublished
  <2> QED
    BY <1>1, <2>2, <2>3, <2>4, <2>5, <2>6 DEF ArtifactInv
<1>5. CASE UNCHANGED vars
  <2>1. UNCHANGED <<world, log, read, db>>
    BY <1>5 DEF vars
  <2>2. LogKinds' /\ ReadWithin' /\ ReadKnown'
    BY <1>0, <2>1 DEF LogKinds, RecordOk, Runs, ReadWithin, OfSource, ReadKnown, Known
  <2> QED
    BY <1>1, <1>2, <2>1, <2>2 DEF ArtifactInv
<1> QED
  BY <1>3, <1>4, <1>5 DEF Next

\* A tool that is there has a transition that starts it, unless its start is missing.
LEMMA ToolsReconcile ==
    ASSUME ArtifactInv, ~Orphans, NEW t \in Tools, db.tools[t] # None
    PROVE  db.tools[t].start = FoldOf(db.transitions[t]).start
<1>0. /\ LogInv /\ RowsTyped /\ LogKinds /\ ReadKnown /\ FoldsStand
  BY DEF ArtifactInv, RowsInv
<1>1. t \in Folded /\ db.transitions[t] \in Seq(Transition) /\ db.transitions[t] # <<>>
  BY <1>0 DEF Folded, RowsTyped, FoldsStand, Standing
<1>2. HasState(t, "running")
  <2>1. Known(t)
    BY <1>0, <1>1 DEF ReadKnown
  <2> QED
    BY <2>1 DEF Orphans
<1>3. "tool" \in world.kinds
  BY <1>0, <1>2 DEF HasState, LogKinds, RecordOk
<1>4. /\ db.transitions[t][1].state = "running"
      /\ db.tools[t].start = db.transitions[t][1].at
  BY <1>0, <1>3 DEF FoldsStand
<1>5. Len(db.transitions[t]) > 0 /\ "running" \in Active
  BY <1>1 DEF Active
<1> QED
  BY <1>1, <1>4, <1>5, FoldStarts

\* The invariant suffices for the validation.
LEMMA ValidatesIs == ArtifactInv => ArtifactValidates
<1> SUFFICES ASSUME ArtifactInv, ~Orphans, "component" \notin world.kinds PROVE RowsReconcile
  BY DEF ArtifactValidates
<1>0. /\ RowsTyped /\ TablesTyped /\ FoldsStand /\ CountsStand /\ TailReconciles
      /\ Folded = Sessions \cup Tools \cup Calls
      /\ Sessions \cap Tools = {} /\ Sessions \cap Calls = {} /\ Tools \cap Calls = {}
  BY RowsAssumption DEF ArtifactInv, RowsInv, Folded
<1>1. /\ There(db.sessions) = {s \in Sessions : db.sessions[s] # None}
      /\ There(db.tools) = {t \in Tools : db.tools[t] # None}
      /\ There(db.calls) = {c \in Calls : db.calls[c] # None}
  BY <1>0 DEF RowsTyped, TablesTyped, There
<1>2. ASSUME NEW e \in Folded
      PROVE  LET rows == IF e \in Sessions THEN db.sessions
                         ELSE IF e \in Tools THEN db.tools ELSE db.calls
                 fold == FoldOf(db.transitions[e])
             IN  /\ e \in There(rows) <=> db.transitions[e] # <<>>
                 /\ e \in There(rows) =>
                      /\ fold.ok /\ rows[e].state = fold.state /\ rows[e].version = fold.version
                      /\ e \notin Calls => rows[e].start = fold.start /\ rows[e].end = fold.end
  <2>1. CASE e \in Sessions
    <3>1. Standing(db.sessions[e], e)
      BY <1>0, <2>1 DEF FoldsStand
    <3>2. db.sessions[e] # None =>
            /\ db.sessions[e].start = FoldOf(db.transitions[e]).start
            /\ db.sessions[e].end = FoldOf(db.transitions[e]).end
      BY <1>0, <2>1 DEF FoldsStand
    <3> QED
      BY <1>1, <2>1, <3>1, <3>2 DEF Standing
  <2>2. CASE e \in Tools
    <3>1. Standing(db.tools[e], e) /\ e \notin Sessions
      BY <1>0, <2>2 DEF FoldsStand
    <3>2. db.tools[e] # None =>
            /\ db.tools[e].start = FoldOf(db.transitions[e]).start
            /\ db.tools[e].end = FoldOf(db.transitions[e]).end
      BY <1>0, <2>2, ToolsReconcile DEF FoldsStand
    <3> QED
      BY <1>1, <2>2, <3>1, <3>2 DEF Standing
  <2>3. CASE e \in Calls
    <3>1. Standing(db.calls[e], e) /\ e \notin Sessions /\ e \notin Tools
      BY <1>0, <2>3 DEF FoldsStand
    <3> QED
      BY <1>1, <2>3, <3>1 DEF Standing
  <2> QED
    BY <1>0, <2>1, <2>2, <2>3
<1>3. FoldsReconcile
  BY <1>2 DEF FoldsReconcile
<1>4. CountsReconcile
  BY <1>0, CountsSuffice
<1> QED
  BY <1>0, <1>3, <1>4 DEF RowsReconcile

\* An artifact that was published passes the validation it is recovered with
\* (validation.py), unless a tool ends whose start no source holds, or a component is
\* counted: folds, counts and tail are those of the rows, for any entities, sources and
\* records, whatever came late, twice or together.
THEOREM PublishedValidates == Spec => []ArtifactValidates
<1>1. Spec => []ArtifactInv
  BY ArtifactInit, ArtifactNext, PTL DEF Spec
<1> QED
  BY <1>1, ValidatesIs, PTL

-----------------------------------------------------------------------------
(* Sums over a finite set. *)

\* The element that the sum takes first.
OneOf(s) == CHOOSE x \in s : TRUE

\* The sum of a function over a set of its arguments, from the sums over smaller ones.
Added(f, w, s) == IF s = {} THEN 0 ELSE w[OneOf(s)] + f[s \ {OneOf(s)}]

\* The sum of a function over each set of its arguments.
Adds(f, w) == f = [s \in SUBSET DOMAIN w |-> Added(f, w, s)]

\* The sets of some elements at most.
Small(T, n) == {s \in SUBSET T : Cardinality(s) <= n}

\* A set without one of its elements is smaller.
LEMMA OneLess ==
    ASSUME NEW T, IsFiniteSet(T), NEW n \in Nat, NEW s \in Small(T, n + 1), s # {}
    PROVE  OneOf(s) \in s /\ s \ {OneOf(s)} \in Small(T, n)
<1>1. OneOf(s) \in s
  BY DEF OneOf
<1>2. s \in SUBSET T /\ Cardinality(s) <= n + 1 /\ IsFiniteSet(s)
  BY FS_Subset DEF Small
<1>3. Cardinality(s \ {OneOf(s)}) = Cardinality(s) - 1 /\ Cardinality(s) \in Nat
  BY <1>1, <1>2, FS_RemoveElement, SizeIsNat
<1>4. Cardinality(s \ {OneOf(s)}) <= n
  BY <1>2, <1>3
<1> QED
  BY <1>1, <1>2, <1>4 DEF Small

LEMMA NoneSmaller ==
    ASSUME NEW T, IsFiniteSet(T)
    PROVE  Small(T, 0) = {{}}
<1>1. ASSUME NEW s \in SUBSET T PROVE Cardinality(s) <= 0 <=> s = {}
  <2>1. IsFiniteSet(s)
    BY FS_Subset
  <2> QED
    BY <2>1, FS_EmptySet, SizeIsNat
<1> QED
  BY <1>1 DEF Small

LEMMA AllSmall ==
    ASSUME NEW T, IsFiniteSet(T)
    PROVE  Small(T, Cardinality(T)) = SUBSET T /\ Cardinality(T) \in Nat
<1>1. \A s \in SUBSET T : Cardinality(s) <= Cardinality(T)
  BY FS_Subset
<1> QED
  BY <1>1, SizeIsNat DEF Small

\* There is such a function.
LEMMA AddsUp ==
    ASSUME NEW w, IsFiniteSet(DOMAIN w)
    PROVE  \E f : Adds(f, w)
<1> DEFINE T == DOMAIN w
           Is(f, n) == f = [s \in Small(T, n) |-> Added(f, w, s)]
           S == {n \in Nat : \E f : Is(f, n)}
<1> HIDE DEF T
<1>t. IsFiniteSet(T)
  BY DEF T
<1>1. 0 \in S
  <2> DEFINE f == [s \in Small(T, 0) |-> 0]
  <2>1. \A s \in Small(T, 0) : Added(f, w, s) = 0
    BY <1>t, NoneSmaller DEF Added
  <2>2. Is(f, 0)
    BY <2>1
  <2> HIDE DEF Is, f
  <2> QED
    BY <2>2
<1>2. ASSUME NEW n \in S PROVE n + 1 \in S
  <2>1. PICK f : Is(f, n)
    OBVIOUS
  <2> DEFINE g == [s \in Small(T, n + 1) |-> Added(f, w, s)]
  <2>2. ASSUME NEW s \in Small(T, n + 1) PROVE Added(g, w, s) = Added(f, w, s)
    <3>1. CASE s = {}
      BY <3>1 DEF Added
    <3>2. CASE s # {}
      <4> DEFINE r == s \ {OneOf(s)}
      <4>1. r \in Small(T, n)
        BY <1>t, <3>2, OneLess
      <4>2. r \in Small(T, n + 1)
        <5>1. \A m : m \in Nat /\ m <= n => m <= n + 1
          OBVIOUS
        <5>2. r \in SUBSET T /\ IsFiniteSet(r) /\ Cardinality(r) <= n
          BY <1>t, <4>1, FS_Subset DEF Small
        <5> QED
          BY <5>1, <5>2, SizeIsNat DEF Small
      <4> HIDE DEF r
      <4>3. g[r] = f[r]
        BY <2>1, <4>1, <4>2
      <4> QED
        BY <4>3 DEF Added, r
    <3> QED
      BY <3>1, <3>2
  <2>3. Is(g, n + 1)
    BY <2>2
  <2>4. n + 1 \in Nat
    OBVIOUS
  <2> HIDE DEF Is, g
  <2> QED
    BY <2>3, <2>4
<1>3. S = Nat
  <2> HIDE DEF S
  <2>1. S \in SUBSET Nat
    BY DEF S
  <2> QED
    BY <1>1, <1>2, <2>1, Reaches
<1>4. PICK f : Is(f, Cardinality(T))
  BY <1>t, <1>3, AllSmall
<1>5. f = [s \in SUBSET T |-> Added(f, w, s)]
  BY <1>t, <1>4, AllSmall
<1> QED
  BY <1>5 DEF Adds, T

\* The sum of differences is the difference of the sums.
LEMMA SumsDiffer ==
    ASSUME NEW T, IsFiniteSet(T),
           NEW u \in [T -> Int], NEW v \in [T -> Int], NEW w \in [T -> Int],
           \A x \in T : w[x] = u[x] - v[x],
           NEW f, NEW g, NEW h, Adds(f, u), Adds(g, v), Adds(h, w)
    PROVE  f[T] \in Int /\ g[T] \in Int /\ h[T] = f[T] - g[T]
<1> DEFINE Fits(s) == f[s] \in Int /\ g[s] \in Int /\ h[s] = f[s] - g[s]
           S == {n \in Nat : \A s \in Small(T, n) : Fits(s)}
<1>1. ASSUME NEW s \in SUBSET T
      PROVE  f[s] = Added(f, u, s) /\ g[s] = Added(g, v, s) /\ h[s] = Added(h, w, s)
  <2>1. DOMAIN u = T /\ DOMAIN v = T /\ DOMAIN w = T
    OBVIOUS
  <2>2. /\ f = [r \in SUBSET T |-> Added(f, u, r)] /\ g = [r \in SUBSET T |-> Added(g, v, r)]
        /\ h = [r \in SUBSET T |-> Added(h, w, r)]
    BY <2>1 DEF Adds
  <2> QED
    BY <2>2
<1>2. Fits({})
  <2>1. f[{}] = 0 /\ g[{}] = 0 /\ h[{}] = 0
    BY <1>1 DEF Added
  <2> QED
    BY <2>1
<1>3. 0 \in S
  BY <1>2, NoneSmaller
<1>4. ASSUME NEW n \in S PROVE n + 1 \in S
  <2>1. ASSUME NEW s \in Small(T, n + 1) PROVE Fits(s)
    <3>1. CASE s = {}
      BY <1>2, <3>1
    <3>2. CASE s # {}
      <4> DEFINE x == OneOf(s)
                 r == s \ {x}
      <4>1. x \in s /\ r \in Small(T, n) /\ s \in SUBSET T
        BY <3>2, OneLess DEF Small
      <4>2. Fits(r)
        BY <4>1
      <4>3. f[s] = u[x] + f[r] /\ g[s] = v[x] + g[r] /\ h[s] = w[x] + h[r]
        BY <1>1, <3>2, <4>1 DEF Added
      <4>4. u[x] \in Int /\ v[x] \in Int /\ w[x] = u[x] - v[x]
        BY <4>1
      <4> HIDE DEF x, r
      <4> QED
        BY <4>2, <4>3, <4>4
    <3> QED
      BY <3>1, <3>2
  <2>2. n + 1 \in Nat
    OBVIOUS
  <2> HIDE DEF Fits
  <2> QED
    BY <2>1, <2>2
<1>5. S = Nat
  <2> HIDE DEF S
  <2>1. S \in SUBSET Nat
    BY DEF S
  <2> QED
    BY <1>3, <1>4, <2>1, Reaches
<1>6. Fits(T)
  <2>1. T \in Small(T, Cardinality(T)) /\ Cardinality(T) \in S
    BY <1>5, AllSmall
  <2> HIDE DEF Fits
  <2> QED
    BY <2>1
<1> QED
  BY <1>6

\* The tokens of all calls.
Total(calls) == MapThenSumSet(LAMBDA c : Tokens(calls, c), Calls)

\* The tokens of some calls are such a sum.
LEMMA SumIs ==
    ASSUME NEW calls
    PROVE  \E f : Adds(f, [c \in Calls |-> Tokens(calls, c)]) /\ Total(calls) = f[Calls]
<1> DEFINE w == [c \in Calls |-> Tokens(calls, c)]
           Is(f) == f = [s \in SUBSET Calls |->
                            IF s = {} THEN 0
                            ELSE Tokens(calls, CHOOSE x \in s : TRUE)
                                   + f[s \ {CHOOSE x \in s : TRUE}]]
           g == CHOOSE f : Is(f)
<1>1. Total(calls) = g[Calls]
  BY DEF Total, MapThenSumSet, MapThenFoldSet
<1>2. ASSUME NEW f PROVE Is(f) <=> Adds(f, w)
  <2>1. DOMAIN w = Calls
    OBVIOUS
  <2>2. ASSUME NEW s \in SUBSET Calls
        PROVE  Added(f, w, s) = IF s = {} THEN 0
                                ELSE Tokens(calls, CHOOSE x \in s : TRUE)
                                       + f[s \ {CHOOSE x \in s : TRUE}]
    <3>1. s # {} => (CHOOSE x \in s : TRUE) \in Calls
      OBVIOUS
    <3> QED
      BY <3>1 DEF Added, OneOf
  <2>3. [s \in SUBSET Calls |-> Added(f, w, s)] =
        [s \in SUBSET Calls |-> IF s = {} THEN 0
                                ELSE Tokens(calls, CHOOSE x \in s : TRUE)
                                       + f[s \ {CHOOSE x \in s : TRUE}]]
    BY <2>2
  <2> HIDE DEF w
  <2> QED
    BY <2>1, <2>3 DEF Adds
<1>3. \E f : Adds(f, w)
  BY AddsUp, RowsAssumption
<1> HIDE DEF w, Is
<1>4. Is(g)
  BY <1>2, <1>3
<1> QED
  BY <1>1, <1>2, <1>4 DEF w

-----------------------------------------------------------------------------
(* The delta of a publication. *)

\* So is the difference in tokens that a publication reports.
LEMMA DifferenceIs ==
    ASSUME NEW d, NEW rows
    PROVE  \E f : /\ Adds(f, [c \in Calls |-> Tokens(rows.calls, c) - Tokens(d.calls, c)])
                  /\ TokenDelta(d, rows) = f[Calls]
<1> DEFINE w == [c \in Calls |-> Tokens(rows.calls, c) - Tokens(d.calls, c)]
           Is(f) == f = [s \in SUBSET Calls |->
                            IF s = {} THEN 0
                            ELSE (Tokens(rows.calls, CHOOSE x \in s : TRUE)
                                    - Tokens(d.calls, CHOOSE x \in s : TRUE))
                                   + f[s \ {CHOOSE x \in s : TRUE}]]
           g == CHOOSE f : Is(f)
<1>1. TokenDelta(d, rows) = g[Calls]
  BY DEF TokenDelta, MapThenSumSet, MapThenFoldSet
<1>2. ASSUME NEW f PROVE Is(f) <=> Adds(f, w)
  <2>1. DOMAIN w = Calls
    OBVIOUS
  <2>2. ASSUME NEW s \in SUBSET Calls
        PROVE  Added(f, w, s) = IF s = {} THEN 0
                                ELSE (Tokens(rows.calls, CHOOSE x \in s : TRUE)
                                        - Tokens(d.calls, CHOOSE x \in s : TRUE))
                                       + f[s \ {CHOOSE x \in s : TRUE}]
    <3>1. s # {} => (CHOOSE x \in s : TRUE) \in Calls
      OBVIOUS
    <3> QED
      BY <3>1 DEF Added, OneOf
  <2>3. [s \in SUBSET Calls |-> Added(f, w, s)] =
        [s \in SUBSET Calls |-> IF s = {} THEN 0
                                ELSE (Tokens(rows.calls, CHOOSE x \in s : TRUE)
                                        - Tokens(d.calls, CHOOSE x \in s : TRUE))
                                       + f[s \ {CHOOSE x \in s : TRUE}]]
    BY <2>2
  <2> HIDE DEF w
  <2> QED
    BY <2>1, <2>3 DEF Adds
<1>3. \E f : Adds(f, w)
  BY AddsUp, RowsAssumption
<1> HIDE DEF w, Is
<1>4. Is(g)
  BY <1>2, <1>3
<1> QED
  BY <1>1, <1>2, <1>4 DEF w

\* The tokens of every call that is there are known.
CallsAreValued == \A c \in There(db.calls) : db.calls[c].value \in Nat

\* A publication knows the tokens of every call it writes.
LEMMA ValuesPublished ==
    ASSUME LogInv, ReadTyped, LogKinds, RowsTyped, TablesTyped, CallsAreValued,
           NEW S \in SUBSET Sources, Publish(S)
    PROVE  CallsAreValued'
<1> DEFINE b == ChangeSet(S)
<1>0. Publishing(b) /\ b \in Seq(Observation) /\ db'.calls = NewCalls(db, b)
  BY PublishIs DEF Publishing
<1>1. ASSUME NEW c \in There(db'.calls) PROVE db'.calls[c].value \in Nat
  <2>1. CASE c \in Observed(b, Calls)
    <3> DEFINE g == Group(b, c)
    <3>1. c \in Calls /\ g # <<>>
      BY <2>1 DEF Observed
    <3>2. Len(g) \in 1 .. Len(g)
      <4>1. Len(g) \in Nat /\ Len(g) > 0
        BY <1>0, <3>1, GroupEnds
      <4> QED
        BY <4>1
    <3>3. PICK i \in 1 .. Len(log) : g[Len(g)] = log[i] /\ log[i].id = c
      BY <3>2, GroupOf DEF b
    <3>4. log[i].value \in Nat
      BY <3>1, <3>3 DEF LogKinds, RecordOk
    <3>5. db'.calls[c].value = g[Len(g)].value
      BY <1>0, <2>1, CallsAre
    <3> QED
      BY <3>3, <3>4, <3>5
  <2>2. CASE c \notin Observed(b, Calls)
    <3> HIDE DEF b
    <3>1. c \in There(db.calls) /\ c \in Calls
      BY <1>0, <2>2, CallsAre DEF TablesTyped, There
    <3>2. db'.calls[c] = db.calls[c]
      BY <1>0, <2>2, <3>1, CallsAre
    <3> QED
      BY <3>1, <3>2 DEF CallsAreValued
  <2> QED
    BY <2>1, <2>2
<1> QED
  BY <1>1 DEF CallsAreValued

\* Summing the differences is taking the difference of the sums.
LEMMA TokensAreTheDifference ==
    ASSUME NEW d, NEW rows,
           DOMAIN d.calls = Calls, \A c \in There(d.calls) : d.calls[c].value \in Nat,
           DOMAIN rows.calls = Calls, \A c \in There(rows.calls) : rows.calls[c].value \in Nat
    PROVE  TokenDelta(d, rows) = Total(rows.calls) - Total(d.calls)
<1> DEFINE u == [c \in Calls |-> Tokens(rows.calls, c)]
           v == [c \in Calls |-> Tokens(d.calls, c)]
           w == [c \in Calls |-> Tokens(rows.calls, c) - Tokens(d.calls, c)]
<1>1. \A c \in Calls : Tokens(rows.calls, c) \in Int /\ Tokens(d.calls, c) \in Int
  BY DEF Tokens, There
<1>2. /\ u \in [Calls -> Int] /\ v \in [Calls -> Int] /\ w \in [Calls -> Int]
      /\ \A c \in Calls : w[c] = u[c] - v[c]
  BY <1>1
<1>3. PICK f : Adds(f, u) /\ Total(rows.calls) = f[Calls]
  BY SumIs
<1>4. PICK g : Adds(g, v) /\ Total(d.calls) = g[Calls]
  BY SumIs
<1>5. PICK h : Adds(h, w) /\ TokenDelta(d, rows) = h[Calls]
  BY DifferenceIs
<1> HIDE DEF u, v, w
<1>6. h[Calls] = f[Calls] - g[Calls]
  BY <1>2, <1>3, <1>4, <1>5, SumsDiffer, RowsAssumption
<1> QED
  BY <1>3, <1>4, <1>5, <1>6

\* A tool that is there changes when it is observed, whatever of it is kept.
LEMMA ToolsChange ==
    ASSUME RowsTyped, TablesTyped, FoldsStand, NEW b, Publishing(b), NEW t \in Tools,
           db.tools[t] # None
    PROVE  db.tools[t] # Proposed(db, b).tools[t] <=> db.tools[t] # db'.tools[t]
<1>0. b \in Seq(Observation) /\ db'.tools = NewTools(db, b) /\ t \in Folded
  BY DEF Publishing, Folded
<1>1. Proposed(db, b).tools[t] = IF t \in Observed(b, Tools) THEN ProposedTool(db, b, t)
                                 ELSE db.tools[t]
  BY DEF Proposed
<1>2. CASE t \notin Observed(b, Tools)
  BY <1>0, <1>1, <1>2, ToolsAre
<1>3. CASE t \in Observed(b, Tools)
  <2>1. Group(b, t) # <<>>
    BY <1>3 DEF Observed
  <2>2. Fold(db, b, t).version > Len(db.transitions[t])
    BY <1>0, <2>1, Goes
  <2>3. db.tools[t].version = Len(db.transitions[t]) /\ Len(db.transitions[t]) \in Nat
    <3>1. db.transitions[t] \in Seq(Transition)
      BY <1>0 DEF RowsTyped
    <3>2. FoldOf(db.transitions[t]).version = Len(db.transitions[t])
      BY <3>1, FoldTyped
    <3>3. db.tools[t].version = FoldOf(db.transitions[t]).version
      BY DEF FoldsStand, Standing
    <3> QED
      BY <3>1, <3>2, <3>3
  <2>4. /\ ProposedTool(db, b, t).version = Fold(db, b, t).version
        /\ NewTools(db, b)[t].version = Fold(db, b, t).version
    BY <1>0, <1>3, NewToolTyped, ToolsAre
  <2>5. ~(Len(db.transitions[t]) > Len(db.transitions[t]))
    BY <2>3
  <2>6. db.tools[t] # ProposedTool(db, b, t)
    BY <2>2, <2>3, <2>4, <2>5
  <2>7. db.tools[t] # NewTools(db, b)[t]
    BY <2>2, <2>3, <2>4, <2>5
  <2> QED
    BY <1>0, <1>1, <1>3, <2>6, <2>7
<1> QED
  BY <1>2, <1>3

\* A mark on the rows that differ.
Differing(old, new) == {e \in There(new) : old[e] # None /\ old[e] # new[e]}

\* The rows that are proposed differ from the old ones where those that are written do.
LEMMA RowsDiffer ==
    ASSUME LogInv, RowsTyped, TablesTyped, FoldsStand, NEW b, Publishing(b), NEW k \in Tables
    PROVE  Differing(db[k], Proposed(db, b)[k]) = Differing(db[k], db'[k])
<1>1. There(db'[k]) = There(Proposed(db, b)[k])
  BY TablesGrow
<1>2. CASE k # "tools"
  <2>1. db'[k] = Proposed(db, b)[k]
    BY <1>2 DEF Publishing, Proposed, Tables
  <2> QED
    BY <2>1
<1>3. CASE k = "tools"
  <2>1. DOMAIN NewTools(db, b) = Tools
    BY ToolsAre DEF Publishing
  <2>2. There(db'[k]) \subseteq Tools
    BY <1>3, <2>1 DEF There, Publishing
  <2>3. \A t \in There(db'[k]) :
           db[k][t] # None => (db[k][t] # Proposed(db, b)[k][t] <=> db[k][t] # db'[k][t])
    BY <1>3, <2>2, ToolsChange
  <2> QED
    BY <1>1, <2>3 DEF Differing
<1> QED
  BY <1>2, <1>3

\* The delta is the difference of the rows before and after.
DeltaTrue ==
    /\ \A k \in Tables :
          /\ db'.delta.inserted[k] = Cardinality({e \in There(db'[k]) : db[k][e] = None})
          /\ db'.delta.changed[k] =
               Cardinality({e \in There(db'[k]) : db[k][e] # None /\ db[k][e] # db'[k][e]})
    /\ db'.delta.tokens = Total(db'.calls) - Total(db.calls)

\* What a publication reports is what it changed.
LEMMA DeltaPublished ==
    ASSUME ArtifactInv, CallsAreValued, NEW S \in SUBSET Sources, Publish(S)
    PROVE  DeltaTrue
<1> DEFINE b == ChangeSet(S)
           rows == Proposed(db, b)
<1>0. /\ LogInv /\ ReadTyped /\ RowsTyped /\ TablesTyped /\ FoldsStand /\ LogKinds
      /\ Publishing(b)
  BY PublishIs DEF ArtifactInv, RowsInv
<1>1. b \in Seq(Observation) /\ db'.delta = Delta(db, rows) /\ db'.calls = rows.calls
  BY <1>0 DEF Publishing, Proposed
<1> HIDE DEF b
<1>2. ASSUME NEW k \in Tables
      PROVE  /\ db'.delta.inserted[k] = Cardinality({e \in There(db'[k]) : db[k][e] = None})
             /\ db'.delta.changed[k] =
                  Cardinality({e \in There(db'[k]) : db[k][e] # None /\ db[k][e] # db'[k][e]})
  <2>1. There(db'[k]) = There(rows[k])
    BY <1>0, TablesGrow
  <2>2. Differing(db[k], rows[k]) = Differing(db[k], db'[k])
    BY <1>0, RowsDiffer
  <2> HIDE DEF rows
  <2>3. /\ db'.delta.inserted[k] = Inserted(db, rows, k)
        /\ db'.delta.changed[k] = Changed(db, rows, k)
    BY <1>1 DEF Delta
  <2>4. Inserted(db, rows, k) = Cardinality({e \in There(db'[k]) : db[k][e] = None})
    BY <2>1 DEF Inserted
  <2>5. Changed(db, rows, k) = Cardinality(Differing(db[k], rows[k]))
    BY DEF Changed, Differing
  <2>6. Cardinality({e \in There(db'[k]) : db[k][e] # None /\ db[k][e] # db'[k][e]})
          = Cardinality(Differing(db[k], db'[k]))
    BY DEF Differing
  <2> QED
    BY <2>2, <2>3, <2>4, <2>5, <2>6
<1>3. db'.delta.tokens = Total(db'.calls) - Total(db.calls)
  <2>1. CallsAreValued'
    BY <1>0, ValuesPublished
  <2>2. DOMAIN db.calls = Calls /\ \A c \in There(db.calls) : db.calls[c].value \in Nat
    BY <1>0 DEF TablesTyped, CallsAreValued
  <2>3. DOMAIN rows.calls = Calls
    BY <1>0, <1>1, CallsAre DEF Proposed
  <2> HIDE DEF rows
  <2>4. \A c \in There(rows.calls) : rows.calls[c].value \in Nat
    BY <1>1, <2>1 DEF CallsAreValued
  <2>5. db'.delta.tokens = TokenDelta(db, rows)
    BY <1>1 DEF Delta
  <2>6. TokenDelta(db, rows) = Total(rows.calls) - Total(db.calls)
    BY <2>2, <2>3, <2>4, TokensAreTheDifference
  <2> QED
    BY <1>1, <2>5, <2>6
<1> QED
  BY <1>2, <1>3 DEF DeltaTrue

\* The inductive invariant of the delta.
DeltaInv == ArtifactInv /\ CallsAreValued

LEMMA DeltaInvHolds == Spec => []DeltaInv
<1>1. Init => DeltaInv
  <2> SUFFICES ASSUME Init PROVE DeltaInv
    OBVIOUS
  <2>1. There(db.calls) = {}
    BY DEF Init, EmptyDb, NoRows, There
  <2> QED
    BY <2>1, ArtifactInit DEF DeltaInv, CallsAreValued
<1>2. DeltaInv /\ [Next]_vars => DeltaInv'
  <2> SUFFICES ASSUME DeltaInv, [Next]_vars PROVE DeltaInv'
    OBVIOUS
  <2>1. ArtifactInv /\ CallsAreValued /\ ArtifactInv'
    BY ArtifactNext DEF DeltaInv
  <2>2. CASE Codex \/ UNCHANGED vars
    <3>1. db' = db
      BY <2>1, <2>2, LogStep DEF vars
    <3> QED
      BY <2>1, <3>1 DEF DeltaInv, CallsAreValued
  <2>3. ASSUME NEW S \in SUBSET Sources, Publish(S) PROVE DeltaInv'
    <3>1. CallsAreValued'
      BY <2>1, <2>3, ValuesPublished DEF ArtifactInv, RowsInv
    <3> QED
      BY <2>1, <3>1 DEF DeltaInv
  <2> QED
    BY <2>2, <2>3 DEF Next
<1> QED
  BY <1>1, <1>2, PTL DEF Spec

\* The delta of a publication is the difference it made, in rows that are new, rows that
\* differ, and tokens (_add_accounting, _token_deltas), though it is taken from the rows as
\* they are proposed, of which a tool that is there keeps a part of what it was.
THEOREM DeltaAlwaysTheDifference == Spec => DeltaIsTheDifference
<1>1. DeltaInv /\ [Next]_vars => [db' # db => DeltaTrue]_vars
  <2> SUFFICES ASSUME DeltaInv, [Next]_vars, db' # db PROVE DeltaTrue
    OBVIOUS
  <2>1. ArtifactInv /\ CallsAreValued
    BY DEF DeltaInv
  <2>2. ~(Codex \/ UNCHANGED vars)
    BY <2>1, LogStep DEF vars
  <2>3. PICK S \in SUBSET Sources : Publish(S)
    BY <2>2 DEF Next
  <2> QED
    BY <2>1, <2>3, DeltaPublished
<1>2. [db' # db => DeltaTrue]_vars =>
        [db' # db =>
          /\ \A k \in Tables :
               /\ db'.delta.inserted[k] = Cardinality({e \in There(db'[k]) : db[k][e] = None})
               /\ db'.delta.changed[k] =
                    Cardinality({e \in There(db'[k]) : db[k][e] # None /\ db[k][e] # db'[k][e]})
          /\ db'.delta.tokens = MapThenSumSet(LAMBDA c : Tokens(db'.calls, c), Calls)
                                  - MapThenSumSet(LAMBDA c : Tokens(db.calls, c), Calls) ]_vars
  BY DEF DeltaTrue, Total
<1> QED
  BY <1>1, <1>2, DeltaInvHolds, PTL DEF Spec, DeltaIsTheDifference
=============================================================================
