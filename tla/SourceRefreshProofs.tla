------------------------ MODULE SourceRefreshProofs ------------------------
(***************************************************************************)
(* Proofs about refreshes from source files, for any refreshers, files and *)
(* records and any bounds.                                                 *)
(*                                                                         *)
(* Coverage: what a publication says of its sources is added up from what  *)
(* the publication before said and from what one refresh found, and comes  *)
(* to what a recount gives, whenever files change.                         *)
(*                                                                         *)
(* Cursors: whoever refreshes, dies or is refused, what is before a cursor *)
(* is published, and cursors do not go back.                               *)
(***************************************************************************)
EXTENDS SourceRefreshProperties, FiniteSetTheorems, WellFoundedInduction, TLAPS

-----------------------------------------------------------------------------
(* Types. *)

Spot   == [path : Paths, replaced : BOOLEAN, ordinal : Nat]
Find   == [place : Spot, rec : Nat]
Update == [path : Paths, replaced : BOOLEAN, cursor : Cursor]

States   == {"idle", "discover", "source", "read", "hash", "publish"}
Outcomes == {"", "append_safe", "replaced", "truncated"}

Worker == [at : States, cursors : [Paths -> Cursor \cup {None}],
           inventory : [Items -> Entry \cup {None}], todo : SUBSET Paths,
           path : Paths \cup {0}, outcome : Outcomes, last : Nat, found : SUBSET Find,
           malformed : SUBSET Spot, updates : SUBSET Update, raised : BOOLEAN,
           prepared : [Items -> Tally \cup {None}]]

Typed ==
    /\ files \in [Paths -> File \cup {None}] /\ edits \in Nat
    /\ wk \in [Refreshers -> Worker]
    /\ rows \in [Items -> Entry \cup {None}]
    /\ cursors \in [Paths -> Cursor \cup {None}]
    /\ coverage \in [Items -> Tally \cup {None}]

Behind(cursor) == IF cursor = None THEN <<>> ELSE cursor.prefix

-----------------------------------------------------------------------------
(* What is known of sources: those with a cursor or a diagnostic have a    *)
(* row, and a refresher has read and found malformed only what it listed.  *)

SourcesAreKnown == \A p \in Paths : cursors[p] # None => rows[p] # None

DisclosedAreKnown ==
    /\ IsFiniteSet(diagnostics)
    /\ \A m \in diagnostics : m.path \in Paths /\ ~m.replaced /\ rows[m.path] # None

\* Only listed sources are read, each of them once.
Orderly(s) ==
    /\ s.at \in {"idle", "discover"} =>
         s.found = {} /\ s.malformed = {} /\ s.updates = {} /\ s.todo = {}
    /\ \A p \in s.todo : s.inventory[p] # None
    /\ \A u \in s.updates : u.path \notin s.todo
    /\ \A u, v \in s.updates : u.path = v.path => u = v

Listing(s) ==
    /\ Orderly(s)
    /\ IsFiniteSet(s.malformed) /\ \A m \in s.malformed : s.inventory[m.path] # None
    /\ \A u \in s.updates : s.inventory[u.path] # None
    /\ s.at \in {"read", "hash"} => s.path \in s.todo

\* What a refresher has prepared under the head is what a recount gives after
\* its publication.
NewCursor(s, old, p) ==
    LET new == {u \in s.updates : u.path = p /\ ~u.replaced}
    IN  IF new = {} THEN old[p] ELSE (CHOOSE u \in new : TRUE).cursor

Expected(s, cov, old, disclosed, i) ==
    IF s.inventory[i] = None THEN cov[i]
    ELSE [Counts(s.inventory[i]) EXCEPT
            !.malformed = Cardinality({m \in disclosed \cup s.malformed : m.path = i /\ ~m.replaced}),
            !.records = IF i \in Paths THEN Ordinal(NewCursor(s, old, i)) ELSE 0]

PreparedUnderHead(r) ==
    wk[r].at = "publish" /\ r \notin overtaken =>
      \A i \in Items : wk[r].prepared[i] = Expected(wk[r], coverage, cursors, diagnostics, i)

CInv ==
    /\ Typed /\ SourcesAreKnown /\ DisclosedAreKnown /\ CoverageReconciles
    /\ \A r \in Refreshers : Listing(wk[r]) /\ PreparedUnderHead(r)

-----------------------------------------------------------------------------
(* Numbers, cursors and inventories. *)

LEMMA LeastOf ==
    ASSUME NEW S \in SUBSET Nat, S # {}
    PROVE  Min(S) \in S
<1> DEFINE T == {0 .. n : n \in S}
           R == StrictSubsetOrdering(Nat)
<1>1. IsWellFoundedOn(R, FiniteSubsetsOf(Nat))
  BY FS_StrictSubsetOrderingWellFounded
<1>2. T \subseteq FiniteSubsetsOf(Nat) /\ T # {}
  <2>1. ASSUME NEW n \in S PROVE 0 .. n \in SUBSET Nat /\ IsFiniteSet(0 .. n)
    BY FS_Interval
  <2> QED
    BY <2>1 DEF FiniteSubsetsOf
<1>3. \E x \in T : \A y \in T : ~(<<y, x>> \in R)
  <2> HIDE DEF T, R
  <2> QED
    BY <1>1, <1>2, WFMin
<1>4. PICK n \in S : \A m \in S : ~(<<0 .. m, 0 .. n>> \in R)
  BY <1>3
<1>5. ASSUME NEW m \in S PROVE n <= m
  <2>1. CASE m < n
    <3>1. 0 .. m \subseteq 0 .. n /\ n \in 0 .. n /\ n \notin 0 .. m /\ 0 .. n \subseteq Nat
      BY <2>1
    <3>2. <<0 .. m, 0 .. n>> \in R
      BY <3>1 DEF StrictSubsetOrdering
    <3> QED
      BY <3>2, <1>4
  <2> QED
    BY <2>1
<1> QED
  BY <1>5 DEF Min
LEMMA PrefixMeans ==
    ASSUME NEW s \in Seq(Nat), NEW t \in Seq(Nat)
    PROVE  IsPrefix(s, t) <=> Len(s) <= Len(t) /\ \A n \in 1 .. Len(s) : s[n] = t[n]
<1>1. ASSUME Len(s) <= Len(t)
      PROVE  /\ SubSeq(s, 1, Len(s)) = s
             /\ SubSeq(t, 1, Len(s)) \in Seq(Nat)
             /\ Len(SubSeq(t, 1, Len(s))) = Len(s)
             /\ \A n \in 1 .. Len(s) : SubSeq(t, 1, Len(s))[n] = t[n]
  BY <1>1
<1> QED
  BY <1>1 DEF IsPrefix

LEMMA PrefixOfItself == ASSUME NEW s \in Seq(Nat) PROVE IsPrefix(s, s)
BY PrefixMeans

LEMMA FirstOf ==
    ASSUME NEW t \in Seq(Nat), NEW k \in Nat, k <= Len(t)
    PROVE  /\ SubSeq(t, 1, k) \in Seq(Nat) /\ Len(SubSeq(t, 1, k)) = k
           /\ \A n \in 1 .. k : SubSeq(t, 1, k)[n] = t[n]
OBVIOUS

LEMMA WholeOf == ASSUME NEW t \in Seq(Nat) PROVE SubSeq(t, 1, Len(t)) = t
OBVIOUS

LEMMA MaxOf ==
    ASSUME NEW a \in Nat, NEW b \in Nat
    PROVE  Max({a, b}) = IF a <= b THEN b ELSE a
BY DEF Max

LEMMA SizeOf ==
    ASSUME NEW file \in File
    PROVE  Size(file) \in Nat /\ Size(file) >= 2 * Len(file.recs)
BY DEF Size, File

LEMMA BehindTyped ==
    ASSUME NEW c \in Cursor \cup {None}
    PROVE  Behind(c) \in Seq(Nat) /\ Len(Behind(c)) \in Nat /\ Ordinal(c) = Len(Behind(c))
BY DEF Behind, Ordinal, Cursor
LEMMA PlacesFinite ==
    ASSUME NEW K, NEW p, NEW b, NEW k \in Nat,
           \A m \in K : \E n \in 1 .. k : m = [path |-> p, replaced |-> b, ordinal |-> n]
    PROVE  IsFiniteSet(K)
<1> DEFINE f == [m \in K |-> m.ordinal]
<1>1. \A m \in K : m.ordinal \in 1 .. k /\ m = [path |-> p, replaced |-> b, ordinal |-> m.ordinal]
  OBVIOUS
<1>2. f \in Injection(K, 1 .. k)
  BY <1>1 DEF Injection, IsInjective
<1> QED
  BY <1>2, FS_Injection, FS_Interval

LEMMA InventoryKeeps ==
    ASSUME NEW fs \in [Paths -> File \cup {None}]
    PROVE  /\ Chosen(fs) \in SUBSET Paths
           /\ Inventory(fs) \in [Items -> Entry \cup {None}]
           /\ \A p \in Chosen(fs) : Inventory(fs)[p] # None
<1>1. Chosen(fs) \subseteq Listed(fs)
  BY DEF Chosen
<1>2. Listed(fs) \subseteq Present(fs) /\ Present(fs) \subseteq Paths
  BY DEF Listed, Walked, Present
<1>3. ASSUME NEW p \in Listed(fs)
      PROVE  [rank |-> Cardinality(Before(p, Listed(fs))), size |-> Size(fs[p]),
              selected |-> p \in Chosen(fs)] \in Entry
  <2>1. Cardinality(Before(p, Listed(fs))) \in Nat
    <3>1. Before(p, Listed(fs)) \in SUBSET Paths
      BY <1>2 DEF Before
    <3> QED
      BY <3>1, CursorAssumption, FS_Subset, FS_CardinalityType
  <2>2. Size(fs[p]) \in Nat
    BY <1>2, SizeOf DEF Present
  <2> QED
    BY <2>1, <2>2 DEF Entry
<1>4. [rank |-> MaxFiles, size |-> 0, selected |-> FALSE] \in Entry
  BY CursorAssumption DEF Entry
<1>5. Inventory(fs) \in [Items -> Entry \cup {None}]
  BY <1>3, <1>4 DEF Inventory
<1>6. \A p \in Listed(fs) : Inventory(fs)[p] # None
  BY <1>2, <1>3, NoneAssumption DEF Inventory, Items
<1> QED
  BY <1>1, <1>2, <1>5, <1>6
-----------------------------------------------------------------------------
(* What a preparation counts.  A source has one new cursor at most, so the *)
(* sum over its cursors is one difference, or none.                        *)

Gain(r, i) == MapThenSumSet(LAMBDA u : Ordinal(u.cursor) - Ordinal(cursors[i]), UpdatesOf(r, i))
NewlyMalformed(r, i) == {m \in wk[r].malformed \ diagnostics : m.path = i /\ ~m.replaced}

LEMMA CoverageCounts ==
    ASSUME NEW r, NEW i
    PROVE  CoverageOf(r, i) =
             [c \in DOMAIN Zero |->
                CASE c = "malformed" -> Prior(i)[c] + Cardinality(NewlyMalformed(r, i))
                  [] c = "records"   -> Prior(i)[c] + Gain(r, i)
                  [] OTHER           -> Prior(i)[c] - Counts(rows[i])[c] + Counts(wk[r].inventory[i])[c]]
BY DEF CoverageOf, Gain, NewlyMalformed

LEMMA GainIsSum ==
    ASSUME NEW r, NEW i
    PROVE  LET S == UpdatesOf(r, i)
               Sum(g) == [s \in SUBSET S |->
                            IF s = {} THEN 0
                            ELSE (Ordinal((CHOOSE y \in s : TRUE).cursor) - Ordinal(cursors[i]))
                                   + g[s \ {CHOOSE y \in s : TRUE}]]
           IN  Gain(r, i) = (CHOOSE g : g = Sum(g))[S]
BY DEF Gain, MapThenSumSet, MapThenFoldSet

LEMMA GainIs ==
    ASSUME NEW r, NEW i,
           \/ UpdatesOf(r, i) = {}
           \/ /\ Ordinal(cursors[i]) \in Nat
              /\ \E u : UpdatesOf(r, i) = {u} /\ Ordinal(u.cursor) \in Nat
    PROVE  Gain(r, i) = IF UpdatesOf(r, i) = {} THEN 0
                        ELSE Ordinal((CHOOSE u \in UpdatesOf(r, i) : TRUE).cursor) - Ordinal(cursors[i])
<1> DEFINE S == UpdatesOf(r, i)
           Sum(g) == [s \in SUBSET S |->
                        IF s = {} THEN 0
                        ELSE (Ordinal((CHOOSE y \in s : TRUE).cursor) - Ordinal(cursors[i]))
                               + g[s \ {CHOOSE y \in s : TRUE}]]
           diff == Ordinal((CHOOSE u \in S : TRUE).cursor) - Ordinal(cursors[i])
           g0 == [s \in SUBSET S |-> IF s = {} THEN 0 ELSE diff]
           f0 == CHOOSE g : g = Sum(g)
<1>1. Gain(r, i) = f0[S]
  BY GainIsSum
<1>2. S # {} => /\ S = {CHOOSE u \in S : TRUE}
                /\ diff \in Int
  OBVIOUS
<1>3. g0 = Sum(g0)
  <2>1. ASSUME NEW s \in SUBSET S PROVE g0[s] = Sum(g0)[s]
    <3>1. CASE s = {}
      BY <3>1
    <3>2. CASE s # {}
      <4>1. s = S /\ S # {}
        BY <3>2, <1>2
      <4>2. s \ {CHOOSE y \in s : TRUE} = {} /\ {} \in SUBSET S
        BY <4>1, <1>2
      <4>3. g0[{}] = 0 /\ g0[s] = diff
        BY <3>2, <4>2
      <4>4. Sum(g0)[s] = diff + g0[s \ {CHOOSE y \in s : TRUE}]
        BY <3>2, <4>1
      <4> HIDE DEF g0, Sum, diff
      <4> QED
        BY <4>1, <4>2, <4>3, <4>4, <1>2
    <3> QED
      BY <3>1, <3>2
  <2> QED
    BY <2>1
<1>4. f0 = Sum(f0)
  <2> HIDE DEF Sum, g0
  <2> QED
    BY <1>3
<1>5. CASE S = {}
  <2> HIDE DEF f0
  <2>1. f0[{}] = 0
    BY <1>4, <1>5
  <2> QED
    BY <2>1, <1>1, <1>5
<1>6. CASE S # {}
  <2> HIDE DEF f0
  <2>1. f0[{}] = 0
    BY <1>4
  <2>2. f0[S] = diff + f0[S \ {CHOOSE y \in S : TRUE}]
    <3>1. f0[S] = Sum(f0)[S]
      BY <1>4
    <3> QED
      BY <3>1, <1>6
  <2>3. S \ {CHOOSE y \in S : TRUE} = {}
    BY <1>2, <1>6
  <2> HIDE DEF diff
  <2>4. f0[S] = diff
    BY <2>1, <2>2, <2>3, <1>2, <1>6
  <2> QED
    BY <2>4, <1>1, <1>6 DEF diff
<1> QED
  BY <1>5, <1>6
\* What is disclosed of a source, and what is found malformed in it.
Disclosed(i) == {m \in diagnostics : m.path = i}

LEMMA DisclosedFinite ==
    ASSUME DisclosedAreKnown, NEW i
    PROVE  /\ IsFiniteSet(Disclosed(i)) /\ Cardinality(Disclosed(i)) \in Nat
           /\ \A m \in Disclosed(i) : ~m.replaced
<1>1. Disclosed(i) \in SUBSET diagnostics
  BY DEF Disclosed
<1> QED
  BY <1>1, FS_Subset, FS_CardinalityType DEF DisclosedAreKnown, Disclosed

With(f, m, n) == [f EXCEPT !.malformed = m, !.records = n]

LEMMA TallyWith ==
    ASSUME NEW f \in Tally, NEW m \in Int, NEW n \in Int
    PROVE  /\ With(f, m, n) \in Tally
           /\ With(f, m, n)["malformed"] = m /\ With(f, m, n)["records"] = n
           /\ \A c \in Counters : c \notin {"malformed", "records"} => With(f, m, n)[c] = f[c]
BY DEF With, Tally, Counters

LEMMA CountedWith ==
    ASSUME NEW f \in Tally, f["malformed"] = 0, f["records"] = 0, NEW n \in Int,
           NEW c \in Counters \ {"malformed", "records"}
    PROVE  /\ [f EXCEPT ![c] = n] \in Tally
           /\ [f EXCEPT ![c] = n]["malformed"] = 0 /\ [f EXCEPT ![c] = n]["records"] = 0
BY DEF Tally, Counters

LEMMA CountsTyped ==
    ASSUME NEW row \in Entry \cup {None}
    PROVE  Counts(row) \in Tally /\ Counts(row)["malformed"] = 0 /\ Counts(row)["records"] = 0
<1>1. Zero \in Tally /\ Zero["malformed"] = 0 /\ Zero["records"] = 0
  BY DEF Zero, Tally, Counters
<1>2. CASE row = None
  BY <1>1, <1>2 DEF Counts
<1>3. CASE row # None
  <2>1. row.size \in Int
    BY <1>3 DEF Entry
  <2>2. \/ Counts(row) = [Zero EXCEPT !.selected = 1, !.selectedBytes = row.size]
        \/ Counts(row) = [Zero EXCEPT !.deferred = 1, !.deferredBytes = row.size]
    BY <1>3 DEF Counts
  <2> DEFINE z(c) == [Zero EXCEPT ![c] = 1]
  <2>3. \A c \in {"selected", "deferred"} :
          z(c) \in Tally /\ z(c)["malformed"] = 0 /\ z(c)["records"] = 0
    BY <1>1, CountedWith DEF Counters
  <2> DEFINE both(c, d) == [z(c) EXCEPT ![d] = row.size]
  <2>4. Counts(row) \in {both("selected", "selectedBytes"), both("deferred", "deferredBytes")}
    BY <2>2
  <2> HIDE DEF z
  <2>5. \A c \in {"selected", "deferred"} : \A d \in {"selectedBytes", "deferredBytes"} :
          both(c, d) \in Tally /\ both(c, d)["malformed"] = 0 /\ both(c, d)["records"] = 0
    BY <2>1, <2>3, CountedWith DEF Counters
  <2> HIDE DEF both
  <2> QED
    BY <2>4, <2>5
<1> QED
  BY <1>2, <1>3

Recorded(i) == IF i \in Paths THEN Ordinal(cursors[i]) ELSE 0

LEMMA RecordedTyped == ASSUME Typed, NEW i PROVE Recorded(i) \in Nat
BY BehindTyped DEF Typed, Recorded
\* What a preparation starts from, whether the source is new or not.
LEMMA PriorIs ==
    ASSUME CInv, NEW i \in Items
    PROVE  /\ Prior(i) \in Tally
           /\ \A c \in Counters :
                Prior(i)[c] = CASE c = "malformed" -> Cardinality(Disclosed(i))
                                [] c = "records"   -> Recorded(i)
                                [] OTHER           -> Counts(rows[i])[c]
<1> DEFINE recount == With(Counts(rows[i]), Cardinality(Disclosed(i)), Recorded(i))
<1>1. rows[i] \in Entry \cup {None}
  BY DEF CInv, Typed
<1>2. Cardinality(Disclosed(i)) \in Nat
  BY DisclosedFinite DEF CInv
<1>3. /\ recount \in Tally
      /\ \A c \in Counters : recount[c] = CASE c = "malformed" -> Cardinality(Disclosed(i))
                                          [] c = "records"   -> Recorded(i)
                                          [] OTHER           -> Counts(rows[i])[c]
  <2>1. Counts(rows[i]) \in Tally /\ Cardinality(Disclosed(i)) \in Int /\ Recorded(i) \in Int
    BY <1>1, <1>2, CountsTyped, RecordedTyped DEF CInv
  <2> QED
    BY <2>1, TallyWith
<1>4. CASE rows[i] = None
  <2>1. coverage[i] = None
    BY <1>4 DEF CInv, CoverageReconciles, Recounted
  <2>2. i \in Paths => cursors[i] = None
    BY <1>4 DEF CInv, SourcesAreKnown
  <2>3. Disclosed(i) = {} /\ Recorded(i) = 0
    BY <2>2, <1>4 DEF CInv, DisclosedAreKnown, Disclosed, Recorded, Ordinal
  <2>4. Cardinality(Disclosed(i)) = 0
    BY <2>3, FS_EmptySet
  <2>5. Prior(i) = Zero /\ Counts(rows[i]) = Zero
    BY <2>1, <1>4 DEF Prior, Counts
  <2>6. Zero \in Tally /\ Zero["malformed"] = 0 /\ Zero["records"] = 0
    BY DEF Zero, Tally, Counters
  <2> QED
    BY <2>3, <2>4, <2>5, <2>6
<1>5. CASE rows[i] # None
  <2>1. coverage[i] = recount
    BY <1>5 DEF CInv, CoverageReconciles, Recounted, Disclosed, Recorded, With
  <2> HIDE DEF recount
  <2>2. Prior(i) = recount
    BY <2>1, <1>3, TallyAssumption DEF Prior
  <2> QED
    BY <2>2, <1>3
<1> QED
  BY <1>4, <1>5

LEMMA PreparedCounts ==
    ASSUME CInv, NEW r \in Refreshers, NEW i \in Items, wk[r].inventory[i] # None
    PROVE  /\ CoverageOf(r, i) \in Tally
           /\ CoverageOf(r, i) = Expected(wk[r], coverage, cursors, diagnostics, i)
<1> DEFINE s == wk[r]
           inv == s.inventory[i]
           U == UpdatesOf(r, i)
           all == {m \in diagnostics \cup s.malformed : m.path = i /\ ~m.replaced}
           after == IF i \in Paths THEN Ordinal(NewCursor(s, cursors, i)) ELSE 0
           N == NewlyMalformed(r, i)
           D == Disclosed(i)
<1>1. s \in Worker /\ Listing(s) /\ inv \in Entry
  BY DEF CInv, Typed, Worker
<1>2. U = {} \/ \E u \in s.updates : U = {u} /\ u.path = i
  BY <1>1 DEF UpdatesOf, Listing, Orderly
<1>3. \A u \in s.updates : u.path \in Paths /\ u.cursor \in Cursor /\ Ordinal(u.cursor) \in Nat
  BY <1>1, BehindTyped DEF Worker, Update
<1>4. i \in Paths => Ordinal(cursors[i]) \in Nat
  BY BehindTyped DEF CInv, Typed
<1>5. Gain(r, i) = after - Recorded(i) /\ after \in Nat /\ Recorded(i) \in Nat
  <2>1. NewCursor(s, cursors, i) = IF U = {} THEN cursors[i] ELSE (CHOOSE u \in U : TRUE).cursor
    BY DEF NewCursor, UpdatesOf
  <2>2. CASE U = {}
    <3>1. Gain(r, i) = 0
      BY <2>2, GainIs
    <3>2. after = Recorded(i) /\ after \in Nat
      BY <2>1, <2>2, <1>4 DEF Recorded
    <3> QED
      BY <3>1, <3>2
  <2>3. CASE U # {}
    <3>1. PICK u \in s.updates : U = {u} /\ u.path = i
      BY <2>3, <1>2
    <3>2. i \in Paths /\ Ordinal(u.cursor) \in Nat
      BY <3>1, <1>3
    <3>3. (CHOOSE v \in U : TRUE) = u
      BY <3>1
    <3>4. Gain(r, i) = Ordinal(u.cursor) - Ordinal(cursors[i])
      BY <3>1, <3>2, <3>3, <2>3, <1>4, GainIs
    <3>5. after = Ordinal(u.cursor) /\ Recorded(i) = Ordinal(cursors[i])
      BY <3>2, <3>3, <2>1, <2>3 DEF Recorded
    <3> QED
      BY <3>2, <3>4, <3>5, <1>4
  <2> QED
    BY <2>2, <2>3
<1>6. /\ Cardinality(all) = Cardinality(D) + Cardinality(N)
      /\ Cardinality(D) \in Nat /\ Cardinality(N) \in Nat
  <2>1. IsFiniteSet(D) /\ \A m \in D : ~m.replaced
    BY DisclosedFinite DEF CInv
  <2>2. IsFiniteSet(N)
    <3>1. N \in SUBSET s.malformed
      BY DEF NewlyMalformed
    <3> QED
      BY <3>1, <1>1, FS_Subset DEF Listing
  <2>3. all = D \cup N /\ D \cap N = {}
    BY <2>1 DEF Disclosed, NewlyMalformed
  <2> HIDE DEF all, D, N
  <2>4. Cardinality(D \cup N) = Cardinality(D) + Cardinality(N) - Cardinality(D \cap N)
    BY <2>1, <2>2, FS_Union
  <2>5. Cardinality(D) \in Nat /\ Cardinality(N) \in Nat
    BY <2>1, <2>2, FS_CardinalityType
  <2>6. Cardinality(D \cap N) = 0 /\ Cardinality(all) = Cardinality(D \cup N)
    BY <2>3, FS_EmptySet
  <2> QED
    BY <2>4, <2>5, <2>6
<1>7. Counts(inv) \in Tally /\ Counts(inv)["malformed"] = 0 /\ Counts(inv)["records"] = 0
  BY <1>1, CountsTyped
<1>8. Counts(rows[i]) \in Tally
  BY CountsTyped DEF CInv, Typed
<1>9. DOMAIN Zero = Counters
  BY DEF Zero, Counters
<1>10. Expected(s, coverage, cursors, diagnostics, i)
         = With(Counts(inv), Cardinality(all), after)
  BY DEF Expected, With
<1>11. CoverageOf(r, i) =
         [c \in Counters |->
            CASE c = "malformed" -> Prior(i)[c] + Cardinality(N)
              [] c = "records"   -> Prior(i)[c] + Gain(r, i)
              [] OTHER           -> Prior(i)[c] - Counts(rows[i])[c] + Counts(inv)[c]]
  BY <1>9, CoverageCounts
<1> HIDE DEF s, inv, all, after, N, D, U
<1> DEFINE counted == With(Counts(inv), Cardinality(all), after)
<1>12. /\ counted \in Tally /\ counted["malformed"] = Cardinality(all) /\ counted["records"] = after
       /\ \A c \in Counters : c \notin {"malformed", "records"} => counted[c] = Counts(inv)[c]
  <2>1. Cardinality(all) \in Int /\ after \in Int
    BY <1>5, <1>6
  <2> QED
    BY <2>1, <1>7, TallyWith
<1> HIDE DEF counted
<1>13. \A c \in Counters : CoverageOf(r, i)[c] = counted[c]
  <2> TAKE c \in Counters
  <2>1. CASE c = "malformed"
    <3>1. Prior(i)[c] = Cardinality(D)
      BY <2>1, PriorIs DEF D
    <3> QED
      BY <3>1, <2>1, <1>6, <1>11, <1>12
  <2>2. CASE c = "records"
    <3>1. Prior(i)[c] = Recorded(i)
      BY <2>2, PriorIs
    <3> QED
      BY <3>1, <2>2, <1>5, <1>11, <1>12
  <2>3. CASE c \notin {"malformed", "records"}
    <3>1. Prior(i)[c] = Counts(rows[i])[c]
      BY <2>3, PriorIs
    <3>2. Counts(rows[i])[c] \in Int /\ Counts(inv)[c] \in Int
      BY <1>7, <1>8 DEF Tally
    <3>3. CoverageOf(r, i)[c] = Prior(i)[c] - Counts(rows[i])[c] + Counts(inv)[c]
      BY <2>3, <1>11
    <3> QED
      BY <3>1, <3>2, <3>3, <2>3, <1>12
  <2> QED
    BY <2>1, <2>2, <2>3
<1>14. CoverageOf(r, i) = counted
  BY <1>11, <1>12, <1>13 DEF Tally
<1> QED
  BY <1>10, <1>12, <1>14 DEF s, counted

-----------------------------------------------------------------------------
(* The invariant: at first, and when nothing is published. *)

LEMMA IdleLists == Idle \in Worker /\ Idle.at = "idle" /\ Listing(Idle)
<1>1. Idle \in Worker
  BY DEF Idle, Worker, Nowhere, States, Outcomes
<1>2. /\ Idle.at = "idle" /\ Idle.todo = {} /\ Idle.found = {}
      /\ Idle.malformed = {} /\ Idle.updates = {}
  BY DEF Idle
<1> QED
  BY <1>1, <1>2, FS_EmptySet DEF Listing, Orderly

LEMMA InitCounts == ASSUME Init PROVE CInv
<1>1. Typed
  BY IdleLists DEF Init, Typed, Nowhere
<1>2. SourcesAreKnown /\ DisclosedAreKnown
  BY FS_EmptySet DEF Init, Nowhere, SourcesAreKnown, DisclosedAreKnown
<1>3. CoverageReconciles
  BY DEF Init, CoverageReconciles, Recounted
<1>4. ASSUME NEW r \in Refreshers PROVE Listing(wk[r]) /\ PreparedUnderHead(r)
  BY IdleLists DEF Init, PreparedUnderHead
<1> QED
  BY <1>1, <1>2, <1>3, <1>4 DEF CInv

LEMMA SameTables ==
    ASSUME CInv, UNCHANGED artifact
    PROVE  /\ SourcesAreKnown' /\ DisclosedAreKnown' /\ CoverageReconciles'
           /\ rows' \in [Items -> Entry \cup {None}]
           /\ cursors' \in [Paths -> Cursor \cup {None}]
           /\ coverage' \in [Items -> Tally \cup {None}]
<1>1. SourcesAreKnown' /\ DisclosedAreKnown'
  BY DEF CInv, artifact, SourcesAreKnown, DisclosedAreKnown
<1>2. CoverageReconciles'
  BY DEF CInv, artifact, CoverageReconciles, Recounted
<1> QED
  BY <1>1, <1>2 DEF CInv, Typed, artifact

\* A refresher goes on, and nothing is published.
LEMMA ListingMoves ==
    ASSUME CInv, NEW r \in Refreshers, NEW t \in Worker, Listing(t), To(r, t),
           UNCHANGED <<files, edits, artifact>>,
           \A q \in Refreshers \ {r} : q \in overtaken' <=> q \in overtaken,
           t.at = "publish" /\ r \notin overtaken' =>
             \A i \in Items : t.prepared[i] = Expected(t, coverage, cursors, diagnostics, i)
    PROVE  CInv'
<1>1. wk \in [Refreshers -> Worker]
  BY DEF CInv, Typed
<1>2. wk'[r] = t /\ \A q \in Refreshers \ {r} : wk'[q] = wk[q]
  BY <1>1 DEF To
<1>3. Typed'
  BY <1>1, SameTables DEF To, CInv, Typed
<1>4. ASSUME NEW q \in Refreshers PROVE Listing(wk[q])' /\ PreparedUnderHead(q)'
  <2>1. CASE q = r
    BY <2>1, <1>2 DEF PreparedUnderHead, artifact
  <2>2. CASE q # r
    <3>1. Listing(wk[q]) /\ PreparedUnderHead(q)
      BY DEF CInv
    <3>2. wk'[q] = wk[q] /\ (q \in overtaken' <=> q \in overtaken)
      BY <2>2, <1>2
    <3> QED
      BY <3>1, <3>2 DEF PreparedUnderHead, artifact
  <2> QED
    BY <2>1, <2>2
<1> QED
  BY <1>3, <1>4, SameTables DEF CInv

-----------------------------------------------------------------------------
(* Codex writes, at any time. *)

LEMMA EditCounts ==
    ASSUME CInv, NEW kind, NEW p \in Paths, NEW content \in File \cup {None}, Edit(kind, p, content)
    PROVE  CInv'
<1>1. UNCHANGED <<wk, overtaken, artifact>>
  BY DEF Edit
<1>2. files' \in [Paths -> File \cup {None}] /\ edits' \in Nat
  BY DEF CInv, Typed, Edit
<1>3. Typed'
  BY <1>1, <1>2, SameTables DEF CInv, Typed
<1>4. ASSUME NEW r \in Refreshers PROVE Listing(wk[r])' /\ PreparedUnderHead(r)'
  BY <1>1 DEF CInv, PreparedUnderHead, artifact
<1> QED
  BY <1>1, <1>3, <1>4, SameTables DEF CInv

\* What is written.
LEMMA EditsAre ==
    ASSUME Typed, Codex
    PROVE  \E kind : \E p \in Paths, content \in File \cup {None} :
             /\ Edit(kind, p, content)
             /\ kind = "append" =>
                  content # None /\ files[p] # None /\ IsPrefix(files[p].recs, content.recs)
<1>1. /\ files \in [Paths -> File \cup {None}] /\ NewRecord \in Nat
      /\ None \notin File
  BY NoneAssumption DEF Typed, NewRecord
<1>2. PICK p \in Paths : Create(p) \/ AppendTo(p) \/ Delete(p) \/ Rewrite(p)
  BY DEF Codex
<1>3. CASE Create(p)
  <2>1. [recs |-> <<NewRecord>>, partial |-> FALSE] \in File
    <3>1. <<NewRecord>> \in Seq(Nat)
      BY <1>1
    <3> QED
      BY <3>1 DEF File
  <2>2. Edit("create", p, [recs |-> <<NewRecord>>, partial |-> FALSE])
    BY <1>3 DEF Create
  <2> QED
    BY <2>1, <2>2
<1>4. CASE AppendTo(p)
  <2>1. files[p] \in File /\ files[p] # None /\ files[p].recs \in Seq(Nat)
    BY <1>1, <1>4 DEF AppendTo, File
  <2> DEFINE recs == Append(files[p].recs, NewRecord)
  <2>2. recs \in Seq(Nat) /\ IsPrefix(files[p].recs, recs)
    <3>1. recs \in Seq(Nat) /\ Len(files[p].recs) <= Len(recs)
          /\ \A n \in 1 .. Len(files[p].recs) : files[p].recs[n] = recs[n]
      BY <1>1, <2>1
    <3> QED
      BY <3>1, <2>1, PrefixMeans
  <2>3. PICK partial \in BOOLEAN : Edit("append", p, [recs |-> recs, partial |-> partial])
    BY <1>4 DEF AppendTo
  <2> DEFINE content == [recs |-> recs, partial |-> partial]
  <2>4. content \in File /\ content.recs = recs
    BY <2>2 DEF File
  <2> HIDE DEF recs
  <2>5. Edit("append", p, content) /\ content # None /\ IsPrefix(files[p].recs, content.recs)
    BY <2>2, <2>3, <2>4, <1>1
  <2> HIDE DEF content
  <2> QED
    BY <2>1, <2>4, <2>5
<1>5. CASE Delete(p)
  BY <1>5 DEF Delete
<1>6. CASE Rewrite(p)
  <2>1. files[p].recs \in Seq(Nat)
    BY <1>1, <1>6 DEF Rewrite, File
  <2>2. PICK n \in 0 .. Len(files[p].recs) - 1, m \in 0 .. Len(files[p].recs) :
          Edit("rewrite", p, [recs |-> SubSeq(files[p].recs, 1, n) \o [k \in 1 .. m |-> NewRecord],
                              partial |-> FALSE])
    BY <1>6 DEF Rewrite
  <2>3. SubSeq(files[p].recs, 1, n) \in Seq(Nat) /\ [k \in 1 .. m |-> NewRecord] \in Seq(Nat)
    BY <2>1, <1>1, FirstOf
  <2>4. SubSeq(files[p].recs, 1, n) \o [k \in 1 .. m |-> NewRecord] \in Seq(Nat)
    BY <2>3
  <2>5. [recs |-> SubSeq(files[p].recs, 1, n) \o [k \in 1 .. m |-> NewRecord], partial |-> FALSE] \in File
    BY <2>4 DEF File
  <2> QED
    BY <2>2, <2>5
<1> QED
  BY <1>2, <1>3, <1>4, <1>5, <1>6

-----------------------------------------------------------------------------
(* A refresher reads, prepares, gives up, or dies. *)

\* A source is passed over, given back, or read to its end.
LEMMA FinishedLists ==
    ASSUME NEW s \in Worker, Listing(s), s.at \in {"source", "read", "hash"}, NEW p \in s.todo,
           NEW replaced \in BOOLEAN, NEW c \in Cursor \cup {None}, NEW b \in BOOLEAN
    PROVE  LET t == Finished(s, p, replaced, c)
           IN  t \in Worker /\ t.at = "source" /\ t.raised = s.raised /\ Listing(t)
<1> DEFINE t == Finished(s, p, replaced, c)
           u == [path |-> p, replaced |-> replaced, cursor |-> c]
<1>1. p \in Paths /\ (c # None => u \in Update) /\ u.path = p
  BY DEF Worker, Update
<1>2. /\ t.at = "source" /\ t.inventory = s.inventory /\ t.raised = s.raised
      /\ t.todo = s.todo \ {p} /\ t.found = s.found /\ t.malformed = s.malformed
      /\ t.updates = IF c = None THEN s.updates ELSE s.updates \cup {u}
  BY DEF Worker, Finished
<1>3. t \in Worker
  <2>1. s.todo \ {p} \in SUBSET Paths /\ s.updates \in SUBSET Update
    BY DEF Worker
  <2>2. (IF c = None THEN s.updates ELSE s.updates \cup {u}) \in SUBSET Update
    BY <1>1, <2>1
  <2> QED
    BY <2>1, <2>2 DEF Worker, Finished, States, Outcomes
<1> HIDE DEF t, u
<1>4. Listing(t)
  BY <1>1, <1>2 DEF Listing, Orderly
<1> QED
  BY <1>2, <1>3, <1>4 DEF t

LEMMA RaisedLists ==
    ASSUME CInv, NEW r \in Refreshers, wk[r].at \in {"source", "read", "hash"}, NEW p \in wk[r].todo,
           Raised(r, p), UNCHANGED <<files, edits, overtaken, artifact>>
    PROVE  CInv'
<1> DEFINE u == Finished(wk[r], p, FALSE, wk[r].cursors[p])
           t == [u EXCEPT !.raised = TRUE]
<1>1. wk[r] \in Worker /\ Listing(wk[r]) /\ wk[r].cursors[p] \in Cursor \cup {None}
  BY DEF CInv, Typed, Worker
<1>2. u \in Worker /\ u.at = "source" /\ Listing(u)
  BY <1>1, FinishedLists
<1>3. To(r, t)
  BY DEF Raised
<1> HIDE DEF u
<1>4. /\ t \in Worker /\ t.at = u.at /\ t.inventory = u.inventory /\ t.todo = u.todo
      /\ t.path = u.path /\ t.found = u.found /\ t.malformed = u.malformed /\ t.updates = u.updates
  BY <1>2 DEF Worker
<1> HIDE DEF t
<1>5. Listing(t) /\ t.at = "source"
  BY <1>2, <1>4 DEF Listing, Orderly
<1> QED
  BY <1>3, <1>4, <1>5, ListingMoves

LEMMA BeginCounts == ASSUME CInv, NEW r \in Refreshers, Begin(r) PROVE CInv'
<1> DEFINE t == [Idle EXCEPT !.at = "discover", !.cursors = cursors]
<1>1. cursors \in [Paths -> Cursor \cup {None}]
  BY DEF CInv, Typed
<1>2. t \in Worker
  BY <1>1, IdleLists DEF Worker, States
<1>3. /\ t.at = "discover" /\ t.todo = {} /\ t.found = {} /\ t.malformed = {} /\ t.updates = {}
  BY DEF Idle
<1>4. To(r, t) /\ overtaken' = overtaken \ {r} /\ UNCHANGED <<files, edits, artifact>>
  BY DEF Begin
<1> HIDE DEF t
<1>5. Listing(t)
  BY <1>3, FS_EmptySet DEF Listing, Orderly
<1> QED
  BY <1>2, <1>3, <1>4, <1>5, ListingMoves

LEMMA DiscoverCounts == ASSUME CInv, NEW r \in Refreshers, Discover(r) PROVE CInv'
<1> DEFINE t == [wk[r] EXCEPT !.at = "source", !.inventory = Inventory(files), !.todo = Chosen(files)]
<1>1. /\ wk[r] \in Worker /\ files \in [Paths -> File \cup {None}] /\ wk[r].at = "discover"
      /\ Listing(wk[r])
  BY DEF CInv, Typed, Discover
<1>2. t \in Worker
  BY <1>1, InventoryKeeps DEF Worker, States
<1>3. /\ t.at = "source" /\ t.inventory = Inventory(files) /\ t.todo = Chosen(files)
      /\ t.found = {} /\ t.malformed = {} /\ t.updates = {}
  BY <1>1 DEF Worker, Listing, Orderly
<1>4. To(r, t) /\ UNCHANGED <<files, edits, overtaken, artifact>>
  BY DEF Discover
<1> HIDE DEF t
<1>5. Listing(t)
  BY <1>1, <1>3, InventoryKeeps, FS_EmptySet DEF Listing, Orderly
<1> QED
  BY <1>2, <1>3, <1>4, <1>5, ListingMoves

\* The source that is next.
LEMMA NextSource ==
    ASSUME Typed, NEW r \in Refreshers, ClassifySource(r)
    PROVE  Min(wk[r].todo) \in wk[r].todo /\ Min(wk[r].todo) \in Paths
<1>1. wk[r].todo \in SUBSET Nat /\ wk[r].todo # {} /\ wk[r].todo \subseteq Paths
  BY CursorAssumption DEF Typed, Worker, ClassifySource
<1> QED
  BY <1>1, LeastOf

LEMMA ClassifyCounts == ASSUME CInv, NEW r \in Refreshers, ClassifySource(r) PROVE CInv'
<1> DEFINE s == wk[r]
           p == Min(s.todo)
           o == Classify(files[p], s.cursors[p])
           u == Finished(s, p, FALSE, s.cursors[p])
           x == [s EXCEPT !.at = "read", !.path = p, !.outcome = o]
<1>1. s \in Worker /\ Listing(s) /\ s.at = "source" /\ p \in s.todo /\ p \in Paths
  BY NextSource DEF CInv, Typed, ClassifySource
<1>2. UNCHANGED <<files, edits, overtaken, artifact>>
  BY DEF ClassifySource
<1>3. CASE files[p] = None
  <2>1. Raised(r, p)
    BY <1>3 DEF ClassifySource
  <2> QED
    BY <2>1, <1>1, <1>2, RaisedLists
<1>4. CASE files[p] # None /\ o = "no_change"
  <2>1. To(r, u)
    BY <1>4 DEF ClassifySource
  <2>2. u \in Worker /\ u.at = "source" /\ Listing(u)
    <3>1. s.cursors[p] \in Cursor \cup {None}
      BY <1>1 DEF Worker
    <3> QED
      BY <3>1, <1>1, FinishedLists
  <2> HIDE DEF u
  <2> QED
    BY <2>1, <2>2, <1>2, ListingMoves
<1>5. CASE files[p] # None /\ o # "no_change"
  <2>1. To(r, x)
    BY <1>5 DEF ClassifySource
  <2>2. o \in Outcomes /\ "read" \in States
    BY <1>5 DEF Classify, Outcomes, States
  <2> HIDE DEF o, p, s
  <2>3. x \in Worker
    BY <1>1, <2>2 DEF Worker
  <2>4. /\ x.at = "read" /\ x.inventory = s.inventory /\ x.todo = s.todo /\ x.path = p
        /\ x.found = s.found /\ x.malformed = s.malformed /\ x.updates = s.updates
    BY <1>1 DEF Worker
  <2> HIDE DEF x
  <2>5. Listing(x)
    BY <1>1, <2>4 DEF Listing, Orderly
  <2> QED
    BY <2>1, <2>3, <2>4, <2>5, <1>2, ListingMoves DEF s
<1> QED
  BY <1>3, <1>4, <1>5

LEMMA ReadCounts == ASSUME CInv, NEW r \in Refreshers, ReadSource(r) PROVE CInv'
<1> DEFINE s == wk[r]
           p == s.path
           first == Start(s.outcome, s.cursors[p])
           recs == files[p].recs
           read == first + 1 .. Len(recs)
           last == Max({first, Len(recs)})
           new == {[place |-> Place(r, n), rec |-> recs[n]] : n \in {n \in read : recs[n] \notin Malformed}}
           bad == {Place(r, n) : n \in {n \in read : recs[n] \in Malformed}}
           t == [s EXCEPT !.at = "hash", !.last = last,
                          !.found = @ \cup new, !.malformed = @ \cup bad]
<1>1. /\ s \in Worker /\ Listing(s) /\ s.at = "read" /\ p \in s.todo /\ p \in Paths
      /\ files[p] \in File \cup {None}
  BY DEF CInv, Typed, ReadSource, Listing, Worker
<1>2. UNCHANGED <<files, edits, overtaken, artifact>>
  BY DEF ReadSource
<1>3. CASE files[p] = None
  <2>1. Raised(r, p)
    BY <1>3 DEF ReadSource
  <2> QED
    BY <2>1, <1>1, <1>2, RaisedLists
<1>4. CASE files[p] # None
  <2>1. To(r, t)
    BY <1>4 DEF ReadSource
  <2>2. recs \in Seq(Nat) /\ Len(recs) \in Nat
    BY <1>1, <1>4 DEF File
  <2>3. first \in Nat
    BY <1>1, BehindTyped DEF Start, Worker, Cursor
  <2>4. last \in Nat
    BY <2>2, <2>3, MaxOf
  <2>5. ASSUME NEW n \in read
        PROVE  Place(r, n) \in Spot /\ Place(r, n).path = p /\ recs[n] \in Nat
    BY <1>1, <2>2, <2>3 DEF Place, IsReplacement, Spot
  <2>6. new \in SUBSET Find /\ bad \in SUBSET Spot /\ \A m \in bad : m.path = p
    BY <2>5 DEF Find
  <2>7. IsFiniteSet(bad)
    <3>1. \A m \in bad : \E n \in 1 .. Len(recs) :
            m = [path |-> p, replaced |-> IsReplacement(r), ordinal |-> n]
      BY <2>2, <2>3 DEF Place
    <3> HIDE DEF bad
    <3> QED
      BY <3>1, <2>2, PlacesFinite
  <2> HIDE DEF new, bad, last
  <2>8. t \in Worker
    <3>1. /\ s.found \cup new \in SUBSET Find /\ s.malformed \cup bad \in SUBSET Spot
          /\ "hash" \in States
      BY <1>1, <2>6 DEF Worker, States
    <3> QED
      BY <3>1, <2>4, <1>1 DEF Worker
  <2>9. /\ t.at = "hash" /\ t.inventory = s.inventory /\ t.todo = s.todo /\ t.path = p
        /\ t.malformed = s.malformed \cup bad /\ t.updates = s.updates
    BY <1>1 DEF Worker
  <2> HIDE DEF t
  <2>10. Listing(t)
    <3>1. IsFiniteSet(t.malformed)
      <4>1. IsFiniteSet(s.malformed)
        BY <1>1 DEF Listing
      <4> QED
        BY <4>1, <2>7, <2>9, FS_Union
    <3>2. \A m \in t.malformed : t.inventory[m.path] # None
      BY <1>1, <2>6, <2>9 DEF Listing, Orderly
    <3> QED
      BY <3>1, <3>2, <1>1, <2>9 DEF Listing, Orderly
  <2> QED
    BY <2>1, <2>8, <2>9, <2>10, <1>2, ListingMoves
<1> QED
  BY <1>3, <1>4

LEMMA HashCounts == ASSUME CInv, NEW r \in Refreshers, HashSource(r) PROVE CInv'
<1> DEFINE s == wk[r]
           p == s.path
           c == CursorAt(files[p], s.last)
           t == Finished(s, p, IsReplacement(r), c)
<1>1. /\ s \in Worker /\ Listing(s) /\ s.at = "hash" /\ p \in s.todo /\ p \in Paths
      /\ files[p] \in File \cup {None} /\ s.last \in Nat
  BY DEF CInv, Typed, HashSource, Listing, Worker
<1>2. UNCHANGED <<files, edits, overtaken, artifact>>
  BY DEF HashSource
<1>3. CASE files[p] = None \/ Size(files[p]) < 2 * s.last
  <2>1. Raised(r, p)
    BY <1>3 DEF HashSource
  <2> QED
    BY <2>1, <1>1, <1>2, RaisedLists
<1>4. CASE files[p] # None /\ ~(Size(files[p]) < 2 * s.last)
  <2>1. To(r, t)
    BY <1>4 DEF HashSource
  <2>2. c \in Cursor
    <3>1. files[p].recs \in Seq(Nat) /\ Len(files[p].recs) \in Nat /\ files[p] \in File
      BY <1>1, <1>4 DEF File
    <3>2. s.last <= Len(files[p].recs)
      <4>1. Size(files[p]) \in Nat /\ 2 * s.last <= Size(files[p])
        BY <3>1, <1>1, <1>4, SizeOf
      <4>2. Size(files[p]) <= 2 * Len(files[p].recs) + 1
        BY <3>1 DEF Size
      <4> QED
        BY <4>1, <4>2, <3>1, <1>1
    <3> QED
      BY <3>1, <3>2, <1>1, FirstOf, SizeOf DEF CursorAt, Cursor
  <2>3. t \in Worker /\ t.at = "source" /\ Listing(t)
    <3>1. IsReplacement(r) \in BOOLEAN
      BY DEF IsReplacement
    <3> HIDE DEF c
    <3> QED
      BY <3>1, <2>2, <1>1, FinishedLists
  <2> HIDE DEF t
  <2> QED
    BY <2>1, <2>3, <1>2, ListingMoves
<1> QED
  BY <1>3, <1>4

LEMMA PreparedTyped ==
    ASSUME CInv, NEW r \in Refreshers, NEW i \in Items
    PROVE  LET n == IF wk[r].inventory[i] = None THEN coverage[i] ELSE CoverageOf(r, i)
           IN  n \in Tally \cup {None} /\ n = Expected(wk[r], coverage, cursors, diagnostics, i)
<1>1. CASE wk[r].inventory[i] = None
  BY <1>1 DEF CInv, Typed, Expected
<1>2. CASE wk[r].inventory[i] # None
  BY <1>2, PreparedCounts
<1> QED
  BY <1>1, <1>2

LEMMA PrepareCounts == ASSUME CInv, NEW r \in Refreshers, Prepare(r) PROVE CInv'
<1> DEFINE s == wk[r]
           prepared == [i \in Items |-> IF s.inventory[i] = None THEN coverage[i] ELSE CoverageOf(r, i)]
           t == [s EXCEPT !.at = "publish", !.prepared = prepared]
<1>1. s \in Worker /\ Listing(s) /\ s.at = "source"
  BY DEF CInv, Typed, Prepare
<1>2. To(r, t) /\ UNCHANGED <<files, edits, overtaken, artifact>>
  BY DEF Prepare
<1>3. ASSUME NEW i \in Items
      PROVE  /\ prepared[i] \in Tally \cup {None}
             /\ prepared[i] = Expected(s, coverage, cursors, diagnostics, i)
  BY PreparedTyped
<1>4. prepared \in [Items -> Tally \cup {None}]
  BY <1>3
<1> HIDE DEF prepared
<1>5. t \in Worker
  BY <1>1, <1>4 DEF Worker, States
<1>6. /\ t.at = "publish" /\ t.inventory = s.inventory /\ t.todo = s.todo
      /\ t.malformed = s.malformed /\ t.updates = s.updates /\ t.prepared = prepared
  BY <1>1 DEF Worker
<1> HIDE DEF t
<1>7. Listing(t)
  BY <1>1, <1>6 DEF Listing, Orderly
<1>8. ASSUME NEW i \in Items PROVE t.prepared[i] = Expected(t, coverage, cursors, diagnostics, i)
  <2>1. NewCursor(t, cursors, i) = NewCursor(s, cursors, i)
    BY <1>6 DEF NewCursor
  <2>2. Expected(t, coverage, cursors, diagnostics, i) = Expected(s, coverage, cursors, diagnostics, i)
    BY <1>6, <2>1 DEF Expected
  <2> QED
    BY <1>3, <1>6, <2>2
<1> QED
  BY <1>2, <1>5, <1>7, <1>8, ListingMoves

LEMMA IdleCounts ==
    ASSUME CInv, NEW r \in Refreshers, To(r, Idle), UNCHANGED <<files, edits, overtaken, artifact>>
    PROVE  CInv'
BY IdleLists, ListingMoves

-----------------------------------------------------------------------------
(* A refresher publishes. *)

LEMMA PublishedCursorIs ==
    ASSUME CInv, NEW r \in Refreshers, Publish(r), NEW p \in Paths
    PROVE  /\ cursors'[p] = NewCursor(wk[r], cursors, p)
           /\ cursors'[p] \in Cursor \cup {None}
           /\ cursors'[p] = cursors[p] \/ wk[r].inventory[p] # None
<1>1. /\ wk[r] \in Worker /\ Listing(wk[r]) /\ cursors[p] \in Cursor \cup {None}
  BY DEF CInv, Typed
<1>2. cursors'[p] = NewCursor(wk[r], cursors, p)
  BY DEF Publish, NewCursor, UpdatesOf
<1>3. CASE UpdatesOf(r, p) = {}
  BY <1>1, <1>2, <1>3 DEF NewCursor, UpdatesOf
<1>4. CASE UpdatesOf(r, p) # {}
  <2>1. PICK u \in wk[r].updates : u = CHOOSE v \in UpdatesOf(r, p) : TRUE
    BY <1>4 DEF UpdatesOf
  <2>2. u \in UpdatesOf(r, p)
    BY <1>4, <2>1
  <2>3. u.path = p /\ cursors'[p] = u.cursor
    BY <1>2, <1>4, <2>1, <2>2 DEF NewCursor, UpdatesOf
  <2> QED
    BY <1>1, <1>2, <2>3 DEF Worker, Update, Listing
<1> QED
  BY <1>3, <1>4

LEMMA NothingReplaced ==
    ASSUME NEW r, Publish(r)
    PROVE  /\ \A f \in wk[r].found : ~f.place.replaced
           /\ \A m \in wk[r].malformed : ~m.replaced
BY DEF Publish, Commits, KeysDangle

LEMMA PublishedRow ==
    ASSUME CInv, NEW r \in Refreshers, Publish(r), NEW i \in Items
    PROVE  /\ rows'[i] \in Entry \cup {None}
           /\ wk[r].inventory[i] = None => rows'[i] = rows[i]
           /\ wk[r].inventory[i] # None =>
                rows'[i] # None /\ Counts(rows'[i]) = Counts(wk[r].inventory[i])
<1> DEFINE inv == wk[r].inventory[i]
<1>1. inv \in Entry \cup {None} /\ rows[i] \in Entry \cup {None}
  BY DEF CInv, Typed, Worker
<1>2. rows'[i] = IF inv = None THEN rows[i] ELSE IF rows[i] = None THEN inv
                 ELSE [inv EXCEPT !.rank = rows[i].rank]
  BY DEF Publish
<1> HIDE DEF inv
<1>3. CASE inv = None \/ rows[i] = None
  BY <1>1, <1>2, <1>3 DEF inv
<1>4. CASE inv # None /\ rows[i] # None
  <2> DEFINE row == [inv EXCEPT !.rank = rows[i].rank]
  <2>1. row \in Entry /\ row.size = inv.size /\ row.selected = inv.selected
    BY <1>1, <1>4 DEF Entry
  <2> HIDE DEF row
  <2>2. row # None /\ Counts(row) = Counts(inv)
    BY <2>1, <1>4, NoneAssumption DEF Counts
  <2>3. rows'[i] = row
    BY <1>2, <1>4 DEF row
  <2> QED
    BY <2>1, <2>2, <2>3, <1>4 DEF inv
<1> QED
  BY <1>3, <1>4
LEMMA PublishedKnown ==
    ASSUME CInv, NEW r \in Refreshers, Publish(r) PROVE SourcesAreKnown' /\ DisclosedAreKnown'
<1> DEFINE s == wk[r]
<1>1. /\ s \in Worker /\ Listing(s) /\ SourcesAreKnown /\ DisclosedAreKnown
      /\ diagnostics' = diagnostics \cup s.malformed /\ Paths \subseteq Items
  BY DEF CInv, Typed, Publish, Items
<1>2. ASSUME NEW p \in Paths, rows[p] # None \/ s.inventory[p] # None PROVE rows'[p] # None
  BY <1>1, <1>2, PublishedRow
<1>3. SourcesAreKnown'
  BY <1>1, <1>2, PublishedCursorIs DEF SourcesAreKnown
<1>4. IsFiniteSet(diagnostics')
  BY <1>1, FS_Union DEF Listing, DisclosedAreKnown
<1>5. \A m \in diagnostics' : m.path \in Paths /\ ~m.replaced /\ rows'[m.path] # None
  BY <1>1, <1>2, NothingReplaced DEF DisclosedAreKnown, Listing, Worker, Spot
<1> QED
  BY <1>3, <1>4, <1>5 DEF DisclosedAreKnown

LEMMA PublishedCoverage ==
    ASSUME CInv, NEW r \in Refreshers, Publish(r) PROVE CoverageReconciles'
<1> DEFINE s == wk[r]
<1>1. /\ s \in Worker /\ Listing(s) /\ DisclosedAreKnown /\ CoverageReconciles
      /\ \A m \in s.malformed : ~m.replaced
      /\ \A i \in Items : s.prepared[i] = Expected(s, coverage, cursors, diagnostics, i)
  BY NothingReplaced DEF CInv, Typed, PreparedUnderHead, Publish, Commits
<1>2. diagnostics' = diagnostics \cup s.malformed /\ coverage' = s.prepared
  BY DEF Publish
<1>3. ASSUME NEW i \in Items PROVE s.prepared[i] = Recounted(i)'
  <2>1. CASE s.inventory[i] = None
    <3>1. s.prepared[i] = Recounted(i)
      BY <2>1, <1>1 DEF Expected, CoverageReconciles
    <3>2. rows'[i] = rows[i] /\ (i \in Paths => cursors'[i] = cursors[i])
      BY <2>1, PublishedRow, PublishedCursorIs
    <3>3. {m \in diagnostics' : m.path = i} = {m \in diagnostics : m.path = i}
      BY <2>1, <1>1, <1>2 DEF Listing
    <3> QED
      BY <3>1, <3>2, <3>3 DEF Recounted
  <2>2. CASE s.inventory[i] # None
    <3>1. s.prepared[i] =
            [Counts(s.inventory[i]) EXCEPT
               !.malformed = Cardinality({m \in diagnostics \cup s.malformed : m.path = i /\ ~m.replaced}),
               !.records = IF i \in Paths THEN Ordinal(NewCursor(s, cursors, i)) ELSE 0]
      BY <2>2, <1>1 DEF Expected
    <3>2. rows'[i] # None /\ Counts(rows'[i]) = Counts(s.inventory[i])
      BY <2>2, PublishedRow
    <3>3. {m \in diagnostics \cup s.malformed : m.path = i /\ ~m.replaced}
            = {m \in diagnostics' : m.path = i}
      BY <1>1, <1>2 DEF DisclosedAreKnown
    <3>4. i \in Paths => NewCursor(s, cursors, i) = cursors'[i]
      BY PublishedCursorIs
    <3>5. Recounted(i)' =
            [Counts(rows'[i]) EXCEPT
               !.malformed = Cardinality({m \in diagnostics' : m.path = i}),
               !.records = IF i \in Paths THEN Ordinal(cursors'[i]) ELSE 0]
      BY <3>2 DEF Recounted
    <3> QED
      BY <3>1, <3>2, <3>3, <3>4, <3>5
  <2> QED
    BY <2>1, <2>2
<1>4. s.prepared \in [Items -> Tally \cup {None}]
  BY <1>1 DEF Worker
<1> QED
  BY <1>2, <1>3, <1>4 DEF CoverageReconciles

LEMMA PublishCounts == ASSUME CInv, NEW r \in Refreshers, Publish(r) PROVE CInv'
<1>1. wk \in [Refreshers -> Worker] /\ UNCHANGED <<files, edits>> /\ To(r, Idle)
  BY DEF CInv, Typed, Publish
<1>2. wk'[r] = Idle /\ \A q \in Refreshers \ {r} : wk'[q] = wk[q]
  BY <1>1 DEF To
<1>3. Typed'
  <2>1. coverage' \in [Items -> Tally \cup {None}]
    BY <1>1 DEF Publish, Worker
  <2>2. wk' \in [Refreshers -> Worker]
    BY <1>1, IdleLists DEF To
  <2>3. files' \in [Paths -> File \cup {None}] /\ edits' \in Nat
    BY <1>1 DEF CInv, Typed
  <2>4. cursors' \in [Paths -> Cursor \cup {None}]
    <3>1. cursors' = [p \in Paths |-> cursors'[p]]
      BY DEF Publish
    <3> QED
      BY <3>1, PublishedCursorIs
  <2>5. rows' \in [Items -> Entry \cup {None}]
    <3>1. rows' = [i \in Items |-> rows'[i]]
      BY DEF Publish
    <3> QED
      BY <3>1, PublishedRow
  <2> QED
    BY <2>1, <2>2, <2>3, <2>4, <2>5 DEF Typed
<1>4. ASSUME NEW q \in Refreshers PROVE Listing(wk[q])' /\ PreparedUnderHead(q)'
  <2>1. CASE q = r
    BY <2>1, <1>2, IdleLists DEF PreparedUnderHead
  <2>2. CASE q # r
    <3>1. Listing(wk[q])' /\ wk'[q] = wk[q]
      BY <2>2, <1>2 DEF CInv
    <3>2. wk[q].at # "idle" => q \in overtaken'
      BY <2>2 DEF Publish
    <3> QED
      BY <3>1, <3>2 DEF PreparedUnderHead
  <2> QED
    BY <2>1, <2>2
<1> QED
  BY <1>3, <1>4, PublishedKnown, PublishedCoverage DEF CInv

-----------------------------------------------------------------------------
(* Every step, and what follows. *)

LEMMA NextCounts == ASSUME CInv, [Next]_vars PROVE CInv'
<1>1. CASE Codex
  <2>1. \E kind : \E p \in Paths, content \in File \cup {None} : Edit(kind, p, content)
    BY <1>1, EditsAre DEF CInv
  <2> QED
    BY <2>1, EditCounts
<1>2. ASSUME NEW r \in Refreshers, Refresh(r) PROVE CInv'
  <2>1. CASE Begin(r)
    BY <2>1, BeginCounts
  <2>2. CASE Discover(r)
    BY <2>2, DiscoverCounts
  <2>3. CASE ClassifySource(r)
    BY <2>3, ClassifyCounts
  <2>4. CASE ReadSource(r)
    BY <2>4, ReadCounts
  <2>5. CASE HashSource(r)
    BY <2>5, HashCounts
  <2>6. CASE Prepare(r)
    BY <2>6, PrepareCounts
  <2>7. CASE NoChange(r)
    BY <2>7, IdleCounts DEF NoChange
  <2>8. CASE Publish(r)
    BY <2>8, PublishCounts
  <2>9. CASE Refused(r)
    BY <2>9, IdleCounts DEF Refused
  <2> QED
    BY <1>2, <2>1, <2>2, <2>3, <2>4, <2>5, <2>6, <2>7, <2>8, <2>9 DEF Refresh
<1>3. ASSUME NEW r \in Refreshers, Die(r) PROVE CInv'
  BY <1>3, IdleCounts DEF Die
<1>4. CASE UNCHANGED vars
  <2>1. UNCHANGED <<files, edits, wk, overtaken, artifact>>
    BY <1>4 DEF vars
  <2>2. Typed'
    BY <2>1, SameTables DEF CInv, Typed
  <2>3. ASSUME NEW r \in Refreshers PROVE Listing(wk[r])' /\ PreparedUnderHead(r)'
    BY <2>1 DEF CInv, PreparedUnderHead, artifact
  <2> QED
    BY <2>1, <2>2, <2>3, SameTables DEF CInv
<1> QED
  BY <1>1, <1>2, <1>3, <1>4 DEF Next

LEMMA CountsHold == Spec => []CInv
<1>1. Init => CInv
  BY InitCounts
<1>2. CInv /\ [Next]_vars => CInv'
  BY NextCounts
<1> QED
  BY <1>1, <1>2, PTL DEF Spec

(* What a publication says of each source is what a count over its tables  *)
(* gives, although it is added up from what the publication before said,   *)
(* by refreshes that began under different heads and over files that       *)
(* change at any time (preparation.py, _add_source_coverage; validation.py, *)
(* _validate_coverage).                                                    *)
THEOREM CoverageStaysReconciled == Spec => []CoverageReconciles
<1>1. CInv => CoverageReconciles
  BY DEF CInv
<1> QED
  BY <1>1, CountsHold, PTL

-----------------------------------------------------------------------------
(* A world in which a file may grow while it is read, and whatever else    *)
(* happens to it happens between two reads.                                *)

Steady == habit.midRead \subseteq {"append"}

-----------------------------------------------------------------------------
(* What is published: exactly the records before the cursors. *)

OccurrencesBehind ==
    \A f \in occurrences :
      \E p \in Paths : \E n \in 1 .. Len(Behind(cursors[p])) :
        /\ f = [place |-> At(p, n), rec |-> Behind(cursors[p])[n]]
        /\ f.rec \notin Malformed

DiagnosticsBehind ==
    \A m \in diagnostics :
      \E p \in Paths : \E n \in 1 .. Len(Behind(cursors[p])) :
        m = At(p, n) /\ Behind(cursors[p])[n] \in Malformed

Tables == OccurrencesBehind /\ DiagnosticsBehind /\ PrefixIsPublished

-----------------------------------------------------------------------------
(* What a refresher in state s, with the files fs, has read of which       *)
(* source: up to a new cursor, or as far as it got in the file it is in.   *)

Replaces(s) == s.outcome \in {"replaced", "truncated"}

Reached(s, fs) ==
    {[path |-> u.path, prefix |-> u.cursor.prefix] : u \in {u \in s.updates : ~u.replaced}}
    \cup (IF s.at = "hash" /\ ~Replaces(s)
          THEN {[path |-> s.path, prefix |-> SubSeq(fs[s.path].recs, 1, s.last)]} ELSE {})

Old(s, p) == Behind(s.cursors[p])

FoundAt(s, p, n, rec) ==
    IF rec \in Malformed THEN At(p, n) \in s.malformed
                         ELSE [place |-> At(p, n), rec |-> rec] \in s.found

\* Everything between the old cursor and where it got was found, ...
NothingSkipped(s, fs) ==
    \A x \in Reached(s, fs) :
      /\ x.path \in Paths /\ x.prefix \in Seq(Nat)
      /\ s.inventory[x.path] # None
      /\ x.path \in s.todo => s.at = "hash" /\ x.path = s.path
      /\ IsPrefix(Old(s, x.path), x.prefix)
      /\ \A n \in Len(Old(s, x.path)) + 1 .. Len(x.prefix) : FoundAt(s, x.path, n, x.prefix[n])

ReachedOnce(s, fs) == \A x, y \in Reached(s, fs) : x.path = y.path => x = y

\* ... and nothing else.
FoundReached(s, fs) ==
    \A f \in s.found : ~f.place.replaced =>
      \E x \in Reached(s, fs) : \E n \in Len(Old(s, x.path)) + 1 .. Len(x.prefix) :
        /\ f = [place |-> At(x.path, n), rec |-> x.prefix[n]]
        /\ f.rec \notin Malformed

MalformedReached(s, fs) ==
    \A m \in s.malformed : ~m.replaced =>
      \E x \in Reached(s, fs) : \E n \in Len(Old(s, x.path)) + 1 .. Len(x.prefix) :
        m = At(x.path, n) /\ x.prefix[n] \in Malformed

\* The file it is in is there, and goes on from the old cursor.
InFile(s, fs) ==
    /\ s.at \in {"read", "hash"} =>
         /\ s.path \in s.todo /\ fs[s.path] # None
         /\ s.outcome \in {"append_safe", "replaced", "truncated"}
         /\ ~Replaces(s) => IsPrefix(Old(s, s.path), fs[s.path].recs)
    /\ s.at = "hash" =>
         /\ s.last <= Len(fs[s.path].recs)
         /\ ~Replaces(s) => Len(Old(s, s.path)) <= s.last

Reading(s, fs) ==
    /\ NothingSkipped(s, fs) /\ ReachedOnce(s, fs)
    /\ FoundReached(s, fs) /\ MalformedReached(s, fs)
    /\ InFile(s, fs) /\ Orderly(s)

-----------------------------------------------------------------------------
(* It began under the head, unless it was overtaken. *)

BeganUnderHead(r) == wk[r].at # "idle" /\ r \notin overtaken => wk[r].cursors = cursors

IInv ==
    /\ Steady /\ Tables
    /\ \A r \in Refreshers : Reading(wk[r], files) /\ BeganUnderHead(r)

-----------------------------------------------------------------------------
(* What a refresher has reached, step by step. *)

LEMMA Reaches ==
    ASSUME NEW s, NEW fs, NEW x
    PROVE  x \in Reached(s, fs) <=>
             \/ \E u \in s.updates : ~u.replaced /\ x = [path |-> u.path, prefix |-> u.cursor.prefix]
             \/ /\ s.at = "hash" /\ ~Replaces(s)
                /\ x = [path |-> s.path, prefix |-> SubSeq(fs[s.path].recs, 1, s.last)]
BY DEF Reached

\* The same with as much reached.
LEMMA ReachedSame ==
    ASSUME NEW s, NEW t, NEW fs, NEW gs, Reached(t, gs) = Reached(s, fs),
           t.cursors = s.cursors, t.inventory = s.inventory,
           t.found = s.found, t.malformed = s.malformed,
           \A p \in t.todo : p \in s.todo,
           \A p \in t.todo : s.at = "hash" /\ p = s.path => t.at = "hash" /\ p = t.path,
           Reading(s, fs), InFile(t, gs), Orderly(t)
    PROVE  Reading(t, gs)
BY DEF Reading, NothingSkipped, ReachedOnce, FoundReached, MalformedReached, Old, FoundAt

LEMMA RaisedReads ==
    ASSUME NEW s \in Worker, NEW fs, Reading(s, fs)
    PROVE  [s EXCEPT !.raised = TRUE] \in Worker /\ Reading([s EXCEPT !.raised = TRUE], fs)
<1> DEFINE t == [s EXCEPT !.raised = TRUE]
<1>1. t \in Worker
  BY DEF Worker
<1>2. /\ t.at = s.at /\ t.cursors = s.cursors /\ t.inventory = s.inventory /\ t.todo = s.todo
      /\ t.path = s.path /\ t.outcome = s.outcome /\ t.last = s.last
      /\ t.found = s.found /\ t.malformed = s.malformed /\ t.updates = s.updates
  BY DEF Worker
<1>3. Reached(t, fs) = Reached(s, fs)
  BY <1>2 DEF Reached, Replaces
<1>4. InFile(t, fs) /\ Orderly(t)
  BY <1>2 DEF Reading, InFile, Orderly, Old, Replaces
<1> HIDE DEF t
<1>5. Reading(t, fs)
  BY <1>2, <1>3, <1>4, ReachedSame
<1> QED
  BY <1>1, <1>5 DEF t

\* A source that is passed over, or given back: its cursor is the old one.
LEMMA PassedOver ==
    ASSUME NEW s \in Worker, NEW fs, Reading(s, fs), s.at = "source", NEW p \in s.todo
    PROVE  /\ Finished(s, p, FALSE, s.cursors[p]) \in Worker
           /\ Reading(Finished(s, p, FALSE, s.cursors[p]), fs)
<1> DEFINE c == s.cursors[p]
           t == Finished(s, p, FALSE, c)
           u == [path |-> p, replaced |-> FALSE, cursor |-> c]
           y == [path |-> p, prefix |-> c.prefix]
<1>1. p \in Paths /\ c \in Cursor \cup {None} /\ (c # None => u \in Update)
  BY DEF Worker, Update
<1>2. /\ t.at = "source" /\ t.cursors = s.cursors /\ t.inventory = s.inventory
      /\ t.todo = s.todo \ {p} /\ t.found = s.found /\ t.malformed = s.malformed
      /\ t.updates = IF c = None THEN s.updates ELSE s.updates \cup {u}
  BY DEF Worker, Finished
<1>3. t \in Worker
  <2>1. s.todo \ {p} \in SUBSET Paths /\ s.updates \in SUBSET Update
    BY DEF Worker
  <2>2. (IF c = None THEN s.updates ELSE s.updates \cup {u}) \in SUBSET Update
    BY <1>1, <2>1
  <2> QED
    BY <2>1, <2>2 DEF Worker, Finished, States, Outcomes
<1> HIDE DEF t
<1>4. \A x : x \in Reached(t, fs) <=> x \in Reached(s, fs) \/ (c # None /\ x = y)
  <2> TAKE x
  <2>1. x \in Reached(t, fs) <=>
          \E v \in t.updates : ~v.replaced /\ x = [path |-> v.path, prefix |-> v.cursor.prefix]
    BY <1>2, Reaches
  <2>2. x \in Reached(s, fs) <=>
          \E v \in s.updates : ~v.replaced /\ x = [path |-> v.path, prefix |-> v.cursor.prefix]
    BY Reaches
  <2>3. ~u.replaced /\ [path |-> u.path, prefix |-> u.cursor.prefix] = y
    OBVIOUS
  <2> QED
    BY <1>2, <2>1, <2>2, <2>3
<1>5. \A x \in Reached(s, fs) : x.path # p
  BY DEF Reading, NothingSkipped
<1>6. NothingSkipped(t, fs)
  <2>1. ASSUME NEW x \in Reached(s, fs)
        PROVE  /\ x.path \in Paths /\ x.prefix \in Seq(Nat)
               /\ t.inventory[x.path] # None
               /\ x.path \notin t.todo
               /\ IsPrefix(Old(t, x.path), x.prefix)
               /\ \A n \in Len(Old(t, x.path)) + 1 .. Len(x.prefix) :
                     FoundAt(t, x.path, n, x.prefix[n])
    BY <1>2 DEF Reading, NothingSkipped, Old, FoundAt
  <2>2. ASSUME c # None
        PROVE  /\ y.path \in Paths /\ y.prefix \in Seq(Nat)
               /\ t.inventory[y.path] # None
               /\ y.path \notin t.todo
               /\ IsPrefix(Old(t, y.path), y.prefix)
               /\ \A n \in Len(Old(t, y.path)) + 1 .. Len(y.prefix) :
                     FoundAt(t, y.path, n, y.prefix[n])
    <3>1. Old(t, p) = c.prefix /\ c.prefix \in Seq(Nat)
      BY <1>1, <1>2, <2>2 DEF Old, Behind, Cursor
    <3>2. \A n \in Len(c.prefix) + 1 .. Len(c.prefix) : FALSE
      BY <3>1
    <3>3. t.inventory[p] # None
      BY <1>2 DEF Reading, Orderly
    <3> QED
      BY <1>1, <1>2, <3>1, <3>2, <3>3, PrefixOfItself
  <2> QED
    BY <1>4, <2>1, <2>2 DEF NothingSkipped
<1>7. ReachedOnce(t, fs)
  BY <1>4, <1>5 DEF Reading, ReachedOnce
<1>8. FoundReached(t, fs) /\ MalformedReached(t, fs)
  BY <1>2, <1>4 DEF Reading, FoundReached, MalformedReached, Old
<1>9. InFile(t, fs) /\ Orderly(t)
  <2>1. u.path = p /\ \A v \in s.updates : v.path # p
    BY DEF Reading, Orderly
  <2> HIDE DEF u
  <2>2. Orderly(t)
    BY <1>2, <2>1 DEF Reading, Orderly
  <2> QED
    BY <1>2, <2>2 DEF InFile
<1> QED
  BY <1>3, <1>6, <1>7, <1>8, <1>9 DEF Reading, t

\* A source is opened.
LEMMA OpenedReads ==
    ASSUME NEW s \in Worker, NEW fs, Reading(s, fs), s.at = "source", NEW p \in s.todo,
           fs[p] # None, NEW o \in {"append_safe", "replaced", "truncated"},
           o = "append_safe" => IsPrefix(Old(s, p), fs[p].recs)
    PROVE  LET t == [s EXCEPT !.at = "read", !.path = p, !.outcome = o]
           IN  t \in Worker /\ Reading(t, fs)
<1> DEFINE t == [s EXCEPT !.at = "read", !.path = p, !.outcome = o]
<1>1. /\ t.at = "read" /\ t.cursors = s.cursors /\ t.inventory = s.inventory /\ t.todo = s.todo
      /\ t.path = p /\ t.outcome = o
      /\ t.found = s.found /\ t.malformed = s.malformed /\ t.updates = s.updates
  BY DEF Worker
<1>2. t \in Worker
  <2>1. p \in Paths \cup {0} /\ o \in Outcomes /\ "read" \in States
    BY DEF Worker, States, Outcomes
  <2> QED
    BY <2>1 DEF Worker
<1> HIDE DEF t
<1>3. Reached(t, fs) = Reached(s, fs)
  BY <1>1 DEF Reached
<1>4. InFile(t, fs) /\ Orderly(t)
  BY <1>1 DEF Reading, InFile, Orderly, Old, Replaces
<1>5. Reading(t, fs)
  BY <1>1, <1>3, <1>4, ReachedSame
<1> QED
  BY <1>2, <1>5 DEF t

\* Its records are read: all that are complete by now.
LEMMA RecordsReached ==
    ASSUME NEW s \in Worker, NEW fs \in [Paths -> File \cup {None}], Reading(s, fs), s.at = "read",
           NEW recs, recs = fs[s.path].recs, NEW first, first = Start(s.outcome, s.cursors[s.path]),
           NEW t, t.at = "hash", t.cursors = s.cursors, t.inventory = s.inventory, t.todo = s.todo,
           t.path = s.path, t.outcome = s.outcome, t.last = Len(recs), t.updates = s.updates,
           \A f : f \in t.found <=>
             \/ f \in s.found
             \/ \E n \in first + 1 .. Len(recs) :
                  /\ f = [place |-> [path |-> s.path, replaced |-> Replaces(s), ordinal |-> n],
                          rec |-> recs[n]]
                  /\ recs[n] \notin Malformed,
           \A m : m \in t.malformed <=>
             \/ m \in s.malformed
             \/ \E n \in first + 1 .. Len(recs) :
                  /\ m = [path |-> s.path, replaced |-> Replaces(s), ordinal |-> n]
                  /\ recs[n] \in Malformed
    PROVE  Reading(t, fs)
<1> DEFINE p == s.path
           y == [path |-> p, prefix |-> recs]
<1>1. /\ p \in s.todo /\ p \in Paths /\ fs[p] \in File
      /\ s.outcome \in {"append_safe", "replaced", "truncated"}
      /\ ~Replaces(s) => IsPrefix(Old(s, p), recs)
      /\ Replaces(s) \in BOOLEAN /\ (~Replaces(s) => Replaces(s) = FALSE)
  BY DEF Reading, InFile, Worker, Replaces
<1>2. recs \in Seq(Nat) /\ Len(recs) \in Nat
  BY <1>1 DEF File
<1>3. Old(s, p) \in Seq(Nat) /\ Len(Old(s, p)) \in Nat
  BY <1>1, BehindTyped DEF Worker, Old
<1>4. ~Replaces(s) => first = Len(Old(s, p)) /\ first <= Len(recs)
  <2> SUFFICES ASSUME ~Replaces(s) PROVE first = Len(Old(s, p)) /\ first <= Len(recs)
    OBVIOUS
  <2>1. s.outcome = "append_safe"
    BY <1>1 DEF Replaces
  <2>2. first = Len(Old(s, p))
    BY <2>1 DEF Start, Old, Behind
  <2> QED
    BY <2>2, <1>1, <1>2, <1>3, PrefixMeans
<1>5. \A x : x \in Reached(t, fs) <=> x \in Reached(s, fs) \/ (~Replaces(s) /\ x = y)
  <2> TAKE x
  <2>1. /\ Replaces(t) <=> Replaces(s)
        /\ [path |-> t.path, prefix |-> SubSeq(fs[t.path].recs, 1, t.last)] = y
    BY <1>2, WholeOf DEF Replaces
  <2>2. x \in Reached(s, fs) <=>
          \E v \in s.updates : ~v.replaced /\ x = [path |-> v.path, prefix |-> v.cursor.prefix]
    BY Reaches
  <2>3. x \in Reached(t, fs) <=>
          \/ \E v \in t.updates : ~v.replaced /\ x = [path |-> v.path, prefix |-> v.cursor.prefix]
          \/ ~Replaces(t) /\ x = [path |-> t.path, prefix |-> SubSeq(fs[t.path].recs, 1, t.last)]
    BY Reaches
  <2> QED
    BY <2>1, <2>2, <2>3
<1>6. \A x \in Reached(s, fs) : x.path # p
  BY <1>1 DEF Reading, NothingSkipped
<1>7. y.path = p /\ y.prefix = recs
  OBVIOUS
<1> HIDE DEF y
<1>8. NothingSkipped(t, fs)
  <2>1. ASSUME NEW x \in Reached(s, fs)
        PROVE  /\ x.path \in Paths /\ x.prefix \in Seq(Nat)
               /\ t.inventory[x.path] # None
               /\ x.path \notin t.todo
               /\ IsPrefix(Old(t, x.path), x.prefix)
               /\ \A n \in Len(Old(t, x.path)) + 1 .. Len(x.prefix) :
                     FoundAt(t, x.path, n, x.prefix[n])
    BY DEF Reading, NothingSkipped, Old, FoundAt
  <2>2. ASSUME ~Replaces(s)
        PROVE  /\ t.inventory[p] # None
               /\ IsPrefix(Old(t, p), recs)
               /\ \A n \in Len(Old(t, p)) + 1 .. Len(recs) : FoundAt(t, p, n, recs[n])
    <3>1. Old(t, p) = Old(s, p)
      BY DEF Old
    <3>2. ASSUME NEW n \in Len(Old(t, p)) + 1 .. Len(recs)
          PROVE  FoundAt(t, p, n, recs[n])
      <4>1. n \in first + 1 .. Len(recs)
        BY <3>1, <2>2, <1>4
      <4>2. At(p, n) = [path |-> p, replaced |-> Replaces(s), ordinal |-> n]
        BY <2>2, <1>1 DEF At
      <4> QED
        BY <4>1, <4>2 DEF FoundAt
    <3>3. t.inventory[p] # None
      BY <1>1 DEF Reading, Orderly
    <3> QED
      BY <3>1, <3>2, <3>3, <2>2, <1>1
  <2>3. ASSUME NEW x \in Reached(t, fs)
        PROVE  /\ x.path \in Paths /\ x.prefix \in Seq(Nat)
               /\ t.inventory[x.path] # None
               /\ x.path \in t.todo => t.at = "hash" /\ x.path = t.path
               /\ IsPrefix(Old(t, x.path), x.prefix)
               /\ \A n \in Len(Old(t, x.path)) + 1 .. Len(x.prefix) :
                     FoundAt(t, x.path, n, x.prefix[n])
    <3>1. CASE x \in Reached(s, fs)
      BY <3>1, <2>1
    <3>2. CASE ~Replaces(s) /\ x = y
      BY <3>2, <2>2, <1>1, <1>2, <1>7
    <3> QED
      BY <3>1, <3>2, <1>5
  <2> QED
    BY <2>3 DEF NothingSkipped
<1>9. ReachedOnce(t, fs)
  <2> SUFFICES ASSUME NEW x \in Reached(t, fs), NEW z \in Reached(t, fs), x.path = z.path
               PROVE  x = z
    BY DEF ReachedOnce
  <2>1. CASE x \in Reached(s, fs) /\ z \in Reached(s, fs)
    BY <2>1 DEF Reading, ReachedOnce
  <2> QED
    BY <2>1, <1>5, <1>6, <1>7
<1>10. FoundReached(t, fs)
  <2> SUFFICES ASSUME NEW f \in t.found, ~f.place.replaced
               PROVE  \E x \in Reached(t, fs) : \E n \in Len(Old(t, x.path)) + 1 .. Len(x.prefix) :
                        /\ f = [place |-> At(x.path, n), rec |-> x.prefix[n]]
                        /\ f.rec \notin Malformed
    BY DEF FoundReached
  <2>1. CASE f \in s.found
    <3>1. PICK x \in Reached(s, fs) : \E n \in Len(Old(s, x.path)) + 1 .. Len(x.prefix) :
                 /\ f = [place |-> At(x.path, n), rec |-> x.prefix[n]]
                 /\ f.rec \notin Malformed
      BY <2>1 DEF Reading, FoundReached
    <3> QED
      BY <3>1, <1>5 DEF Old
  <2>2. CASE f \notin s.found
    <3>1. PICK n \in first + 1 .. Len(recs) :
            /\ f = [place |-> [path |-> p, replaced |-> Replaces(s), ordinal |-> n], rec |-> recs[n]]
            /\ recs[n] \notin Malformed
      BY <2>2
    <3>2. ~Replaces(s)
      BY <3>1, <1>1
    <3>3. y \in Reached(t, fs) /\ n \in Len(Old(t, y.path)) + 1 .. Len(y.prefix)
      BY <3>1, <3>2, <1>4, <1>5, <1>7 DEF Old
    <3>4. f = [place |-> At(y.path, n), rec |-> y.prefix[n]] /\ f.rec \notin Malformed
      BY <3>1, <3>2, <1>1, <1>7 DEF At
    <3> QED
      BY <3>3, <3>4
  <2> QED
    BY <2>1, <2>2
<1>11. MalformedReached(t, fs)
  <2> SUFFICES ASSUME NEW m \in t.malformed, ~m.replaced
               PROVE  \E x \in Reached(t, fs) : \E n \in Len(Old(t, x.path)) + 1 .. Len(x.prefix) :
                        m = At(x.path, n) /\ x.prefix[n] \in Malformed
    BY DEF MalformedReached
  <2>1. CASE m \in s.malformed
    <3>1. PICK x \in Reached(s, fs) : \E n \in Len(Old(s, x.path)) + 1 .. Len(x.prefix) :
                 m = At(x.path, n) /\ x.prefix[n] \in Malformed
      BY <2>1 DEF Reading, MalformedReached
    <3> QED
      BY <3>1, <1>5 DEF Old
  <2>2. CASE m \notin s.malformed
    <3>1. PICK n \in first + 1 .. Len(recs) :
            /\ m = [path |-> p, replaced |-> Replaces(s), ordinal |-> n]
            /\ recs[n] \in Malformed
      BY <2>2
    <3>2. ~Replaces(s)
      BY <3>1, <1>1
    <3>3. y \in Reached(t, fs) /\ n \in Len(Old(t, y.path)) + 1 .. Len(y.prefix)
      BY <3>1, <3>2, <1>4, <1>5, <1>7 DEF Old
    <3>4. m = At(y.path, n) /\ y.prefix[n] \in Malformed
      BY <3>1, <3>2, <1>1, <1>7 DEF At
    <3> QED
      BY <3>3, <3>4
  <2> QED
    BY <2>1, <2>2
<1>12. InFile(t, fs)
  <2>1. (Replaces(t) <=> Replaces(s)) /\ Old(t, p) = Old(s, p)
    BY DEF Replaces, Old
  <2>2. ~Replaces(t) => IsPrefix(Old(t, p), fs[p].recs) /\ Len(Old(t, p)) <= t.last
    BY <2>1, <1>1, <1>4
  <2> QED
    BY <2>2, <1>1, <1>2, NoneAssumption DEF InFile
<1>13. Orderly(t)
  BY DEF Reading, Orderly
<1> QED
  BY <1>8, <1>9, <1>10, <1>11, <1>12, <1>13 DEF Reading

LEMMA RecordsRead ==
    ASSUME NEW s \in Worker, NEW fs \in [Paths -> File \cup {None}], Reading(s, fs), s.at = "read",
           NEW first, first = Start(s.outcome, s.cursors[s.path]),
           NEW recs, recs = fs[s.path].recs,
           NEW new, new = {[place |-> [path |-> s.path, replaced |-> Replaces(s), ordinal |-> n],
                            rec |-> recs[n]] :
                             n \in {n \in first + 1 .. Len(recs) : recs[n] \notin Malformed}},
           NEW bad, bad = {[path |-> s.path, replaced |-> Replaces(s), ordinal |-> n] :
                             n \in {n \in first + 1 .. Len(recs) : recs[n] \in Malformed}}
    PROVE  LET t == [s EXCEPT !.at = "hash", !.last = Max({first, Len(recs)}),
                              !.found = @ \cup new, !.malformed = @ \cup bad]
           IN  t \in Worker /\ Reading(t, fs)
<1> DEFINE p == s.path
           last == Max({first, Len(recs)})
           t == [s EXCEPT !.at = "hash", !.last = last,
                          !.found = @ \cup new, !.malformed = @ \cup bad]
<1>1. /\ p \in s.todo /\ p \in Paths /\ fs[p] \in File
      /\ s.outcome \in {"append_safe", "replaced", "truncated"}
      /\ ~Replaces(s) => IsPrefix(Old(s, p), recs)
  BY DEF Reading, InFile, Worker
<1>2. recs \in Seq(Nat) /\ Len(recs) \in Nat /\ \A n \in 1 .. Len(recs) : recs[n] \in Nat
  BY <1>1 DEF File
<1>3. Old(s, p) \in Seq(Nat) /\ Len(Old(s, p)) \in Nat
  BY <1>1, BehindTyped DEF Worker, Old
<1>4. first \in Nat /\ first <= Len(recs)
  <2>1. CASE Replaces(s)
    BY <2>1, <1>2 DEF Start, Replaces
  <2>2. CASE ~Replaces(s)
    <3>1. s.outcome = "append_safe"
      BY <2>2, <1>1 DEF Replaces
    <3>2. first = Len(Old(s, p))
      BY <3>1 DEF Start, Old, Behind
    <3> QED
      BY <3>2, <2>2, <1>1, <1>2, <1>3, PrefixMeans
  <2> QED
    BY <2>1, <2>2
<1>5. last = Len(recs)
  BY <1>2, <1>4, MaxOf
<1>6. new \in SUBSET Find /\ bad \in SUBSET Spot
  <2>1. ASSUME NEW n \in first + 1 .. Len(recs)
        PROVE  /\ [path |-> p, replaced |-> Replaces(s), ordinal |-> n] \in Spot
               /\ recs[n] \in Nat
    BY <1>1, <1>2, <1>4 DEF Spot, Replaces
  <2> QED
    BY <2>1 DEF Find
<1> HIDE DEF last
<1>7. t \in Worker
  <2>1. /\ s.found \cup new \in SUBSET Find /\ s.malformed \cup bad \in SUBSET Spot
        /\ last \in Nat /\ "hash" \in States
    BY <1>2, <1>5, <1>6 DEF Worker, States
  <2> QED
    BY <2>1 DEF Worker
<1>8. /\ t.at = "hash" /\ t.cursors = s.cursors /\ t.inventory = s.inventory /\ t.todo = s.todo
      /\ t.path = p /\ t.outcome = s.outcome /\ t.last = Len(recs)
      /\ t.found = s.found \cup new /\ t.malformed = s.malformed \cup bad
      /\ t.updates = s.updates
  BY <1>5 DEF Worker
<1> HIDE DEF t
<1>9. /\ \A f : f \in t.found <=>
             \/ f \in s.found
             \/ \E n \in first + 1 .. Len(recs) :
                  /\ f = [place |-> [path |-> p, replaced |-> Replaces(s), ordinal |-> n],
                          rec |-> recs[n]]
                  /\ recs[n] \notin Malformed
      /\ \A m : m \in t.malformed <=>
             \/ m \in s.malformed
             \/ \E n \in first + 1 .. Len(recs) :
                  /\ m = [path |-> p, replaced |-> Replaces(s), ordinal |-> n]
                  /\ recs[n] \in Malformed
  BY <1>8
<1>10. Reading(t, fs)
  BY <1>8, <1>9, RecordsReached
<1> QED
  BY <1>7, <1>10 DEF t, last

\* Its cursor is made, of the file as it is by now.
LEMMA CursorMade ==
    ASSUME NEW s \in Worker, NEW fs \in [Paths -> File \cup {None}], Reading(s, fs), s.at = "hash",
           NEW t, t = Finished(s, s.path, Replaces(s), CursorAt(fs[s.path], s.last))
    PROVE  t \in Worker /\ Reading(t, fs)
<1> DEFINE p == s.path
           c == CursorAt(fs[p], s.last)
           u == [path |-> p, replaced |-> Replaces(s), cursor |-> c]
<1>1. p \in s.todo /\ p \in Paths /\ fs[p] \in File /\ s.last \in Nat /\ s.last <= Len(fs[p].recs)
  BY DEF Reading, InFile, Worker
<1>2. c \in Cursor /\ c.prefix = SubSeq(fs[p].recs, 1, s.last)
  <2>1. fs[p].recs \in Seq(Nat)
    BY <1>1 DEF File
  <2> QED
    BY <2>1, <1>1, FirstOf, SizeOf DEF CursorAt, Cursor
<1>3. c # None
  BY <1>2, NoneAssumption
<1>4. u \in Update
  BY <1>1, <1>2 DEF Update, Replaces
<1>5. /\ t.at = "source" /\ t.cursors = s.cursors /\ t.inventory = s.inventory
      /\ t.todo = s.todo \ {p} /\ t.found = s.found /\ t.malformed = s.malformed
      /\ t.updates = s.updates \cup {u}
  BY <1>3 DEF Worker, Finished
<1>6. t \in Worker
  <2>1. s.todo \ {p} \in SUBSET Paths /\ s.updates \cup {u} \in SUBSET Update
    BY <1>4 DEF Worker
  <2> QED
    BY <2>1, <1>3 DEF Worker, Finished, States, Outcomes
<1>7. Reached(t, fs) = Reached(s, fs)
  <2>1. ASSUME NEW x PROVE x \in Reached(t, fs) <=> x \in Reached(s, fs)
    <3>1. x \in Reached(t, fs) <=>
            \E v \in t.updates : ~v.replaced /\ x = [path |-> v.path, prefix |-> v.cursor.prefix]
      BY <1>5, Reaches
    <3>2. x \in Reached(s, fs) <=>
            \/ \E v \in s.updates : ~v.replaced /\ x = [path |-> v.path, prefix |-> v.cursor.prefix]
            \/ ~Replaces(s) /\ x = [path |-> p, prefix |-> c.prefix]
      BY <1>2, Reaches
    <3>3. u.replaced = Replaces(s) /\ u.path = p /\ u.cursor.prefix = c.prefix
      OBVIOUS
    <3> QED
      BY <3>1, <3>2, <3>3, <1>5
  <2> QED
    BY <2>1
<1> HIDE DEF c
<1>8. InFile(t, fs) /\ Orderly(t)
  BY <1>5 DEF Reading, InFile, Orderly
<1> QED
  BY <1>5, <1>6, <1>7, <1>8, ReachedSame

\* The file that is read may grow, and any other may change.
LEMMA FileGrows ==
    ASSUME NEW s \in Worker, NEW fs \in [Paths -> File \cup {None}], Reading(s, fs),
           NEW gs \in [Paths -> File \cup {None}],
           s.at \in {"read", "hash"} =>
             gs[s.path] # None /\ IsPrefix(fs[s.path].recs, gs[s.path].recs)
    PROVE  Reading(s, gs)
<1> DEFINE p == s.path
<1>1. CASE s.at \notin {"read", "hash"}
  <2>1. Reached(s, gs) = Reached(s, fs)
    BY <1>1 DEF Reached
  <2>2. InFile(s, gs) /\ Orderly(s)
    BY <1>1 DEF Reading, InFile
  <2> QED
    BY <2>1, <2>2, ReachedSame
<1>2. CASE s.at \in {"read", "hash"}
  <2> DEFINE old == fs[p].recs
             recs == gs[p].recs
  <2>1. p \in s.todo /\ p \in Paths /\ fs[p] \in File /\ gs[p] \in File /\ s.last \in Nat
    BY <1>2 DEF Reading, InFile, Worker
  <2>2. old \in Seq(Nat) /\ recs \in Seq(Nat) /\ Len(old) \in Nat /\ Len(recs) \in Nat
    BY <2>1 DEF File
  <2>3. Len(old) <= Len(recs) /\ \A n \in 1 .. Len(old) : old[n] = recs[n]
    BY <1>2, <2>2, PrefixMeans
  <2>4. Old(s, p) \in Seq(Nat) /\ Len(Old(s, p)) \in Nat
    BY <2>1, BehindTyped DEF Worker, Old
  <2>5. ~Replaces(s) => IsPrefix(Old(s, p), recs)
    <3> SUFFICES ASSUME ~Replaces(s) PROVE IsPrefix(Old(s, p), recs)
      OBVIOUS
    <3>1. IsPrefix(Old(s, p), old)
      BY <1>2 DEF Reading, InFile
    <3>2. Len(Old(s, p)) <= Len(old) /\ \A n \in 1 .. Len(Old(s, p)) : Old(s, p)[n] = old[n]
      BY <3>1, <2>2, <2>4, PrefixMeans
    <3>3. Len(Old(s, p)) <= Len(recs) /\ \A n \in 1 .. Len(Old(s, p)) : Old(s, p)[n] = recs[n]
      BY <3>2, <2>2, <2>3, <2>4
    <3> QED
      BY <3>3, <2>2, <2>4, PrefixMeans
  <2>6. s.at = "hash" => s.last <= Len(old) /\ s.last <= Len(recs)
    BY <2>1, <2>2, <2>3 DEF Reading, InFile
  <2>7. s.at = "hash" => SubSeq(old, 1, s.last) = SubSeq(recs, 1, s.last)
    BY <2>1, <2>2, <2>3, <2>6
  <2>8. Reached(s, gs) = Reached(s, fs)
    BY <2>7 DEF Reached
  <2>9. InFile(s, gs)
    BY <2>1, <2>5, <2>6, <1>2, NoneAssumption DEF Reading, InFile
  <2> QED
    BY <2>8, <2>9, ReachedSame DEF Reading
<1> QED
  BY <1>1, <1>2

-----------------------------------------------------------------------------
(* The invariant: at first, and when nothing is published. *)

LEMMA IdleReads == \A fs : Reading(Idle, fs)
<1> SUFFICES ASSUME NEW fs PROVE Reading(Idle, fs)
  OBVIOUS
<1>1. /\ Idle.at = "idle" /\ Idle.todo = {} /\ Idle.found = {}
      /\ Idle.malformed = {} /\ Idle.updates = {}
  BY DEF Idle
<1>2. Reached(Idle, fs) = {}
  BY <1>1 DEF Reached
<1> QED
  BY <1>1, <1>2 DEF Reading, NothingSkipped, ReachedOnce, FoundReached, MalformedReached, InFile,
                    Orderly

LEMMA InitHolds == ASSUME Init, Steady PROVE IInv
<1>1. Tables
  BY DEF Init, Tables, Nowhere, OccurrencesBehind, DiagnosticsBehind, PrefixIsPublished
<1>2. ASSUME NEW r \in Refreshers PROVE Reading(wk[r], files) /\ BeganUnderHead(r)
  BY IdleReads, IdleLists DEF Init, BeganUnderHead
<1> QED
  BY <1>1, <1>2 DEF IInv

LEMMA SamePublication ==
    ASSUME CInv, IInv, UNCHANGED <<habit, artifact>> PROVE Steady' /\ Tables'
BY DEF IInv, Steady, artifact, Tables, OccurrencesBehind, DiagnosticsBehind, PrefixIsPublished, Known

\* A refresher goes on, and nothing is published.
LEMMA WorkerMoves ==
    ASSUME CInv, IInv, NEW r \in Refreshers, NEW t, Reading(t, files), To(r, t),
           UNCHANGED <<habit, files, artifact>>,
           \A q \in Refreshers \ {r} : q \in overtaken' <=> q \in overtaken,
           t.at # "idle" /\ r \notin overtaken' => t.cursors = cursors
    PROVE  IInv'
<1>1. wk'[r] = t /\ \A q \in Refreshers \ {r} : wk'[q] = wk[q]
  BY DEF CInv, Typed, To
<1>2. ASSUME NEW q \in Refreshers PROVE Reading(wk[q], files)' /\ BeganUnderHead(q)'
  <2>1. CASE q = r
    BY <2>1, <1>1 DEF BeganUnderHead, artifact
  <2>2. CASE q # r
    <3>1. Reading(wk[q], files) /\ BeganUnderHead(q)
      BY DEF IInv
    <3>2. wk'[q] = wk[q] /\ (q \in overtaken' <=> q \in overtaken)
      BY <2>2, <1>1
    <3> QED
      BY <3>1, <3>2 DEF BeganUnderHead, artifact
  <2> QED
    BY <2>1, <2>2
<1> QED
  BY <1>2, SamePublication DEF IInv

\* A file changes, and what is read of it is still there.
LEMMA FilesMove ==
    ASSUME CInv, IInv, files' \in [Paths -> File \cup {None}],
           UNCHANGED <<habit, wk, overtaken, artifact>>,
           \A r \in Refreshers : wk[r].at \in {"read", "hash"} =>
             /\ files'[wk[r].path] # None
             /\ IsPrefix(files[wk[r].path].recs, files'[wk[r].path].recs)
    PROVE  IInv'
<1>1. ASSUME NEW r \in Refreshers PROVE Reading(wk[r], files)' /\ BeganUnderHead(r)'
  <2>1. wk[r] \in Worker /\ files \in [Paths -> File \cup {None}]
    BY DEF CInv, Typed
  <2>2. Reading(wk[r], files) /\ BeganUnderHead(r)
    BY DEF IInv
  <2>3. Reading(wk[r], files')
    BY <2>1, <2>2, FileGrows
  <2> QED
    BY <2>2, <2>3 DEF BeganUnderHead, artifact
<1> QED
  BY <1>1, SamePublication DEF IInv

-----------------------------------------------------------------------------
(* Codex writes. *)

LEMMA EditHolds ==
    ASSUME CInv, IInv, NEW kind, NEW p \in Paths, NEW content \in File \cup {None}, Edit(kind, p, content),
           kind = "append" =>
             content # None /\ files[p] # None /\ IsPrefix(files[p].recs, content.recs)
    PROVE  IInv'
<1>1. files \in [Paths -> File \cup {None}] /\ edits \in Nat /\ wk \in [Refreshers -> Worker]
  BY DEF CInv, IInv, Typed
<1>2. files' = [files EXCEPT ![p] = content] /\ edits' = edits + 1
  BY DEF Edit
<1>3. ASSUME NEW r \in Refreshers, wk[r].at \in {"read", "hash"}
      PROVE  /\ files'[wk[r].path] # None
             /\ IsPrefix(files[wk[r].path].recs, files'[wk[r].path].recs)
  <2>1. wk[r].path \in Paths /\ files[wk[r].path] \in File
    BY <1>1, <1>3 DEF IInv, Reading, InFile, Worker
  <2>2. CASE wk[r].path = p
    <3>1. BeingRead(p)
      BY <1>3, <2>2 DEF BeingRead
    <3>2. kind = "append"
      BY <3>1 DEF Edit, IInv, Steady
    <3> QED
      BY <3>2, <2>2, <1>1, <1>2
  <2>3. CASE wk[r].path # p
    <3>1. files'[wk[r].path] = files[wk[r].path]
      BY <2>1, <2>3, <1>1, <1>2
    <3> QED
      BY <3>1, <2>1, NoneAssumption, PrefixOfItself DEF File
  <2> QED
    BY <2>2, <2>3
<1>4. files' \in [Paths -> File \cup {None}] /\ edits' \in Nat
  BY <1>1, <1>2
<1> QED
  BY <1>3, <1>4, FilesMove DEF Edit

LEMMA CodexHolds == ASSUME CInv, IInv, Codex PROVE IInv'
BY EditsAre, EditHolds DEF CInv

-----------------------------------------------------------------------------
(* A refresher reads, prepares, gives up, or dies. *)

LEMMA BeginHolds == ASSUME CInv, IInv, NEW r \in Refreshers, Begin(r) PROVE IInv'
<1> DEFINE t == [Idle EXCEPT !.at = "discover", !.cursors = cursors]
<1>1. /\ t.at = "discover" /\ t.cursors = cursors /\ t.todo = {}
      /\ t.found = {} /\ t.malformed = {} /\ t.updates = {}
  BY DEF Idle
<1>2. To(r, t) /\ overtaken' = overtaken \ {r} /\ UNCHANGED <<habit, files, edits, artifact>>
  BY DEF Begin
<1> HIDE DEF t
<1>3. Reading(t, files)
  <2>1. Reached(t, files) = {}
    BY <1>1 DEF Reached
  <2> QED
    BY <1>1, <2>1 DEF Reading, NothingSkipped, ReachedOnce, FoundReached, MalformedReached, InFile,
                      Orderly
<1> QED
  BY <1>1, <1>2, <1>3, WorkerMoves

LEMMA DiscoverHolds == ASSUME CInv, IInv, NEW r \in Refreshers, Discover(r) PROVE IInv'
<1> DEFINE t == [wk[r] EXCEPT !.at = "source", !.inventory = Inventory(files), !.todo = Chosen(files)]
<1>1. /\ wk[r] \in Worker /\ files \in [Paths -> File \cup {None}] /\ wk[r].at = "discover"
      /\ Reading(wk[r], files) /\ BeganUnderHead(r)
  BY DEF CInv, IInv, Typed, Discover
<1>2. /\ t.at = "source" /\ t.cursors = wk[r].cursors
      /\ t.inventory = Inventory(files) /\ t.todo = Chosen(files)
      /\ t.found = {} /\ t.malformed = {} /\ t.updates = {}
  BY <1>1 DEF Worker, Reading, Orderly
<1>3. To(r, t) /\ UNCHANGED <<habit, files, edits, overtaken, artifact>>
  BY DEF Discover
<1> HIDE DEF t
<1>4. Reading(t, files)
  <2>1. Reached(t, files) = {}
    BY <1>2 DEF Reached
  <2> QED
    BY <1>1, <1>2, <2>1, InventoryKeeps
       DEF Reading, NothingSkipped, ReachedOnce, FoundReached, MalformedReached, InFile, Orderly
<1>5. r \notin overtaken => t.cursors = cursors
  BY <1>1, <1>2 DEF BeganUnderHead
<1> QED
  BY <1>2, <1>3, <1>4, <1>5, WorkerMoves

\* Any step on a source: the cursors it goes by stay as they are.
LEMMA ReaderHolds ==
    ASSUME CInv, IInv, NEW r \in Refreshers, wk[r].at # "idle", NEW t, Reading(t, files), To(r, t), t.cursors = wk[r].cursors,
           UNCHANGED <<habit, files, edits, overtaken, artifact>>
    PROVE  IInv'
<1>1. r \notin overtaken => t.cursors = cursors
  BY DEF IInv, BeganUnderHead
<1> QED
  BY <1>1, WorkerMoves

LEMMA GivenBack ==
    ASSUME CInv, IInv, NEW r \in Refreshers, wk[r].at = "source", NEW p \in wk[r].todo
    PROVE  LET t == Finished(wk[r], p, FALSE, wk[r].cursors[p])
           IN  /\ t \in Worker /\ Reading(t, files)
               /\ t.at = "source" /\ t.cursors = wk[r].cursors
<1>1. wk[r] \in Worker /\ Reading(wk[r], files)
  BY DEF CInv, IInv, Typed
<1> QED
  BY <1>1, PassedOver DEF Finished, Worker

LEMMA ClassifyHolds == ASSUME CInv, IInv, NEW r \in Refreshers, ClassifySource(r) PROVE IInv'
<1> DEFINE s == wk[r]
           p == Min(s.todo)
           o == Classify(files[p], s.cursors[p])
           u == Finished(s, p, FALSE, s.cursors[p])
           t == [u EXCEPT !.raised = TRUE]
           x == [s EXCEPT !.at = "read", !.path = p, !.outcome = o]
<1>1. /\ s \in Worker /\ Reading(s, files) /\ s.at = "source"
      /\ files \in [Paths -> File \cup {None}]
  BY DEF CInv, IInv, Typed, ClassifySource
<1>2. p \in s.todo /\ p \in Paths
  BY NextSource DEF CInv
<1>3. UNCHANGED <<habit, files, edits, overtaken, artifact>>
  BY DEF ClassifySource
<1>4. u \in Worker /\ Reading(u, files) /\ u.at = "source" /\ u.cursors = s.cursors
  BY <1>1, <1>2, GivenBack
<1>5. CASE files[p] = None
  <2>1. To(r, t)
    BY <1>5 DEF ClassifySource, Raised
  <2>2. t \in Worker /\ Reading(t, files)
    BY <1>4, RaisedReads
  <2>3. t.at = "source" /\ t.cursors = s.cursors
    BY <1>4 DEF Worker
  <2> HIDE DEF t
  <2> QED
    BY <2>1, <2>2, <2>3, <1>1, <1>3, ReaderHolds
<1>6. CASE files[p] # None /\ o = "no_change"
  <2>1. To(r, u)
    BY <1>6 DEF ClassifySource
  <2> HIDE DEF u
  <2> QED
    BY <2>1, <1>1, <1>3, <1>4, ReaderHolds
<1>7. CASE files[p] # None /\ o # "no_change"
  <2>1. To(r, x)
    BY <1>7 DEF ClassifySource
  <2>2. o \in {"append_safe", "replaced", "truncated"}
    BY <1>7 DEF Classify
  <2>3. o = "append_safe" => IsPrefix(Old(s, p), files[p].recs)
    <3> SUFFICES ASSUME o = "append_safe" PROVE IsPrefix(Old(s, p), files[p].recs)
      OBVIOUS
    <3>1. files[p].recs \in Seq(Nat)
      BY <1>1, <1>2, <1>7 DEF File
    <3>2. CASE s.cursors[p] = None
      <4>1. Old(s, p) \in Seq(Nat) /\ Len(Old(s, p)) = 0
        BY <3>2 DEF Old, Behind
      <4>2. Len(files[p].recs) \in Nat
        BY <3>1
      <4> HIDE DEF p, s
      <4>3. Len(Old(s, p)) <= Len(files[p].recs) /\ \A n \in 1 .. Len(Old(s, p)) : FALSE
        BY <4>1, <4>2
      <4> QED
        BY <4>1, <4>3, <3>1, PrefixMeans
    <3>3. CASE s.cursors[p] # None
      BY <3>3 DEF Classify, Old, Behind
    <3> QED
      BY <3>2, <3>3
  <2> HIDE DEF o, p, s
  <2>4. x \in Worker /\ Reading(x, files)
    BY <2>2, <2>3, <1>1, <1>2, <1>7, OpenedReads
  <2>5. x.at = "read" /\ x.cursors = s.cursors
    BY <1>1 DEF Worker
  <2> HIDE DEF x
  <2> QED
    BY <2>1, <2>4, <2>5, <1>1, <1>3, ReaderHolds DEF s
<1> QED
  BY <1>5, <1>6, <1>7

LEMMA ReadHolds == ASSUME CInv, IInv, NEW r \in Refreshers, ReadSource(r) PROVE IInv'
<1> DEFINE s == wk[r]
           p == s.path
           first == Start(s.outcome, s.cursors[p])
           recs == files[p].recs
           new == {[place |-> [path |-> s.path, replaced |-> Replaces(s), ordinal |-> n],
                    rec |-> recs[n]] : n \in {n \in first + 1 .. Len(recs) : recs[n] \notin Malformed}}
           bad == {[path |-> s.path, replaced |-> Replaces(s), ordinal |-> n] :
                     n \in {n \in first + 1 .. Len(recs) : recs[n] \in Malformed}}
           t == [s EXCEPT !.at = "hash", !.last = Max({first, Len(recs)}),
                          !.found = @ \cup new, !.malformed = @ \cup bad]
<1>1. /\ s \in Worker /\ Reading(s, files) /\ s.at = "read"
      /\ files \in [Paths -> File \cup {None}]
  BY DEF CInv, IInv, Typed, ReadSource
<1>2. files[p] # None
  BY <1>1 DEF Reading, InFile
<1>3. To(r, t) /\ UNCHANGED <<habit, files, edits, overtaken, artifact>>
  BY <1>2 DEF ReadSource, Place, IsReplacement, Replaces
<1>4. t \in Worker /\ Reading(t, files)
  <2> HIDE DEF s, first, recs, new, bad
  <2> QED
    BY <1>1, RecordsRead DEF first, recs, new, bad
<1>5. t.at = "hash" /\ t.cursors = s.cursors
  BY <1>1 DEF Worker
<1> HIDE DEF t
<1> QED
  BY <1>1, <1>3, <1>4, <1>5, ReaderHolds

LEMMA HashHolds == ASSUME CInv, IInv, NEW r \in Refreshers, HashSource(r) PROVE IInv'
<1> DEFINE s == wk[r]
           t == Finished(s, s.path, Replaces(s), CursorAt(files[s.path], s.last))
<1>1. /\ s \in Worker /\ Reading(s, files) /\ s.at = "hash"
      /\ files \in [Paths -> File \cup {None}]
  BY DEF CInv, IInv, Typed, HashSource
<1>2. files[s.path] # None /\ ~(Size(files[s.path]) < 2 * s.last)
  <2>1. s.path \in Paths /\ files[s.path] \in File /\ s.last \in Nat /\ s.last <= Len(files[s.path].recs)
    BY <1>1 DEF Reading, InFile, Worker
  <2>2. files[s.path].recs \in Seq(Nat)
    BY <2>1 DEF File
  <2> QED
    BY <2>1, <2>2, SizeOf, NoneAssumption
<1>3. To(r, t) /\ UNCHANGED <<habit, files, edits, overtaken, artifact>>
  BY <1>2 DEF HashSource, IsReplacement, Replaces
<1>4. t \in Worker /\ Reading(t, files)
  BY <1>1, CursorMade
<1>5. t.at = "source" /\ t.cursors = s.cursors
  BY <1>1 DEF Worker, Finished
<1> HIDE DEF t
<1> QED
  BY <1>1, <1>3, <1>4, <1>5, ReaderHolds

LEMMA PrepareHolds == ASSUME CInv, IInv, NEW r \in Refreshers, Prepare(r) PROVE IInv'
<1> DEFINE s == wk[r]
           prepared == [i \in Items |-> IF s.inventory[i] = None THEN coverage[i] ELSE CoverageOf(r, i)]
           t == [s EXCEPT !.at = "publish", !.prepared = prepared]
<1>1. s \in Worker /\ Reading(s, files) /\ s.at = "source"
  BY DEF CInv, IInv, Typed, Prepare
<1>2. To(r, t) /\ UNCHANGED <<habit, files, edits, overtaken, artifact>>
  BY DEF Prepare
<1> HIDE DEF prepared
<1>3. /\ t.at = "publish" /\ t.cursors = s.cursors /\ t.inventory = s.inventory /\ t.todo = s.todo
      /\ t.found = s.found /\ t.malformed = s.malformed /\ t.updates = s.updates
  BY <1>1 DEF Worker
<1> HIDE DEF t
<1>4. Reading(t, files)
  <2>1. Reached(t, files) = Reached(s, files)
    BY <1>1, <1>3 DEF Reached
  <2>2. InFile(t, files) /\ Orderly(t)
    BY <1>1, <1>3 DEF Reading, InFile, Orderly
  <2> QED
    BY <1>1, <1>3, <2>1, <2>2, ReachedSame
<1> QED
  BY <1>1, <1>2, <1>3, <1>4, ReaderHolds

LEMMA IdleHolds ==
    ASSUME CInv, IInv, NEW r \in Refreshers, To(r, Idle),
           UNCHANGED <<habit, files, edits, overtaken, artifact>>
    PROVE  IInv'
BY IdleReads, IdleLists, WorkerMoves

-----------------------------------------------------------------------------
(* A refresher publishes. *)

\* What a publication under the head makes of the cursors it began with.
LEMMA NewCursors ==
    ASSUME NEW s \in Worker, NEW fs, Reading(s, fs), s.at # "hash", NEW old, old = s.cursors,
           NEW new, new = [p \in Paths |-> NewCursor(s, old, p)]
    PROVE  /\ new \in [Paths -> Cursor \cup {None}]
           /\ \A x \in Reached(s, fs) : x.prefix = Behind(new[x.path])
           /\ \A p \in Paths :
                \/ new[p] = old[p] /\ \A x \in Reached(s, fs) : x.path # p
                \/ /\ new[p] # None /\ s.inventory[p] # None
                   /\ IsPrefix(Behind(old[p]), Behind(new[p]))
                   /\ \A n \in Len(Behind(old[p])) + 1 .. Len(Behind(new[p])) :
                        FoundAt(s, p, n, Behind(new[p])[n])
<1>1. \A x : x \in Reached(s, fs) <=>
        \E u \in s.updates : ~u.replaced /\ x = [path |-> u.path, prefix |-> u.cursor.prefix]
  BY Reaches
<1>2. ASSUME NEW u \in s.updates, ~u.replaced
      PROVE  /\ u.path \in Paths /\ u.cursor \in Cursor /\ u.cursor # None
             /\ new[u.path] = u.cursor
             /\ Behind(new[u.path]) = u.cursor.prefix
             /\ [path |-> u.path, prefix |-> u.cursor.prefix] \in Reached(s, fs)
  <2>1. u.path \in Paths /\ u.cursor \in Cursor /\ u.cursor # None
    BY NoneAssumption DEF Worker, Update
  <2>2. {v \in s.updates : v.path = u.path /\ ~v.replaced} = {u}
    BY <1>2 DEF Reading, Orderly
  <2>3. NewCursor(s, old, u.path) = u.cursor
    BY <2>2 DEF NewCursor
  <2> QED
    BY <2>1, <2>3, <1>1, <1>2 DEF Behind
<1>3. ASSUME NEW p \in Paths, \A u \in s.updates : u.path = p => u.replaced
      PROVE  new[p] = old[p] /\ \A x \in Reached(s, fs) : x.path # p
  BY <1>1, <1>3 DEF NewCursor
<1>4. ASSUME NEW p \in Paths, NEW u \in s.updates, u.path = p, ~u.replaced
      PROVE  /\ new[p] # None /\ s.inventory[p] # None
             /\ IsPrefix(Behind(old[p]), Behind(new[p]))
             /\ \A n \in Len(Behind(old[p])) + 1 .. Len(Behind(new[p])) :
                  FoundAt(s, p, n, Behind(new[p])[n])
  <2> DEFINE x == [path |-> u.path, prefix |-> u.cursor.prefix]
  <2>1. x \in Reached(s, fs) /\ x.path = p /\ x.prefix = Behind(new[p]) /\ new[p] # None
    BY <1>2, <1>4
  <2> HIDE DEF x
  <2> QED
    BY <2>1 DEF Reading, NothingSkipped, Old
<1>5. ASSUME NEW p \in Paths PROVE new[p] \in Cursor \cup {None}
  <2>1. CASE \A u \in s.updates : u.path = p => u.replaced
    BY <2>1, <1>3 DEF Worker
  <2>2. CASE ~ \A u \in s.updates : u.path = p => u.replaced
    BY <2>2, <1>2
  <2> QED
    BY <2>1, <2>2
<1>6. ASSUME NEW x \in Reached(s, fs) PROVE x.prefix = Behind(new[x.path])
  BY <1>1, <1>2
<1>7. ASSUME NEW p \in Paths
      PROVE  \/ new[p] = old[p] /\ \A x \in Reached(s, fs) : x.path # p
             \/ /\ new[p] # None /\ s.inventory[p] # None
                /\ IsPrefix(Behind(old[p]), Behind(new[p]))
                /\ \A n \in Len(Behind(old[p])) + 1 .. Len(Behind(new[p])) :
                     FoundAt(s, p, n, Behind(new[p])[n])
  BY <1>3, <1>4
<1> QED
  BY <1>5, <1>6, <1>7

\* What the transaction says of each table.
Published(r) ==
    /\ \A p \in Paths :
         /\ IsPrefix(Behind(cursors[p]), Behind(cursors'[p]))
         /\ cursors[p] # None => cursors'[p] # None
         /\ \/ cursors'[p] = cursors[p] /\ \A x \in Reached(wk[r], files) : x.path # p
            \/ wk[r].inventory[p] # None
         /\ \A n \in Len(Behind(cursors[p])) + 1 .. Len(Behind(cursors'[p])) :
              FoundAt(wk[r], p, n, Behind(cursors'[p])[n])
    /\ \A x \in Reached(wk[r], files) :
         x.path \in Paths /\ x.prefix = Behind(cursors'[x.path]) /\ Old(wk[r], x.path) = Behind(cursors[x.path])

LEMMA PublishedCursors ==
    ASSUME CInv, IInv, NEW r \in Refreshers, Publish(r)
    PROVE  /\ cursors' = [p \in Paths |-> NewCursor(wk[r], cursors, p)]
           /\ cursors' \in [Paths -> Cursor \cup {None}]
           /\ Published(r)
<1> DEFINE s == wk[r]
<1>1. s \in Worker /\ Reading(s, files) /\ s.at = "publish" /\ s.cursors = cursors
  BY DEF CInv, IInv, Typed, Publish, Commits, BeganUnderHead
<1>2. cursors \in [Paths -> Cursor \cup {None}]
  BY DEF CInv, IInv, Typed
<1>3. cursors' = [p \in Paths |-> NewCursor(s, cursors, p)]
  BY DEF Publish, NewCursor, UpdatesOf
<1> HIDE DEF s
<1>4. /\ cursors' \in [Paths -> Cursor \cup {None}]
      /\ \A x \in Reached(s, files) : x.prefix = Behind(cursors'[x.path])
      /\ \A p \in Paths :
           \/ cursors'[p] = cursors[p] /\ \A x \in Reached(s, files) : x.path # p
           \/ /\ cursors'[p] # None /\ s.inventory[p] # None
              /\ IsPrefix(Behind(cursors[p]), Behind(cursors'[p]))
              /\ \A n \in Len(Behind(cursors[p])) + 1 .. Len(Behind(cursors'[p])) :
                   FoundAt(s, p, n, Behind(cursors'[p])[n])
  BY <1>1, <1>3, NewCursors
<1>5. ASSUME NEW p \in Paths
      PROVE  /\ IsPrefix(Behind(cursors[p]), Behind(cursors'[p]))
             /\ cursors[p] # None => cursors'[p] # None
             /\ \/ cursors'[p] = cursors[p] /\ \A x \in Reached(s, files) : x.path # p
                \/ s.inventory[p] # None
             /\ \A n \in Len(Behind(cursors[p])) + 1 .. Len(Behind(cursors'[p])) :
                  FoundAt(s, p, n, Behind(cursors'[p])[n])
  <2>1. CASE cursors'[p] = cursors[p] /\ \A x \in Reached(s, files) : x.path # p
    <3>1. Behind(cursors[p]) \in Seq(Nat) /\ Len(Behind(cursors[p])) \in Nat
      BY <1>2, BehindTyped
    <3> QED
      BY <2>1, <3>1, PrefixOfItself
  <2> QED
    BY <2>1, <1>4
<1>6. ASSUME NEW x \in Reached(s, files)
      PROVE  x.path \in Paths /\ Old(s, x.path) = Behind(cursors[x.path])
  BY <1>1 DEF Reading, NothingSkipped, Old
<1> QED
  BY <1>3, <1>4, <1>5, <1>6 DEF Published, s

\* Every record of the old cursors is where it was.
LEMMA KeptBehind ==
    ASSUME CInv, IInv, NEW r \in Refreshers, Publish(r), NEW p \in Paths
    PROVE  /\ Len(Behind(cursors[p])) \in Nat /\ Len(Behind(cursors'[p])) \in Nat
           /\ Len(Behind(cursors[p])) <= Len(Behind(cursors'[p]))
           /\ \A n \in 1 .. Len(Behind(cursors[p])) : Behind(cursors'[p])[n] = Behind(cursors[p])[n]
<1>1. /\ Behind(cursors[p]) \in Seq(Nat) /\ Behind(cursors'[p]) \in Seq(Nat)
      /\ Len(Behind(cursors[p])) \in Nat /\ Len(Behind(cursors'[p])) \in Nat
  BY PublishedCursors, BehindTyped DEF CInv, IInv, Typed
<1>2. IsPrefix(Behind(cursors[p]), Behind(cursors'[p]))
  BY PublishedCursors DEF Published
<1> QED
  BY <1>1, <1>2, PrefixMeans

LEMMA PublishedTables == ASSUME CInv, IInv, NEW r \in Refreshers, Publish(r) PROVE Tables'
<1> DEFINE s == wk[r]
<1>1. /\ s \in Worker /\ Reading(s, files) /\ Published(r) /\ Tables
      /\ \A f \in s.found : ~f.place.replaced
      /\ \A m \in s.malformed : ~m.replaced
  BY PublishedCursors, NothingReplaced DEF CInv, IInv, Typed
<1>2. /\ occurrences' = occurrences \cup s.found
      /\ diagnostics' = diagnostics \cup s.malformed
  BY DEF Publish
<1>3. ASSUME NEW f \in occurrences'
      PROVE  \E p \in Paths : \E n \in 1 .. Len(Behind(cursors'[p])) :
               /\ f = [place |-> At(p, n), rec |-> Behind(cursors'[p])[n]]
               /\ f.rec \notin Malformed
  <2>1. CASE f \in occurrences
    <3>1. PICK p \in Paths : \E n \in 1 .. Len(Behind(cursors[p])) :
            /\ f = [place |-> At(p, n), rec |-> Behind(cursors[p])[n]]
            /\ f.rec \notin Malformed
      BY <2>1, <1>1 DEF Tables, OccurrencesBehind
    <3>2. PICK n \in 1 .. Len(Behind(cursors[p])) :
            /\ f = [place |-> At(p, n), rec |-> Behind(cursors[p])[n]]
            /\ f.rec \notin Malformed
      BY <3>1
    <3>3. n \in 1 .. Len(Behind(cursors'[p])) /\ Behind(cursors'[p])[n] = Behind(cursors[p])[n]
      BY KeptBehind
    <3> QED
      BY <3>2, <3>3
  <2>2. CASE f \in s.found
    <3>1. PICK x \in Reached(s, files) : \E n \in Len(Old(s, x.path)) + 1 .. Len(x.prefix) :
            /\ f = [place |-> At(x.path, n), rec |-> x.prefix[n]]
            /\ f.rec \notin Malformed
      BY <2>2, <1>1 DEF Reading, FoundReached
    <3>2. x.path \in Paths /\ x.prefix = Behind(cursors'[x.path]) /\ Old(s, x.path) = Behind(cursors[x.path])
      BY <1>1 DEF Published
    <3>3. PICK n \in Len(Behind(cursors[x.path])) + 1 .. Len(Behind(cursors'[x.path])) :
            /\ f = [place |-> At(x.path, n), rec |-> Behind(cursors'[x.path])[n]]
            /\ f.rec \notin Malformed
      BY <3>1, <3>2
    <3>4. n \in 1 .. Len(Behind(cursors'[x.path]))
      BY <3>2, KeptBehind
    <3> QED
      BY <3>2, <3>3, <3>4
  <2> QED
    BY <2>1, <2>2, <1>2
<1>4. ASSUME NEW m \in diagnostics'
      PROVE  \E p \in Paths : \E n \in 1 .. Len(Behind(cursors'[p])) :
               m = At(p, n) /\ Behind(cursors'[p])[n] \in Malformed
  <2>1. CASE m \in diagnostics
    <3>1. PICK p \in Paths : \E n \in 1 .. Len(Behind(cursors[p])) :
            m = At(p, n) /\ Behind(cursors[p])[n] \in Malformed
      BY <2>1, <1>1 DEF Tables, DiagnosticsBehind
    <3>2. PICK n \in 1 .. Len(Behind(cursors[p])) : m = At(p, n) /\ Behind(cursors[p])[n] \in Malformed
      BY <3>1
    <3>3. n \in 1 .. Len(Behind(cursors'[p])) /\ Behind(cursors'[p])[n] = Behind(cursors[p])[n]
      BY KeptBehind
    <3> QED
      BY <3>2, <3>3
  <2>2. CASE m \in s.malformed
    <3>1. PICK x \in Reached(s, files) : \E n \in Len(Old(s, x.path)) + 1 .. Len(x.prefix) :
            m = At(x.path, n) /\ x.prefix[n] \in Malformed
      BY <2>2, <1>1 DEF Reading, MalformedReached
    <3>2. x.path \in Paths /\ x.prefix = Behind(cursors'[x.path]) /\ Old(s, x.path) = Behind(cursors[x.path])
      BY <1>1 DEF Published
    <3>3. PICK n \in Len(Behind(cursors[x.path])) + 1 .. Len(Behind(cursors'[x.path])) :
            m = At(x.path, n) /\ Behind(cursors'[x.path])[n] \in Malformed
      BY <3>1, <3>2
    <3>4. n \in 1 .. Len(Behind(cursors'[x.path]))
      BY <3>2, KeptBehind
    <3> QED
      BY <3>2, <3>3, <3>4
  <2> QED
    BY <2>1, <2>2, <1>2
<1>5. ASSUME NEW p \in Paths, cursors'[p] # None, NEW n \in 1 .. Len(cursors'[p].prefix)
      PROVE  LET rec == cursors'[p].prefix[n]
             IN  \/ [place |-> At(p, n), rec |-> rec] \in occurrences'
                 \/ rec \in Malformed /\ At(p, n) \in diagnostics'
  <2> DEFINE rec == Behind(cursors'[p])[n]
  <2>1. Behind(cursors'[p]) = cursors'[p].prefix
    BY <1>5 DEF Behind
  <2>2. CASE n <= Len(Behind(cursors[p]))
    <3>1. n \in 1 .. Len(Behind(cursors[p])) /\ rec = Behind(cursors[p])[n]
      BY <2>2, KeptBehind
    <3>2. Known(p, n, rec)
      <4>1. CASE cursors[p] = None
        BY <3>1, <4>1 DEF Behind
      <4>2. CASE cursors[p] # None
        BY <3>1, <4>2, <1>1 DEF Behind, Tables, PrefixIsPublished
      <4> QED
        BY <4>1, <4>2
    <3> QED
      BY <3>2, <2>1, <1>2 DEF Known
  <2>3. CASE ~(n <= Len(Behind(cursors[p])))
    <3>1. n \in Len(Behind(cursors[p])) + 1 .. Len(Behind(cursors'[p]))
      BY <2>1, <2>3, KeptBehind
    <3>2. FoundAt(s, p, n, rec)
      BY <3>1, <1>1 DEF Published
    <3> QED
      BY <3>2, <2>1, <1>2 DEF Known, FoundAt
  <2> QED
    BY <2>2, <2>3
<1> QED
  BY <1>3, <1>4, <1>5 DEF Tables, OccurrencesBehind, DiagnosticsBehind, PrefixIsPublished, Known

LEMMA PublishHolds == ASSUME CInv, IInv, NEW r \in Refreshers, Publish(r) PROVE IInv'
<1>1. wk \in [Refreshers -> Worker] /\ UNCHANGED <<habit, files>> /\ To(r, Idle)
  BY DEF CInv, Typed, Publish
<1>2. wk'[r] = Idle /\ \A q \in Refreshers \ {r} : wk'[q] = wk[q]
  BY <1>1 DEF To
<1>3. ASSUME NEW q \in Refreshers PROVE Reading(wk[q], files)' /\ BeganUnderHead(q)'
  <2>1. CASE q = r
    BY <2>1, <1>1, <1>2, IdleReads, IdleLists DEF BeganUnderHead
  <2>2. CASE q # r
    <3>1. Reading(wk[q], files)' /\ wk'[q] = wk[q]
      BY <2>2, <1>1, <1>2 DEF IInv
    <3>2. wk[q].at # "idle" => q \in overtaken'
      BY <2>2 DEF Publish
    <3> QED
      BY <3>1, <3>2 DEF BeganUnderHead
  <2> QED
    BY <2>1, <2>2
<1>4. Steady'
  BY <1>1 DEF IInv, Steady
<1> QED
  BY <1>3, <1>4, PublishedTables DEF IInv

-----------------------------------------------------------------------------
(* Every step, and what follows. *)

LEMMA NextHolds == ASSUME CInv, IInv, [Next]_vars PROVE IInv'
<1>1. CASE Codex
  BY <1>1, CodexHolds
<1>2. ASSUME NEW r \in Refreshers, Refresh(r) PROVE IInv'
  <2>1. CASE Begin(r)
    BY <2>1, BeginHolds
  <2>2. CASE Discover(r)
    BY <2>2, DiscoverHolds
  <2>3. CASE ClassifySource(r)
    BY <2>3, ClassifyHolds
  <2>4. CASE ReadSource(r)
    BY <2>4, ReadHolds
  <2>5. CASE HashSource(r)
    BY <2>5, HashHolds
  <2>6. CASE Prepare(r)
    BY <2>6, PrepareHolds
  <2>7. CASE NoChange(r)
    BY <2>7, IdleHolds DEF NoChange
  <2>8. CASE Publish(r)
    BY <2>8, PublishHolds
  <2>9. CASE Refused(r)
    BY <2>9, IdleHolds DEF Refused
  <2> QED
    BY <1>2, <2>1, <2>2, <2>3, <2>4, <2>5, <2>6, <2>7, <2>8, <2>9 DEF Refresh
<1>3. ASSUME NEW r \in Refreshers, Die(r) PROVE IInv'
  BY <1>3, IdleHolds DEF Die
<1>4. CASE UNCHANGED vars
  <2>1. UNCHANGED <<habit, files, wk, overtaken, artifact>>
    BY <1>4 DEF vars
  <2>2. ASSUME NEW r \in Refreshers PROVE Reading(wk[r], files)' /\ BeganUnderHead(r)'
    BY <2>1 DEF IInv, BeganUnderHead, artifact
  <2> QED
    BY <2>1, <2>2, SamePublication DEF IInv
<1> QED
  BY <1>1, <1>2, <1>3, <1>4 DEF Next

LEMMA InvariantHolds == Spec /\ Steady => []IInv
<1>1. Init /\ Steady => IInv
  BY InitHolds
<1>2. CInv /\ IInv /\ [Next]_vars => IInv'
  BY NextHolds
<1> QED
  BY <1>1, <1>2, CountsHold, PTL DEF Spec

(* In a world in which files grow while they are read, and are removed and *)
(* rewritten between reads: whoever refreshes, dies or is refused, every   *)
(* record before a cursor is published, or disclosed as malformed          *)
(* (cursor.py, "from the last complete record boundary").                  *)
THEOREM PrefixStaysPublished == Spec /\ Steady => []PrefixIsPublished
<1>1. IInv => PrefixIsPublished
  BY DEF IInv, Tables
<1> QED
  BY <1>1, InvariantHolds, PTL

(* There, a place of a source holds one record: no two refreshes publish   *)
(* different ones for it (writer.py, _occurrence_values).                  *)
THEOREM PlacesStayUnique == Spec /\ Steady => []PlacesAreUnique
<1>1. ASSUME CInv, IInv PROVE PlacesAreUnique
  <2> SUFFICES ASSUME NEW f \in occurrences, NEW g \in occurrences, f.place = g.place PROVE f = g
    BY DEF PlacesAreUnique
  <2>1. PICK p \in Paths, n \in Nat : f = [place |-> At(p, n), rec |-> Behind(cursors[p])[n]]
    BY <1>1, BehindTyped DEF CInv, IInv, Typed, Tables, OccurrencesBehind
  <2>2. PICK q \in Paths, m \in Nat : g = [place |-> At(q, m), rec |-> Behind(cursors[q])[m]]
    BY <1>1, BehindTyped DEF CInv, IInv, Typed, Tables, OccurrencesBehind
  <2>3. At(p, n) = At(q, m)
    BY <2>1, <2>2
  <2>4. p = q /\ n = m
    BY <2>3 DEF At
  <2> QED
    BY <2>1, <2>2, <2>4
<1> QED
  BY <1>1, CountsHold, InvariantHolds, PTL

(* There, no step takes a cursor back, or makes it forget what it was      *)
(* behind (writer.py, _recheck_parent).                                    *)
THEOREM CursorsNeverGoBack == Spec /\ Steady => CursorsAdvance
<1> DEFINE Advances == \A p \in Paths : cursors[p] # None =>
                         cursors'[p] # None /\ IsPrefix(cursors[p].prefix, cursors'[p].prefix)
<1>1. ASSUME CInv, IInv, [Next]_vars PROVE [Advances]_vars
  <2>1. ASSUME UNCHANGED cursors PROVE Advances
    <3> SUFFICES ASSUME NEW p \in Paths, cursors[p] # None
                 PROVE  cursors'[p] # None /\ IsPrefix(cursors[p].prefix, cursors'[p].prefix)
      OBVIOUS
    <3>1. cursors[p].prefix \in Seq(Nat)
      BY <1>1 DEF CInv, IInv, Typed, Cursor
    <3> QED
      BY <2>1, <3>1, PrefixOfItself
  <2>2. ASSUME NEW r \in Refreshers, Publish(r) PROVE Advances
    BY <1>1, <2>2, PublishedCursors DEF Published, Behind
  <2>3. CASE Codex
    BY <2>1, <2>3 DEF Codex, Create, AppendTo, Delete, Rewrite, Edit, artifact
  <2>4. ASSUME NEW r \in Refreshers, Refresh(r) \/ Die(r), ~Publish(r) PROVE UNCHANGED cursors
    BY <2>4 DEF Refresh, Begin, Discover, ClassifySource, ReadSource, HashSource, Prepare, NoChange,
                Refused, Die, artifact
  <2> QED
    BY <1>1, <2>1, <2>2, <2>3, <2>4 DEF Next
<1> HIDE DEF Advances
<1>2. Spec /\ Steady => [][Advances]_vars
  <2>1. CInv /\ IInv /\ [Next]_vars => [Advances]_vars
    BY <1>1
  <2> QED
    BY <2>1, CountsHold, InvariantHolds, PTL DEF Spec
<1> QED
  BY <1>2 DEF CursorsAdvance, Advances

=============================================================================
