------------------------- MODULE ReadingState_proofs -------------------------
(***************************************************************************)
(* Proofs about ReadingState under a clock that only moves forward, for    *)
(* every value of the caps.                                                *)
(*                                                                         *)
(* Inv, the inductive invariant, adds to the types and the caps that no    *)
(* record is from the future: that is why a new record is the newest of    *)
(* its section, why no cap drops it, and why the book that was marked last *)
(* is never the one to lose its bookmarks.                                 *)
(***************************************************************************)
EXTENDS ReadingState, FiniteSetTheorems, SequenceTheorems, WellFoundedInduction, TLAPS

\* The times of a state, against the clock t.
Past(d, t) ==
    /\ \A b \in Books : d.favorites[b] <= t /\ d.reading[b] <= t
    /\ \A b \in Books, x \in Spots : d.bookmarks[b][x] <= t
    /\ \A s \in ShelfIds, b \in Books : d.items[s][b] <= t

Sound(d, t) == d \in States /\ Bounded(d) /\ Past(d, t)

Inv ==
    /\ clock \in Nat
    /\ Sound(mem, clock)
    /\ Sound(file, clock)
    /\ ReadYourWrites

----------------------------------------------------------------------------
LEMMA Caps ==
    /\ MaxFavorites \in Nat \ {0} /\ MaxReading \in Nat \ {0} /\ MaxHistory \in Nat \ {0}
    /\ MaxBookmarkBooks \in Nat \ {0} /\ MaxBookmarksPerBook \in Nat \ {0}
    /\ MaxShelves \in Nat \ {0} /\ MaxShelfItems \in Nat \ {0}
BY CapsAssumption

LEMMA PresentFinite ==
    ASSUME NEW K, IsFiniteSet(K), NEW f \in [K -> Nat]
    PROVE  /\ Present(f) \subseteq K
           /\ IsFiniteSet(Present(f))
           /\ Cardinality(Present(f)) \in Nat
<1>1. Present(f) \subseteq K
  BY DEF Present
<1>. QED BY <1>1, FS_Subset, FS_CardinalityType

\* A mapping that loses records stays within its cap.
LEMMA FewerKept ==
    ASSUME NEW K, IsFiniteSet(K), NEW f \in [K -> Nat], NEW g \in [K -> Nat],
           Present(g) \subseteq Present(f), NEW cap \in Nat, AtMost(f, cap)
    PROVE  AtMost(g, cap)
<1>1. Cardinality(Present(g)) <= Cardinality(Present(f))
  BY PresentFinite, FS_Subset
<1>. QED BY <1>1, PresentFinite DEF AtMost

LEMMA OneRemoved ==
    ASSUME NEW K, IsFiniteSet(K), NEW f \in [K -> Nat], NEW k \in K, NEW cap \in Nat,
           AtMost(f, cap)
    PROVE  /\ [f EXCEPT ![k] = 0] \in [K -> Nat]
           /\ AtMost([f EXCEPT ![k] = 0], cap)
<1>1. Present([f EXCEPT ![k] = 0]) \subseteq Present(f)
  BY DEF Present
<1>. QED BY <1>1, FewerKept

\* A new record is the newest of its mapping, so the trim keeps it.
LEMMA PutKeepsNew ==
    ASSUME clock \in Nat, NEW K, IsFiniteSet(K), NEW f \in [K -> Nat], NEW k \in K,
           \A j \in K : f[j] <= clock, NEW cap \in Nat \ {0}, NEW g \in Put(f, k, cap)
    PROVE  /\ g \in [K -> Nat]
           /\ AtMost(g, cap)
           /\ g[k] = clock + 1
           /\ \A j \in K : g[j] <= clock + 1
<1>. DEFINE h == [f EXCEPT ![k] = clock + 1]
<1>1. h \in [K -> Nat] /\ h[k] = clock + 1 /\ \A j \in K : j # k => h[j] <= clock
  OBVIOUS
<1>2. PICK keep \in NewestOf(h, cap) : g = Only(h, keep)
  BY DEF Put
<1>. HIDE DEF h
<1>3. /\ keep \subseteq Present(h)
      /\ Cardinality(keep) = Least(cap, Cardinality(Present(h)))
      /\ \A i \in keep, j \in Present(h) \ keep : h[i] >= h[j]
  BY <1>2 DEF NewestOf
<1>4. k \in Present(h)
  BY <1>1 DEF Present
<1>5. Cardinality(Present(h)) \in Nat \ {0} /\ IsFiniteSet(Present(h)) /\ Present(h) \subseteq K
  BY <1>1, <1>4, PresentFinite, FS_EmptySet
<1>6. k \in keep
  <2>. SUFFICES ASSUME k \notin keep PROVE FALSE
    OBVIOUS
  <2>1. keep = {}
    <3>. SUFFICES ASSUME NEW i \in keep PROVE FALSE
      OBVIOUS
    <3>1. h[i] >= h[k]
      BY <1>3, <1>4
    <3>2. i \in K /\ i # k
      BY <1>3, <1>5
    <3>. QED BY <3>1, <3>2, <1>1
  <2>. QED BY <2>1, <1>3, <1>5, FS_EmptySet DEF Least
<1>7. g \in [K -> Nat] /\ g[k] = clock + 1 /\ \A j \in K : g[j] <= clock + 1
  BY <1>1, <1>2, <1>6 DEF Only
<1>8. Present(g) = keep
  BY <1>1, <1>2, <1>3, <1>5 DEF Only, Present
<1>9. Cardinality(keep) <= cap
  BY <1>3, <1>5 DEF Least
<1>. QED BY <1>7, <1>8, <1>9 DEF AtMost

----------------------------------------------------------------------------
\* Book b got a bookmark of the next moment, and the other books are as they were.
JustMarked(marks, new, b) ==
    /\ clock \in Nat
    /\ marks \in [Books -> [Spots -> Nat]] /\ new \in [Books -> [Spots -> Nat]]
    /\ \A c \in Books, y \in Spots : marks[c][y] <= clock
    /\ Cardinality(Marked(marks)) <= MaxBookmarkBooks
    /\ \E x \in Spots : new[b][x] = clock + 1
    /\ \A c \in Books \ {b} : new[c] = marks[c]

\* The book that was just marked is not the one whose newest bookmark is oldest, so
\* the eviction brings the number of books back to its cap.
LEMMA EvictsAnother ==
    ASSUME NEW marks, NEW new, NEW b \in Books, JustMarked(marks, new, b),
           NEW m \in Evicted(new, b)
    PROVE  /\ m \in [Books -> [Spots -> Nat]]
           /\ m[b] = new[b]
           /\ \A c \in Books \ {b} : m[c] \in {marks[c], NoMarks}
           /\ Cardinality(Marked(m)) <= MaxBookmarkBooks
<1>. USE DEF JustMarked
<1>1. PICK x \in Spots : new[b][x] = clock + 1
  OBVIOUS
<1>2. Marked(new) = Marked(marks) \cup {b}
  BY <1>1 DEF Marked, Present
<1>3. IsFiniteSet(Marked(marks)) /\ IsFiniteSet(Marked(new))
  BY FS_Subset, SetsAssumption DEF Marked
<1>4. /\ Cardinality(Marked(marks)) \in Nat /\ Cardinality(Marked(new)) \in Nat
      /\ Cardinality(Marked(new)) <= Cardinality(Marked(marks)) + 1
  <2>1. Cardinality(Marked(marks)) \in Nat /\ Cardinality(Marked(new)) \in Nat
    BY <1>3, FS_CardinalityType
  <2>2. \/ Cardinality(Marked(new)) = Cardinality(Marked(marks))
        \/ Cardinality(Marked(new)) = Cardinality(Marked(marks)) + 1
    <3>1. LET M == Marked(marks) IN
          \/ Cardinality(M \cup {b}) = Cardinality(M)
          \/ Cardinality(M \cup {b}) = Cardinality(M) + 1
      BY <1>3, FS_AddElement
    <3>. QED BY <1>2, <3>1
  <2>. QED BY <2>1, <2>2
<1>5. CASE Cardinality(Marked(new)) <= MaxBookmarkBooks
  <2>1. m = new
    BY <1>5 DEF Evicted
  <2>. QED BY <1>1, <1>5, <2>1
<1>6. CASE ~(Cardinality(Marked(new)) <= MaxBookmarkBooks)
  <2>1. PICK c \in Marked(new) : /\ \A d \in Marked(new) : NoNewer(new, c, d)
                                 /\ m = IF c = b THEN new ELSE [new EXCEPT ![c] = NoMarks]
    BY <1>6 DEF Evicted
  <2>2. PICK d \in Marked(new) : d # b
    <3>. SUFFICES ASSUME Marked(new) \subseteq {b} PROVE FALSE
      OBVIOUS
    <3>1. Cardinality(Marked(new)) <= Cardinality({b}) /\ Cardinality({b}) = 1
      BY FS_Subset, FS_Singleton
    <3>. QED BY <3>1, <1>4, <1>6, Caps
  <2>3. c # b
    <3>. SUFFICES ASSUME c = b PROVE FALSE
      OBVIOUS
    <3>1. NoNewer(new, b, d)
      BY <2>1
    <3>2. x \in Present(new[b])
      BY <1>1 DEF Present
    <3>3. PICK y \in Present(new[d]) : new[b][x] <= new[d][y]
      BY <3>1, <3>2 DEF NoNewer
    <3>4. d \in Books /\ y \in Spots /\ new[d] = marks[d]
      BY <1>1, <2>2, <3>3 DEF Marked, Present
    <3>. QED BY <1>1, <3>3, <3>4
  <2>4. m = [new EXCEPT ![c] = NoMarks] /\ c \in Books
    BY <2>1, <2>3 DEF Marked
  <2>5. m \in [Books -> [Spots -> Nat]]
    BY <1>1, <2>4 DEF NoMarks
  <2>6. Marked(m) = Marked(new) \ {c}
    BY <1>1, <2>4 DEF Marked, Present, NoMarks
  <2>7. Cardinality(Marked(m)) = Cardinality(Marked(new)) - 1
    BY <2>1, <2>6, <1>3, FS_RemoveElement
  <2>8. Cardinality(Marked(m)) <= MaxBookmarkBooks
    BY <2>7, <1>4, Caps
  <2>. QED BY <1>1, <2>3, <2>4, <2>5, <2>8
<1>. QED BY <1>5, <1>6

\* The book at the front, and each other book once.
LEMMA FrontOfHistory ==
    ASSUME NEW h \in Seq(Books), Distinct(h), NEW b \in Books
    PROVE  LET n == Upto(<<b>> \o Without(h, b), MaxHistory)
           IN  n \in Seq(Books) /\ Distinct(n) /\ Len(n) <= MaxHistory /\ n[1] = b
<1>. DEFINE w == Without(h, b)
            c == <<b>> \o w
            n == Upto(c, MaxHistory)
<1>1. w \in Seq(Books) /\ Distinct(w) /\ \A i \in 1..Len(w) : w[i] # b
  <2>1. CASE \E i \in 1..Len(h) : h[i] = b
    <3>. DEFINE at == CHOOSE i \in 1..Len(h) : h[i] = b
    <3>1. at \in 1..Len(h) /\ h[at] = b
      BY <2>1
    <3>2. w = SubSeq(h, 1, at - 1) \o SubSeq(h, at + 1, Len(h))
      BY <2>1 DEF Without
    <3>. HIDE DEF w, at
    <3>. DEFINE before == SubSeq(h, 1, at - 1)
                after == SubSeq(h, at + 1, Len(h))
    <3>3. before \in Seq(Books) /\ Len(before) = at - 1 /\ \A i \in 1..at - 1 : before[i] = h[i]
      BY <3>1, SubSeqProperties
    <3>4. /\ after \in Seq(Books) /\ Len(after) = Len(h) - at
          /\ \A i \in 1..Len(h) - at : after[i] = h[at + i]
      BY <3>1, SubSeqProperties
    <3>5. w = before \o after
      BY <3>2
    <3>. HIDE DEF before, after
    <3>6. w \in Seq(Books) /\ Len(w) = Len(h) - 1
      <4>1. w \in Seq(Books) /\ Len(w) = Len(before) + Len(after)
        BY <3>3, <3>4, <3>5, ConcatProperties
      <4>2. Len(h) \in Nat /\ at \in Nat
        BY <3>1
      <4>. QED BY <4>1, <4>2, <3>3, <3>4
    <3>7. \A i \in 1..Len(w) : w[i] = h[IF i < at THEN i ELSE i + 1]
      <4>. SUFFICES ASSUME NEW i \in 1..Len(w) PROVE w[i] = h[IF i < at THEN i ELSE i + 1]
        OBVIOUS
      <4>1. w[i] = IF i <= Len(before) THEN before[i] ELSE after[i - Len(before)]
        BY <3>1, <3>3, <3>4, <3>5, <3>6, ConcatProperties
      <4>2. CASE i < at
        BY <4>1, <4>2, <3>1, <3>3
      <4>3. CASE ~(i < at)
        <5>1. w[i] = after[i - (at - 1)] /\ i - (at - 1) \in 1..Len(h) - at
          BY <4>1, <4>3, <3>1, <3>3, <3>6
        <5>2. at + (i - (at - 1)) = i + 1
          BY <3>1, <3>6
        <5>. QED BY <5>1, <5>2, <4>3, <3>4
      <4>. QED BY <4>2, <4>3
    <3>8. \A i \in 1..Len(w) : /\ (IF i < at THEN i ELSE i + 1) \in 1..Len(h)
                              /\ (IF i < at THEN i ELSE i + 1) # at
      BY <3>1, <3>6
    <3>9. \A i \in 1..Len(w) : w[i] # b
      BY <3>1, <3>7, <3>8 DEF Distinct
    <3>10. Distinct(w)
      <4>. SUFFICES ASSUME NEW i \in 1..Len(w), NEW j \in 1..Len(w), w[i] = w[j] PROVE i = j
        BY DEF Distinct
      <4>1. (IF i < at THEN i ELSE i + 1) = (IF j < at THEN j ELSE j + 1)
        BY <3>7, <3>8 DEF Distinct
      <4>. QED BY <4>1, <3>1, <3>6
    <3>. QED BY <3>6, <3>9, <3>10
  <2>2. CASE ~\E i \in 1..Len(h) : h[i] = b
    BY <2>2 DEF Without
  <2>. QED BY <2>1, <2>2
<1>. HIDE DEF w
<1>2. c \in Seq(Books) /\ Len(c) = Len(w) + 1 /\ c[1] = b /\ \A i \in 2..Len(c) : c[i] = w[i - 1]
  BY <1>1
<1>3. Distinct(c)
  <2>. SUFFICES ASSUME NEW i \in 1..Len(c), NEW j \in 1..Len(c), c[i] = c[j] PROVE i = j
    BY DEF Distinct
  <2>1. CASE i = 1 \/ j = 1
    BY <2>1, <1>1, <1>2
  <2>2. CASE i # 1 /\ j # 1
    <3>1. i - 1 \in 1..Len(w) /\ j - 1 \in 1..Len(w) /\ w[i - 1] = w[j - 1]
      BY <2>2, <1>1, <1>2
    <3>. QED BY <3>1, <1>1 DEF Distinct
  <2>. QED BY <2>1, <2>2
<1>. HIDE DEF c
<1>4. /\ n \in Seq(Books) /\ Len(n) = Least(MaxHistory, Len(c)) /\ Len(n) \in 1..Len(c)
      /\ \A i \in 1..Len(n) : n[i] = c[i]
  BY <1>1, <1>2, Caps DEF Upto, Least
<1>5. Distinct(n) /\ Len(n) <= MaxHistory /\ n[1] = b
  BY <1>2, <1>3, <1>4, Caps DEF Distinct, Least
<1>. QED BY <1>4, <1>5 DEF n, c, w

----------------------------------------------------------------------------
\* Loading cuts nothing from a state within its caps.
LEMMA ClipsNothing ==
    ASSUME NEW K, IsFiniteSet(K), NEW f \in [K -> Nat], NEW cap \in Nat, AtMost(f, cap)
    PROVE  Clips(f, cap) = {f}
<1>1. IsFiniteSet(Present(f)) /\ Cardinality(Present(f)) \in Nat /\ Present(f) \subseteq K
  BY PresentFinite
<1>2. Least(cap, Cardinality(Present(f))) = Cardinality(Present(f))
  BY <1>1 DEF AtMost, Least
<1>3. \A S \in SUBSET Present(f) : Cardinality(S) = Cardinality(Present(f)) <=> S = Present(f)
  BY <1>1, FS_Subset
<1>4. Clips(f, cap) = {Only(f, Present(f))}
  BY <1>2, <1>3 DEF Clips
<1>5. Only(f, Present(f)) = f
  BY DEF Only, Present
<1>. QED BY <1>4, <1>5

LEMMA AllOf ==
    ASSUME NEW S, IsFiniteSet(S), NEW cap \in Nat, Cardinality(S) <= cap
    PROVE  {T \in SUBSET S : Cardinality(T) = Least(cap, Cardinality(S))} = {S}
<1>1. Least(cap, Cardinality(S)) = Cardinality(S)
  BY FS_CardinalityType DEF Least
<1>. QED BY <1>1, FS_Subset

LEMMA WithinCapsLossless ==
    ASSUME NEW d \in States, Bounded(d)
    PROVE  Loads(d) = {d}
<1>. USE SetsAssumption, Caps
<1>1. Clips(d.favorites, MaxFavorites) = {d.favorites} /\ Clips(d.reading, MaxReading) = {d.reading}
  BY ClipsNothing DEF States, Bounded
<1>2. Upto(d.history, MaxHistory) = d.history
  <2>1. d.history \in Seq(Books) /\ Least(MaxHistory, Len(d.history)) = Len(d.history)
    BY DEF States, Bounded, Least
  <2>. QED BY <2>1 DEF Upto
<1>3. ClippedMarks(d.bookmarks) = {d.bookmarks}
  <2>. DEFINE m == d.bookmarks
  <2>1. m \in [Books -> [Spots -> Nat]] /\ Cardinality(Marked(m)) <= MaxBookmarkBooks
    BY DEF States, Bounded
  <2>2. \A b \in Books : Clips(m[b], MaxBookmarksPerBook) = {m[b]}
    BY ClipsNothing DEF States, Bounded
  <2>3. IsFiniteSet(Marked(m)) /\ Marked(m) \subseteq Books
    BY FS_Subset DEF Marked
  <2>4. \A b \in Books \ Marked(m) : m[b] = NoMarks
    BY <2>1 DEF Marked, Present, NoMarks
  <2>. HIDE DEF m
  <2>5. {S \in SUBSET Marked(m) : Cardinality(S) = Least(MaxBookmarkBooks, Cardinality(Marked(m)))}
          = {Marked(m)}
    BY <2>1, <2>3, AllOf
  <2>6. ClippedMarks(m) = {n \in [Books -> UNION {Clips(m[b], MaxBookmarksPerBook) : b \in Books} \cup {NoMarks}] :
            \A b \in Books :
                n[b] \in IF b \in Marked(m) THEN Clips(m[b], MaxBookmarksPerBook) ELSE {NoMarks}}
    BY <2>5 DEF ClippedMarks
  <2>7. \A b \in Books :
            (IF b \in Marked(m) THEN Clips(m[b], MaxBookmarksPerBook) ELSE {NoMarks}) = {m[b]}
    BY <2>2, <2>4
  <2>. DEFINE lists == UNION {Clips(m[b], MaxBookmarksPerBook) : b \in Books} \cup {NoMarks}
  <2>8. m \in [Books -> lists]
    BY <2>1, <2>2
  <2>. HIDE DEF lists
  <2>9. ClippedMarks(m) = {n \in [Books -> lists] : \A b \in Books : n[b] = m[b]}
    BY <2>6, <2>7 DEF lists
  <2>10. ClippedMarks(m) = {m}
    BY <2>8, <2>9
  <2>. QED BY <2>10 DEF m
<1>4. ClippedShelves(d.shelves) = {d.shelves}
  <2>1. IsFiniteSet(d.shelves) /\ Cardinality(d.shelves) <= MaxShelves
    BY FS_Subset DEF States, Bounded
  <2>. QED BY <2>1, AllOf DEF ClippedShelves
<1>5. ClippedItems(d.items, d.shelves) = {d.items}
  <2>. DEFINE i == d.items
              shelved == d.shelves
  <2>1. i \in [ShelfIds -> [Books -> Nat]] /\ \A s \in ShelfIds \ shelved : i[s] = NoRecords
    BY DEF States, Bounded
  <2>2. \A s \in ShelfIds : Clips(i[s], MaxShelfItems) = {i[s]}
    BY ClipsNothing DEF States, Bounded
  <2>. HIDE DEF i, shelved
  <2>3. \A s \in ShelfIds :
            (IF s \in shelved THEN Clips(i[s], MaxShelfItems) ELSE {NoRecords}) = {i[s]}
    BY <2>1, <2>2
  <2>. DEFINE rows == UNION {Clips(i[s], MaxShelfItems) : s \in ShelfIds} \cup {NoRecords}
  <2>4. i \in [ShelfIds -> rows]
    BY <2>1, <2>2
  <2>. HIDE DEF rows
  <2>5. ClippedItems(i, shelved) = {j \in [ShelfIds -> rows] : \A s \in ShelfIds : j[s] = i[s]}
    BY <2>3 DEF ClippedItems, rows
  <2>6. ClippedItems(i, shelved) = {i}
    BY <2>4, <2>5
  <2>. QED BY <2>6 DEF i, shelved
<1>6. Loads(d) = {[favorites |-> d.favorites, reading |-> d.reading, history |-> d.history,
                   bookmarks |-> d.bookmarks, shelves |-> d.shelves, items |-> d.items]}
  <2>1. UNION {{<<s, i>> : i \in ClippedItems(d.items, s)} : s \in ClippedShelves(d.shelves)}
          = {<<d.shelves, d.items>>}
    BY <1>4, <1>5
  <2>2. Loads(d) = {[favorites |-> f, reading |-> r, history |-> d.history,
                     bookmarks |-> m, shelves |-> si[1], items |-> si[2]] :
                        f \in {d.favorites}, r \in {d.reading}, m \in {d.bookmarks},
                        si \in {<<d.shelves, d.items>>}}
    BY <2>1, <1>1, <1>2, <1>3 DEF Loads
  <2>. QED BY <2>2
<1>. QED BY <1>6 DEF States

----------------------------------------------------------------------------
\* The fields of a sound state, one by one.
LEMMA Fields ==
    ASSUME NEW d, NEW t, Sound(d, t)
    PROVE  /\ d.favorites \in [Books -> Nat] /\ d.reading \in [Books -> Nat]
           /\ d.history \in Seq(Books) /\ Distinct(d.history)
           /\ d.bookmarks \in [Books -> [Spots -> Nat]]
           /\ d.shelves \in SUBSET ShelfIds
           /\ d.items \in [ShelfIds -> [Books -> Nat]]
           /\ AtMost(d.favorites, MaxFavorites) /\ AtMost(d.reading, MaxReading)
           /\ Cardinality(Marked(d.bookmarks)) <= MaxBookmarkBooks
           /\ \A b \in Books : AtMost(d.bookmarks[b], MaxBookmarksPerBook)
           /\ Cardinality(d.shelves) <= MaxShelves
           /\ \A s \in ShelfIds : AtMost(d.items[s], MaxShelfItems)
           /\ \A b \in Books : d.favorites[b] <= t /\ d.reading[b] <= t
           /\ \A b \in Books, x \in Spots : d.bookmarks[b][x] <= t
           /\ \A s \in ShelfIds, b \in Books : d.items[s][b] <= t
BY DEF Sound, States, Bounded, Past

\* A sound state stays sound as time passes.
LEMMA Later ==
    ASSUME NEW d, NEW t \in Nat, NEW u \in Nat, t <= u, Sound(d, t)
    PROVE  Sound(d, u)
<1>1. Past(d, u)
  <2>1. \A b \in Books : d.favorites[b] \in Nat /\ d.reading[b] \in Nat
    BY DEF Sound, States
  <2>2. \A b \in Books, x \in Spots : d.bookmarks[b][x] \in Nat
    BY DEF Sound, States
  <2>3. \A s \in ShelfIds, b \in Books : d.items[s][b] \in Nat
    BY DEF Sound, States
  <2>. QED BY <2>1, <2>2, <2>3 DEF Sound, Past
<1>. QED BY <1>1 DEF Sound

----------------------------------------------------------------------------
\* A sound state that is saved, on a clock that has not gone back, leaves only the
\* answer to be checked.
LEMMA SaveSound ==
    ASSUME Inv, clock' \in Nat, clock <= clock', NEW d, Sound(d, clock'), Save(d)
    PROVE  mem' = d /\ (ReadYourWrites' => Inv')
<1>1. Sound(file, clock')
  BY Later DEF Inv
<1>2. mem' = d /\ (file' = file \/ file' = d)
  BY DEF Save
<1>3. Sound(mem', clock') /\ Sound(file', clock')
  BY <1>1, <1>2
<1>. QED BY <1>2, <1>3 DEF Inv

LEMMA AddFavoriteInv == ASSUME Inv, NEW b \in Books, AddFavorite(b) PROVE Inv'
<1>1. clock' = clock + 1 /\ clock \in Nat /\ clock' \in Nat
  BY DEF AddFavorite, Stamp, Inv
<1>2. PICK f \in Put(mem.favorites, b, MaxFavorites) : Save([mem EXCEPT !.favorites = f])
  BY DEF AddFavorite
<1>. DEFINE d == [mem EXCEPT !.favorites = f]
<1>3. mem.favorites \in [Books -> Nat] /\ \A c \in Books : mem.favorites[c] <= clock
  BY Fields DEF Inv
<1>4. /\ f \in [Books -> Nat] /\ AtMost(f, MaxFavorites) /\ f[b] = clock'
      /\ \A c \in Books : f[c] <= clock'
  BY <1>1, <1>2, <1>3, PutKeepsNew, SetsAssumption, Caps
<1>5. Sound(mem, clock')
  BY <1>1, Later DEF Inv
<1>6. Sound(d, clock') /\ d.favorites = f
  BY <1>4, <1>5 DEF Sound, States, Bounded, Past
<1>7. mem'.favorites = f /\ (ReadYourWrites' => Inv')
  <2>1. Save(d) /\ clock <= clock'
    BY <1>1, <1>2
  <2>. HIDE DEF d
  <2>. QED BY <2>1, <1>1, <1>6, SaveSound
<1>8. ReadYourWrites'
  BY <1>4, <1>7 DEF AddFavorite, ReadYourWrites
<1>. QED BY <1>7, <1>8

LEMMA SetPositionInv == ASSUME Inv, NEW b \in Books, SetPosition(b) PROVE Inv'
<1>1. clock' = clock + 1 /\ clock \in Nat /\ clock' \in Nat
  BY DEF SetPosition, Stamp, Inv
<1>2. PICK f \in Put(mem.reading, b, MaxReading) : Save([mem EXCEPT !.reading = f])
  BY DEF SetPosition
<1>. DEFINE d == [mem EXCEPT !.reading = f]
<1>3. mem.reading \in [Books -> Nat] /\ \A c \in Books : mem.reading[c] <= clock
  BY Fields DEF Inv
<1>4. /\ f \in [Books -> Nat] /\ AtMost(f, MaxReading) /\ f[b] = clock'
      /\ \A c \in Books : f[c] <= clock'
  BY <1>1, <1>2, <1>3, PutKeepsNew, SetsAssumption, Caps
<1>5. Sound(mem, clock')
  BY <1>1, Later DEF Inv
<1>6. Sound(d, clock') /\ d.reading = f
  BY <1>4, <1>5 DEF Sound, States, Bounded, Past
<1>7. mem'.reading = f /\ (ReadYourWrites' => Inv')
  <2>1. Save(d) /\ clock <= clock'
    BY <1>1, <1>2
  <2>. HIDE DEF d
  <2>. QED BY <2>1, <1>1, <1>6, SaveSound
<1>8. ReadYourWrites'
  BY <1>4, <1>7 DEF SetPosition, ReadYourWrites
<1>. QED BY <1>7, <1>8

LEMMA AddToShelfInv == ASSUME Inv, NEW s \in ShelfIds, NEW b \in Books, AddToShelf(s, b) PROVE Inv'
<1>1. clock' = clock + 1 /\ clock \in Nat /\ clock' \in Nat /\ s \in mem.shelves
  BY DEF AddToShelf, Stamp, Inv
<1>2. PICK i \in Put(mem.items[s], b, MaxShelfItems) : Save([mem EXCEPT !.items[s] = i])
  BY DEF AddToShelf
<1>. DEFINE d == [mem EXCEPT !.items[s] = i]
<1>3. mem.items[s] \in [Books -> Nat] /\ \A c \in Books : mem.items[s][c] <= clock
  BY Fields DEF Inv
<1>4. /\ i \in [Books -> Nat] /\ AtMost(i, MaxShelfItems) /\ i[b] = clock'
      /\ \A c \in Books : i[c] <= clock'
  BY <1>1, <1>2, <1>3, PutKeepsNew, SetsAssumption, Caps
<1>5. Sound(mem, clock')
  BY <1>1, Later DEF Inv
<1>6. Sound(d, clock') /\ d.items[s] = i
  BY <1>1, <1>4, <1>5 DEF Sound, States, Bounded, Past
<1>7. mem'.items[s] = i /\ (ReadYourWrites' => Inv')
  <2>1. Save(d) /\ clock <= clock'
    BY <1>1, <1>2
  <2>. HIDE DEF d
  <2>. QED BY <2>1, <1>1, <1>6, SaveSound
<1>8. ReadYourWrites'
  BY <1>4, <1>7 DEF AddToShelf, ReadYourWrites
<1>. QED BY <1>7, <1>8

LEMMA AddBookmarkInv == ASSUME Inv, NEW b \in Books, NEW x \in Spots, AddBookmark(b, x) PROVE Inv'
<1>1. clock' = clock + 1 /\ clock \in Nat /\ clock' \in Nat
  BY DEF AddBookmark, Stamp, Inv
<1>2. PICK p \in Put(mem.bookmarks[b], x, MaxBookmarksPerBook) :
        \E m \in Evicted([mem.bookmarks EXCEPT ![b] = p], b) : Save([mem EXCEPT !.bookmarks = m])
  BY DEF AddBookmark
<1>3. PICK m \in Evicted([mem.bookmarks EXCEPT ![b] = p], b) : Save([mem EXCEPT !.bookmarks = m])
  BY <1>2
<1>. DEFINE d == [mem EXCEPT !.bookmarks = m]
<1>4. /\ mem.bookmarks \in [Books -> [Spots -> Nat]]
      /\ \A c \in Books, y \in Spots : mem.bookmarks[c][y] <= clock
      /\ Cardinality(Marked(mem.bookmarks)) <= MaxBookmarkBooks
      /\ \A c \in Books : AtMost(mem.bookmarks[c], MaxBookmarksPerBook)
  BY Fields DEF Inv
<1>5. /\ p \in [Spots -> Nat] /\ AtMost(p, MaxBookmarksPerBook) /\ p[x] = clock'
      /\ \A y \in Spots : p[y] <= clock'
  <2>1. mem.bookmarks[b] \in [Spots -> Nat] /\ \A y \in Spots : mem.bookmarks[b][y] <= clock
    BY <1>4
  <2>. QED BY <1>1, <1>2, <2>1, PutKeepsNew, SetsAssumption, Caps
<1>6. /\ m \in [Books -> [Spots -> Nat]] /\ m[b] = p
      /\ \A c \in Books \ {b} : m[c] \in {mem.bookmarks[c], NoMarks}
      /\ Cardinality(Marked(m)) <= MaxBookmarkBooks
  <2>1. p[x] = clock + 1
    BY <1>1, <1>5
  <2>2. p \in [Spots -> Nat]
    BY <1>5
  <2>. DEFINE old == mem.bookmarks
  <2>3. /\ old \in [Books -> [Spots -> Nat]] /\ Cardinality(Marked(old)) <= MaxBookmarkBooks
        /\ \A c \in Books, y \in Spots : old[c][y] <= clock
    BY <1>4
  <2>. DEFINE new == [old EXCEPT ![b] = p]
  <2>4. m \in Evicted(new, b)
    BY <1>3
  <2>5. /\ new \in [Books -> [Spots -> Nat]] /\ new[b] = p /\ \E y \in Spots : new[b][y] = clock + 1
        /\ \A c \in Books \ {b} : new[c] = old[c]
    BY <2>1, <2>2, <2>3
  <2>. HIDE DEF old, new
  <2>6. /\ m \in [Books -> [Spots -> Nat]] /\ m[b] = p
        /\ \A c \in Books \ {b} : m[c] \in {old[c], NoMarks}
        /\ Cardinality(Marked(m)) <= MaxBookmarkBooks
    <3>1. JustMarked(old, new, b)
      BY <2>3, <2>5, <1>1 DEF JustMarked
    <3>. QED BY <3>1, <2>4, <2>5, EvictsAnother
  <2>. QED BY <2>6 DEF old
<1>7. \A c \in Books : AtMost(m[c], MaxBookmarksPerBook) /\ \A y \in Spots : m[c][y] <= clock'
  <2>1. AtMost(NoMarks, MaxBookmarksPerBook) /\ \A y \in Spots : NoMarks[y] <= clock'
    <3>1. Present(NoMarks) = {}
      BY DEF Present, NoMarks
    <3>2. Cardinality(Present(NoMarks)) = 0
      BY <3>1, FS_EmptySet
    <3>3. AtMost(NoMarks, MaxBookmarksPerBook)
      BY <3>2, Caps DEF AtMost
    <3>. QED BY <3>3, <1>1 DEF NoMarks
  <2>2. \A c \in Books, y \in Spots : mem.bookmarks[c][y] <= clock'
    BY <1>1, <1>4
  <2>. QED BY <2>1, <2>2, <1>4, <1>5, <1>6
<1>8. Sound(mem, clock')
  BY <1>1, Later DEF Inv
<1>9. Sound(d, clock') /\ d.bookmarks = m
  BY <1>6, <1>7, <1>8 DEF Sound, States, Bounded, Past
<1>10. mem'.bookmarks = m /\ (ReadYourWrites' => Inv')
  <2>1. Save(d) /\ clock <= clock'
    BY <1>1, <1>3
  <2>. HIDE DEF d
  <2>. QED BY <2>1, <1>1, <1>9, SaveSound
<1>11. ReadYourWrites'
  BY <1>5, <1>6, <1>10 DEF AddBookmark, ReadYourWrites
<1>. QED BY <1>10, <1>11

LEMMA RecordDownloadInv == ASSUME Inv, NEW b \in Books, RecordDownload(b) PROVE Inv'
<1>. DEFINE h == Upto(<<b>> \o Without(mem.history, b), MaxHistory)
            d == [mem EXCEPT !.history = h]
<1>1. clock' = clock /\ clock \in Nat /\ Save(d) /\ asked' = <<"history", b>>
  BY DEF RecordDownload, Inv
<1>2. h \in Seq(Books) /\ Distinct(h) /\ Len(h) <= MaxHistory /\ h[1] = b
  BY Fields, FrontOfHistory DEF Inv
<1>. HIDE DEF h
<1>3. Sound(d, clock') /\ d.history = h
  BY <1>1, <1>2 DEF Inv, Sound, States, Bounded, Past
<1>4. mem'.history = h /\ (ReadYourWrites' => Inv')
  <2>. HIDE DEF d
  <2>. QED BY <1>1, <1>3, SaveSound
<1>5. ReadYourWrites'
  BY <1>1, <1>2, <1>4 DEF ReadYourWrites
<1>. QED BY <1>4, <1>5

LEMMA CreateShelfInv == ASSUME Inv, NEW s \in ShelfIds, CreateShelf(s) PROVE Inv'
<1>. DEFINE d == [mem EXCEPT !.shelves = @ \cup {s}]
<1>1. clock' = clock /\ clock \in Nat /\ Save(d) /\ asked' = <<"shelf", s>>
  BY DEF CreateShelf, Inv
<1>2. Cardinality(mem.shelves \cup {s}) <= MaxShelves
  <2>1. IsFiniteSet(mem.shelves) /\ Cardinality(mem.shelves) \in Nat
    BY Fields, FS_Subset, FS_CardinalityType, SetsAssumption DEF Inv
  <2>2. s \notin mem.shelves /\ Cardinality(mem.shelves) < MaxShelves
    BY DEF CreateShelf
  <2>3. Cardinality(mem.shelves \cup {s}) = Cardinality(mem.shelves) + 1
    BY <2>1, <2>2, FS_AddElement
  <2>. QED BY <2>1, <2>2, <2>3, Caps
<1>3. Sound(d, clock') /\ d.shelves = mem.shelves \cup {s}
  BY <1>1, <1>2 DEF Inv, Sound, States, Bounded, Past
<1>4. s \in mem'.shelves /\ (ReadYourWrites' => Inv')
  <2>. HIDE DEF d
  <2>. QED BY <1>1, <1>3, SaveSound
<1>5. ReadYourWrites'
  BY <1>1, <1>4 DEF ReadYourWrites
<1>. QED BY <1>4, <1>5

LEMMA RenameShelfInv == ASSUME Inv, NEW s \in ShelfIds, RenameShelf(s) PROVE Inv'
<1>1. clock' = clock /\ clock \in Nat /\ Save(mem) /\ asked' = Nothing
  BY DEF RenameShelf, Inv
<1>2. Sound(mem, clock')
  BY <1>1 DEF Inv
<1>. QED BY <1>1, <1>2, SaveSound DEF ReadYourWrites

LEMMA RemoveFavoriteInv == ASSUME Inv, NEW b \in Books, RemoveFavorite(b) PROVE Inv'
<1>. DEFINE f == [mem.favorites EXCEPT ![b] = 0]
            d == [mem EXCEPT !.favorites = f]
<1>1. clock' = clock /\ clock \in Nat /\ asked' = Nothing
  BY DEF RemoveFavorite, Inv
<1>2. mem.favorites \in [Books -> Nat] /\ AtMost(mem.favorites, MaxFavorites)
  BY Fields DEF Inv
<1>3. f \in [Books -> Nat] /\ AtMost(f, MaxFavorites)
  BY <1>2, OneRemoved, SetsAssumption, Caps
<1>4. Save(d)
  BY DEF RemoveFavorite, Inv, Sound, States
<1>5. \A c \in Books : f[c] <= clock
  BY <1>1, <1>2, Fields DEF Inv
<1>6. Sound(d, clock')
  <2>. HIDE DEF f
  <2>. QED BY <1>1, <1>3, <1>5 DEF Inv, Sound, States, Bounded, Past
<1>. HIDE DEF d
<1>. QED BY <1>1, <1>4, <1>6, SaveSound DEF ReadYourWrites

LEMMA RemoveBookmarkInv ==
    ASSUME Inv, NEW b \in Books, NEW x \in Spots, RemoveBookmark(b, x) PROVE Inv'
<1>. DEFINE p == [mem.bookmarks[b] EXCEPT ![x] = 0]
            m == [mem.bookmarks EXCEPT ![b] = p]
            d == [mem EXCEPT !.bookmarks = m]
<1>1. clock' = clock /\ clock \in Nat /\ asked' = Nothing
  BY DEF RemoveBookmark, Inv
<1>2. /\ mem.bookmarks \in [Books -> [Spots -> Nat]]
      /\ AtMost(mem.bookmarks[b], MaxBookmarksPerBook)
      /\ Cardinality(Marked(mem.bookmarks)) <= MaxBookmarkBooks
  BY Fields DEF Inv
<1>3. p \in [Spots -> Nat] /\ AtMost(p, MaxBookmarksPerBook)
  <2>1. mem.bookmarks[b] \in [Spots -> Nat]
    BY <1>2
  <2>. QED BY <1>2, <2>1, OneRemoved, SetsAssumption, Caps
<1>4. Cardinality(Marked(m)) <= MaxBookmarkBooks
  <2>1. Marked(m) \subseteq Marked(mem.bookmarks)
    BY <1>2 DEF Marked, Present
  <2>2. IsFiniteSet(Marked(mem.bookmarks)) /\ IsFiniteSet(Marked(m))
    BY FS_Subset, SetsAssumption DEF Marked
  <2>3. Cardinality(Marked(m)) <= Cardinality(Marked(mem.bookmarks))
    BY <2>1, <2>2, FS_Subset
  <2>4. Cardinality(Marked(m)) \in Nat /\ Cardinality(Marked(mem.bookmarks)) \in Nat
    BY <2>2, FS_CardinalityType
  <2>. QED BY <1>2, <2>3, <2>4, Caps
<1>5. Save(d)
  BY DEF RemoveBookmark, Inv, Sound, States
<1>6. Sound(d, clock')
  <2>1. /\ m \in [Books -> [Spots -> Nat]] /\ m[b] = p
        /\ \A c \in Books \ {b} : m[c] = mem.bookmarks[c]
    BY <1>2, <1>3
  <2>2. \A y \in Spots : p[y] <= clock
    BY <1>1, <1>2, Fields DEF Inv
  <2>. HIDE DEF p, m
  <2>3. \A c \in Books : AtMost(m[c], MaxBookmarksPerBook) /\ \A y \in Spots : m[c][y] <= clock
    BY <2>1, <2>2, <1>3, Fields DEF Inv
  <2>4. Sound(mem, clock) /\ mem \in States
    BY DEF Inv, Sound
  <2>5. /\ d \in States /\ d.bookmarks = m /\ d.shelves = mem.shelves /\ d.items = mem.items
        /\ d.favorites = mem.favorites /\ d.reading = mem.reading /\ d.history = mem.history
    BY <2>1, <2>4 DEF States
  <2>. HIDE DEF d
  <2>6. Bounded(d)
    BY <2>3, <2>4, <2>5, <1>4 DEF Sound, Bounded
  <2>7. Past(d, clock)
    BY <2>3, <2>4, <2>5 DEF Sound, Past
  <2>. QED BY <2>5, <2>6, <2>7, <1>1 DEF Sound
<1>. HIDE DEF d
<1>. QED BY <1>1, <1>5, <1>6, SaveSound DEF ReadYourWrites

LEMMA RemoveFromShelfInv ==
    ASSUME Inv, NEW s \in ShelfIds, NEW b \in Books, RemoveFromShelf(s, b) PROVE Inv'
<1>. DEFINE i == [mem.items[s] EXCEPT ![b] = 0]
            d == [mem EXCEPT !.items[s] = i]
<1>1. clock' = clock /\ clock \in Nat /\ asked' = Nothing /\ s \in mem.shelves
  BY DEF RemoveFromShelf, Inv
<1>2. mem.items[s] \in [Books -> Nat] /\ AtMost(mem.items[s], MaxShelfItems)
  BY Fields DEF Inv
<1>3. i \in [Books -> Nat] /\ AtMost(i, MaxShelfItems)
  BY <1>2, OneRemoved, SetsAssumption, Caps
<1>4. Save(d)
  BY DEF RemoveFromShelf, Inv, Sound, States
<1>5. Sound(d, clock')
  <2>1. \A c \in Books : i[c] <= clock
    BY <1>1, <1>2, Fields DEF Inv
  <2>. HIDE DEF i
  <2>. QED BY <2>1, <1>1, <1>3 DEF Inv, Sound, States, Bounded, Past
<1>. HIDE DEF d
<1>. QED BY <1>1, <1>4, <1>5, SaveSound DEF ReadYourWrites

LEMMA DeleteShelfInv == ASSUME Inv, NEW s \in ShelfIds, DeleteShelf(s) PROVE Inv'
<1>. DEFINE d == [mem EXCEPT !.shelves = @ \ {s}, !.items[s] = NoRecords]
<1>1. clock' = clock /\ clock \in Nat /\ asked' = Nothing
  BY DEF DeleteShelf, Inv
<1>2. Cardinality(mem.shelves \ {s}) <= MaxShelves
  <2>1. mem.shelves \in SUBSET ShelfIds /\ Cardinality(mem.shelves) <= MaxShelves
    BY Fields DEF Inv
  <2>2. IsFiniteSet(mem.shelves)
    BY <2>1, FS_Subset, SetsAssumption
  <2>3. /\ IsFiniteSet(mem.shelves \ {s})
        /\ Cardinality(mem.shelves \ {s}) <= Cardinality(mem.shelves)
    BY <2>2, FS_Subset
  <2>4. Cardinality(mem.shelves \ {s}) \in Nat /\ Cardinality(mem.shelves) \in Nat
    BY <2>2, <2>3, FS_CardinalityType
  <2>. QED BY <2>1, <2>3, <2>4, Caps
<1>3. /\ NoRecords \in [Books -> Nat] /\ AtMost(NoRecords, MaxShelfItems)
      /\ \A b \in Books : NoRecords[b] <= clock
  <2>1. Present(NoRecords) = {}
    BY DEF Present, NoRecords
  <2>2. Cardinality(Present(NoRecords)) = 0
    BY <2>1, FS_EmptySet
  <2>. QED BY <2>2, <1>1, Caps DEF AtMost, NoRecords
<1>4. Sound(d, clock')
  <2>1. Sound(mem, clock) /\ mem \in States
    BY DEF Inv, Sound
  <2>2. /\ d \in States /\ d.shelves = mem.shelves \ {s} /\ d.items = [mem.items EXCEPT ![s] = NoRecords]
        /\ d.favorites = mem.favorites /\ d.reading = mem.reading
        /\ d.history = mem.history /\ d.bookmarks = mem.bookmarks
    BY <2>1, <1>3 DEF States
  <2>. HIDE DEF d
  <2>3. Bounded(d)
    BY <2>1, <2>2, <1>2, <1>3 DEF Sound, Bounded, States
  <2>4. Past(d, clock)
    BY <2>1, <2>2, <1>3 DEF Sound, Past, States
  <2>. QED BY <2>2, <2>3, <2>4, <1>1 DEF Sound
<1>5. Save(d)
  BY DEF DeleteShelf
<1>. HIDE DEF d
<1>. QED BY <1>1, <1>4, <1>5, SaveSound DEF ReadYourWrites

LEMMA EmptySound == ASSUME NEW t \in Nat PROVE Sound(EmptyState, t)
<1>1. NoRecords \in [Books -> Nat] /\ Present(NoRecords) = {} /\ NoMarks \in [Spots -> Nat] /\ Present(NoMarks) = {}
  BY DEF NoRecords, NoMarks, Present
<1>2. Marked([b \in Books |-> NoMarks]) = {}
  BY <1>1 DEF Marked
<1>3. EmptyState \in States
  BY <1>1 DEF EmptyState, States
<1>4. Bounded(EmptyState)
  BY <1>1, <1>2, FS_EmptySet, Caps DEF Bounded, EmptyState, AtMost, Distinct
<1>5. Past(EmptyState, t)
  BY DEF Past, EmptyState, NoRecords, NoMarks
<1>. QED BY <1>3, <1>4, <1>5 DEF Sound

LEMMA RestartInv == ASSUME Inv, Restart \/ RestartEmpty PROVE Inv'
<1>1. clock' = clock /\ clock \in Nat /\ asked' = Nothing
  BY DEF Restart, RestartEmpty, Inv
<1>2. Sound(EmptyState, clock)
  BY <1>1, EmptySound
<1>3. CASE Restart
  <2>1. mem' = file /\ file' = file
    BY <1>3, WithinCapsLossless DEF Restart, Inv, Sound
  <2>. QED BY <1>1, <2>1 DEF Inv, ReadYourWrites
<1>4. CASE RestartEmpty
  BY <1>1, <1>2, <1>4 DEF RestartEmpty, Inv, ReadYourWrites
<1>. QED BY <1>3, <1>4

----------------------------------------------------------------------------
LEMMA InitInv == Init => Inv
<1>. SUFFICES ASSUME Init PROVE Inv
  OBVIOUS
<1>1. Sound(EmptyState, 0)
  BY EmptySound
<1>. QED BY <1>1 DEF Init, Inv, ReadYourWrites

LEMMA NextInv == Inv /\ [Next]_vars => Inv'
<1>. SUFFICES ASSUME Inv, [Next]_vars PROVE Inv'
  OBVIOUS
<1>1. CASE UNCHANGED vars
  BY <1>1 DEF vars, Inv, Sound, Past, ReadYourWrites
<1>2. CASE Next
  BY <1>2, AddFavoriteInv, SetPositionInv, RecordDownloadInv, AddBookmarkInv, AddToShelfInv,
     CreateShelfInv, RemoveFavoriteInv, RemoveBookmarkInv, RemoveFromShelfInv,
     DeleteShelfInv, RenameShelfInv, RestartInv DEF Next
<1>. QED BY <1>1, <1>2

LEMMA InvAlways == SteadySpec => []Inv
BY InitInv, NextInv, PTL DEF SteadySpec

\* Types and caps hold, in memory and in the file, whatever is added, removed, saved or
\* not saved, and however often the process restarts (store.py, the ceilings at its top).
THEOREM ReadingTypeCorrect == SteadySpec => []TypeOK
<1>1. Inv => TypeOK
  BY DEF Inv, Sound, TypeOK
<1>. QED BY <1>1, InvAlways, PTL

\* Loading the state file (_clean_state) never cuts anything from it, for all values of
\* the caps.
THEOREM LoadIsLosslessAlways == SteadySpec => []LoadIsLossless
<1>1. Inv => LoadIsLossless
  BY WithinCapsLossless DEF Inv, Sound, LoadIsLossless
<1>. QED BY <1>1, InvAlways, PTL

\* What a request asked to be kept is there afterwards, caps notwithstanding.
THEOREM ReadYourWritesAlways == SteadySpec => []ReadYourWrites
<1>1. Inv => ReadYourWrites
  BY DEF Inv
<1>. QED BY <1>1, InvAlways, PTL
----------------------------------------------------------------------------
(* What the caps drop.  Since the clock never shows a time twice, no two   *)
(* records of a section have the same time, and the newest of the kept and *)
(* the dropped are told apart.                                             *)

Apart(f) == \A i, j \in DOMAIN f : f[i] = f[j] => i = j \/ f[i] = 0

MarksApart(marks) == \A b, c \in Books, x, y \in Spots :
    marks[b][x] = marks[c][y] => (b = c /\ x = y) \/ marks[b][x] = 0

Unique(d) ==
    /\ Apart(d.favorites) /\ Apart(d.reading)
    /\ MarksApart(d.bookmarks)
    /\ \A s \in ShelfIds : Apart(d.items[s])

TimesUnique == Unique(mem) /\ Unique(file)

LEMMA PutDropsOldest ==
    ASSUME clock \in Nat, NEW K, IsFiniteSet(K), NEW f \in [K -> Nat], NEW k \in K,
           \A j \in K : f[j] <= clock, NEW cap \in Nat \ {0}, NEW g \in Put(f, k, cap), Apart(f)
    PROVE  /\ Apart(g) /\ OnlyOldest(f, g, cap)
           /\ g \in [K -> Nat] /\ g[k] = clock + 1
           /\ \A j \in K : j # k => g[j] = f[j] \/ g[j] = 0
<1>. DEFINE h == [f EXCEPT ![k] = clock + 1]
<1>0. g \in [K -> Nat] /\ g[k] = clock + 1
  BY PutKeepsNew
<1>1. h \in [K -> Nat] /\ h[k] = clock + 1 /\ \A j \in K : j # k => h[j] = f[j]
  OBVIOUS
<1>2. PICK keep \in NewestOf(h, cap) : g = Only(h, keep)
  BY DEF Put
<1>. HIDE DEF h
<1>3. /\ keep \subseteq Present(h)
      /\ Cardinality(keep) = Least(cap, Cardinality(Present(h)))
      /\ \A i \in keep, j \in Present(h) \ keep : h[i] >= h[j]
  BY <1>2 DEF NewestOf
<1>4. IsFiniteSet(Present(h)) /\ Cardinality(Present(h)) \in Nat /\ Present(h) \subseteq K
  BY <1>1, PresentFinite
<1>5. \A j \in K : g[j] = IF j \in keep THEN h[j] ELSE 0
  BY <1>1, <1>2 DEF Only
<1>6. Present(g) = keep
  BY <1>0, <1>3, <1>4, <1>5 DEF Present
<1>7. Apart(g)
  <2>1. ASSUME NEW i \in K, NEW j \in K, g[i] = g[j], g[i] # 0
        PROVE  i = j
    <3>1. h[i] = h[j] /\ h[i] # 0
      BY <1>5, <2>1
    <3>2. CASE i = k \/ j = k
      BY <1>1, <3>1, <3>2
    <3>3. CASE i # k /\ j # k
      BY <1>1, <3>1, <3>3 DEF Apart
    <3>. QED BY <3>2, <3>3
  <2>. QED BY <1>0, <2>1 DEF Apart
<1>8. ASSUME NEW j \in Present(f) \ Present(g)
      PROVE  Cardinality(Present(g)) = cap /\ \A i \in Present(g) : f[j] < g[i]
  <2>1. j \in K /\ f[j] # 0 /\ j # k /\ j \notin keep
    BY <1>0, <1>6 DEF Present
  <2>2. j \in Present(h) /\ h[j] = f[j]
    BY <1>1, <2>1 DEF Present
  <2>3. Cardinality(keep) # Cardinality(Present(h))
    BY <1>3, <1>4, <2>1, <2>2, FS_Subset
  <2>4. Cardinality(keep) = cap
    BY <1>3, <2>3 DEF Least
  <2>5. ASSUME NEW i \in keep
        PROVE  f[j] < g[i]
    <3>1. i \in K /\ g[i] = h[i] /\ h[i] >= f[j] /\ i # j
      BY <1>3, <1>4, <1>5, <2>1, <2>2
    <3>2. CASE i = k
      <4>1. h[i] = clock + 1 /\ f[j] <= clock
        BY <1>1, <2>1, <3>2
      <4>. QED BY <2>1, <3>1, <4>1
    <3>3. CASE i # k
      <4>1. h[i] = f[i] /\ f[i] # f[j]
        BY <1>1, <2>1, <3>1, <3>3 DEF Apart
      <4>. QED BY <2>1, <3>1, <4>1
    <3>. QED BY <3>2, <3>3
  <2>. QED BY <1>6, <2>4, <2>5
<1>9. OnlyOldest(f, g, cap)
  BY <1>8 DEF OnlyOldest
<1>10. \A j \in K : j # k => g[j] = f[j] \/ g[j] = 0
  BY <1>1, <1>5
<1>. QED BY <1>0, <1>7, <1>9, <1>10

\* The newest bookmark of a book that has one.
LEMMA LatestMark ==
    ASSUME NEW marks \in [Books -> [Spots -> Nat]], NEW b \in Books, NEW t \in Nat,
           \A x \in Spots : marks[b][x] <= t
    PROVE  /\ b \in Marked(marks) <=> Latest(marks)[b] # 0
           /\ Latest(marks)[b] \in Nat
           /\ \A x \in Spots : marks[b][x] <= Latest(marks)[b]
           /\ b \in Marked(marks) => \E x \in Spots : marks[b][x] = Latest(marks)[b]
<1>. DEFINE m == marks[b]
            T == {m[x] : x \in Spots}
            Top(v) == \A x \in Spots : m[x] <= v
<1>1. m \in [Spots -> Nat] /\ \A x \in Spots : m[x] <= t
  OBVIOUS
<1>2. b \in Marked(marks) <=> m # NoMarks
  BY <1>1 DEF Marked, Present, NoMarks
<1>3. Latest(marks)[b] = IF m = NoMarks THEN 0 ELSE CHOOSE v \in T : Top(v)
  BY DEF Latest
<1>. HIDE DEF m
<1>4. CASE m = NoMarks
  BY <1>1, <1>2, <1>3, <1>4 DEF NoMarks, m
<1>5. CASE m # NoMarks
  <2>1. PICK x0 \in Spots : m[x0] # 0
    BY <1>1, <1>5 DEF NoMarks
  <2>. DEFINE Gaps == {n \in Nat : \E v \in T : n = t - v}
              R == OpToRel(<, Nat)
  <2>2. t - m[x0] \in Gaps
    BY <1>1
  <2>3. PICK n \in Gaps : \A k \in Gaps : ~(<<k, n>> \in R)
    <3>1. IsWellFoundedOn(R, Nat)
      BY NatLessThanWellFounded
    <3>2. Gaps \subseteq Nat /\ Gaps # {}
      BY <2>2
    <3>. HIDE DEF Gaps, R
    <3>. QED BY <3>1, <3>2, WFMin
  <2>4. \A k \in Gaps : ~(k < n)
    BY <2>3 DEF OpToRel
  <2>. HIDE DEF R
  <2>5. PICK v \in T : n = t - v
    BY <2>3
  <2>6. Top(v)
    <3>1. ASSUME NEW x \in Spots, ~(m[x] <= v)
          PROVE  FALSE
      <4>1. t - m[x] \in Gaps /\ m[x] \in Nat /\ v \in Nat
        BY <1>1
      <4>2. t - m[x] < n
        BY <2>5, <3>1, <4>1
      <4>. QED BY <2>4, <4>1, <4>2
    <3>. QED BY <3>1
  <2>. DEFINE w == CHOOSE u \in T : Top(u)
  <2>7. w \in T /\ Top(w)
    BY <2>6
  <2>. HIDE DEF w
  <2>8. w \in Nat /\ w # 0
    BY <1>1, <2>1, <2>7
  <2>9. Latest(marks)[b] = w
    BY <1>3, <1>5 DEF w
  <2>. QED BY <1>2, <1>5, <2>7, <2>8, <2>9 DEF m
<1>. QED BY <1>4, <1>5

\* The eviction takes one book, if any, and that one had no newer bookmark than any other.
LEMMA EvictsOne ==
    ASSUME NEW marks, NEW new, NEW b \in Books, JustMarked(marks, new, b),
           NEW m \in Evicted(new, b)
    PROVE  \/ m = new
           \/ \E c \in Marked(new) \ {b} :
                /\ m = [new EXCEPT ![c] = NoMarks]
                /\ Marked(m) = Marked(new) \ {c}
                /\ Cardinality(Marked(m)) = MaxBookmarkBooks
                /\ \A d \in Marked(new) : NoNewer(new, c, d)
<1>1. /\ new \in [Books -> [Spots -> Nat]] /\ clock \in Nat
      /\ Cardinality(Marked(marks)) <= MaxBookmarkBooks
      /\ \A c \in Books \ {b} : new[c] = marks[c]
  BY DEF JustMarked
<1>2. Cardinality(Marked(m)) <= MaxBookmarkBooks
  BY EvictsAnother
<1>3. CASE Cardinality(Marked(new)) <= MaxBookmarkBooks
  BY <1>3 DEF Evicted
<1>4. CASE ~(Cardinality(Marked(new)) <= MaxBookmarkBooks)
  <2>1. PICK c \in Marked(new) : /\ \A d \in Marked(new) : NoNewer(new, c, d)
                                 /\ m = IF c = b THEN new ELSE [new EXCEPT ![c] = NoMarks]
    BY <1>4 DEF Evicted
  <2>2. c # b /\ c \in Books
    BY <1>2, <1>4, <2>1 DEF Marked
  <2>3. m = [new EXCEPT ![c] = NoMarks]
    BY <2>1, <2>2
  <2>4. Marked(m) = Marked(new) \ {c}
    BY <1>1, <2>2, <2>3 DEF Marked, Present, NoMarks
  <2>5. IsFiniteSet(Marked(marks)) /\ IsFiniteSet(Marked(new))
    BY FS_Subset, SetsAssumption DEF Marked
  <2>6. Cardinality(Marked(m)) = Cardinality(Marked(new)) - 1
    BY <2>1, <2>4, <2>5, FS_RemoveElement
  <2>7. Marked(new) \subseteq Marked(marks) \cup {b}
    BY <1>1 DEF Marked
  <2>8. /\ Cardinality(Marked(new)) <= Cardinality(Marked(marks)) + 1
        /\ Cardinality(Marked(marks)) \in Nat /\ Cardinality(Marked(new)) \in Nat
    <3>1. LET M == Marked(marks) IN
          \/ Cardinality(M \cup {b}) = Cardinality(M)
          \/ Cardinality(M \cup {b}) = Cardinality(M) + 1
      BY <2>5, FS_AddElement
    <3>2. IsFiniteSet(Marked(marks) \cup {b})
      BY <2>5, FS_AddElement
    <3>3. Cardinality(Marked(new)) <= Cardinality(Marked(marks) \cup {b})
      BY <2>7, <3>2, FS_Subset
    <3>4. Cardinality(Marked(marks)) \in Nat /\ Cardinality(Marked(new)) \in Nat
      BY <2>5, FS_CardinalityType
    <3>. QED BY <3>1, <3>3, <3>4
  <2>9. Cardinality(Marked(m)) = MaxBookmarkBooks
    BY <1>1, <1>4, <2>6, <2>8, Caps
  <2>. QED BY <2>1, <2>2, <2>3, <2>4, <2>9
<1>. QED BY <1>3, <1>4
\* A new bookmark, and the bookmarks it costs.
LEMMA MarkDropsOldest ==
    ASSUME NEW old, NEW b \in Books, NEW x \in Spots, clock \in Nat,
           old \in [Books -> [Spots -> Nat]], MarksApart(old),
           \A c \in Books, y \in Spots : old[c][y] <= clock,
           Cardinality(Marked(old)) <= MaxBookmarkBooks,
           NEW p \in Put(old[b], x, MaxBookmarksPerBook),
           NEW m \in Evicted([old EXCEPT ![b] = p], b)
    PROVE  /\ MarksApart(m)
           /\ OnlyOldest(Latest(old), Latest(m), MaxBookmarkBooks)
           /\ \A c \in Marked(m) : OnlyOldest(old[c], m[c], MaxBookmarksPerBook)
<1>. DEFINE new == [old EXCEPT ![b] = p]
<1>1. Apart(old[b]) /\ old[b] \in [Spots -> Nat]
  BY DEF MarksApart, Apart
<1>2. /\ OnlyOldest(old[b], p, MaxBookmarksPerBook)
      /\ p \in [Spots -> Nat] /\ Apart(p) /\ p[x] = clock + 1
      /\ \A y \in Spots : y # x => p[y] = old[b][y] \/ p[y] = 0
  BY <1>1, PutDropsOldest, SetsAssumption, Caps
<1>3. /\ new \in [Books -> [Spots -> Nat]] /\ new[b] = p
      /\ \A c \in Books : c # b => new[c] = old[c]
  BY <1>2
<1>4. m \in Evicted(new, b)
  OBVIOUS
<1>. HIDE DEF new
<1>5. JustMarked(old, new, b)
  BY <1>2, <1>3 DEF JustMarked
<1>6. /\ m \in [Books -> [Spots -> Nat]] /\ m[b] = p
      /\ \A c \in Books : c # b => m[c] = old[c] \/ m[c] = NoMarks
  BY <1>3, <1>4, <1>5, EvictsAnother
<1>7. MarksApart(new)
  <2>1. ASSUME NEW c \in Books, NEW d \in Books, NEW y \in Spots, NEW z \in Spots,
               new[c][y] = new[d][z], new[c][y] # 0
        PROVE  c = d /\ y = z
    <3>1. CASE c = b /\ d = b
      BY <1>2, <1>3, <2>1, <3>1 DEF Apart
    <3>2. CASE c # b /\ d # b
      BY <1>3, <2>1, <3>2 DEF MarksApart
    <3>3. ASSUME NEW e \in Books, e # b, NEW u \in Spots, NEW v \in Spots,
                 p[u] = old[e][v], p[u] # 0
          PROVE  FALSE
      <4>1. CASE u = x
        BY <1>2, <3>3, <4>1
      <4>2. CASE u # x
        BY <1>2, <3>3, <4>2 DEF MarksApart
      <4>. QED BY <4>1, <4>2
    <3>4. CASE c = b /\ d # b
      BY <1>3, <2>1, <3>3, <3>4
    <3>5. CASE c # b /\ d = b
      BY <1>3, <2>1, <3>3, <3>5
    <3>. QED BY <3>1, <3>2, <3>4, <3>5
  <2>. QED BY <2>1 DEF MarksApart
<1>8. MarksApart(m)
  <2>1. ASSUME NEW c \in Books, NEW d \in Books, NEW y \in Spots, NEW z \in Spots,
               m[c][y] = m[d][z], m[c][y] # 0
        PROVE  c = d /\ y = z
    <3>1. m[c] = new[c] /\ m[d] = new[d]
      BY <1>3, <1>6, <2>1 DEF NoMarks
    <3>. QED BY <1>7, <2>1, <3>1 DEF MarksApart
  <2>. QED BY <2>1 DEF MarksApart
<1>9. \A c \in Marked(m) : OnlyOldest(old[c], m[c], MaxBookmarksPerBook)
  <2>1. ASSUME NEW c \in Marked(m), c # b
        PROVE  m[c] = old[c]
    BY <1>6, <2>1 DEF Marked, Present, NoMarks
  <2>2. \A f : OnlyOldest(f, f, MaxBookmarksPerBook)
    BY DEF OnlyOldest
  <2>. QED BY <1>2, <1>6, <2>1, <2>2
<1>10. /\ \A c \in Books, y \in Spots : new[c][y] <= clock + 1
       /\ \A c \in Books, y \in Spots : m[c][y] <= clock + 1
  <2>1. \A y \in Spots : p[y] <= clock + 1
    BY <1>1, <1>2
  <2>2. \A c \in Books, y \in Spots : old[c][y] <= clock + 1
    OBVIOUS
  <2>3. ASSUME NEW c \in Books, NEW y \in Spots
        PROVE  new[c][y] <= clock + 1
    <3>1. CASE c = b
      BY <1>3, <2>1, <3>1
    <3>2. CASE c # b
      BY <1>3, <2>2, <3>2
    <3>. QED BY <3>1, <3>2
  <2>4. ASSUME NEW c \in Books, NEW y \in Spots
        PROVE  m[c][y] <= clock + 1
    <3>1. CASE c = b
      BY <1>6, <2>1, <3>1
    <3>2. CASE c # b /\ m[c] = NoMarks
      BY <3>2 DEF NoMarks
    <3>3. CASE c # b /\ m[c] = old[c]
      BY <2>2, <3>3
    <3>. QED BY <1>6, <3>1, <3>2, <3>3
  <2>. QED BY <2>3, <2>4
<1>11. ASSUME NEW c \in Present(Latest(old)) \ Present(Latest(m))
       PROVE  /\ Cardinality(Present(Latest(m))) = MaxBookmarkBooks
              /\ \A d \in Present(Latest(m)) : Latest(old)[c] < Latest(m)[d]
  <2>0. \A marks : DOMAIN Latest(marks) = Books
    BY DEF Latest
  <2>1. Present(Latest(old)) = Marked(old) /\ Present(Latest(m)) = Marked(m)
    <3>1. \A d \in Books : d \in Marked(old) <=> Latest(old)[d] # 0
      BY LatestMark
    <3>2. ASSUME NEW d \in Books
          PROVE  d \in Marked(m) <=> Latest(m)[d] # 0
      <4>1. clock + 1 \in Nat /\ \A y \in Spots : m[d][y] <= clock + 1
        BY <1>10
      <4>. QED BY <1>6, <4>1, LatestMark
    <3>3. Marked(old) \subseteq Books /\ Marked(m) \subseteq Books
      BY DEF Marked
    <3>. QED BY <2>0, <3>1, <3>2, <3>3 DEF Present
  <2>2. c \in Books /\ c \in Marked(old) /\ c \notin Marked(m)
    BY <2>0, <2>1 DEF Present
  <2>3. c # b /\ c \in Marked(new)
    <3>1. x \in Present(p)
      BY <1>2 DEF Present
    <3>2. b \in Marked(m)
      BY <1>6, <3>1 DEF Marked
    <3>3. c # b
      BY <2>2, <3>2
    <3>. QED BY <1>3, <2>2, <3>3 DEF Marked
  <2>4. PICK e \in Marked(new) \ {b} :
            /\ m = [new EXCEPT ![e] = NoMarks]
            /\ Marked(m) = Marked(new) \ {e}
            /\ Cardinality(Marked(m)) = MaxBookmarkBooks
            /\ \A d \in Marked(new) : NoNewer(new, e, d)
    <3>1. m # new
      BY <2>2, <2>3
    <3>. QED BY <1>4, <1>5, <3>1, EvictsOne
  <2>5. e = c
    BY <2>2, <2>3, <2>4
  <2>6. ASSUME NEW d \in Marked(m)
        PROVE  Latest(old)[c] < Latest(m)[d]
    <3>1. d \in Books /\ d \in Marked(new) /\ d # c /\ m[d] = new[d]
      BY <1>3, <2>4, <2>5 DEF Marked
    <3>2. PICK y \in Spots : old[c][y] = Latest(old)[c]
      BY <2>2, LatestMark
    <3>3. Latest(old)[c] # 0 /\ Latest(old)[c] \in Nat /\ new[c] = old[c]
      BY <1>3, <2>2, <2>3, LatestMark
    <3>4. y \in Present(new[c])
      BY <1>3, <2>2, <3>2, <3>3 DEF Present
    <3>5. NoNewer(new, c, d)
      BY <2>4, <2>5, <3>1
    <3>6. PICK z \in Present(new[d]) : new[c][y] <= new[d][z]
      BY <3>4, <3>5 DEF NoNewer
    <3>7. z \in Spots
      BY <1>3, <3>1 DEF Present
    <3>8. new[c][y] # new[d][z]
      BY <1>7, <2>2, <3>1, <3>2, <3>3, <3>7 DEF MarksApart
    <3>9. m[d][z] <= Latest(m)[d] /\ Latest(m)[d] \in Nat
      BY <1>6, <1>10, <3>1, <3>7, LatestMark
    <3>10. new[c][y] \in Nat /\ new[d][z] \in Nat
      BY <1>3, <2>2, <3>1, <3>7
    <3>. QED BY <3>1, <3>2, <3>3, <3>6, <3>8, <3>9, <3>10
  <2>. QED BY <2>1, <2>4, <2>6
<1>12. OnlyOldest(Latest(old), Latest(m), MaxBookmarkBooks)
  BY <1>11 DEF OnlyOldest
<1>. QED BY <1>8, <1>9, <1>12

\* Records that are only dropped stay apart.
LEMMA ApartFewer ==
    ASSUME NEW K, NEW f \in [K -> Nat], NEW g \in [K -> Nat], Apart(f),
           \A k \in K : g[k] = f[k] \/ g[k] = 0
    PROVE  Apart(g)
BY DEF Apart

LEMMA MarksFewer ==
    ASSUME NEW f, NEW g, MarksApart(f),
           \A b \in Books, x \in Spots : g[b][x] = f[b][x] \/ g[b][x] = 0
    PROVE  MarksApart(g)
<1>1. ASSUME NEW b \in Books, NEW c \in Books, NEW x \in Spots, NEW y \in Spots,
             g[b][x] = g[c][y], g[b][x] # 0
      PROVE  b = c /\ x = y
  <2>1. g[b][x] = f[b][x] /\ g[c][y] = f[c][y]
    BY <1>1
  <2>. QED BY <1>1, <2>1 DEF MarksApart
<1>. QED BY <1>1 DEF MarksApart

LEMMA SaveUnique ==
    ASSUME TimesUnique, NEW d, Unique(d), Save(d)
    PROVE  TimesUnique' /\ mem' = d
<1>1. mem' = d /\ (file' = file \/ file' = d)
  BY DEF Save
<1>2. Unique(mem') /\ Unique(file')
  BY <1>1 DEF TimesUnique
<1>. QED BY <1>1, <1>2 DEF TimesUnique

\* What OldestFirst says of a step.
DropsOldest ==
    clock' > clock =>
        /\ OnlyOldest(mem.favorites, mem'.favorites, MaxFavorites)
        /\ OnlyOldest(mem.reading, mem'.reading, MaxReading)
        /\ \A s \in ShelfIds : OnlyOldest(mem.items[s], mem'.items[s], MaxShelfItems)
        /\ OnlyOldest(Latest(mem.bookmarks), Latest(mem'.bookmarks), MaxBookmarkBooks)
        /\ \A b \in Marked(mem'.bookmarks) :
            OnlyOldest(mem.bookmarks[b], mem'.bookmarks[b], MaxBookmarksPerBook)

LEMMA NothingDropped == \A f, cap : OnlyOldest(f, f, cap)
BY DEF OnlyOldest

LEMMA ClockStands ==
    ASSUME Inv, UNCHANGED clock
    PROVE  DropsOldest
BY DEF Inv, DropsOldest

LEMMA AddFavoriteDrops ==
    ASSUME Inv, TimesUnique, NEW b \in Books, AddFavorite(b)
    PROVE  TimesUnique' /\ DropsOldest
<1>1. PICK f \in Put(mem.favorites, b, MaxFavorites) : Save([mem EXCEPT !.favorites = f])
  BY DEF AddFavorite
<1>2. /\ mem \in States /\ mem.favorites \in [Books -> Nat]
      /\ \A c \in Books : mem.favorites[c] <= clock
      /\ clock \in Nat /\ Apart(mem.favorites)
  BY Fields DEF Inv, Sound, TimesUnique, Unique
<1>3. Apart(f) /\ OnlyOldest(mem.favorites, f, MaxFavorites)
  BY <1>1, <1>2, PutDropsOldest, SetsAssumption, Caps
<1>. DEFINE d == [mem EXCEPT !.favorites = f]
<1>4. /\ d.favorites = f /\ d.reading = mem.reading /\ d.bookmarks = mem.bookmarks
      /\ d.items = mem.items
  BY <1>2 DEF States
<1>. HIDE DEF d
<1>5. Unique(d)
  BY <1>3, <1>4 DEF TimesUnique, Unique
<1>6. TimesUnique' /\ mem' = d
  BY <1>1, <1>5, SaveUnique DEF d
<1>7. DropsOldest
  BY <1>3, <1>4, <1>6, NothingDropped DEF DropsOldest
<1>. QED BY <1>6, <1>7

LEMMA SetPositionDrops ==
    ASSUME Inv, TimesUnique, NEW b \in Books, SetPosition(b)
    PROVE  TimesUnique' /\ DropsOldest
<1>1. PICK f \in Put(mem.reading, b, MaxReading) : Save([mem EXCEPT !.reading = f])
  BY DEF SetPosition
<1>2. /\ mem \in States /\ mem.reading \in [Books -> Nat]
      /\ \A c \in Books : mem.reading[c] <= clock
      /\ clock \in Nat /\ Apart(mem.reading)
  BY Fields DEF Inv, Sound, TimesUnique, Unique
<1>3. Apart(f) /\ OnlyOldest(mem.reading, f, MaxReading)
  BY <1>1, <1>2, PutDropsOldest, SetsAssumption, Caps
<1>. DEFINE d == [mem EXCEPT !.reading = f]
<1>4. /\ d.reading = f /\ d.favorites = mem.favorites /\ d.bookmarks = mem.bookmarks
      /\ d.items = mem.items
  BY <1>2 DEF States
<1>. HIDE DEF d
<1>5. Unique(d)
  BY <1>3, <1>4 DEF TimesUnique, Unique
<1>6. TimesUnique' /\ mem' = d
  BY <1>1, <1>5, SaveUnique DEF d
<1>7. DropsOldest
  BY <1>3, <1>4, <1>6, NothingDropped DEF DropsOldest
<1>. QED BY <1>6, <1>7

LEMMA AddToShelfDrops ==
    ASSUME Inv, TimesUnique, NEW s \in ShelfIds, NEW b \in Books, AddToShelf(s, b)
    PROVE  TimesUnique' /\ DropsOldest
<1>1. PICK i \in Put(mem.items[s], b, MaxShelfItems) : Save([mem EXCEPT !.items[s] = i])
  BY DEF AddToShelf
<1>2. /\ mem \in States /\ mem.items \in [ShelfIds -> [Books -> Nat]]
      /\ \A c \in Books : mem.items[s][c] <= clock
      /\ clock \in Nat /\ Apart(mem.items[s])
  BY Fields DEF Inv, Sound, TimesUnique, Unique
<1>3. Apart(i) /\ OnlyOldest(mem.items[s], i, MaxShelfItems)
  BY <1>1, <1>2, PutDropsOldest, SetsAssumption, Caps
<1>. DEFINE d == [mem EXCEPT !.items[s] = i]
<1>4. /\ d.favorites = mem.favorites /\ d.reading = mem.reading /\ d.bookmarks = mem.bookmarks
      /\ d.items[s] = i /\ \A r \in ShelfIds : r # s => d.items[r] = mem.items[r]
  BY <1>2 DEF States
<1>. HIDE DEF d
<1>5. Unique(d)
  BY <1>3, <1>4 DEF TimesUnique, Unique
<1>6. TimesUnique' /\ mem' = d
  BY <1>1, <1>5, SaveUnique DEF d
<1>7. \A r \in ShelfIds : OnlyOldest(mem.items[r], d.items[r], MaxShelfItems)
  <2>1. ASSUME NEW r \in ShelfIds
        PROVE  OnlyOldest(mem.items[r], d.items[r], MaxShelfItems)
    <3>1. CASE r = s
      BY <1>3, <1>4, <3>1
    <3>2. CASE r # s
      BY <1>4, <3>2, NothingDropped
    <3>. QED BY <3>1, <3>2
  <2>. QED BY <2>1
<1>8. DropsOldest
  BY <1>4, <1>6, <1>7, NothingDropped DEF DropsOldest
<1>. QED BY <1>6, <1>8

LEMMA AddBookmarkDrops ==
    ASSUME Inv, TimesUnique, NEW b \in Books, NEW x \in Spots, AddBookmark(b, x)
    PROVE  TimesUnique' /\ DropsOldest
<1>. DEFINE old == mem.bookmarks
<1>1. PICK p \in Put(old[b], x, MaxBookmarksPerBook) :
        \E m \in Evicted([old EXCEPT ![b] = p], b) : Save([mem EXCEPT !.bookmarks = m])
  BY DEF AddBookmark
<1>2. PICK m \in Evicted([old EXCEPT ![b] = p], b) : Save([mem EXCEPT !.bookmarks = m])
  BY <1>1
<1>3. /\ mem \in States /\ old \in [Books -> [Spots -> Nat]] /\ MarksApart(old)
      /\ \A c \in Books, y \in Spots : old[c][y] <= clock
      /\ Cardinality(Marked(old)) <= MaxBookmarkBooks
      /\ clock \in Nat
  BY Fields DEF Inv, Sound, TimesUnique, Unique
<1>. DEFINE d == [mem EXCEPT !.bookmarks = m]
<1>4. /\ d.favorites = mem.favorites /\ d.reading = mem.reading /\ d.bookmarks = m
      /\ d.items = mem.items
  BY <1>3 DEF States
<1>5. /\ MarksApart(m)
      /\ OnlyOldest(Latest(old), Latest(m), MaxBookmarkBooks)
      /\ \A c \in Marked(m) : OnlyOldest(old[c], m[c], MaxBookmarksPerBook)
  <2>. HIDE DEF old
  <2>. QED BY <1>3, MarkDropsOldest
<1>. HIDE DEF d
<1>6. Unique(d)
  BY <1>4, <1>5 DEF TimesUnique, Unique
<1>7. TimesUnique' /\ mem' = d
  BY <1>2, <1>6, SaveUnique DEF d
<1>8. DropsOldest
  BY <1>4, <1>5, <1>7, NothingDropped DEF DropsOldest
<1>. QED BY <1>7, <1>8

\* The other steps only drop records, and leave the clock.
LEMMA RemovalUnique ==
    ASSUME Inv, TimesUnique,
           \/ \E b \in Books : \/ RemoveFavorite(b) \/ RecordDownload(b)
                               \/ \E x \in Spots : RemoveBookmark(b, x)
                               \/ \E s \in ShelfIds : RemoveFromShelf(s, b)
           \/ \E s \in ShelfIds : CreateShelf(s) \/ RenameShelf(s) \/ DeleteShelf(s)
           \/ Restart \/ RestartEmpty
    PROVE  TimesUnique' /\ DropsOldest
<1>1. DropsOldest
  BY ClockStands DEF RemoveFavorite, RecordDownload, RemoveBookmark, RemoveFromShelf, CreateShelf,
     RenameShelf, DeleteShelf, Restart, RestartEmpty
<1>2. /\ mem \in States /\ file \in States
      /\ mem.favorites \in [Books -> Nat] /\ mem.reading \in [Books -> Nat]
      /\ mem.bookmarks \in [Books -> [Spots -> Nat]]
      /\ mem.items \in [ShelfIds -> [Books -> Nat]]
  BY DEF Inv, Sound, States
<1>3. /\ Apart(mem.favorites) /\ Apart(mem.reading) /\ MarksApart(mem.bookmarks)
      /\ \A s \in ShelfIds : Apart(mem.items[s])
  BY DEF TimesUnique, Unique
<1>4. ASSUME NEW b \in Books, RemoveFavorite(b) PROVE TimesUnique'
  <2>. DEFINE f == [mem.favorites EXCEPT ![b] = 0]
              d == [mem EXCEPT !.favorites = f]
  <2>1. Save(d)
    BY <1>4, <1>2 DEF RemoveFavorite, States
  <2>2. Apart(f)
    BY <1>2, <1>3, ApartFewer
  <2>3. /\ d.favorites = f /\ d.reading = mem.reading /\ d.bookmarks = mem.bookmarks
        /\ d.items = mem.items
    BY <1>2 DEF States
  <2>. HIDE DEF d, f
  <2>4. Unique(d)
    BY <1>3, <2>2, <2>3 DEF Unique
  <2>. QED BY <2>1, <2>4, SaveUnique
<1>5. ASSUME NEW d, Save(d), d.favorites = mem.favorites, d.reading = mem.reading,
             d.bookmarks = mem.bookmarks, d.items = mem.items
      PROVE  TimesUnique'
  <2>1. Unique(d)
    BY <1>3, <1>5 DEF Unique
  <2>. QED BY <1>5, <2>1, SaveUnique
<1>6. ASSUME NEW b \in Books, RecordDownload(b) PROVE TimesUnique'
  <2>1. PICK h : Save([mem EXCEPT !.history = h])
    BY <1>6 DEF RecordDownload
  <2>. DEFINE d == [mem EXCEPT !.history = h]
  <2>2. /\ d.favorites = mem.favorites /\ d.reading = mem.reading /\ d.bookmarks = mem.bookmarks
        /\ d.items = mem.items
    BY <1>2 DEF States
  <2>. HIDE DEF d
  <2>. QED BY <1>5, <2>1, <2>2 DEF d
<1>7. ASSUME NEW s \in ShelfIds, CreateShelf(s) PROVE TimesUnique'
  <2>1. PICK h : Save([mem EXCEPT !.shelves = h])
    BY <1>7 DEF CreateShelf
  <2>. DEFINE d == [mem EXCEPT !.shelves = h]
  <2>2. /\ d.favorites = mem.favorites /\ d.reading = mem.reading /\ d.bookmarks = mem.bookmarks
        /\ d.items = mem.items
    BY <1>2 DEF States
  <2>. HIDE DEF d
  <2>. QED BY <1>5, <2>1, <2>2 DEF d
<1>8. ASSUME NEW s \in ShelfIds, RenameShelf(s) PROVE TimesUnique'
  BY <1>5, <1>8 DEF RenameShelf
<1>9. ASSUME NEW b \in Books, NEW x \in Spots, RemoveBookmark(b, x) PROVE TimesUnique'
  <2>. DEFINE p == [mem.bookmarks[b] EXCEPT ![x] = 0]
              m == [mem.bookmarks EXCEPT ![b] = p]
              d == [mem EXCEPT !.bookmarks = m]
  <2>1. Save(d)
    BY <1>9, <1>2 DEF RemoveBookmark, States
  <2>2. \A c \in Books, y \in Spots : m[c][y] = mem.bookmarks[c][y] \/ m[c][y] = 0
    BY <1>2
  <2>3. /\ d.favorites = mem.favorites /\ d.reading = mem.reading /\ d.bookmarks = m
        /\ d.items = mem.items
    BY <1>2 DEF States
  <2>. HIDE DEF d, m
  <2>4. MarksApart(m)
    BY <1>3, <2>2, MarksFewer
  <2>5. Unique(d)
    BY <1>3, <2>3, <2>4 DEF Unique
  <2>. QED BY <2>1, <2>5, SaveUnique
<1>10. ASSUME NEW s \in ShelfIds, NEW i \in [Books -> Nat], NEW d, Save(d),
              d.favorites = mem.favorites, d.reading = mem.reading,
              d.bookmarks = mem.bookmarks,
              d.items = [mem.items EXCEPT ![s] = i],
              \A b \in Books : i[b] = mem.items[s][b] \/ i[b] = 0
       PROVE  TimesUnique'
  <2>1. Apart(i)
    <3>1. mem.items[s] \in [Books -> Nat] /\ Apart(mem.items[s])
      BY <1>2, <1>3
    <3>2. \A b \in Books : i[b] = mem.items[s][b] \/ i[b] = 0
      BY <1>10
    <3>. QED BY <3>1, <3>2, ApartFewer
  <2>2. \A r \in ShelfIds : d.items[r] = IF r = s THEN i ELSE mem.items[r]
    BY <1>2, <1>10
  <2>3. Unique(d)
    BY <1>3, <1>10, <2>1, <2>2 DEF Unique
  <2>. QED BY <1>10, <2>3, SaveUnique
<1>11. ASSUME NEW s \in ShelfIds, NEW b \in Books, RemoveFromShelf(s, b) PROVE TimesUnique'
  <2>. DEFINE i == [mem.items[s] EXCEPT ![b] = 0]
              d == [mem EXCEPT !.items = [mem.items EXCEPT ![s] = i]]
  <2>1. Save(d)
    BY <1>11, <1>2 DEF RemoveFromShelf, States
  <2>2. i \in [Books -> Nat] /\ \A c \in Books : i[c] = mem.items[s][c] \/ i[c] = 0
    BY <1>2
  <2>3. /\ d.favorites = mem.favorites /\ d.reading = mem.reading /\ d.bookmarks = mem.bookmarks
        /\ d.items = [mem.items EXCEPT ![s] = i]
    BY <1>2 DEF States
  <2>. HIDE DEF d, i
  <2>. QED BY <1>10, <2>1, <2>2, <2>3
<1>12. ASSUME NEW s \in ShelfIds, DeleteShelf(s) PROVE TimesUnique'
  <2>. DEFINE d == [mem EXCEPT !.shelves = @ \ {s}, !.items = [mem.items EXCEPT ![s] = NoRecords]]
  <2>1. Save(d)
    BY <1>12, <1>2 DEF DeleteShelf, States
  <2>2. NoRecords \in [Books -> Nat] /\ \A c \in Books : NoRecords[c] = 0
    BY DEF NoRecords
  <2>3. /\ d.favorites = mem.favorites /\ d.reading = mem.reading /\ d.bookmarks = mem.bookmarks
        /\ d.items = [mem.items EXCEPT ![s] = NoRecords]
    BY <1>2 DEF States
  <2>. HIDE DEF d
  <2>. QED BY <1>10, <2>1, <2>2, <2>3
<1>13. ASSUME Restart PROVE TimesUnique'
  <2>1. mem' = file /\ file' = file
    BY <1>13, WithinCapsLossless DEF Restart, Inv, Sound
  <2>. QED BY <2>1 DEF TimesUnique
<1>14. Unique(EmptyState)
  BY DEF EmptyState, NoRecords, NoMarks, Unique, Apart, MarksApart
<1>15. ASSUME RestartEmpty PROVE TimesUnique'
  BY <1>14, <1>15 DEF RestartEmpty, TimesUnique
<1>. QED BY <1>1, <1>4, <1>6, <1>7, <1>8, <1>9, <1>11, <1>12, <1>13, <1>15

LEMMA NextUnique ==
    ASSUME Inv, TimesUnique, [Next]_vars
    PROVE  TimesUnique' /\ DropsOldest
<1>1. CASE UNCHANGED vars
  BY <1>1, ClockStands DEF vars, TimesUnique
<1>2. CASE Next
  BY <1>2, AddFavoriteDrops, SetPositionDrops, AddToShelfDrops, AddBookmarkDrops, RemovalUnique
     DEF Next
<1>. QED BY <1>1, <1>2

\* A write that adds a record drops another one only from a full section, and then the oldest
\* there; of the books with bookmarks, the one whose newest bookmark is oldest ("Oldest entries
\* are dropped first").
THEOREM OldestDroppedFirst == SteadySpec => OldestFirst
<1>1. Init => TimesUnique
  BY DEF Init, TimesUnique, EmptyState, NoRecords, NoMarks, Unique, Apart, MarksApart
<1>2. Inv /\ TimesUnique /\ [Next]_vars => TimesUnique'
  BY NextUnique
<1>3. Inv /\ TimesUnique /\ [Next]_vars =>
        [clock' > clock =>
            /\ OnlyOldest(mem.favorites, mem'.favorites, MaxFavorites)
            /\ OnlyOldest(mem.reading, mem'.reading, MaxReading)
            /\ \A s \in ShelfIds : OnlyOldest(mem.items[s], mem'.items[s], MaxShelfItems)
            /\ OnlyOldest(Latest(mem.bookmarks), Latest(mem'.bookmarks), MaxBookmarkBooks)
            /\ \A b \in Marked(mem'.bookmarks) :
                OnlyOldest(mem.bookmarks[b], mem'.bookmarks[b], MaxBookmarksPerBook)]_vars
  BY NextUnique DEF DropsOldest
<1>. QED BY <1>1, <1>2, <1>3, InvAlways, PTL DEF SteadySpec, OldestFirst

=============================================================================
