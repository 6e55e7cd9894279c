---------------------------- MODULE Paging_proofs ----------------------------
(***************************************************************************)
(* Proofs about reading page by page, for all books, part sizes and        *)
(* devices: every block has its page, page turns meet, reading skips       *)
(* nothing, and progress moves on with the position.                       *)
(*                                                                         *)
(* The two loops, that of parts_for and the sums, are recursive functions; *)
(* that these exist and what they compute is shown by way of the first     *)
(* index at which it would fail (Smallest).                                *)
(***************************************************************************)
EXTENDS Paging, SequenceTheorems, WellFoundedInduction, TLAPS

LEMMA Smallest ==
    ASSUME NEW T \in SUBSET Nat, NEW t \in T
    PROVE  \E n \in T : \A k \in T : n <= k
<1>. DEFINE R == OpToRel(<, Nat)
<1>1. PICK n \in T : \A k \in T : ~(<<k, n>> \in R)
  <2>1. IsWellFoundedOn(R, Nat)
    BY NatLessThanWellFounded
  <2>2. T \subseteq Nat /\ T # {}
    OBVIOUS
  <2>. HIDE DEF R
  <2>. QED BY <2>1, <2>2, WFMin
<1>2. \A k \in T : ~(k < n)
  BY <1>1 DEF OpToRel
<1>. HIDE DEF R
<1>. QED BY <1>2

----------------------------------------------------------------------------
(* The sums.                                                               *)

SumsUpto(s, m, f) == f = [i \in 0..m |-> IF i = 0 THEN 0 ELSE f[i - 1] + s[i]]

LEMMA SumsExist ==
    ASSUME NEW s, NEW m \in Nat
    PROVE  \E f : SumsUpto(s, m, f)
<1>. DEFINE T == {n \in Nat : ~ \E f : SumsUpto(s, n, f)}
<1>1. SUFFICES ASSUME m \in T PROVE FALSE
  OBVIOUS
<1>2. PICK n \in T : \A k \in T : n <= k
  <2>. HIDE DEF T
  <2>1. T \in SUBSET Nat
    BY DEF T
  <2>. QED BY <1>1, <2>1, Smallest
<1>3. n # 0
  <2>. DEFINE f == [i \in 0..0 |-> 0]
  <2>1. \A i \in 0..0 : i = 0
    OBVIOUS
  <2>2. f = [i \in 0..0 |-> IF i = 0 THEN 0 ELSE f[i - 1] + s[i]]
    BY <2>1
  <2>3. SumsUpto(s, 0, f)
    BY <2>2 DEF SumsUpto
  <2>. QED BY <2>3
<1>4. n - 1 \in Nat /\ n - 1 \notin T
  BY <1>2, <1>3
<1>5. PICK f : SumsUpto(s, n - 1, f)
  BY <1>4
<1>. DEFINE g == [i \in 0..n |-> IF i = n THEN f[n - 1] + s[n] ELSE f[i]]
<1>6. \A i \in 0..n : g[i] = IF i = 0 THEN 0 ELSE g[i - 1] + s[i]
  <2>. TAKE i \in 0..n
  <2>1. n \in Nat /\ n # 0
    BY <1>3
  <2>2. \A j \in 0..(n - 1) : f[j] = IF j = 0 THEN 0 ELSE f[j - 1] + s[j]
    BY <1>5 DEF SumsUpto
  <2>3. CASE i = n
    BY <2>1, <2>3
  <2>4. CASE i # n
    <3>1. i \in 0..(n - 1) /\ g[i] = f[i] /\ (i # 0 => g[i - 1] = f[i - 1])
      BY <2>1, <2>4
    <3>. QED BY <2>2, <3>1
  <2>. QED BY <2>3, <2>4
<1>7. SumsUpto(s, n, g)
  <2>1. g = [i \in 0..n |-> g[i]]
    OBVIOUS
  <2>. HIDE DEF g
  <2>2. [i \in 0..n |-> g[i]] = [i \in 0..n |-> IF i = 0 THEN 0 ELSE g[i - 1] + s[i]]
    BY <1>6
  <2>. QED BY <2>1, <2>2 DEF SumsUpto
<1>. QED BY <1>2, <1>7

LEMMA SumToStep ==
    ASSUME NEW s, Len(s) \in Nat
    PROVE  /\ SumTo(s, 0) = 0
           /\ \A n \in 1..Len(s) : SumTo(s, n) = SumTo(s, n - 1) + s[n]
<1>. DEFINE h == CHOOSE f : SumsUpto(s, Len(s), f)
<1>1. SumsUpto(s, Len(s), h)
  BY SumsExist, Zenon
<1>2. \A n : SumTo(s, n) = h[n]
  BY Zenon DEF SumTo, SumsUpto
<1>. HIDE DEF h
<1>3. \A i \in 0..Len(s) : h[i] = IF i = 0 THEN 0 ELSE h[i - 1] + s[i]
  BY <1>1 DEF SumsUpto
<1>. QED BY <1>2, <1>3

\* The sums of numbers grow, by what is added.
LEMMA SumToGrows ==
    ASSUME NEW s \in Seq(Nat)
    PROVE  /\ \A n \in 0..Len(s) : SumTo(s, n) \in Nat
           /\ \A n \in 0..Len(s) : \A m \in 0..n : SumTo(s, m) <= SumTo(s, n)
<1>0. Len(s) \in Nat /\ \A i \in 1..Len(s) : s[i] \in Nat
  BY LenProperties, ElementOfSeq
<1>. DEFINE Good(n) == SumTo(s, n) \in Nat /\ \A m \in 0..n : SumTo(s, m) <= SumTo(s, n)
            T == {n \in 0..Len(s) : ~Good(n)}
<1>1. SUFFICES ASSUME NEW t \in T PROVE FALSE
  BY <1>0
<1>2. PICK n \in T : \A k \in T : n <= k
  <2>1. T \in SUBSET Nat
    BY <1>0
  <2>. HIDE DEF T
  <2>. QED BY <1>1, <2>1, Smallest
<1>3. n # 0
  BY <1>0, <1>2, SumToStep
<1>4. n - 1 \in 0..Len(s) /\ n \in 1..Len(s) /\ Good(n - 1)
  BY <1>0, <1>2, <1>3
<1>5. SumTo(s, n) = SumTo(s, n - 1) + s[n] /\ s[n] \in Nat
  BY <1>0, <1>4, SumToStep
<1>6. SumTo(s, n) \in Nat /\ SumTo(s, n - 1) <= SumTo(s, n)
  BY <1>4, <1>5
<1>7. ASSUME NEW m \in 0..n PROVE SumTo(s, m) <= SumTo(s, n)
  <2>1. CASE m = n
    BY <1>6, <2>1
  <2>2. CASE m # n
    <3>1. m \in 0..(n - 1)
      BY <1>4, <2>2
    <3>2. SumTo(s, m) <= SumTo(s, n - 1) /\ SumTo(s, m) \in Int
      <4>1. m \in 0..Len(s) /\ m < n
        BY <1>0, <1>4, <3>1
      <4>2. Good(m)
        BY <1>2, <4>1
      <4>. QED BY <1>4, <3>1, <4>2
    <3>. QED BY <1>4, <1>6, <3>2
  <2>. QED BY <2>1, <2>2
<1>. QED BY <1>2, <1>6, <1>7
----------------------------------------------------------------------------
(* The loop of parts_for.                                                  *)

GroupStart == [parts |-> <<>>, start |-> 0, running |-> 0]
GroupStep(lengths, target, i, s) ==
    LET running == s.running + lengths[i]
    IN  IF running >= target
        THEN [parts |-> Append(s.parts, <<s.start, i>>), start |-> i, running |-> 0]
        ELSE [s EXCEPT !.running = running]

GroupsUpto(lengths, target, m, f) ==
    f = [i \in 0..m |-> IF i = 0 THEN GroupStart ELSE GroupStep(lengths, target, i, f[i - 1])]

LEMMA GroupsExist ==
    ASSUME NEW lengths, NEW target, NEW m \in Nat
    PROVE  \E f : GroupsUpto(lengths, target, m, f)
<1>. DEFINE Upto(n, f) == GroupsUpto(lengths, target, n, f)
            T == {n \in Nat : ~ \E f : Upto(n, f)}
<1>1. SUFFICES ASSUME m \in T PROVE FALSE
  OBVIOUS
<1>2. PICK n \in T : \A k \in T : n <= k
  <2>. HIDE DEF T
  <2>1. T \in SUBSET Nat
    BY DEF T
  <2>. QED BY <1>1, <2>1, Smallest
<1>3. n # 0
  <2>. DEFINE f == [i \in 0..0 |-> GroupStart]
  <2>1. \A i \in 0..0 : i = 0
    OBVIOUS
  <2>2. Upto(0, f)
    BY <2>1 DEF GroupsUpto
  <2>. QED BY <2>2
<1>4. n - 1 \in Nat /\ n - 1 \notin T
  BY <1>2, <1>3
<1>5. PICK f : Upto(n - 1, f)
  BY <1>4
<1>. DEFINE g == [i \in 0..n |->
                    IF i = n THEN GroupStep(lengths, target, n, f[n - 1]) ELSE f[i]]
<1>6. \A i \in 0..n : g[i] = IF i = 0 THEN GroupStart ELSE GroupStep(lengths, target, i, g[i - 1])
  <2>. TAKE i \in 0..n
  <2>1. n \in Nat /\ n # 0
    BY <1>3
  <2>2. \A j \in 0..(n - 1) :
            f[j] = IF j = 0 THEN GroupStart ELSE GroupStep(lengths, target, j, f[j - 1])
    BY <1>5 DEF GroupsUpto
  <2>3. CASE i = n
    BY <2>1, <2>3
  <2>4. CASE i # n
    <3>1. i \in 0..(n - 1) /\ g[i] = f[i] /\ (i # 0 => g[i - 1] = f[i - 1])
      BY <2>1, <2>4
    <3>. QED BY <2>2, <3>1
  <2>. QED BY <2>3, <2>4
<1>7. Upto(n, g)
  <2>1. g = [i \in 0..n |-> g[i]]
    OBVIOUS
  <2>. HIDE DEF g
  <2>2. [i \in 0..n |-> g[i]]
            = [i \in 0..n |-> IF i = 0 THEN GroupStart ELSE GroupStep(lengths, target, i, g[i - 1])]
    BY <1>6
  <2>. QED BY <2>1, <2>2 DEF GroupsUpto
<1>. QED BY <1>2, <1>7

\* Parts that follow each other from the first block to block e.
Chain(parts, e) ==
    /\ parts \in Seq(Nat \X Nat)
    /\ \A k \in 1..Len(parts) :
        /\ parts[k][1] < parts[k][2]
        /\ parts[k][1] = IF k = 1 THEN 0 ELSE parts[k - 1][2]
    /\ e = IF parts = <<>> THEN 0 ELSE parts[Len(parts)][2]

LEMMA ChainGrows ==
    ASSUME NEW parts, NEW e \in Nat, NEW i \in Nat, Chain(parts, e), e < i
    PROVE  Chain(Append(parts, <<e, i>>), i)
<1>. DEFINE longer == Append(parts, <<e, i>>)
<1>1. /\ parts \in Seq(Nat \X Nat) /\ Len(parts) \in Nat /\ <<e, i>> \in Nat \X Nat
      /\ parts = <<>> <=> Len(parts) = 0
  BY LenProperties, EmptySeq DEF Chain
<1>2. /\ longer \in Seq(Nat \X Nat) /\ Len(longer) = Len(parts) + 1
      /\ \A k \in 1..Len(parts) : longer[k] = parts[k]
      /\ longer[Len(parts) + 1] = <<e, i>>
  BY <1>1, AppendProperties
<1>. HIDE DEF longer
<1>3. ASSUME NEW k \in 1..Len(longer)
      PROVE  /\ longer[k][1] < longer[k][2]
             /\ longer[k][1] = IF k = 1 THEN 0 ELSE longer[k - 1][2]
  <2>1. CASE k = Len(parts) + 1
    <3>1. longer[k][1] = e /\ longer[k][2] = i
      BY <1>2, <2>1
    <3>2. k # 1 => k - 1 = Len(parts) /\ k - 1 \in 1..Len(parts) /\ parts # <<>>
      BY <1>1, <2>1
    <3>3. k = 1 => parts = <<>>
      BY <1>1, <2>1
    <3>4. k # 1 => longer[k - 1] = parts[Len(parts)]
      BY <1>2, <3>2
    <3>. QED BY <3>1, <3>2, <3>3, <3>4 DEF Chain
  <2>2. CASE k # Len(parts) + 1
    <3>1. k \in 1..Len(parts) /\ (k # 1 => k - 1 \in 1..Len(parts))
      BY <1>1, <1>2, <2>2
    <3>. QED BY <1>2, <3>1 DEF Chain
  <2>. QED BY <2>1, <2>2
<1>4. longer # <<>> /\ longer[Len(longer)][2] = i
  <2>1. Len(longer) # 0
    BY <1>1, <1>2
  <2>. QED BY <1>2, <2>1, EmptySeq
<1>5. Chain(longer, i)
  BY <1>2, <1>3, <1>4 DEF Chain
<1>. QED BY <1>5 DEF longer

\* Up to each block the loop has cut what is before the open part.
Cut(s, i) ==
    /\ Chain(s.parts, s.start)
    /\ s.start \in 0..i
    /\ s.running \in Nat
    /\ s = [parts |-> s.parts, start |-> s.start, running |-> s.running]

LEMMA CutStep ==
    ASSUME NEW lengths, NEW target, NEW i \in Nat, lengths[i + 1] \in Nat, NEW s, Cut(s, i)
    PROVE  Cut(GroupStep(lengths, target, i + 1, s), i + 1)
<1>. DEFINE running == s.running + lengths[i + 1]
            longer == Append(s.parts, <<s.start, i + 1>>)
<1>1. running \in Nat /\ s.start \in 0..(i + 1) /\ s.start \in Nat /\ s.start < i + 1
  BY DEF Cut
<1>2. Chain(longer, i + 1)
  BY <1>1, ChainGrows DEF Cut
<1>3. CASE running >= target
  <2>1. GroupStep(lengths, target, i + 1, s)
            = [parts |-> longer, start |-> i + 1, running |-> 0]
    BY <1>3 DEF GroupStep
  <2>. HIDE DEF longer, running
  <2>. QED BY <1>2, <2>1 DEF Cut
<1>4. CASE ~(running >= target)
  <2>. DEFINE t == GroupStep(lengths, target, i + 1, s)
  <2>1. t = [s EXCEPT !.running = running]
    BY <1>4 DEF GroupStep
  <2>2. s = [parts |-> s.parts, start |-> s.start, running |-> s.running]
    BY DEF Cut
  <2>3. t = [parts |-> s.parts, start |-> s.start, running |-> running]
    BY <2>1, <2>2
  <2>. HIDE DEF t, running
  <2>4. Cut(t, i + 1)
    BY <1>1, <2>3 DEF Cut
  <2>. QED BY <2>4 DEF t
<1>. QED BY <1>3, <1>4

LEMMA GroupedCut ==
    ASSUME NEW lengths \in Seq(Nat), NEW target
    PROVE  Cut(Grouped(lengths, target), Len(lengths))
<1>0. Len(lengths) \in Nat /\ \A i \in 1..Len(lengths) : lengths[i] \in Nat
  BY LenProperties, ElementOfSeq
<1>. DEFINE h == CHOOSE f : GroupsUpto(lengths, target, Len(lengths), f)
<1>1. GroupsUpto(lengths, target, Len(lengths), h)
  BY <1>0, GroupsExist, Zenon
<1>2. Grouped(lengths, target) = h[Len(lengths)]
  BY Zenon DEF Grouped, GroupsUpto, GroupStart, GroupStep
<1>. HIDE DEF h
<1>3. \A i \in 0..Len(lengths) :
        h[i] = IF i = 0 THEN GroupStart ELSE GroupStep(lengths, target, i, h[i - 1])
  BY <1>1 DEF GroupsUpto
<1>. DEFINE T == {i \in 0..Len(lengths) : ~Cut(h[i], i)}
<1>4. SUFFICES ASSUME NEW t \in T PROVE FALSE
  BY <1>0, <1>2
<1>5. PICK n \in T : \A k \in T : n <= k
  <2>1. T \in SUBSET Nat
    BY <1>0
  <2>. HIDE DEF T
  <2>. QED BY <1>4, <2>1, Smallest
<1>6. n # 0
  <2>1. Cut(GroupStart, 0)
    <3>1. Chain(<<>>, 0)
      BY EmptySeq DEF Chain
    <3>. QED BY <3>1 DEF Cut, GroupStart
  <2>2. h[0] = GroupStart
    BY <1>0, <1>3
  <2>. QED BY <1>5, <2>1, <2>2
<1>7. n - 1 \in Nat /\ n - 1 \in 0..Len(lengths) /\ n - 1 \notin T /\ lengths[n] \in Nat
      /\ (n - 1) + 1 = n
  BY <1>0, <1>5, <1>6
<1>8. Cut(h[n - 1], n - 1) /\ h[n] = GroupStep(lengths, target, n, h[n - 1])
  BY <1>3, <1>5, <1>6, <1>7
<1>9. Cut(h[n], n)
  <2>. DEFINE m == n - 1
  <2>1. m \in Nat /\ lengths[m + 1] \in Nat /\ m + 1 = n /\ Cut(h[m], m)
        /\ h[n] = GroupStep(lengths, target, m + 1, h[m])
    BY <1>7, <1>8
  <2>. HIDE DEF m
  <2>2. Cut(GroupStep(lengths, target, m + 1, h[m]), m + 1)
    BY <2>1, CutStep
  <2>. QED BY <2>1, <2>2
<1>. QED BY <1>5, <1>9

\* "every block in block_lengths appears in exactly one returned range" (parts_for).
LEMMA PartsForChain ==
    ASSUME NEW lengths \in Seq(Nat), NEW target
    PROVE  Chain(PartsFor(lengths, target), Len(lengths))
<1>. DEFINE n == Len(lengths)
            g == Grouped(lengths, target)
<1>0. n \in Nat
  BY LenProperties
<1>1. CASE n = 0
  <2>1. PartsFor(lengths, target) = <<>>
    BY <1>1 DEF PartsFor
  <2>. QED BY <1>1, <2>1, EmptySeq DEF Chain
<1>2. CASE n # 0 /\ target = Whole
  <2>1. PartsFor(lengths, target) = <<<<0, n>>>>
    BY <1>2 DEF PartsFor
  <2>2. Append(<<>>, <<0, n>>) = <<<<0, n>>>>
    OBVIOUS
  <2>3. Chain(<<>>, 0)
    BY EmptySeq DEF Chain
  <2>4. 0 < n
    BY <1>0, <1>2
  <2>. HIDE DEF n
  <2>5. Chain(Append(<<>>, <<0, n>>), n)
    BY <1>0, <2>3, <2>4, ChainGrows
  <2>. QED BY <2>1, <2>2, <2>5 DEF n
<1>3. CASE n # 0 /\ target # Whole
  <2>1. PartsFor(lengths, target) = IF g.start < n THEN Append(g.parts, <<g.start, n>>) ELSE g.parts
    BY <1>3 DEF PartsFor
  <2>2. Cut(g, n)
    BY GroupedCut
  <2>. HIDE DEF g, n
  <2>3. Chain(g.parts, g.start) /\ g.start \in Nat /\ g.start <= n
    BY <1>0, <2>2 DEF Cut
  <2>4. CASE g.start < n
    BY <1>0, <2>1, <2>3, <2>4, ChainGrows DEF n
  <2>5. CASE ~(g.start < n)
    BY <1>0, <2>1, <2>3, <2>5 DEF n
  <2>. QED BY <2>4, <2>5
<1>. QED BY <1>1, <1>2, <1>3

LEMMA InChain ==
    ASSUME NEW parts, NEW e, Chain(parts, e)
    PROVE  /\ Len(parts) \in Nat /\ DOMAIN parts = 1..Len(parts) /\ e \in Nat
           /\ parts = <<>> <=> Len(parts) = 0
           /\ parts = <<>> <=> e = 0
           /\ \A k \in 1..Len(parts) : /\ parts[k][1] \in Nat /\ parts[k][2] \in Nat
                                       /\ parts[k][1] < parts[k][2]
           /\ Len(parts) # 0 => parts[1][1] = 0 /\ parts[Len(parts)][2] = e
           /\ \A k \in 1..Len(parts) : k # 1 => parts[k][1] = parts[k - 1][2]
<1>1. /\ parts \in Seq(Nat \X Nat) /\ Len(parts) \in Nat /\ DOMAIN parts = 1..Len(parts)
      /\ parts = <<>> <=> Len(parts) = 0
  BY LenProperties, EmptySeq DEF Chain
<1>2. \A k \in 1..Len(parts) : parts[k] \in Nat \X Nat
  BY <1>1, ElementOfSeq
<1>3. \A k \in 1..Len(parts) : /\ parts[k][1] \in Nat /\ parts[k][2] \in Nat
                               /\ parts[k][1] < parts[k][2]
  BY <1>2 DEF Chain
<1>4. Len(parts) # 0 => Len(parts) \in 1..Len(parts) /\ 1 \in 1..Len(parts)
  BY <1>1
<1>5. Len(parts) # 0 => parts[1][1] = 0 /\ parts[Len(parts)][2] = e
  BY <1>1, <1>4 DEF Chain
<1>6. IF Len(parts) = 0 THEN e = 0 ELSE e \in Nat /\ e > 0
  <2>1. Len(parts) = 0 => e = 0
    BY <1>1 DEF Chain
  <2>2. Len(parts) # 0 => e \in Nat /\ e > 0
    BY <1>3, <1>4, <1>5
  <2>. QED BY <2>1, <2>2
<1>. QED BY <1>1, <1>3, <1>5, <1>6 DEF Chain

\* A part ends before any later one begins, and at the end of the chapter at the latest.
LEMMA ChainOrdered ==
    ASSUME NEW parts, NEW e, Chain(parts, e), NEW i \in 1..Len(parts), NEW j \in 1..Len(parts), i < j
    PROVE  parts[i][2] <= parts[j][1]
<1>. DEFINE T == {k \in (i + 1)..Len(parts) : ~(parts[i][2] <= parts[k][1])}
<1>0. Len(parts) \in Nat
  BY InChain
<1>1. SUFFICES ASSUME j \in T PROVE FALSE
  BY <1>0
<1>2. PICK n \in T : \A k \in T : n <= k
  <2>1. T \in SUBSET Nat
    BY <1>0
  <2>. HIDE DEF T
  <2>. QED BY <1>1, <2>1, Smallest
<1>3. n \in 1..Len(parts) /\ n - 1 \in 1..Len(parts) /\ n # 1 /\ n \in Nat /\ n > i
  BY <1>0, <1>2
<1>4. parts[n][1] = parts[n - 1][2] /\ parts[n - 1][1] < parts[n - 1][2]
      /\ parts[n - 1][1] \in Nat /\ parts[n - 1][2] \in Nat /\ parts[i][2] \in Nat
  BY <1>3, InChain
<1>5. CASE n - 1 = i
  BY <1>2, <1>3, <1>4, <1>5
<1>6. CASE n - 1 # i
  <2>1. n - 1 \in (i + 1)..Len(parts) /\ n - 1 \notin T
    BY <1>0, <1>2, <1>3, <1>6
  <2>2. parts[i][2] <= parts[n - 1][1]
    BY <2>1
  <2>. QED BY <1>2, <1>4, <2>2
<1>. QED BY <1>5, <1>6

LEMMA ChainEnds ==
    ASSUME NEW parts, NEW e, Chain(parts, e), NEW i \in 1..Len(parts)
    PROVE  parts[i][2] <= e
<1>0. Len(parts) \in Nat /\ Len(parts) # 0 /\ Len(parts) \in 1..Len(parts)
  BY InChain
<1>1. parts[Len(parts)][2] = e /\ parts[Len(parts)][1] < parts[Len(parts)][2]
      /\ parts[Len(parts)][1] \in Nat /\ e \in Nat /\ parts[i][2] \in Nat
  BY <1>0, InChain
<1>2. CASE i = Len(parts)
  BY <1>1, <1>2
<1>3. CASE i # Len(parts)
  <2>1. parts[i][2] <= parts[Len(parts)][1]
    BY <1>0, <1>3, ChainOrdered
  <2>. QED BY <1>1, <2>1
<1>. QED BY <1>2, <1>3

\* Each block has its part, and only one.
LEMMA ChainHolds ==
    ASSUME NEW parts, NEW e, Chain(parts, e), NEW b \in 0..(e - 1)
    PROVE  \E i \in 1..Len(parts) : /\ Holds(parts[i], b)
                                    /\ \A j \in 1..Len(parts) : Holds(parts[j], b) => j = i
<1>. DEFINE T == {k \in 1..Len(parts) : b < parts[k][2]}
<1>0. Len(parts) \in Nat /\ e \in Nat /\ Len(parts) # 0 /\ Len(parts) \in 1..Len(parts)
  BY InChain
<1>1. Len(parts) \in T /\ T \in SUBSET Nat
  BY <1>0, InChain
<1>2. PICK n \in T : \A k \in T : n <= k
  <2>. HIDE DEF T
  <2>. QED BY <1>1, Smallest
<1>3. parts[n][1] <= b
  <2>1. CASE n = 1
    BY <1>0, <2>1, InChain
  <2>2. CASE n # 1
    <3>1. n - 1 \in 1..Len(parts) /\ n - 1 \notin T
      BY <1>0, <1>2, <2>2
    <3>2. parts[n][1] = parts[n - 1][2] /\ parts[n - 1][2] \in Nat
      BY <1>2, <2>2, <3>1, InChain
    <3>. QED BY <1>0, <3>1, <3>2
  <2>. QED BY <2>1, <2>2
<1>4. n \in 1..Len(parts) /\ Holds(parts[n], b)
  BY <1>2, <1>3 DEF Holds
<1>5. ASSUME NEW j \in 1..Len(parts), Holds(parts[j], b), j # n PROVE FALSE
  <2>1. /\ parts[n][1] \in Nat /\ parts[n][2] \in Nat /\ parts[j][1] \in Nat /\ parts[j][2] \in Nat
        /\ parts[n][1] <= b /\ b < parts[n][2] /\ parts[j][1] <= b /\ b < parts[j][2]
    BY <1>4, <1>5, InChain DEF Holds
  <2>2. CASE j < n
    BY <1>0, <1>4, <2>1, <2>2, ChainOrdered
  <2>3. CASE n < j
    BY <1>0, <1>4, <2>1, <2>3, ChainOrdered
  <2>. QED BY <1>0, <1>4, <1>5, <2>2, <2>3
<1>. QED BY <1>4, <1>5

LEMMA PartContainingHolds ==
    ASSUME NEW parts, NEW e, Chain(parts, e), NEW b \in 0..(e - 1)
    PROVE  /\ PartContaining(b, parts) \in 1..Len(parts)
           /\ Holds(parts[PartContaining(b, parts)], b)
           /\ {i \in DOMAIN parts : Holds(parts[i], b)} = {PartContaining(b, parts)}
<1>1. PICK i \in 1..Len(parts) : /\ Holds(parts[i], b)
                                 /\ \A j \in 1..Len(parts) : Holds(parts[j], b) => j = i
  BY ChainHolds
<1>2. DOMAIN parts = 1..Len(parts) /\ parts # <<>>
  <2>1. Len(parts) \in Nat
    BY InChain
  <2>. QED BY <2>1, InChain
<1>3. PartContaining(b, parts) = CHOOSE k \in DOMAIN parts : Holds(parts[k], b)
  BY <1>1, <1>2, Zenon DEF PartContaining
<1>4. PartContaining(b, parts) = i
  BY <1>1, <1>2, <1>3
<1>. QED BY <1>1, <1>2, <1>4

LEMMA BookKept == SteadySpec => [](book \in Books)
<1>1. Init => book \in Books
  BY DEF Init
<1>2. book \in Books /\ [Next]_vars => (book \in Books)'
  BY DEF Next, Step, Open, Follow, Turn, TurnBack, Reload, Leave, OpenChapter, Jump,
     SwitchElsewhere, vars
<1>. QED BY <1>1, <1>2, PTL DEF SteadySpec

LEMMA BookFacts ==
    ASSUME book \in Books
    PROVE  /\ book \in Seq(Seq(Nat \ {0})) /\ Len(book) \in Nat \ {0}
           /\ \A c \in ChapterIds : /\ c \in Nat /\ c + 1 \in 1..Len(book)
                                    /\ book[c + 1] \in Seq(Nat \ {0})
                                    /\ book[c + 1] \in Seq(Nat)
                                    /\ Len(book[c + 1]) \in Nat
                                    /\ book[c + 1] = <<>> <=> Len(book[c + 1]) = 0
<1>1. book \in Seq(Seq(Nat \ {0})) /\ Len(book) \in Nat \ {0}
  BY BooksAssumption, LenProperties, EmptySeq
<1>2. ASSUME NEW c \in ChapterIds
      PROVE  /\ c \in Nat /\ c + 1 \in 1..Len(book)
             /\ book[c + 1] \in Seq(Nat \ {0})
             /\ book[c + 1] \in Seq(Nat)
             /\ Len(book[c + 1]) \in Nat
             /\ book[c + 1] = <<>> <=> Len(book[c + 1]) = 0
  <2>1. c \in Nat /\ c + 1 \in 1..Len(book)
    BY <1>1 DEF ChapterIds
  <2>2. book[c + 1] \in Seq(Nat \ {0})
    BY <1>1, <2>1, ElementOfSeq
  <2>3. Nat \ {0} \subseteq Nat
    OBVIOUS
  <2>4. book[c + 1] \in Seq(Nat)
    BY <2>2, <2>3
  <2>. QED BY <2>1, <2>2, <2>4, LenProperties, EmptySeq
<1>. QED BY <1>1, <1>2

LEMMA PartsOfChain ==
    ASSUME book \in Books, NEW c \in ChapterIds, NEW s
    PROVE  Chain(PartsOf(c, s), Len(book[c + 1]))
BY BookFacts, PartsForChain DEF PartsOf

\* At every part size each block of a book is in one part, the one that part_containing()
\* finds, so that a place stored at one size has its page at any other (parts_for).
THEOREM BlocksHavePages == SteadySpec => []EveryBlockHasItsPage
<1>1. ASSUME book \in Books PROVE EveryBlockHasItsPage
  BY <1>1, PartsOfChain, PartContainingHolds DEF EveryBlockHasItsPage
<1>. QED BY <1>1, BookKept, PTL

----------------------------------------------------------------------------
(* Chapters and the blocks before them.                                    *)

LEMMA BlocksBeforeGrows ==
    ASSUME book \in Books
    PROVE  /\ BlocksBefore(0) = 0
           /\ \A c \in ChapterIds : BlocksBefore(c + 1) = BlocksBefore(c) + Len(book[c + 1])
           /\ \A c \in 0..Len(book) : BlocksBefore(c) \in Nat
           /\ \A m \in 0..Len(book) : \A c \in 0..m : BlocksBefore(c) <= BlocksBefore(m)
<1>. DEFINE s == [i \in 1..Len(book) |-> Len(book[i])]
<1>1. /\ Len(book) \in Nat /\ \A i \in 1..Len(book) : Len(book[i]) \in Nat
  <2>1. \A i \in 1..Len(book) : book[i] \in Seq(Nat \ {0})
    BY BookFacts, ElementOfSeq
  <2>. QED BY <2>1, BookFacts, LenProperties
<1>2. s \in Seq(Nat) /\ Len(s) = Len(book) /\ \A i \in 1..Len(book) : s[i] = Len(book[i])
  BY <1>1
<1>3. \A c : BlocksBefore(c) = SumTo(s, c)
  BY DEF BlocksBefore
<1>. HIDE DEF s
<1>4. ASSUME NEW c \in ChapterIds
      PROVE  BlocksBefore(c + 1) = BlocksBefore(c) + Len(book[c + 1])
  <2>1. c + 1 \in 1..Len(s) /\ (c + 1) - 1 = c
    BY <1>1, <1>2 DEF ChapterIds
  <2>2. SumTo(s, c + 1) = SumTo(s, (c + 1) - 1) + s[c + 1]
    BY <1>1, <1>2, <2>1, SumToStep
  <2>. QED BY <1>2, <1>3, <2>1, <2>2
<1>5. BlocksBefore(0) = 0
  BY <1>1, <1>2, <1>3, SumToStep
<1>. QED BY <1>2, <1>3, <1>4, <1>5, SumToGrows

\* Chapters without blocks count for nothing.
LEMMA EmptyCountNothing ==
    ASSUME book \in Books, NEW m \in 0..Len(book), NEW c \in 0..m,
           \A k \in c..(m - 1) : book[k + 1] = <<>>
    PROVE  BlocksBefore(m) = BlocksBefore(c)
<1>0. Len(book) \in Nat /\ c \in Nat /\ m \in Nat /\ m <= Len(book)
  BY BookFacts
<1>. DEFINE T == {k \in c..m : BlocksBefore(k) # BlocksBefore(c)}
<1>1. SUFFICES ASSUME m \in T PROVE FALSE
  BY <1>0
<1>2. PICK n \in T : \A k \in T : n <= k
  <2>1. T \in SUBSET Nat
    BY <1>0
  <2>. HIDE DEF T
  <2>. QED BY <1>1, <2>1, Smallest
<1>3. n # c
  BY <1>2
<1>4. n - 1 \in c..(m - 1) /\ n - 1 \in c..m /\ n - 1 \notin T /\ n - 1 \in ChapterIds /\ (n - 1) + 1 = n
  BY <1>0, <1>2, <1>3 DEF ChapterIds
<1>5. BlocksBefore(n) = BlocksBefore(n - 1) + 0
  <2>1. Len(book[(n - 1) + 1]) = 0
    BY <1>4, BookFacts
  <2>. QED BY <1>4, <2>1, BlocksBeforeGrows
<1>6. BlocksBefore(n - 1) \in Nat
  BY <1>0, <1>4, BlocksBeforeGrows DEF ChapterIds
<1>. QED BY <1>2, <1>4, <1>5, <1>6

LEMMA FollowingFacts ==
    ASSUME book \in Books, NEW c \in ChapterIds \cup {-1}, NEW n \in Following(c)
    PROVE  /\ n \in ChapterIds /\ n > c /\ book[n + 1] # <<>>
           /\ BlocksBefore(n) = BlocksBefore(c + 1)
           /\ c \in ChapterIds /\ book[c + 1] # <<>> => Preceding(n) = {c}
<1>0. Len(book) \in Nat
  BY BookFacts
<1>1. /\ n \in ChapterIds /\ n > c /\ book[n + 1] # <<>>
      /\ \A k \in (c + 1)..(n - 1) : book[k + 1] = <<>>
  BY DEF Following
<1>2. BlocksBefore(n) = BlocksBefore(c + 1)
  <2>1. n \in 0..Len(book) /\ c + 1 \in 0..n
    BY <1>0, <1>1 DEF ChapterIds
  <2>. QED BY <1>1, <2>1, EmptyCountNothing
<1>3. ASSUME c \in ChapterIds, book[c + 1] # <<>> PROVE Preceding(n) = {c}
  <2>1. c \in Preceding(n)
    BY <1>1, <1>3 DEF Preceding
  <2>2. ASSUME NEW m \in Preceding(n) PROVE m = c
    <3>1. /\ m \in ChapterIds /\ m < n /\ book[m + 1] # <<>>
          /\ \A k \in (m + 1)..(n - 1) : book[k + 1] = <<>>
      BY DEF Preceding
    <3>. QED BY <1>0, <1>1, <1>3, <3>1 DEF ChapterIds
  <2>. QED BY <2>1, <2>2
<1>. QED BY <1>1, <1>2, <1>3

LEMMA PrecedingFacts ==
    ASSUME book \in Books, NEW c \in ChapterIds, NEW n \in Preceding(c)
    PROVE  /\ n \in ChapterIds /\ n < c /\ book[n + 1] # <<>>
           /\ BlocksBefore(c) = BlocksBefore(n + 1)
           /\ book[c + 1] # <<>> => Following(n) = {c}
<1>0. Len(book) \in Nat
  BY BookFacts
<1>1. /\ n \in ChapterIds /\ n < c /\ book[n + 1] # <<>>
      /\ \A k \in (n + 1)..(c - 1) : book[k + 1] = <<>>
  BY DEF Preceding
<1>2. BlocksBefore(c) = BlocksBefore(n + 1)
  <2>1. c \in 0..Len(book) /\ n + 1 \in 0..c
    BY <1>0, <1>1 DEF ChapterIds
  <2>. QED BY <1>1, <2>1, EmptyCountNothing
<1>3. ASSUME book[c + 1] # <<>> PROVE Following(n) = {c}
  <2>1. c \in Following(n)
    BY <1>1, <1>3 DEF Following
  <2>2. ASSUME NEW m \in Following(n) PROVE m = c
    <3>1. /\ m \in ChapterIds /\ m > n /\ book[m + 1] # <<>>
          /\ \A k \in (n + 1)..(m - 1) : book[k + 1] = <<>>
      BY DEF Following
    <3>. QED BY <1>0, <1>1, <1>3, <3>1 DEF ChapterIds
  <2>. QED BY <2>1, <2>2
<1>. QED BY <1>1, <1>2, <1>3

LEMMA NothingFollows ==
    ASSUME book \in Books, NEW c \in ChapterIds \cup {-1}, Following(c) = {}
    PROVE  /\ BlocksBefore(Len(book)) = BlocksBefore(c + 1)
           /\ \A k \in (c + 1)..(Len(book) - 1) : book[k + 1] = <<>>
<1>0. Len(book) \in Nat /\ c + 1 \in 0..Len(book) /\ c + 1 \in Nat
  BY BookFacts DEF ChapterIds
<1>. DEFINE T == {k \in (c + 1)..(Len(book) - 1) : book[k + 1] # <<>>}
<1>1. ASSUME NEW t \in T PROVE FALSE
  <2>1. PICK n \in T : \A k \in T : n <= k
    <3>1. T \in SUBSET Nat
      BY <1>0
    <3>. HIDE DEF T
    <3>. QED BY <1>1, <3>1, Smallest
  <2>2. n \in ChapterIds /\ n > c /\ book[n + 1] # <<>>
    BY <1>0, <2>1 DEF ChapterIds
  <2>3. ASSUME NEW k \in (c + 1)..(n - 1) PROVE book[k + 1] = <<>>
    BY <1>0, <2>1
  <2>. QED BY <2>2, <2>3 DEF Following
<1>2. \A k \in (c + 1)..(Len(book) - 1) : book[k + 1] = <<>>
  BY <1>1
<1>. HIDE DEF T
<1>3. BlocksBefore(Len(book)) = BlocksBefore(c + 1)
  <2>. DEFINE m == Len(book)
              b == c + 1
  <2>1. m \in 0..Len(book) /\ b \in 0..m /\ \A k \in b..(m - 1) : book[k + 1] = <<>>
    BY <1>0, <1>2
  <2>. HIDE DEF m, b
  <2>2. BlocksBefore(m) = BlocksBefore(b)
    BY <2>1, EmptyCountNothing
  <2>. QED BY <2>2 DEF m, b
<1>. QED BY <1>2, <1>3

----------------------------------------------------------------------------
(* Pages and their links.                                                  *)

Begins(a, s) == BlocksBefore(a[1]) + PartsOf(a[1], s)[a[2]][1]
Beyond(a, s) == BlocksBefore(a[1]) + PartsOf(a[1], s)[a[2]][2]

LEMMA PageFacts ==
    ASSUME book \in Books, NEW s, NEW a, Found(a, s)
    PROVE  LET parts == PartsOf(a[1], s)
               n == Len(book[a[1] + 1])
           IN  /\ a[1] \in ChapterIds /\ a[2] \in 1..Len(parts) /\ Chain(parts, n)
               /\ n \in Nat /\ n # 0 /\ book[a[1] + 1] # <<>>
               /\ Len(parts) \in Nat /\ Len(parts) # 0
               /\ parts[a[2]][1] \in 0..(n - 1) /\ parts[a[2]][2] \in 1..n
               /\ parts[a[2]][1] < parts[a[2]][2]
               /\ Begins(a, s) \in Nat /\ Beyond(a, s) \in Nat
               /\ Begins(a, s) < Beyond(a, s) /\ Beyond(a, s) <= BlocksBefore(a[1] + 1)
               /\ BlocksBefore(a[1] + 1) <= BlocksBefore(Len(book))
<1>. DEFINE parts == PartsOf(a[1], s)
            n == Len(book[a[1] + 1])
<1>1. a[1] \in ChapterIds /\ a[2] \in 1..Len(parts) /\ Chain(parts, n)
  BY PartsOfChain DEF Found
<1>2. n \in Nat /\ (book[a[1] + 1] = <<>> <=> n = 0)
  BY <1>1, BookFacts
<1>3. /\ Len(parts) \in Nat
      /\ parts = <<>> <=> Len(parts) = 0
      /\ parts = <<>> <=> n = 0
  <2>. HIDE DEF parts, n
  <2>. QED BY <1>1, InChain
<1>4. Len(parts) # 0 /\ n # 0
  BY <1>1, <1>3
<1>5. /\ parts[a[2]][1] \in Nat /\ parts[a[2]][2] \in Nat
      /\ parts[a[2]][1] < parts[a[2]][2] /\ parts[a[2]][2] <= n
  <2>. HIDE DEF parts, n
  <2>. QED BY <1>1, InChain, ChainEnds
<1>6. /\ BlocksBefore(a[1] + 1) = BlocksBefore(a[1]) + n
      /\ BlocksBefore(a[1]) \in Nat
      /\ BlocksBefore(a[1] + 1) <= BlocksBefore(Len(book))
  <2>1. a[1] \in 0..Len(book) /\ a[1] + 1 \in 0..Len(book) /\ Len(book) \in 0..Len(book)
    BY <1>1, BookFacts DEF ChapterIds
  <2>. QED BY <1>1, <2>1, BlocksBeforeGrows
<1>7. /\ Begins(a, s) = BlocksBefore(a[1]) + parts[a[2]][1]
      /\ Beyond(a, s) = BlocksBefore(a[1]) + parts[a[2]][2]
  BY DEF Begins, Beyond
<1>. HIDE DEF parts, n
<1>8. /\ parts[a[2]][1] \in 0..(n - 1) /\ parts[a[2]][2] \in 1..n
      /\ Begins(a, s) \in Nat /\ Beyond(a, s) \in Nat
      /\ Begins(a, s) < Beyond(a, s) /\ Beyond(a, s) <= BlocksBefore(a[1] + 1)
  BY <1>2, <1>5, <1>6, <1>7
<1>. QED BY <1>1, <1>2, <1>3, <1>4, <1>5, <1>6, <1>8 DEF parts, n

\* A chapter with blocks has a first page, at its first block, and a last one, to its end.
LEMMA ChapterPages ==
    ASSUME book \in Books, NEW s, NEW c \in ChapterIds, book[c + 1] # <<>>
    PROVE  LET last == Len(PartsOf(c, s)) IN
           /\ last \in Nat \ {0}
           /\ Found(<<c, 1>>, s) /\ Begins(<<c, 1>>, s) = BlocksBefore(c)
           /\ Found(<<c, last>>, s) /\ Beyond(<<c, last>>, s) = BlocksBefore(c + 1)
<1>. DEFINE parts == PartsOf(c, s)
            n == Len(book[c + 1])
<1>1. Chain(parts, n) /\ n \in Nat /\ n # 0
  BY PartsOfChain, BookFacts
<1>2. /\ Len(parts) \in Nat /\ Len(parts) # 0
      /\ parts[1][1] = 0 /\ parts[Len(parts)][2] = n
  <2>. HIDE DEF parts, n
  <2>. QED BY <1>1, InChain
<1>3. BlocksBefore(c + 1) = BlocksBefore(c) + n /\ BlocksBefore(c) \in Nat
  BY BlocksBeforeGrows, BookFacts DEF ChapterIds
<1>4. Begins(<<c, 1>>, s) = BlocksBefore(c) /\ Found(<<c, 1>>, s)
  BY <1>2, <1>3 DEF Begins, Found
<1>5. Beyond(<<c, Len(parts)>>, s) = BlocksBefore(c + 1) /\ Found(<<c, Len(parts)>>, s)
  BY <1>2, <1>3 DEF Beyond, Found
<1>. QED BY <1>2, <1>4, <1>5

LEMMA NextLeads ==
    ASSUME book \in Books, NEW s, NEW a \in Addresses, Found(a, s), NEW n \in NextOf(a, s)
    PROVE  /\ n \in Addresses /\ Found(n, s)
           /\ Begins(n, s) = Beyond(a, s)
           /\ PrevOf(n, s) = {a}
<1>. DEFINE parts == PartsOf(a[1], s)
<1>0. /\ a = <<a[1], a[2]>> /\ a[1] \in ChapterIds /\ a[2] \in 1..Len(parts)
      /\ Len(parts) \in Nat /\ book[a[1] + 1] # <<>>
      /\ Chain(parts, Len(book[a[1] + 1]))
  BY PageFacts DEF Addresses
<1>1. CASE a[2] < Len(parts)
  <2>1. n = <<a[1], a[2] + 1>>
    BY <1>1 DEF NextOf
  <2>2. a[2] + 1 \in 1..Len(parts) /\ a[2] + 1 > 1 /\ (a[2] + 1) - 1 = a[2]
    BY <1>0, <1>1
  <2>3. Found(n, s) /\ n \in Addresses
    BY <1>0, <2>1, <2>2 DEF Found, Addresses
  <2>4. PrevOf(n, s) = {a}
    BY <1>0, <2>1, <2>2 DEF PrevOf
  <2>5. parts[a[2] + 1][1] = parts[a[2]][2]
    <3>. HIDE DEF parts
    <3>. DEFINE k == a[2] + 1
    <3>1. k \in 1..Len(parts) /\ k # 1 /\ k - 1 = a[2]
      BY <1>0, <2>2
    <3>. HIDE DEF k
    <3>2. parts[k][1] = parts[k - 1][2]
      BY <1>0, <3>1, InChain
    <3>. QED BY <3>1, <3>2 DEF k
  <2>. QED BY <2>1, <2>3, <2>4, <2>5 DEF Begins, Beyond
<1>2. CASE ~(a[2] < Len(parts))
  <2>0. a[2] = Len(parts)
    BY <1>0, <1>2
  <2>1. PICK c \in Following(a[1]) : n = <<c, 1>>
    BY <1>2 DEF NextOf
  <2>2. /\ c \in ChapterIds /\ book[c + 1] # <<>>
        /\ BlocksBefore(c) = BlocksBefore(a[1] + 1)
        /\ Preceding(c) = {a[1]}
    BY <1>0, FollowingFacts
  <2>3. Found(n, s) /\ Begins(n, s) = BlocksBefore(c)
    BY <2>1, <2>2, ChapterPages
  <2>4. Beyond(a, s) = BlocksBefore(a[1] + 1)
    <3>1. Beyond(<<a[1], Len(PartsOf(a[1], s))>>, s) = BlocksBefore(a[1] + 1)
      BY <1>0, ChapterPages
    <3>. QED BY <1>0, <2>0, <3>1
  <2>5. PrevOf(n, s) = {a}
    BY <1>0, <2>0, <2>1, <2>2 DEF PrevOf
  <2>6. n \in Addresses
    BY <2>1, <2>2 DEF Addresses
  <2>. QED BY <2>2, <2>3, <2>4, <2>5, <2>6
<1>. QED BY <1>1, <1>2

LEMMA PrevLeads ==
    ASSUME book \in Books, NEW s, NEW a \in Addresses, Found(a, s), NEW p \in PrevOf(a, s)
    PROVE  /\ p \in Addresses /\ Found(p, s)
           /\ Beyond(p, s) = Begins(a, s)
           /\ NextOf(p, s) = {a}
<1>. DEFINE parts == PartsOf(a[1], s)
<1>0. /\ a = <<a[1], a[2]>> /\ a[1] \in ChapterIds /\ a[2] \in 1..Len(parts)
      /\ Len(parts) \in Nat /\ book[a[1] + 1] # <<>>
      /\ Chain(parts, Len(book[a[1] + 1]))
  BY PageFacts DEF Addresses
<1>1. CASE a[2] > 1
  <2>1. p = <<a[1], a[2] - 1>>
    BY <1>1 DEF PrevOf
  <2>2. a[2] - 1 \in 1..Len(parts) /\ a[2] - 1 < Len(parts) /\ (a[2] - 1) + 1 = a[2] /\ a[2] # 1
    BY <1>0, <1>1
  <2>3. Found(p, s) /\ p \in Addresses
    BY <1>0, <2>1, <2>2 DEF Found, Addresses
  <2>4. NextOf(p, s) = {a}
    BY <1>0, <2>1, <2>2 DEF NextOf
  <2>5. parts[a[2]][1] = parts[a[2] - 1][2]
    <3>. HIDE DEF parts
    <3>. QED BY <1>0, <2>2, InChain
  <2>. QED BY <2>1, <2>3, <2>4, <2>5 DEF Begins, Beyond
<1>2. CASE ~(a[2] > 1)
  <2>0. a[2] = 1
    BY <1>0, <1>2
  <2>1. PICK c \in Preceding(a[1]) : p = <<c, Len(PartsOf(c, s))>>
    BY <1>2 DEF PrevOf
  <2>2. /\ c \in ChapterIds /\ book[c + 1] # <<>>
        /\ BlocksBefore(a[1]) = BlocksBefore(c + 1)
        /\ Following(c) = {a[1]}
    BY <1>0, PrecedingFacts
  <2>3. /\ Found(p, s) /\ Beyond(p, s) = BlocksBefore(c + 1)
        /\ Len(PartsOf(c, s)) \in Nat \ {0}
    BY <2>1, <2>2, ChapterPages
  <2>4. Begins(a, s) = BlocksBefore(a[1])
    <3>1. Begins(<<a[1], 1>>, s) = BlocksBefore(a[1])
      BY <1>0, ChapterPages
    <3>. QED BY <1>0, <2>0, <3>1
  <2>5. NextOf(p, s) = {a}
    <3>1. ~(p[2] < Len(PartsOf(p[1], s))) /\ p[1] = c
      BY <2>1, <2>3
    <3>. QED BY <1>0, <2>0, <2>2, <3>1 DEF NextOf
  <2>6. p \in Addresses
    BY <2>1, <2>2, <2>3 DEF Addresses
  <2>. QED BY <2>2, <2>3, <2>4, <2>5, <2>6
<1>. QED BY <1>1, <1>2

LEMMA NoNextAtTheEnd ==
    ASSUME book \in Books, NEW s, NEW a \in Addresses, Found(a, s), NextOf(a, s) = {}
    PROVE  Beyond(a, s) = BlocksBefore(Len(book))
<1>. DEFINE parts == PartsOf(a[1], s)
<1>0. /\ a = <<a[1], a[2]>> /\ a[1] \in ChapterIds /\ a[2] \in 1..Len(parts)
      /\ Len(parts) \in Nat /\ book[a[1] + 1] # <<>>
  BY PageFacts DEF Addresses
<1>1. ~(a[2] < Len(parts)) /\ Following(a[1]) = {}
  BY DEF NextOf
<1>2. a[2] = Len(parts)
  BY <1>0, <1>1
<1>3. Beyond(<<a[1], Len(PartsOf(a[1], s))>>, s) = BlocksBefore(a[1] + 1)
  BY <1>0, ChapterPages
<1>4. BlocksBefore(Len(book)) = BlocksBefore(a[1] + 1)
  BY <1>0, <1>1, NothingFollows
<1>. QED BY <1>0, <1>2, <1>3, <1>4

----------------------------------------------------------------------------
(* The invariant of the reader: what a page has shown has been told, and a *)
(* redirect or a stored position leads no further than that.               *)

\* The page of a device, and the page it is about to be sent to.
ShownTold == \A d \in Devices : Shows(d) =>
    /\ page[d] \in Addresses /\ Found(page[d], size[d])
    /\ Beyond(page[d], size[d]) <= told
SentTold == \A d \in Devices : going[d] # None =>
    /\ going[d] \in Addresses
    /\ Found(going[d], size[d]) => Begins(going[d], size[d]) <= told
Stored == pos # None =>
    /\ pos.chapter \in ChapterIds
    /\ pos.block \in 0..(Len(book[pos.chapter + 1]) - 1)
    /\ pos.percent = PercentOf(pos.chapter, pos.block)
    /\ BlocksBefore(pos.chapter) + pos.block <= told

Inv ==
    /\ book \in Books
    /\ size \in [Devices -> Sizes]
    /\ DOMAIN page = Devices /\ DOMAIN going = Devices
    /\ told \in 0..BlocksBefore(Len(book))
    /\ ShownTold /\ SentTold /\ Stored

\* A book that stays the same has the same pages.
LEMMA SameBook ==
    ASSUME UNCHANGED book
    PROVE  /\ ChapterIds' = ChapterIds /\ Addresses' = Addresses
           /\ \A c : BlocksBefore(c)' = BlocksBefore(c)
           /\ \A c, b : PercentOf(c, b)' = PercentOf(c, b)
           /\ \A a, s : Found(a, s)' <=> Found(a, s)
           /\ \A a, s : Begins(a, s)' = Begins(a, s) /\ Beyond(a, s)' = Beyond(a, s)
<1>1. ChapterIds' = ChapterIds /\ Addresses' = Addresses
  BY DEF ChapterIds, Addresses
<1>2. \A c : BlocksBefore(c)' = BlocksBefore(c)
  BY DEF BlocksBefore
<1>3. \A c : CharsBefore(c)' = CharsBefore(c)
  BY DEF CharsBefore
<1>4. \A c, b : PercentOf(c, b)' = PercentOf(c, b)
  BY <1>3 DEF PercentOf
<1>5. \A c, s : PartsOf(c, s)' = PartsOf(c, s)
  BY DEF PartsOf
<1>6. \A a, s : Found(a, s)' <=> Found(a, s)
  BY <1>1, <1>5 DEF Found
<1>7. \A a, s : Begins(a, s)' = Begins(a, s) /\ Beyond(a, s)' = Beyond(a, s)
  BY <1>2, <1>5 DEF Begins, Beyond
<1>. QED BY <1>1, <1>2, <1>4, <1>6, <1>7

\* A view of a page that follows on what was told, or was asked for.
LEMMA ViewKeeps ==
    ASSUME Inv, NEW d \in Devices, NEW a \in Addresses, NEW onPurpose \in BOOLEAN,
           View(d, a, size[d], onPurpose), UNCHANGED <<book, size>>,
           going' = going \/ going' = [going EXCEPT ![d] = None],
           onPurpose \/ (Found(a, size[d]) => Begins(a, size[d]) <= told)
    PROVE  Inv'
<1>. DEFINE s == size[d]
<1>1. /\ book \in Books /\ told \in 0..BlocksBefore(Len(book))
      /\ DOMAIN page = Devices /\ DOMAIN going = Devices
      /\ told \in Nat /\ BlocksBefore(Len(book)) \in Nat
  <2>1. Len(book) \in 0..Len(book)
    BY BookFacts DEF Inv
  <2>. QED BY <2>1, BlocksBeforeGrows DEF Inv
<1>2. /\ \A e \in Devices : going'[e] # None => going'[e] = going[e]
      /\ DOMAIN going' = Devices
  BY <1>1
<1>3. ASSUME told' >= told, told' \in 0..BlocksBefore(Len(book)), Stored', DOMAIN page' = Devices,
             \A e \in Devices : Shows(e)' =>
                (Shows(e) /\ page'[e] = page[e])
                \/ (e = d /\ page'[d] = a /\ Found(a, s) /\ Beyond(a, s) <= told')
      PROVE  Inv'
  <2>1. \A e \in Devices : size'[e] = size[e]
    OBVIOUS
  <2>2. ShownTold'
    <3>. SUFFICES ASSUME NEW e \in Devices, Shows(e)'
                  PROVE  /\ page'[e] \in Addresses /\ Found(page'[e], size[e])
                         /\ Beyond(page'[e], size[e]) <= told'
      BY <2>1, SameBook DEF ShownTold
    <3>1. CASE Shows(e) /\ page'[e] = page[e]
      <4>1. /\ page[e] \in Addresses /\ Found(page[e], size[e])
            /\ Beyond(page[e], size[e]) <= told
        BY <3>1 DEF Inv, ShownTold
      <4>2. Beyond(page[e], size[e]) \in Nat
        BY <1>1, <4>1, PageFacts
      <4>. QED BY <1>1, <1>3, <3>1, <4>1, <4>2
    <3>2. CASE e = d /\ page'[d] = a /\ Found(a, s) /\ Beyond(a, s) <= told'
      BY <3>2
    <3>. QED BY <1>3, <3>1, <3>2
  <2>3. SentTold'
    <3>. SUFFICES ASSUME NEW e \in Devices, going'[e] # None
                  PROVE  /\ going'[e] \in Addresses
                         /\ Found(going'[e], size[e]) => Begins(going'[e], size[e]) <= told'
      BY <2>1, SameBook DEF SentTold
    <3>1. /\ going[e] \in Addresses
          /\ Found(going[e], size[e]) => Begins(going[e], size[e]) <= told
      BY <1>2 DEF Inv, SentTold
    <3>2. Found(going[e], size[e]) => Begins(going[e], size[e]) \in Nat
      BY <1>1, PageFacts
    <3>. QED BY <1>1, <1>2, <1>3, <3>1, <3>2
  <2>. QED BY <1>1, <1>2, <1>3, <2>2, <2>3, SameBook DEF Inv
<1>4. CASE ~Found(a, s)
  <2>1. /\ page' = [page EXCEPT ![d] = Missing] /\ UNCHANGED <<pos, told>>
    BY <1>4 DEF View
  <2>2. Stored'
    BY <2>1, SameBook DEF Inv, Stored
  <2>3. \A e \in Devices : Shows(e)' => Shows(e) /\ page'[e] = page[e]
    BY <1>1, <2>1 DEF Shows
  <2>. QED BY <1>1, <1>3, <2>1, <2>2, <2>3
<1>5. CASE Found(a, s)
  <2>1. /\ page' = [page EXCEPT ![d] = a]
        /\ pos' = [chapter |-> a[1], block |-> Top(a, s), percent |-> PercentOf(a[1], Top(a, s))]
        /\ told' = IF onPurpose \/ Begins(a, s) <= told THEN Later(told, Beyond(a, s)) ELSE told
    BY <1>5 DEF View, Begins, Beyond
  <2>2. /\ a[1] \in ChapterIds /\ Top(a, s) \in 0..(Len(book[a[1] + 1]) - 1)
        /\ Begins(a, s) = BlocksBefore(a[1]) + Top(a, s)
        /\ Begins(a, s) \in Nat /\ Beyond(a, s) \in Nat /\ Begins(a, s) < Beyond(a, s)
        /\ Beyond(a, s) <= BlocksBefore(a[1] + 1) /\ BlocksBefore(a[1] + 1) <= BlocksBefore(Len(book))
    BY <1>1, <1>5, PageFacts DEF Top, Begins
  <2>3. BlocksBefore(a[1] + 1) \in Nat
    BY <1>1, <2>2, BookFacts, BlocksBeforeGrows DEF ChapterIds
  <2>4. told' = Later(told, Beyond(a, s))
    BY <1>5, <2>1
  <2>5. told' >= told /\ told' >= Beyond(a, s) /\ told' \in 0..BlocksBefore(Len(book))
    BY <1>1, <2>2, <2>3, <2>4 DEF Later
  <2>6. Stored'
    <3>1. /\ pos'.chapter = a[1] /\ pos'.block = Top(a, s)
          /\ pos'.percent = PercentOf(a[1], Top(a, s))
      BY <2>1
    <3>2. Begins(a, s) <= told'
      BY <1>1, <2>2, <2>5
    <3>. QED BY <2>2, <3>1, <3>2, SameBook DEF Stored
  <2>7. \A e \in Devices : Shows(e)' => (Shows(e) /\ page'[e] = page[e]) \/ (e = d /\ page'[d] = a)
    BY <1>1, <2>1 DEF Shows
  <2>8. DOMAIN page' = Devices
    BY <1>1, <2>1
  <2>. QED BY <1>3, <1>5, <2>5, <2>6, <2>7, <2>8
<1>. QED BY <1>4, <1>5

LEMMA ResumeTold ==
    ASSUME Inv, NEW s
    PROVE  /\ Resume(s) \in Addresses
           /\ Found(Resume(s), s) => Begins(Resume(s), s) <= told
<1>1. /\ book \in Books /\ told \in Nat /\ Len(book) \in Nat \ {0} /\ BlocksBefore(0) = 0
      /\ ChapterIds = 0..(Len(book) - 1)
  <2>1. book \in Books /\ Len(book) \in Nat \ {0}
    BY BookFacts DEF Inv
  <2>2. BlocksBefore(Len(book)) \in Nat /\ BlocksBefore(0) = 0
    BY <2>1, BlocksBeforeGrows
  <2>. QED BY <2>1, <2>2 DEF Inv, ChapterIds
<1>2. CASE pos = None /\ Following(-1) = {}
  <2>1. Resume(s) = <<0, 1>>
    BY <1>2 DEF Resume, FirstChapter
  <2>2. -1 + 1 = 0 /\ 0 + 1 = 1 /\ 0 \in 0..(Len(book) - 1)
    BY <1>1
  <2>3. book[1] = <<>>
    <3>1. \A k \in (-1 + 1)..(Len(book) - 1) : book[k + 1] = <<>>
      BY <1>1, <1>2, NothingFollows
    <3>. QED BY <2>2, <3>1
  <2>4. ~Found(<<0, 1>>, s)
    <3>1. ASSUME Found(<<0, 1>>, s) PROVE FALSE
      <4>. DEFINE a == <<0, 1>>
      <4>1. a[1] = 0 /\ Found(a, s)
        BY <3>1
      <4>. HIDE DEF a
      <4>2. book[a[1] + 1] # <<>>
        BY <1>1, <4>1, PageFacts
      <4>. QED BY <2>2, <2>3, <4>1, <4>2
    <3>. QED BY <3>1
  <2>5. <<0, 1>> \in Addresses
    BY <1>1, <2>2 DEF Addresses
  <2>. QED BY <2>1, <2>4, <2>5
<1>3. CASE pos = None /\ Following(-1) # {}
  <2>1. PICK n \in Following(-1) : Resume(s) = <<n, 1>>
    BY <1>3 DEF Resume, FirstChapter
  <2>2. n \in ChapterIds /\ book[n + 1] # <<>> /\ BlocksBefore(n) = BlocksBefore(-1 + 1)
    BY <1>1, FollowingFacts
  <2>3. Begins(<<n, 1>>, s) = BlocksBefore(n)
    BY <1>1, <2>2, ChapterPages
  <2>4. -1 + 1 = 0
    OBVIOUS
  <2>5. <<n, 1>> \in Addresses
    BY <2>2 DEF Addresses
  <2>. QED BY <1>1, <2>1, <2>2, <2>3, <2>4, <2>5
<1>4. CASE pos # None
  <2>. DEFINE c == pos.chapter
              b == pos.block
              parts == PartsOf(c, s)
              k == PartContaining(b, parts)
  <2>1. /\ c \in ChapterIds /\ b \in 0..(Len(book[c + 1]) - 1)
        /\ BlocksBefore(c) + b <= told
    BY <1>4 DEF Inv, Stored
  <2>2. Resume(s) = <<c, k>>
    BY <1>4 DEF Resume
  <2>3. Chain(parts, Len(book[c + 1]))
    BY <1>1, <2>1, PartsOfChain
  <2>4. Len(parts) \in Nat /\ k \in 1..Len(parts) /\ Holds(parts[k], b)
    <3>. HIDE DEF parts, b, c
    <3>. QED BY <2>1, <2>3, InChain, PartContainingHolds
  <2>5. Begins(<<c, k>>, s) = BlocksBefore(c) + parts[k][1]
    BY DEF Begins
  <2>6. parts[k][1] <= b /\ parts[k][1] \in Nat
    <3>. HIDE DEF parts, b, c, k
    <3>. QED BY <2>3, <2>4, InChain DEF Holds
  <2>7. BlocksBefore(c) \in Nat
    BY <1>1, <2>1, BlocksBeforeGrows
  <2>8. <<c, k>> \in Addresses
    BY <2>1, <2>4 DEF Addresses
  <2>. HIDE DEF parts, b, c, k
  <2>. QED BY <1>1, <2>1, <2>2, <2>5, <2>6, <2>7, <2>8
<1>. QED BY <1>2, <1>3, <1>4

LEMMA InvInit == Init => Inv
<1>. SUFFICES ASSUME Init PROVE Inv
  OBVIOUS
<1>1. book \in Books /\ told = 0 /\ pos = None
  BY DEF Init
<1>2. told \in 0..BlocksBefore(Len(book))
  <2>1. Len(book) \in 0..Len(book)
    BY <1>1, BookFacts
  <2>. QED BY <1>1, <2>1, BlocksBeforeGrows
<1>3. ShownTold /\ SentTold /\ Stored
  BY <1>1 DEF Init, ShownTold, SentTold, Stored, Shows
<1>. QED BY <1>1, <1>2, <1>3 DEF Init, Inv

LEMMA ShownFacts ==
    ASSUME Inv, NEW d \in Devices, Shows(d)
    PROVE  /\ book \in Books /\ told \in Nat
           /\ page[d] \in Addresses /\ Found(page[d], size[d])
           /\ Beyond(page[d], size[d]) <= told
           /\ Begins(page[d], size[d]) < Beyond(page[d], size[d])
           /\ Begins(page[d], size[d]) \in Nat /\ Beyond(page[d], size[d]) \in Nat
<1>1. /\ book \in Books /\ page[d] \in Addresses /\ Found(page[d], size[d])
      /\ Beyond(page[d], size[d]) <= told
  BY DEF Inv, ShownTold
<1>2. BlocksBefore(Len(book)) \in Nat
  BY <1>1, BookFacts, BlocksBeforeGrows
<1>. QED BY <1>1, <1>2, PageFacts DEF Inv

LEMMA InvStep ==
    ASSUME Inv, NEW d \in Devices, Step(d)
    PROVE  Inv'
<1>1. CASE Open(d)
  <2>1. /\ UNCHANGED <<book, size, pos, told>>
        /\ DOMAIN going' = Devices /\ DOMAIN page' = Devices
        /\ going'[d] = Resume(size[d]) /\ page'[d] = Closed
        /\ \A e \in Devices : e # d => going'[e] = going[e] /\ page'[e] = page[e]
    BY <1>1 DEF Open, Inv
  <2>2. ShownTold'
    BY <2>1, SameBook DEF Inv, ShownTold, Shows
  <2>3. SentTold'
    <3>. SUFFICES ASSUME NEW e \in Devices, going'[e] # None
                  PROVE  /\ going'[e] \in Addresses
                         /\ Found(going'[e], size[e]) => Begins(going'[e], size[e]) <= told
      BY <2>1, SameBook DEF SentTold
    <3>. QED BY <2>1, ResumeTold DEF Inv, SentTold
  <2>4. Stored'
    BY <2>1, SameBook DEF Inv, Stored
  <2>. QED BY <2>1, <2>2, <2>3, <2>4, SameBook DEF Inv
<1>2. CASE Follow(d)
  <2>1. /\ View(d, going[d], size[d], FALSE) /\ UNCHANGED <<book, size>>
        /\ going' = [going EXCEPT ![d] = None] /\ going[d] # None
    BY <1>2 DEF Follow
  <2>2. /\ going[d] \in Addresses
        /\ Found(going[d], size[d]) => Begins(going[d], size[d]) <= told
    BY <2>1 DEF Inv, SentTold
  <2>. QED BY <2>1, <2>2, ViewKeeps
<1>3. CASE Turn(d)
  <2>1. PICK a \in NextOf(page[d], size[d]) : View(d, a, size[d], FALSE)
    BY <1>3 DEF Turn
  <2>2. Shows(d) /\ UNCHANGED <<book, size, going>>
    BY <1>3 DEF Turn
  <2>3. a \in Addresses /\ Begins(a, size[d]) <= told
    <3>1. a \in Addresses /\ Begins(a, size[d]) = Beyond(page[d], size[d])
      BY <2>2, ShownFacts, NextLeads
    <3>. QED BY <2>2, <3>1, ShownFacts
  <2>. QED BY <2>1, <2>2, <2>3, ViewKeeps
<1>4. CASE TurnBack(d)
  <2>1. PICK a \in PrevOf(page[d], size[d]) : View(d, a, size[d], FALSE)
    BY <1>4 DEF TurnBack
  <2>2. Shows(d) /\ UNCHANGED <<book, size, going>>
    BY <1>4 DEF TurnBack
  <2>3. a \in Addresses /\ Begins(a, size[d]) <= told
    <3>1. /\ a \in Addresses /\ Found(a, size[d])
          /\ Beyond(a, size[d]) = Begins(page[d], size[d])
      BY <2>2, ShownFacts, PrevLeads
    <3>2. Begins(a, size[d]) \in Nat /\ Begins(a, size[d]) < Beyond(a, size[d])
      BY <2>2, <3>1, ShownFacts, PageFacts
    <3>. QED BY <2>2, <3>1, <3>2, ShownFacts
  <2>. QED BY <2>1, <2>2, <2>3, ViewKeeps
<1>5. CASE Reload(d)
  <2>1. Shows(d) /\ View(d, page[d], size[d], FALSE) /\ UNCHANGED <<book, size, going>>
    BY <1>5 DEF Reload
  <2>2. page[d] \in Addresses /\ Begins(page[d], size[d]) <= told
    BY <2>1, ShownFacts
  <2>. QED BY <2>1, <2>2, ViewKeeps
<1>6. CASE Leave(d) \/ \E s \in Sizes : SwitchElsewhere(d, s)
  <2>1. /\ UNCHANGED <<book, going, pos, told>>
        /\ size' \in [Devices -> Sizes] /\ DOMAIN page' = Devices
        /\ \A e \in Devices : Shows(e)' => Shows(e) /\ page'[e] = page[e] /\ size'[e] = size[e]
        /\ \A e \in Devices : going'[e] # None => size'[e] = size[e]
    BY <1>6 DEF Leave, SwitchElsewhere, Inv, Shows
  <2>2. ShownTold'
    BY <2>1, SameBook DEF Inv, ShownTold
  <2>3. SentTold'
    BY <2>1, SameBook DEF Inv, SentTold
  <2>4. Stored'
    BY <2>1, SameBook DEF Inv, Stored
  <2>. QED BY <2>1, <2>2, <2>3, <2>4, SameBook DEF Inv
<1>7. ASSUME NEW c \in ChapterIds, OpenChapter(d, c)
      PROVE  Inv'
  <2>1. View(d, <<c, 1>>, size[d], TRUE) /\ UNCHANGED <<book, size, going>>
    BY <1>7 DEF OpenChapter
  <2>2. <<c, 1>> \in Addresses
    BY DEF Addresses
  <2>. QED BY <2>1, <2>2, ViewKeeps
<1>8. ASSUME NEW c \in ChapterIds, NEW b \in 0..(Len(book[c + 1]) - 1), Jump(d, c, b)
      PROVE  Inv'
  <2>. DEFINE parts == PartsOf(c, size[d])
              a == <<c, PartContaining(b, parts)>>
  <2>1. View(d, a, size[d], TRUE) /\ UNCHANGED <<book, size, going>>
    BY <1>8 DEF Jump
  <2>2. Chain(parts, Len(book[c + 1]))
    BY PartsOfChain DEF Inv
  <2>3. Len(parts) \in Nat /\ PartContaining(b, parts) \in 1..Len(parts)
    <3>. HIDE DEF parts
    <3>. QED BY <2>2, InChain, PartContainingHolds
  <2>4. a \in Addresses
    BY <2>3 DEF Addresses
  <2>. HIDE DEF a
  <2>. QED BY <2>1, <2>4, ViewKeeps
<1>. QED BY <1>1, <1>2, <1>3, <1>4, <1>5, <1>6, <1>7, <1>8 DEF Step

LEMMA InvNext == Inv /\ [Next]_vars => Inv'
<1>1. Inv /\ Next => Inv'
  BY InvStep DEF Next
<1>2. Inv /\ UNCHANGED vars => Inv'
  <2>. SUFFICES ASSUME Inv, UNCHANGED vars PROVE Inv'
    OBVIOUS
  <2>1. UNCHANGED <<book, size, page, going, pos, told>>
    BY DEF vars
  <2>2. ShownTold' /\ SentTold' /\ Stored'
    BY <2>1, SameBook DEF Inv, ShownTold, SentTold, Stored, Shows
  <2>. QED BY <2>1, <2>2, SameBook DEF Inv
<1>. QED BY <1>1, <1>2

\* However often the book is opened, on whatever devices and at whatever part sizes: what a
\* page has shown has been told, and so has all that comes before a redirect or the stored
\* position (read_book, read_part).
THEOREM Invariance == SteadySpec => []Inv
BY InvInit, InvNext, PTL DEF SteadySpec

\* The links of a page lead to pages that are there and lead back, over chapters without
\* blocks too, and Next is missing at the end of the text only ("page turns never dead-end",
\* read_part).
THEOREM PageTurnsMeet == SteadySpec => []LinksMeet
<1>1. Inv => LinksMeet
  <2>. SUFFICES ASSUME Inv, NEW d \in Devices, Shows(d)
                PROVE  LET a == page[d]
                           s == size[d]
                       IN  /\ \A n \in NextOf(a, s) : Found(n, s) /\ PrevOf(n, s) = {a}
                           /\ \A p \in PrevOf(a, s) : Found(p, s) /\ NextOf(p, s) = {a}
                           /\ NextOf(a, s) = {} => Beyond(a, s) = BlocksBefore(Len(book))
    BY DEF LinksMeet, Beyond
  <2>. QED BY ShownFacts, NextLeads, PrevLeads, NoNextAtTheEnd
<1>. QED BY <1>1, Invariance, PTL

\* Whoever resumes at the stored position has been shown all the text before it, or jumped
\* over it on purpose: no redirect that was answered late, no other device and no other part
\* size moves the position past unread text (read_book, part_containing).
THEOREM ReadingSkipsNothing == SteadySpec => []NothingSkipped
<1>1. Inv => NothingSkipped
  BY DEF Inv, Stored, NothingSkipped
<1>. QED BY <1>1, Invariance, PTL

----------------------------------------------------------------------------
(* Progress.                                                               *)

LEMMA Quotient ==
    ASSUME NEW x \in Nat, NEW d \in Nat \ {0}
    PROVE  /\ x \div d \in Nat
           /\ d * (x \div d) <= x /\ x < d * (x \div d + 1)
OBVIOUS

\* A fraction whose numerator and denominator are both taken n times is the same.
LEMMA QuotientBelow ==
    ASSUME NEW x \in Nat, NEW y \in Nat, NEW n \in Nat \ {0}, NEW d \in Nat \ {0}, x <= n * y
    PROVE  x \div (n * d) <= y \div d
<1>. DEFINE q == y \div d
            p == x \div (n * d)
<1>1. q \in Nat /\ y < d * (q + 1)
  BY Quotient
<1>2. n * d \in Nat \ {0}
  OBVIOUS
<1>3. p \in Nat /\ (n * d) * p <= x
  BY <1>2, Quotient
<1>. HIDE DEF q, p
<1>4. n * y < n * (d * (q + 1))
  BY <1>1
<1>5. n * (d * (q + 1)) = (n * d) * (q + 1)
  BY <1>1
<1>6. (n * d) * p < (n * d) * (q + 1)
  BY <1>1, <1>2, <1>3, <1>4, <1>5
<1>7. p < q + 1
  <2>. DEFINE e == n * d
  <2>1. e \in Nat \ {0} /\ e * p < e * (q + 1)
    BY <1>2, <1>6
  <2>. HIDE DEF e
  <2>. QED BY <1>1, <1>3, <2>1
<1>8. p <= q
  BY <1>1, <1>3, <1>7
<1>. QED BY <1>8 DEF q, p

LEMMA QuotientAbove ==
    ASSUME NEW x \in Nat, NEW y \in Nat, NEW n \in Nat \ {0}, NEW d \in Nat \ {0}, n * y <= x
    PROVE  y \div d <= x \div (n * d)
<1>. DEFINE q == y \div d
            p == x \div (n * d)
<1>1. q \in Nat /\ d * q <= y
  BY Quotient
<1>2. n * d \in Nat \ {0}
  OBVIOUS
<1>3. p \in Nat /\ x < (n * d) * (p + 1)
  BY <1>2, Quotient
<1>. HIDE DEF q, p
<1>4. n * (d * q) <= n * y
  BY <1>1
<1>5. n * (d * q) = (n * d) * q
  BY <1>1
<1>6. (n * d) * q < (n * d) * (p + 1)
  BY <1>1, <1>2, <1>3, <1>4, <1>5
<1>7. q < p + 1
  <2>. DEFINE e == n * d
  <2>1. e \in Nat \ {0} /\ e * q < e * (p + 1)
    BY <1>2, <1>6
  <2>. HIDE DEF e
  <2>. QED BY <1>1, <1>3, <2>1
<1>8. q <= p
  BY <1>1, <1>3, <1>7
<1>. QED BY <1>8 DEF q, p

LEMMA CharsBeforeGrows ==
    ASSUME book \in Books
    PROVE  /\ \A c \in ChapterIds :
                /\ Total(book[c + 1]) \in Nat
                /\ Len(book[c + 1]) # 0 => Total(book[c + 1]) # 0
                /\ CharsBefore(c + 1) = CharsBefore(c) + Total(book[c + 1])
           /\ \A c \in 0..Len(book) : CharsBefore(c) \in Nat
           /\ \A m \in 0..Len(book) : \A c \in 0..m : CharsBefore(c) <= CharsBefore(m)
<1>. DEFINE s == [i \in 1..Len(book) |-> Total(book[i])]
<1>0. Len(book) \in Nat
  BY BookFacts
<1>1. ASSUME NEW i \in 1..Len(book)
      PROVE  Total(book[i]) \in Nat /\ (Len(book[i]) # 0 => Total(book[i]) # 0)
  <2>. DEFINE ch == book[i]
  <2>1. ch \in Seq(Nat \ {0})
    BY BookFacts, ElementOfSeq
  <2>2. ch \in Seq(Nat) /\ Len(ch) \in Nat /\ Len(ch) \in 0..Len(ch)
    <3>1. Nat \ {0} \subseteq Nat
      OBVIOUS
    <3>2. ch \in Seq(Nat)
      BY <2>1, <3>1
    <3>. HIDE DEF ch
    <3>. QED BY <3>2, LenProperties
  <2>. HIDE DEF ch
  <2>3. SumTo(ch, Len(ch)) \in Nat
    BY <2>2, SumToGrows
  <2>4. ASSUME Len(ch) # 0 PROVE SumTo(ch, Len(ch)) # 0
    <3>1. 1 \in 1..Len(ch) /\ 1 \in 0..Len(ch) /\ 1 - 1 = 0
      BY <2>2, <2>4
    <3>2. ch[1] \in Nat \ {0}
      BY <2>1, <3>1, ElementOfSeq
    <3>3. SumTo(ch, 1) = SumTo(ch, 0) + ch[1] /\ SumTo(ch, 0) = 0
      BY <2>2, <3>1, SumToStep
    <3>4. SumTo(ch, 1) <= SumTo(ch, Len(ch))
      BY <2>2, <3>1, SumToGrows
    <3>. QED BY <2>3, <3>2, <3>3, <3>4
  <2>. QED BY <2>3, <2>4 DEF Total, ch
<1>2. s \in Seq(Nat) /\ Len(s) = Len(book) /\ \A i \in 1..Len(book) : s[i] = Total(book[i])
  BY <1>0, <1>1
<1>3. \A c : CharsBefore(c) = SumTo(s, c)
  BY DEF CharsBefore
<1>. HIDE DEF s
<1>4. ASSUME NEW c \in ChapterIds
      PROVE  /\ c + 1 \in 1..Len(book)
             /\ CharsBefore(c + 1) = CharsBefore(c) + Total(book[c + 1])
  <2>1. c + 1 \in 1..Len(s) /\ (c + 1) - 1 = c
    BY <1>0, <1>2 DEF ChapterIds
  <2>2. SumTo(s, c + 1) = SumTo(s, (c + 1) - 1) + s[c + 1]
    BY <1>0, <1>2, <2>1, SumToStep
  <2>. QED BY <1>2, <1>3, <2>1, <2>2
<1>. QED BY <1>1, <1>2, <1>3, <1>4, SumToGrows

\* What percent_of computes short of the end of the book, and its bounds.
Fraction(c, b) ==
    (100 * (CharsBefore(c) * Len(book[c + 1]) + Total(book[c + 1]) * b))
        \div (Len(book[c + 1]) * CharsBefore(Len(book)))
AtEnd(c, b) == c = Len(book) - 1 /\ b >= Len(book[c + 1]) - 1

LEMMA FractionBounds ==
    ASSUME book \in Books, NEW c \in ChapterIds, NEW b \in 0..(Len(book[c + 1]) - 1)
    PROVE  /\ CharsBefore(Len(book)) \in Nat \ {0}
           /\ CharsBefore(c) \in Nat /\ CharsBefore(c + 1) \in Nat
           /\ Fraction(c, b) \in Nat
           /\ (100 * CharsBefore(c)) \div CharsBefore(Len(book)) <= Fraction(c, b)
           /\ Fraction(c, b) <= (100 * CharsBefore(c + 1)) \div CharsBefore(Len(book))
           /\ (100 * CharsBefore(c + 1)) \div CharsBefore(Len(book)) <= 100
           /\ \A e \in b..(Len(book[c + 1]) - 1) : Fraction(c, b) <= Fraction(c, e)
<1>. DEFINE n == Len(book[c + 1])
            C == CharsBefore(c)
            T == Total(book[c + 1])
            A == CharsBefore(Len(book))
            x(e) == 100 * (C * n + T * e)
<1>1. n \in Nat \ {0} /\ b \in Nat /\ b <= n
  BY BookFacts
<1>2. /\ T \in Nat \ {0} /\ C \in Nat /\ A \in Nat
      /\ CharsBefore(c + 1) = C + T /\ CharsBefore(c + 1) <= A
  <2>1. Len(book) \in Nat /\ c \in 0..Len(book) /\ c + 1 \in 0..Len(book) /\ Len(book) \in 0..Len(book)
    BY BookFacts DEF ChapterIds
  <2>. QED BY <1>1, <2>1, CharsBeforeGrows
<1>3. A \in Nat \ {0} /\ C + T <= A
  BY <1>2
<1>4. \A e : Fraction(c, e) = x(e) \div (n * A)
  BY DEF Fraction
<1>. HIDE DEF n, C, T, A
<1>5. n * A \in Nat \ {0}
  BY <1>1, <1>3
<1>6. ASSUME NEW e \in Nat PROVE x(e) \in Nat /\ x(e) \div (n * A) \in Nat
  <2>1. x(e) \in Nat
    BY <1>1, <1>2
  <2>. HIDE DEF x
  <2>. QED BY <1>5, <2>1, Quotient
<1>7. (100 * C) \div A <= x(b) \div (n * A)
  <2>1. T * b \in Nat /\ C * n \in Nat
    BY <1>1, <1>2
  <2>2. n * (100 * C) = 100 * (C * n)
    BY <1>1, <1>2
  <2>3. n * (100 * C) <= x(b) /\ 100 * C \in Nat
    BY <1>2, <2>1, <2>2
  <2>. HIDE DEF x
  <2>. QED BY <1>1, <1>3, <1>6, <2>3, QuotientAbove
<1>8. x(b) \div (n * A) <= (100 * (C + T)) \div A
  <2>1. T * b <= T * n /\ T * b \in Nat /\ T * n \in Nat /\ C * n \in Nat
    BY <1>1, <1>2
  <2>2. n * (100 * (C + T)) = 100 * (C * n + T * n)
    BY <1>1, <1>2
  <2>3. x(b) <= n * (100 * (C + T)) /\ 100 * (C + T) \in Nat
    BY <1>2, <2>1, <2>2
  <2>. HIDE DEF x
  <2>. QED BY <1>1, <1>3, <1>6, <2>3, QuotientBelow
<1>9. (100 * (C + T)) \div A <= 100
  <2>. DEFINE y == 100 * (C + T)
              q == y \div A
  <2>1. y \in Nat /\ y <= 100 * A
    BY <1>2, <1>3
  <2>. HIDE DEF y
  <2>2. q \in Nat /\ A * q <= y
    BY <1>3, <2>1, Quotient
  <2>. HIDE DEF q
  <2>3. A * q <= A * 100
    BY <1>3, <2>1, <2>2
  <2>4. q <= 100
    BY <1>3, <2>2, <2>3
  <2>. QED BY <2>4 DEF y, q
<1>10. ASSUME NEW e \in b..(n - 1) PROVE x(b) \div (n * A) <= x(e) \div (n * A)
  <2>1. e \in Nat /\ b <= e
    BY <1>1
  <2>2. T * b <= T * e /\ T * b \in Nat /\ T * e \in Nat /\ C * n \in Nat
    BY <1>1, <1>2, <2>1
  <2>3. x(b) <= 1 * x(e)
    BY <2>2
  <2>. DEFINE D == n * A
              u == x(b)
              v == x(e)
  <2>4. u \in Nat /\ v \in Nat /\ u <= 1 * v /\ D \in Nat \ {0} /\ 1 \in Nat \ {0} /\ 1 * D = D
    BY <1>1, <1>5, <1>6, <2>1, <2>3
  <2>. HIDE DEF D, u, v
  <2>5. u \div (1 * D) <= v \div D
    BY <2>4, QuotientBelow
  <2>6. u \div D <= v \div D
    BY <2>4, <2>5
  <2>. QED BY <2>6 DEF D, u, v
<1>11. Fraction(c, b) \in Nat
  BY <1>1, <1>4, <1>6
<1>12. (100 * C) \div A <= Fraction(c, b)
  BY <1>4, <1>7
<1>13. Fraction(c, b) <= (100 * CharsBefore(c + 1)) \div A
  BY <1>2, <1>4, <1>8
<1>14. (100 * CharsBefore(c + 1)) \div A <= 100
  BY <1>2, <1>9
<1>15. CharsBefore(c + 1) \in Nat
  BY <1>2
<1>16. \A e \in b..(n - 1) : Fraction(c, b) <= Fraction(c, e)
  BY <1>4, <1>10
<1>. QED BY <1>2, <1>3, <1>11, <1>12, <1>13, <1>14, <1>15, <1>16, Zenon DEF A, C, n

LEMMA PercentBounds ==
    ASSUME book \in Books, NEW c \in ChapterIds, NEW b \in 0..(Len(book[c + 1]) - 1)
    PROVE  PercentOf(c, b) \in 0..100
<1>1. AtEnd(c, b) => PercentOf(c, b) = 100
  BY DEF PercentOf, AtEnd
<1>2. ~AtEnd(c, b) => PercentOf(c, b) = Fraction(c, b)
  BY DEF PercentOf, AtEnd, Fraction
<1>. DEFINE q == (100 * CharsBefore(c + 1)) \div CharsBefore(Len(book))
<1>3. q \in Nat
  <2>. DEFINE A == CharsBefore(Len(book))
              C == CharsBefore(c + 1)
              y == 100 * C
  <2>1. A \in Nat \ {0} /\ C \in Nat
    BY FractionBounds, Zenon
  <2>. HIDE DEF A, C
  <2>2. y \in Nat
    BY <2>1
  <2>. HIDE DEF y
  <2>3. y \div A \in Nat
    BY <2>1, <2>2, Quotient
  <2>. QED BY <2>3 DEF A, C, y
<1>4. Fraction(c, b) \in Nat /\ Fraction(c, b) <= q /\ q <= 100
  BY FractionBounds, Zenon
<1>. HIDE DEF q
<1>5. Fraction(c, b) \in 0..100
  <2>. DEFINE f == Fraction(c, b)
  <2>1. f \in Nat /\ f <= q /\ q <= 100
    BY <1>4
  <2>. HIDE DEF f
  <2>2. f \in 0..100
    BY <1>3, <2>1
  <2>. QED BY <2>2 DEF f
<1>. QED BY <1>1, <1>2, <1>5

LEMMA PercentOnward ==
    ASSUME book \in Books,
           NEW c \in ChapterIds, NEW b \in 0..(Len(book[c + 1]) - 1),
           NEW k \in ChapterIds, NEW e \in 0..(Len(book[k + 1]) - 1),
           BlocksBefore(c) + b <= BlocksBefore(k) + e
    PROVE  PercentOf(c, b) <= PercentOf(k, e)
<1>0. /\ Len(book) \in Nat /\ c \in Nat /\ k \in Nat /\ c < Len(book) /\ k < Len(book)
      /\ Len(book[c + 1]) \in Nat /\ Len(book[k + 1]) \in Nat
  <2>1. /\ Len(book) \in Nat
        /\ c \in Nat /\ c + 1 \in 1..Len(book) /\ Len(book[c + 1]) \in Nat
        /\ k \in Nat /\ k + 1 \in 1..Len(book) /\ Len(book[k + 1]) \in Nat
    BY BookFacts
  <2>. QED BY <2>1
<1>1. CASE AtEnd(k, e)
  <2>1. PercentOf(k, e) = 100
    BY <1>1 DEF PercentOf, AtEnd
  <2>. DEFINE f == PercentOf(c, b)
  <2>2. f \in 0..100
    BY PercentBounds, Zenon
  <2>. HIDE DEF f
  <2>3. f <= 100
    BY <2>2
  <2>. QED BY <2>1, <2>3 DEF f
<1>2. CASE ~AtEnd(k, e)
  <2>1. PercentOf(k, e) = Fraction(k, e)
    BY <1>2 DEF PercentOf, AtEnd, Fraction
  <2>2. c <= k
    <3>1. ASSUME k < c PROVE FALSE
      <4>1. k + 1 \in 0..c /\ c \in 0..Len(book) /\ k \in 0..Len(book) /\ k + 1 \in 0..Len(book)
        BY <1>0, <3>1
      <4>2. /\ BlocksBefore(k + 1) = BlocksBefore(k) + Len(book[k + 1])
            /\ BlocksBefore(k + 1) <= BlocksBefore(c)
            /\ BlocksBefore(k) \in Nat /\ BlocksBefore(c) \in Nat
        BY <4>1, BlocksBeforeGrows
      <4>. QED BY <1>0, <4>2
    <3>. QED BY <1>0, <3>1
  <2>3. CASE c = k
    <3>1. BlocksBefore(c) \in Nat /\ b \in Nat /\ e \in Nat
      BY <1>0, BlocksBeforeGrows
    <3>2. b <= e /\ e \in b..(Len(book[c + 1]) - 1)
      BY <1>0, <2>3, <3>1
    <3>3. ~AtEnd(c, b)
      BY <1>0, <1>2, <2>3, <3>1, <3>2 DEF AtEnd
    <3>4. PercentOf(c, b) = Fraction(c, b)
      BY <3>3 DEF PercentOf, AtEnd, Fraction
    <3>. QED BY <2>1, <2>3, <3>2, <3>4, FractionBounds
  <2>4. CASE c # k
    <3>1. c + 1 \in 0..k /\ k \in 0..Len(book) /\ c + 1 \in 0..Len(book) /\ c # Len(book) - 1
      BY <1>0, <2>2, <2>4
    <3>2. PercentOf(c, b) = Fraction(c, b)
      BY <3>1 DEF PercentOf, Fraction
    <3>. DEFINE A == CharsBefore(Len(book))
                y == 100 * CharsBefore(c + 1)
                z == 100 * CharsBefore(k)
    <3>3. A \in Nat \ {0} /\ y \in Nat /\ z \in Nat /\ y <= 1 * z
      <4>1. /\ CharsBefore(c + 1) \in Nat /\ CharsBefore(k) \in Nat
            /\ CharsBefore(c + 1) <= CharsBefore(k)
        BY <3>1, CharsBeforeGrows
      <4>2. A \in Nat \ {0}
        BY FractionBounds, Zenon
      <4>. HIDE DEF A
      <4>. QED BY <4>1, <4>2
    <3>4. /\ Fraction(c, b) \in Nat /\ Fraction(k, e) \in Nat
          /\ Fraction(c, b) <= y \div A /\ z \div A <= Fraction(k, e)
      BY FractionBounds, Zenon
    <3>. HIDE DEF A, y, z
    <3>5. y \div (1 * A) <= z \div A
      <4>1. 1 \in Nat \ {0}
        OBVIOUS
      <4>. QED BY <3>3, <4>1, QuotientBelow
    <3>6. 1 * A = A /\ y \div A \in Nat /\ z \div A \in Nat
      BY <3>3, Quotient
    <3>7. y \div A <= z \div A
      BY <3>5, <3>6
    <3>. DEFINE p == y \div A
                q == z \div A
    <3>8. p \in Nat /\ q \in Nat /\ p <= q /\ Fraction(c, b) <= p /\ q <= Fraction(k, e)
      BY <3>4, <3>6, <3>7
    <3>. HIDE DEF p, q
    <3>. QED BY <2>1, <3>2, <3>4, <3>8
  <2>. QED BY <2>3, <2>4
<1>. QED BY <1>1, <1>2

\* What a step does to the stored position.
LEMMA PositionMoves ==
    ASSUME Inv, [Next]_vars
    PROVE  /\ UNCHANGED book
           /\ \/ UNCHANGED pos
              \/ \E c \in ChapterIds : \E b \in 0..(Len(book[c + 1]) - 1) :
                    pos' = [chapter |-> c, block |-> b, percent |-> PercentOf(c, b)]
<1>1. ASSUME NEW d \in Devices, NEW a, NEW onPurpose, View(d, a, size[d], onPurpose)
      PROVE  \/ UNCHANGED pos
             \/ \E c \in ChapterIds : \E b \in 0..(Len(book[c + 1]) - 1) :
                    pos' = [chapter |-> c, block |-> b, percent |-> PercentOf(c, b)]
  <2>1. CASE Found(a, size[d])
    <3>1. pos' = [chapter |-> a[1], block |-> Top(a, size[d]),
                  percent |-> PercentOf(a[1], Top(a, size[d]))]
      BY <1>1, <2>1 DEF View
    <3>2. a[1] \in ChapterIds /\ Top(a, size[d]) \in 0..(Len(book[a[1] + 1]) - 1)
      BY <2>1, PageFacts DEF Inv, Top
    <3>. QED BY <3>1, <3>2
  <2>2. CASE ~Found(a, size[d])
    BY <1>1, <2>2 DEF View
  <2>. QED BY <2>1, <2>2
<1>2. CASE UNCHANGED vars
  BY <1>2 DEF vars
<1>3. ASSUME NEW d \in Devices, Step(d)
      PROVE  /\ UNCHANGED book
             /\ UNCHANGED pos \/ \E a, onPurpose : View(d, a, size[d], onPurpose)
  BY <1>3 DEF Step, Open, Follow, Turn, TurnBack, Reload, Leave, OpenChapter, Jump, SwitchElsewhere
<1>. QED BY <1>1, <1>2, <1>3 DEF Next

\* The types; what is stored is a place in the book, and the percentage one of 0..100.
THEOREM PagingTypeCorrect == SteadySpec => []TypeOK
<1>1. Inv => TypeOK
  <2>. SUFFICES ASSUME Inv PROVE TypeOK
    OBVIOUS
  <2>1. pos # None => pos.percent \in 0..100
    BY PercentBounds DEF Inv, Stored
  <2>. QED BY <2>1 DEF TypeOK, Inv, ShownTold, SentTold, Stored
<1>. QED BY <1>1, Invariance, PTL

\* "percent_of is monotonic over reading order": whatever the lengths of chapters and blocks,
\* and although the blocks of a chapter count as equally long, the progress does not go back
\* when the position moves on.
THEOREM ProgressMovesOn == SteadySpec => ProgressOnward
<1>1. Inv /\ [Next]_vars =>
        [(pos # None
            /\ BlocksBefore(pos'.chapter) + pos'.block >= BlocksBefore(pos.chapter) + pos.block)
         => pos'.percent >= pos.percent]_vars
  <2>. SUFFICES ASSUME Inv, [Next]_vars, pos # None,
                       BlocksBefore(pos'.chapter) + pos'.block
                            >= BlocksBefore(pos.chapter) + pos.block
                PROVE  pos'.percent >= pos.percent
    OBVIOUS
  <2>1. /\ pos.chapter \in ChapterIds
        /\ pos.block \in 0..(Len(book[pos.chapter + 1]) - 1)
        /\ pos.percent = PercentOf(pos.chapter, pos.block)
        /\ book \in Books
    BY DEF Inv, Stored
  <2>2. PercentOf(pos.chapter, pos.block) \in 0..100
    BY <2>1, PercentBounds
  <2>3. CASE UNCHANGED pos
    <3>1. pos' = pos /\ pos.percent \in 0..100
      BY <2>1, <2>2, <2>3
    <3>2. pos'.percent = pos.percent
      BY <3>1
    <3>. QED BY <3>1, <3>2
  <2>4. ASSUME NEW c \in ChapterIds, NEW b \in 0..(Len(book[c + 1]) - 1),
               pos' = [chapter |-> c, block |-> b, percent |-> PercentOf(c, b)]
        PROVE  pos'.percent >= pos.percent
    <3>1. pos'.chapter = c /\ pos'.block = b /\ pos'.percent = PercentOf(c, b)
      BY <2>4
    <3>2. PercentOf(c, b) \in 0..100
      BY <2>1, PercentBounds
    <3>3. /\ BlocksBefore(c) \in Nat /\ BlocksBefore(pos.chapter) \in Nat
          /\ b \in Nat /\ pos.block \in Nat
      <4>1. /\ c \in Nat /\ c + 1 \in 1..Len(book) /\ Len(book) \in Nat
            /\ pos.chapter \in Nat /\ pos.chapter + 1 \in 1..Len(book)
        BY <2>1, BookFacts
      <4>2. c \in 0..Len(book) /\ pos.chapter \in 0..Len(book)
        BY <4>1
      <4>. QED BY <2>1, <4>2, BlocksBeforeGrows
    <3>4. BlocksBefore(pos.chapter) + pos.block <= BlocksBefore(c) + b
      BY <3>1, <3>3
    <3>5. PercentOf(pos.chapter, pos.block) <= PercentOf(c, b)
      BY <2>1, <3>4, PercentOnward
    <3>. QED BY <2>1, <2>2, <3>1, <3>2, <3>5
  <2>. QED BY <2>3, <2>4, PositionMoves
<1>. QED BY <1>1, Invariance, PTL DEF SteadySpec, ProgressOnward

=============================================================================
