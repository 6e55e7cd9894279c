---------------------------- MODULE Chapter_proofs ----------------------------
(***************************************************************************)
(* Proofs about the chapters of a book, for all tags, outlines and limits. *)
(*                                                                         *)
(* Of an HTML document: whatever its tags and wherever it ends, the body   *)
(* is well-nested and no deeper than _MAX_HTML_DEPTH, each of its texts is *)
(* shown in one block of one chapter, and a link into it leads to the      *)
(* texts it names.  Of a PDF: each page is in one chapter, whatever the    *)
(* outline.  Of both kinds of contents: entries lead where they say.       *)
(*                                                                         *)
(* The open elements after each event are a recursive function (Paths).    *)
(* That it exists is shown by way of the first index at which it would not *)
(* (Smallest); what an event appended to the body does to it is then       *)
(* enough, and the end tags of several elements are appended one by one.   *)
(* Where a text is shown is found on the line of its ancestors, down which *)
(* _top_level_block_elements() descends twice.                             *)
(***************************************************************************)
EXTENDS Chapter, FiniteSetTheorems, SequenceTheorems, WellFoundedInduction, TLAPS

LEMMA Smallest ==
    ASSUME NEW T \in SUBSET Nat, NEW t \in T
    PROVE  \E n \in T : \A k \in T : n <= k
<1>. DEFINE R == OpToRel(<, Nat)
<1>1. PICK n \in T : \A k \in T : ~(<<k, n>> \in R)
  <2>1. IsWellFoundedOn(R, Nat)
    BY NatLessThanWellFounded
  <2>2. T \subseteq Nat /\ T # {}
    OBVIOUS
  <2>. HIDE DEF R
  <2>. QED BY <2>1, <2>2, WFMin
<1>2. \A k \in T : ~(k < n)
  BY <1>1 DEF OpToRel
<1>. HIDE DEF R
<1>. QED BY <1>2

----------------------------------------------------------------------------
(* The open elements after each event.                                     *)

\* What event k of doc makes of the elements open before it.
Onward(doc, k, open) ==
    IF doc[k][1] = "open" THEN Append(open, k)
    ELSE IF doc[k][1] = "close" /\ open # <<>> THEN Front(open)
    ELSE open

PathsUpto(doc, m, f) == f = [k \in 0..m |-> IF k = 0 THEN <<>> ELSE Onward(doc, k, f[k - 1])]

LEMMA PathsExist ==
    ASSUME NEW doc, NEW m \in Nat
    PROVE  \E f : PathsUpto(doc, m, f)
<1>. DEFINE T == {n \in Nat : ~ \E f : PathsUpto(doc, n, f)}
<1>1. SUFFICES ASSUME m \in T PROVE FALSE
  OBVIOUS
<1>2. PICK n \in T : \A k \in T : n <= k
  <2>. HIDE DEF T
  <2>1. T \in SUBSET Nat
    BY DEF T
  <2>. QED BY <1>1, <2>1, Smallest
<1>3. n # 0
  <2>. DEFINE f == [i \in 0..0 |-> <<>>]
  <2>1. \A i \in 0..0 : i = 0
    OBVIOUS
  <2>2. f = [i \in 0..0 |-> IF i = 0 THEN <<>> ELSE Onward(doc, i, f[i - 1])]
    BY <2>1
  <2>3. PathsUpto(doc, 0, f)
    BY <2>2 DEF PathsUpto
  <2>. QED BY <2>3
<1>4. n - 1 \in Nat /\ n - 1 \notin T
  BY <1>2, <1>3
<1>5. PICK f : PathsUpto(doc, n - 1, f)
  BY <1>4
<1>. DEFINE g == [i \in 0..n |-> IF i = n THEN Onward(doc, n, f[n - 1]) ELSE f[i]]
<1>6. \A i \in 0..n : g[i] = IF i = 0 THEN <<>> ELSE Onward(doc, i, g[i - 1])
  <2>. TAKE i \in 0..n
  <2>1. n \in Nat /\ n # 0
    BY <1>3
  <2>2. \A j \in 0..(n - 1) : f[j] = IF j = 0 THEN <<>> ELSE Onward(doc, j, f[j - 1])
    BY <1>5 DEF PathsUpto
  <2>3. CASE i = n
    BY <2>1, <2>3
  <2>4. CASE i # n
    <3>1. i \in 0..(n - 1) /\ g[i] = f[i] /\ (i # 0 => g[i - 1] = f[i - 1])
      BY <2>1, <2>4
    <3>. QED BY <2>2, <3>1
  <2>. QED BY <2>3, <2>4
<1>7. PathsUpto(doc, n, g)
  <2>1. g = [i \in 0..n |-> g[i]]
    OBVIOUS
  <2>. HIDE DEF g
  <2>2. [i \in 0..n |-> g[i]]
            = [i \in 0..n |-> IF i = 0 THEN <<>> ELSE Onward(doc, i, g[i - 1])]
    BY <1>6
  <2>. QED BY <2>1, <2>2 DEF PathsUpto
<1>. QED BY <1>2, <1>7

LEMMA PathsStep ==
    ASSUME NEW doc, Len(doc) \in Nat
    PROVE  /\ Paths(doc)[0] = <<>>
           /\ \A k \in 1..Len(doc) : Paths(doc)[k] = Onward(doc, k, Paths(doc)[k - 1])
<1>. DEFINE h == CHOOSE f : PathsUpto(doc, Len(doc), f)
<1>1. PathsUpto(doc, Len(doc), h)
  BY PathsExist
<1>2. Paths(doc) = h
  BY Zenon DEF Paths, PathsUpto, Onward
<1>. HIDE DEF h
<1>. QED BY <1>1, <1>2 DEF PathsUpto

\* Documents that agree up to an event have the same elements open up to it.
LEMMA PathsAgree ==
    ASSUME NEW doc, NEW more, Len(doc) \in Nat, Len(more) \in Nat, Len(doc) <= Len(more),
           \A k \in 1..Len(doc) : more[k] = doc[k],
           NEW k \in 0..Len(doc)
    PROVE  Paths(more)[k] = Paths(doc)[k]
<1>. DEFINE T == {i \in 0..Len(doc) : Paths(more)[i] # Paths(doc)[i]}
<1>1. SUFFICES ASSUME k \in T PROVE FALSE
  OBVIOUS
<1>2. PICK n \in T : \A i \in T : n <= i
  <2>. HIDE DEF T
  <2>1. T \in SUBSET Nat
    BY DEF T
  <2>. QED BY <1>1, <2>1, Smallest
<1>3. n # 0
  BY <1>2, PathsStep
<1>4. n \in 1..Len(doc) /\ n \in 1..Len(more) /\ n - 1 \in 0..Len(doc) /\ n - 1 \notin T
  BY <1>2, <1>3
<1>5. Paths(more)[n - 1] = Paths(doc)[n - 1]
  BY <1>4
<1>6. Onward(more, n, Paths(more)[n - 1]) = Onward(doc, n, Paths(doc)[n - 1])
  BY <1>4, <1>5 DEF Onward
<1>7. Paths(more)[n] = Paths(doc)[n]
  <2>. HIDE DEF T
  <2>. QED BY <1>4, <1>6, PathsStep
<1>. QED BY <1>2, <1>7
----------------------------------------------------------------------------
(* Well-formed beginnings of a body.                                       *)

Names == Tags \cup {"p"}
Events == {<<"text">>} \cup ({"open", "close", "void"} \X Names)

\* So far doc is well-nested, and the elements of the names open, in this order, are open.
WellAt(doc, path, k) ==
    /\ path[k] \in Seq(Nat) /\ Len(path[k]) <= MaxDepth
    /\ \A i \in 1..Len(path[k]) : path[k][i] \in 1..Len(doc)
    /\ doc[k][1] = "close" =>
        path[k - 1] # <<>> /\ doc[path[k - 1][Len(path[k - 1])]][2] = doc[k][2]
    /\ doc[k][1] = "text" => path[k] # <<>>
WellBegun(doc) == \A k \in 1..Len(doc) : WellAt(doc, Paths(doc), k)
LeavesOpen(doc, open) ==
    /\ Paths(doc)[Len(doc)] \in Seq(Nat) /\ Len(Paths(doc)[Len(doc)]) = Len(open)
    /\ \A i \in 1..Len(open) :
        /\ Paths(doc)[Len(doc)][i] \in 1..Len(doc)
        /\ doc[Paths(doc)[Len(doc)][i]][2] = open[i]

Tree(doc, open) ==
    /\ doc \in Seq(Events) /\ open \in Seq(Names) /\ Len(open) <= MaxDepth
    /\ WellBegun(doc)
    /\ LeavesOpen(doc, open)

LEMMA TreeEmpty == Tree(<<>>, <<>>)
<1>. DEFINE none == <<>>
<1>1. Len(none) = 0 /\ none \in Seq(Events) /\ none \in Seq(Names) /\ none \in Seq(Nat)
  BY EmptySeq
<1>2. Paths(none)[0] = none
  BY <1>1, PathsStep
<1>. HIDE DEF none
<1>3. WellBegun(none) /\ LeavesOpen(none, none)
  BY <1>1, <1>2 DEF WellBegun, LeavesOpen
<1>4. Len(none) <= MaxDepth
  BY <1>1, ChapterAssumption
<1>. QED BY <1>1, <1>3, <1>4 DEF Tree, none

\* What one more event does.
LEMMA AppendPaths ==
    ASSUME NEW doc \in Seq(Events), NEW e \in Events
    PROVE  LET more == Append(doc, e) IN
           /\ more \in Seq(Events) /\ Len(more) = Len(doc) + 1 /\ Len(doc) \in Nat
           /\ \A k \in 1..Len(doc) : more[k] = doc[k]
           /\ more[Len(doc) + 1] = e
           /\ \A k \in 0..Len(doc) : Paths(more)[k] = Paths(doc)[k]
           /\ Paths(more)[Len(doc) + 1] = Onward(more, Len(doc) + 1, Paths(doc)[Len(doc)])
<1>. DEFINE more == Append(doc, e)
<1>1. /\ more \in Seq(Events) /\ Len(more) = Len(doc) + 1 /\ Len(doc) \in Nat
      /\ \A k \in 1..Len(doc) : more[k] = doc[k]
      /\ more[Len(doc) + 1] = e
  BY LenProperties
<1>. HIDE DEF more
<1>2. \A k \in 0..Len(doc) : Paths(more)[k] = Paths(doc)[k]
  BY <1>1, PathsAgree
<1>3. Paths(more)[Len(doc) + 1] = Onward(more, Len(doc) + 1, Paths(doc)[Len(doc)])
  <2>1. Len(more) \in Nat /\ Len(doc) + 1 \in 1..Len(more) /\ (Len(doc) + 1) - 1 = Len(doc)
        /\ Len(doc) \in 0..Len(doc)
    BY <1>1
  <2>2. Paths(more)[Len(doc) + 1]
            = Onward(more, Len(doc) + 1, Paths(more)[(Len(doc) + 1) - 1])
    BY <2>1, PathsStep
  <2>. QED BY <1>2, <2>1, <2>2
<1>. QED BY <1>1, <1>2, <1>3 DEF more

\* It is enough to look at the new event.
LEMMA TreeGrows ==
    ASSUME NEW doc, NEW open, Tree(doc, open), NEW e \in Events, NEW left,
           left \in Seq(Names), Len(left) <= MaxDepth,
           LeavesOpen(Append(doc, e), left),
           e[1] = "close" => /\ open # <<>> /\ e[2] = open[Len(open)],
           e[1] = "text" => left # <<>>
    PROVE  Tree(Append(doc, e), left)
<1>. DEFINE more == Append(doc, e)
            L == Len(doc)
            old == Paths(doc)
            new == Paths(more)
<1>1. /\ more \in Seq(Events) /\ Len(more) = L + 1 /\ L \in Nat
      /\ \A k \in 1..L : more[k] = doc[k]
      /\ more[L + 1] = e
      /\ \A k \in 0..L : new[k] = old[k]
  BY AppendPaths DEF Tree
<1>2. LeavesOpen(more, left)
  OBVIOUS
<1>. HIDE DEF more, old, new
<1>3. LeavesOpen(doc, open) /\ \A k \in 1..L : WellAt(doc, old, k)
  BY DEF Tree, WellBegun, L, old
<1>4. old[0] = <<>>
  BY <1>1, PathsStep DEF old
<1>5. /\ old[L] \in Seq(Nat) /\ Len(old[L]) = Len(open)
      /\ \A i \in 1..Len(open) : old[L][i] \in 1..L /\ doc[old[L][i]][2] = open[i]
  BY <1>3 DEF LeavesOpen, L, old
<1>6. /\ new[L + 1] \in Seq(Nat) /\ Len(new[L + 1]) = Len(left)
      /\ \A i \in 1..Len(left) : new[L + 1][i] \in 1..Len(more)
  BY <1>1, <1>2 DEF LeavesOpen, new
<1>7. open \in Seq(Names)
  BY DEF Tree
<1>. HIDE DEF L
<1>8. ASSUME NEW k \in 1..L PROVE WellAt(more, new, k)
  <2>. DEFINE p == old[k - 1]
  <2>1. new[k] = old[k] /\ new[k - 1] = p /\ more[k] = doc[k]
    BY <1>1
  <2>2. /\ old[k] \in Seq(Nat) /\ Len(old[k]) <= MaxDepth
        /\ \A i \in 1..Len(old[k]) : old[k][i] \in 1..L
        /\ doc[k][1] = "close" => p # <<>> /\ doc[p[Len(p)]][2] = doc[k][2]
        /\ doc[k][1] = "text" => old[k] # <<>>
    BY <1>3 DEF WellAt, L
  <2>3. \A i \in 1..Len(new[k]) : new[k][i] \in 1..Len(more)
    BY <1>1, <2>1, <2>2
  <2>4. p # <<>> => p[Len(p)] \in 1..L
    <3>1. SUFFICES ASSUME p # <<>> PROVE p[Len(p)] \in 1..L
      OBVIOUS
    <3>2. k - 1 \in 1..L
      BY <1>1, <1>4, <3>1
    <3>3. p \in Seq(Nat) /\ \A i \in 1..Len(p) : p[i] \in 1..L
      BY <1>3, <3>2 DEF WellAt, L
    <3>. HIDE DEF p
    <3>4. Len(p) \in 1..Len(p)
      BY <3>1, <3>3, EmptySeq
    <3>. QED BY <3>3, <3>4
  <2>5. more[k][1] = "close" => p # <<>> /\ more[p[Len(p)]][2] = more[k][2]
    <3>. HIDE DEF p
    <3>. QED BY <1>1, <2>1, <2>2, <2>4
  <2>. HIDE DEF p
  <2>. QED BY <2>1, <2>2, <2>3, <2>5 DEF WellAt
<1>9. WellAt(more, new, L + 1)
  <2>. DEFINE p == old[L]
  <2>1. new[(L + 1) - 1] = p /\ more[L + 1] = e
    BY <1>1
  <2>2. ASSUME e[1] = "close" PROVE p # <<>> /\ more[p[Len(p)]][2] = e[2]
    <3>1. Len(open) \in 1..Len(open) /\ Len(open) # 0 /\ e[2] = open[Len(open)]
      BY <1>7, <2>2, EmptySeq
    <3>2. Len(p) = Len(open) /\ p # <<>>
      BY <1>5, <3>1, EmptySeq
    <3>3. p[Len(p)] \in 1..L /\ doc[p[Len(p)]][2] = open[Len(open)]
      BY <1>5, <3>1, <3>2
    <3>. QED BY <1>1, <3>1, <3>2, <3>3
  <2>3. ASSUME e[1] = "text" PROVE new[L + 1] # <<>>
    <3>1. Len(new[L + 1]) # 0 /\ Len(<<>>) = 0
      BY <1>6, <2>3, EmptySeq
    <3>. QED BY <3>1
  <2>. HIDE DEF p
  <2>. QED BY <1>6, <2>1, <2>2, <2>3 DEF WellAt
<1>10. WellBegun(more)
  <2>1. \A k \in 1..Len(more) : k \in 1..L \/ k = L + 1
    BY <1>1
  <2>. QED BY <1>8, <1>9, <2>1 DEF WellBegun, new
<1>. QED BY <1>1, <1>2, <1>10 DEF Tree, more

\* What a well-nested beginning says of the end of its body.
LEMMA TreeEnd ==
    ASSUME NEW doc, NEW open, Tree(doc, open), NEW e \in Events
    PROVE  /\ doc \in Seq(Events) /\ Len(doc) \in Nat
           /\ open \in Seq(Names) /\ Len(open) \in Nat /\ Len(open) <= MaxDepth
           /\ Paths(doc)[Len(doc)] \in Seq(Nat) /\ Len(Paths(doc)[Len(doc)]) = Len(open)
           /\ \A i \in 1..Len(open) :
                /\ Paths(doc)[Len(doc)][i] \in 1..Len(doc)
                /\ Append(doc, e)[Paths(doc)[Len(doc)][i]][2] = open[i]
<1>1. /\ doc \in Seq(Events) /\ open \in Seq(Names) /\ Len(open) <= MaxDepth
      /\ LeavesOpen(doc, open)
  BY DEF Tree
<1>2. Len(doc) \in Nat /\ Len(open) \in Nat
  BY <1>1, LenProperties
<1>3. \A k \in 1..Len(doc) : Append(doc, e)[k] = doc[k]
  BY <1>1, <1>2
<1>. QED BY <1>1, <1>2, <1>3 DEF LeavesOpen

LEMMA TreeOpens ==
    ASSUME NEW doc, NEW open, Tree(doc, open), Len(open) < MaxDepth, NEW t \in Names
    PROVE  Tree(Append(doc, <<"open", t>>), Append(open, t))
<1>. DEFINE e == <<"open", t>>
            more == Append(doc, e)
            left == Append(open, t)
            p == Paths(doc)[Len(doc)]
            q == Paths(more)[Len(more)]
<1>1. e \in Events /\ e[1] = "open" /\ e[2] = t
  BY DEF Events
<1>. HIDE DEF e
<1>2. /\ doc \in Seq(Events) /\ Len(doc) \in Nat
      /\ open \in Seq(Names) /\ Len(open) \in Nat /\ Len(open) <= MaxDepth
      /\ p \in Seq(Nat) /\ Len(p) = Len(open)
      /\ \A i \in 1..Len(open) : p[i] \in 1..Len(doc) /\ more[p[i]][2] = open[i]
  BY <1>1, TreeEnd
<1>3. /\ Len(more) = Len(doc) + 1 /\ more[Len(more)] = e
      /\ q = Onward(more, Len(more), p)
  BY <1>1, <1>2, AppendPaths
<1>. HIDE DEF more, p, q
<1>4. q = Append(p, Len(more)) /\ Len(more) \in Nat
  BY <1>1, <1>2, <1>3 DEF Onward
<1>5. /\ left \in Seq(Names) /\ Len(left) = Len(open) + 1
      /\ \A i \in 1..Len(open) : left[i] = open[i]
      /\ left[Len(open) + 1] = t
  BY <1>2
<1>6. /\ q \in Seq(Nat) /\ Len(q) = Len(left)
      /\ \A i \in 1..Len(open) : q[i] = p[i]
      /\ q[Len(open) + 1] = Len(more)
  BY <1>2, <1>4, <1>5
<1>. HIDE DEF left
<1>7. ASSUME NEW i \in 1..Len(left) PROVE q[i] \in 1..Len(more) /\ more[q[i]][2] = left[i]
  <2>1. CASE i \in 1..Len(open)
    <3>1. q[i] = p[i] /\ left[i] = open[i]
      BY <1>5, <1>6, <2>1
    <3>2. p[i] \in 1..Len(doc) /\ more[p[i]][2] = open[i]
      BY <1>2, <2>1
    <3>3. p[i] \in 1..Len(more)
      BY <1>2, <1>3, <3>2
    <3>. QED BY <3>1, <3>2, <3>3
  <2>2. CASE i = Len(open) + 1
    <3>1. q[i] = Len(more) /\ left[i] = t
      BY <1>5, <1>6, <2>2
    <3>2. Len(more) \in 1..Len(more)
      BY <1>2, <1>3
    <3>3. more[Len(more)][2] = t
      BY <1>1, <1>3
    <3>. QED BY <3>1, <3>2, <3>3
  <2>3. i \in 1..Len(open) \/ i = Len(open) + 1
    BY <1>2, <1>5
  <2>. QED BY <2>1, <2>2, <2>3
<1>8. LeavesOpen(more, left)
  BY <1>6, <1>7 DEF LeavesOpen, q
<1>9. Len(left) <= MaxDepth
  BY <1>2, <1>5, ChapterAssumption
<1>. QED BY <1>1, <1>5, <1>8, <1>9, TreeGrows DEF more, e, left

\* An event that neither opens nor closes anything.
LEMMA TreeKeeps ==
    ASSUME NEW doc, NEW open, Tree(doc, open), NEW e \in Events, e[1] \notin {"open", "close"},
           e[1] = "text" => open # <<>>
    PROVE  Tree(Append(doc, e), open)
<1>. DEFINE more == Append(doc, e)
            p == Paths(doc)[Len(doc)]
            q == Paths(more)[Len(more)]
<1>1. /\ doc \in Seq(Events) /\ Len(doc) \in Nat
      /\ open \in Seq(Names) /\ Len(open) \in Nat /\ Len(open) <= MaxDepth
      /\ p \in Seq(Nat) /\ Len(p) = Len(open)
      /\ \A i \in 1..Len(open) : p[i] \in 1..Len(doc) /\ more[p[i]][2] = open[i]
  BY TreeEnd
<1>2. /\ Len(more) = Len(doc) + 1 /\ more[Len(more)] = e
      /\ q = Onward(more, Len(more), p)
  BY <1>1, AppendPaths
<1>. HIDE DEF more, p, q
<1>3. q = p
  BY <1>2 DEF Onward
<1>4. \A i \in 1..Len(open) : q[i] \in 1..Len(more) /\ more[q[i]][2] = open[i]
  BY <1>1, <1>2, <1>3
<1>5. LeavesOpen(more, open)
  BY <1>1, <1>3, <1>4 DEF LeavesOpen, q
<1>. QED BY <1>1, <1>5, TreeGrows DEF more

LEMMA TreeCloses ==
    ASSUME NEW doc, NEW open, Tree(doc, open), open # <<>>
    PROVE  Tree(Append(doc, <<"close", open[Len(open)]>>), SubSeq(open, 1, Len(open) - 1))
<1>. DEFINE e == <<"close", open[Len(open)]>>
            more == Append(doc, e)
            left == SubSeq(open, 1, Len(open) - 1)
            p == Paths(doc)[Len(doc)]
            q == Paths(more)[Len(more)]
<1>1. e \in Events /\ e[1] = "close" /\ e[2] = open[Len(open)]
  <2>1. open \in Seq(Names) /\ Len(open) \in 1..Len(open)
    BY EmptySeq DEF Tree
  <2>2. open[Len(open)] \in Names
    BY <2>1, ElementOfSeq
  <2>. QED BY <2>2 DEF Events
<1>. HIDE DEF e
<1>2. /\ doc \in Seq(Events) /\ Len(doc) \in Nat
      /\ open \in Seq(Names) /\ Len(open) \in Nat /\ Len(open) <= MaxDepth
      /\ p \in Seq(Nat) /\ Len(p) = Len(open)
      /\ \A i \in 1..Len(open) : p[i] \in 1..Len(doc) /\ more[p[i]][2] = open[i]
  BY <1>1, TreeEnd
<1>3. /\ Len(more) = Len(doc) + 1 /\ more[Len(more)] = e
      /\ q = Onward(more, Len(more), p)
  BY <1>1, <1>2, AppendPaths
<1>4. Len(open) # 0
  BY <1>2, EmptySeq
<1>. HIDE DEF more, p, q
<1>5. p # <<>>
  BY <1>2, <1>4, EmptySeq
<1>6. q = SubSeq(p, 1, Len(open) - 1)
  BY <1>1, <1>2, <1>3, <1>5 DEF Onward, Front
<1>7. /\ left \in Seq(Names) /\ Len(left) = Len(open) - 1
      /\ \A i \in 1..(Len(open) - 1) : left[i] = open[i]
  BY <1>2, <1>4, SubSeqProperties
<1>8. /\ q \in Seq(Nat) /\ Len(q) = Len(open) - 1
      /\ \A i \in 1..(Len(open) - 1) : q[i] = p[i]
  BY <1>2, <1>4, <1>6, SubSeqProperties
<1>. HIDE DEF left
<1>9. ASSUME NEW i \in 1..Len(left) PROVE q[i] \in 1..Len(more) /\ more[q[i]][2] = left[i]
  <2>1. i \in 1..(Len(open) - 1) /\ i \in 1..Len(open)
    BY <1>2, <1>7
  <2>2. q[i] = p[i] /\ left[i] = open[i]
    BY <1>7, <1>8, <2>1
  <2>3. p[i] \in 1..Len(doc) /\ more[p[i]][2] = open[i]
    BY <1>2, <2>1
  <2>4. p[i] \in 1..Len(more)
    BY <1>2, <1>3, <2>3
  <2>. QED BY <2>2, <2>3, <2>4
<1>10. LeavesOpen(more, left)
  BY <1>7, <1>8, <1>9 DEF LeavesOpen, q
<1>11. Len(left) <= MaxDepth
  BY <1>2, <1>7, ChapterAssumption
<1>. QED BY <1>1, <1>4, <1>5, <1>7, <1>10, <1>11, TreeGrows, EmptySeq DEF more, e, left

\* The end tags of the n innermost elements of open.
EndTags(open, n) == [i \in 1..n |-> <<"close", open[Len(open) - i + 1]>>]

LEMMA EndTagsAre ==
    ASSUME NEW open \in Seq(Names), NEW n \in 0..Len(open)
    PROVE  /\ EndTags(open, n) \in Seq(Events) /\ Len(EndTags(open, n)) = n
           /\ \A i \in 1..n : EndTags(open, n)[i] = <<"close", open[Len(open) - i + 1]>>
<1>1. Len(open) \in Nat /\ n \in Nat
  BY LenProperties
<1>2. ASSUME NEW i \in 1..n PROVE <<"close", open[Len(open) - i + 1]>> \in Events
  <2>1. Len(open) - i + 1 \in 1..Len(open)
    BY <1>1
  <2>2. open[Len(open) - i + 1] \in Names
    BY <2>1, ElementOfSeq
  <2>. QED BY <2>2 DEF Events
<1>. DEFINE s == EndTags(open, n)
<1>3. s \in [1..n -> Events]
  BY <1>2 DEF EndTags
<1>4. \A i \in 1..n : s[i] = <<"close", open[Len(open) - i + 1]>>
  BY DEF EndTags
<1>. HIDE DEF s
<1>5. s \in Seq(Events) /\ Len(s) = n
  BY <1>1, <1>3
<1>. QED BY <1>4, <1>5 DEF s

LEMMA TreeClosesSeveral ==
    ASSUME NEW doc, NEW open, Tree(doc, open), NEW m \in 0..Len(open)
    PROVE  Tree(doc \o EndTags(open, m), SubSeq(open, 1, Len(open) - m))
<1>. DEFINE L == Len(open)
            closed(n) == Tree(doc \o EndTags(open, n), SubSeq(open, 1, L - n))
            T == {n \in 0..L : ~closed(n)}
<1>0. doc \in Seq(Events) /\ open \in Seq(Names) /\ L \in Nat /\ Len(doc) \in Nat
  BY LenProperties DEF Tree
<1>1. SUFFICES ASSUME m \in T PROVE FALSE
  OBVIOUS
<1>2. PICK n \in T : \A k \in T : n <= k
  <2>. HIDE DEF T
  <2>1. T \in SUBSET Nat
    BY DEF T
  <2>. QED BY <1>1, <2>1, Smallest
<1>3. closed(0)
  <2>1. doc \o EndTags(open, 0) = doc
    <3>1. EndTags(open, 0) \in Seq(Events) /\ Len(EndTags(open, 0)) = 0
      BY <1>0, EndTagsAre
    <3>2. EndTags(open, 0) = <<>>
      BY <3>1, EmptySeq
    <3>. QED BY <1>0, <3>2, ConcatEmptySeq
  <2>2. SubSeq(open, 1, L - 0) = open
    <3>1. L - 0 = L
      BY <1>0
    <3>. QED BY <1>0, <3>1, SubSeqFull
  <2>. QED BY <2>1, <2>2
<1>4. n \in 0..L /\ ~closed(n) /\ n # 0
  BY <1>2, <1>3
<1>5. n - 1 \in 0..L /\ n - 1 \notin T
  BY <1>0, <1>2, <1>4
<1>6. closed(n - 1)
  BY <1>5
<1>. DEFINE d == doc \o EndTags(open, n - 1)
            o == SubSeq(open, 1, L - (n - 1))
<1>7. /\ o \in Seq(Names) /\ Len(o) = L - (n - 1) /\ Len(o) \in Nat \ {0}
      /\ \A i \in 1..Len(o) : o[i] = open[i]
  BY <1>0, <1>4, SubSeqProperties
<1>8. SubSeq(o, 1, Len(o) - 1) = SubSeq(open, 1, L - n)
  <2>1. Len(o) - 1 = L - n /\ Len(o) - 1 \in 0..Len(o) /\ L - n \in 0..L
    BY <1>0, <1>4, <1>7
  <2>. DEFINE u == SubSeq(o, 1, Len(o) - 1)
              v == SubSeq(open, 1, L - n)
  <2>2. /\ u \in Seq(Names) /\ Len(u) = L - n
        /\ \A i \in 1..(L - n) : u[i] = o[i]
    <3>. DEFINE l == Len(o) - 1
    <3>. HIDE DEF o
    <3>1. \A i \in 1..l : o[i] \in Names
      BY <1>7, ElementOfSeq
    <3>2. l \in Nat /\ l = L - n
      BY <1>7, <2>1
    <3>. HIDE DEF l, L
    <3>3. /\ SubSeq(o, 1, l) \in Seq(Names) /\ Len(SubSeq(o, 1, l)) = l
          /\ \A i \in 1..l : SubSeq(o, 1, l)[i] = o[i]
      BY <3>1, <3>2, SubSeqProperties
    <3>. QED BY <3>2, <3>3 DEF l
  <2>3. /\ v \in Seq(Names) /\ Len(v) = L - n
        /\ \A i \in 1..(L - n) : v[i] = open[i]
    BY <1>0, <2>1, SubSeqProperties
  <2>4. \A i \in 1..(L - n) : u[i] = v[i]
    <3>1. \A i \in 1..(L - n) : i \in 1..Len(o)
      BY <1>0, <1>4, <1>7
    <3>. HIDE DEF o, u, v
    <3>. QED BY <1>7, <2>2, <2>3, <3>1
  <2>. HIDE DEF u, v
  <2>5. u = v
    BY <2>2, <2>3, <2>4, SeqEqual
  <2>. QED BY <2>5 DEF u, v
<1>9. Append(d, <<"close", o[Len(o)]>>) = doc \o EndTags(open, n)
  <2>. DEFINE s == EndTags(open, n - 1)
              t == EndTags(open, n)
              e == <<"close", open[L - n + 1]>>
  <2>1. /\ s \in Seq(Events) /\ Len(s) = n - 1
        /\ \A i \in 1..(n - 1) : s[i] = <<"close", open[L - i + 1]>>
    BY <1>0, <1>5, EndTagsAre
  <2>2. /\ t \in Seq(Events) /\ Len(t) = n
        /\ \A i \in 1..n : t[i] = <<"close", open[L - i + 1]>>
    BY <1>0, <1>4, EndTagsAre
  <2>3. n \in 1..n /\ n \in Nat /\ t[n] = e /\ e \in Events
    <3>1. n \in 1..n /\ n \in Nat
      BY <1>4
    <3>2. t[n] = e
      BY <2>2, <3>1
    <3>. HIDE DEF t, e
    <3>3. t[n] \in Events
      BY <2>2, <3>1, ElementOfSeq
    <3>. QED BY <3>1, <3>2, <3>3
  <2>4. o[Len(o)] = open[L - n + 1]
    <3>1. Len(o) \in 1..Len(o) /\ Len(o) = L - n + 1
      BY <1>0, <1>4, <1>7
    <3>. HIDE DEF o
    <3>. QED BY <1>7, <3>1
  <2>. HIDE DEF s, t, e
  <2>5. t = Append(s, e)
    <3>1. Append(s, e) \in Seq(Events) /\ Len(Append(s, e)) = n
      BY <2>1, <2>3
    <3>2. \A i \in 1..n : Append(s, e)[i] = t[i]
      <4>1. \A i \in 1..(n - 1) : Append(s, e)[i] = s[i]
        BY <2>1
      <4>2. Append(s, e)[n] = e
        BY <2>1, <2>3
      <4>3. \A i \in 1..n : i \in 1..(n - 1) \/ i = n
        BY <2>3
      <4>4. \A i \in 1..(n - 1) : s[i] = t[i]
        <5>. TAKE i \in 1..(n - 1)
        <5>1. i \in 1..n
          BY <2>3
        <5>. QED BY <2>1, <2>2, <5>1
      <4>. QED BY <2>3, <4>1, <4>2, <4>3, <4>4
    <3>. QED BY <2>2, <3>1, <3>2, SeqEqual
  <2>6. doc \o Append(s, e) = Append(doc \o s, e)
    BY <1>0, <2>1, <2>3
  <2>7. Append(d, <<"close", open[L - n + 1]>>) = Append(doc \o s, e)
    BY DEF s, e
  <2>. HIDE DEF d, o
  <2>8. Append(d, <<"close", o[Len(o)]>>) = doc \o t
    BY <2>4, <2>5, <2>6, <2>7
  <2>. QED BY <2>8 DEF t
<1>10. o # <<>>
  BY <1>7, EmptySeq
<1>11. Tree(d, o)
  BY <1>6
<1>. HIDE DEF d, o
<1>12. Tree(Append(d, <<"close", o[Len(o)]>>), SubSeq(o, 1, Len(o) - 1))
  BY <1>10, <1>11, TreeCloses
<1>13. closed(n)
  BY <1>8, <1>9, <1>12
<1>. QED BY <1>4, <1>13

----------------------------------------------------------------------------
(* The normalizer.                                                         *)

\* The inductive invariant: what has been emitted is well-nested so far, and what it leaves
\* open is what stands on the stack.
Inv ==
    /\ Tree(out, stack)
    /\ elements \in 0..MaxElements /\ skip \in 0..MaxSkip /\ repeated \in BOOLEAN

\* _implicit_close() stops somewhere.
LEMMA ImpliedBounds ==
    ASSUME stack \in Seq(Names), NEW tag
    PROVE  Implied(tag) \in 0..Len(stack)
<1>. DEFINE L == Len(stack)
            T == {n \in 0..L : n < L => ~OmitsEnd(Inner(n + 1), tag)}
            stops(n) == /\ \A i \in 1..n : OmitsEnd(Inner(i), tag)
                        /\ n < L => ~OmitsEnd(Inner(n + 1), tag)
<1>1. L \in Nat
  BY LenProperties
<1>. HIDE DEF L
<1>2. L \in T
  BY <1>1
<1>3. PICK n \in T : \A k \in T : n <= k
  <2>1. T \in SUBSET Nat
    BY <1>1
  <2>. HIDE DEF T
  <2>. QED BY <1>2, <2>1, Smallest
<1>4. stops(n)
  <2>1. ASSUME NEW i \in 1..n PROVE OmitsEnd(Inner(i), tag)
    <3>1. n \in 0..L /\ i - 1 \in 0..L /\ i - 1 < L /\ (i - 1) + 1 = i /\ ~(n <= i - 1)
      BY <1>1
    <3>2. i - 1 \notin T
      <4>. HIDE DEF T
      <4>. QED BY <1>3, <3>1
    <3>. QED BY <3>1, <3>2
  <2>. QED BY <1>3, <2>1
<1>5. n \in 0..L
  BY <1>3
<1>6. Implied(tag) = CHOOSE k \in 0..L : stops(k)
  BY Zenon DEF Implied, L
<1>. HIDE DEF stops
<1>. QED BY <1>4, <1>5, <1>6 DEF L

LEMMA TreeOfState ==
    ASSUME Tree(out, stack), NEW n \in 0..Len(stack)
    PROVE  /\ Closing(n) \in Seq(Events) /\ Tree(out \o Closing(n), Left(n))
           /\ \A e \in Events : out \o Append(Closing(n), e) = Append(out \o Closing(n), e)
           /\ Len(stack) \in Nat /\ Left(n) \in Seq(Names) /\ Len(Left(n)) = Len(stack) - n
<1>1. out \in Seq(Events) /\ stack \in Seq(Names) /\ Len(stack) \in Nat
  BY LenProperties DEF Tree
<1>2. Closing(n) = EndTags(stack, n)
  BY DEF Closing, EndTags, Inner
<1>3. EndTags(stack, n) \in Seq(Events)
  BY <1>1, EndTagsAre
<1>4. Tree(out \o EndTags(stack, n), Left(n))
  BY TreeClosesSeveral DEF Left
<1>5. ASSUME NEW s \in Seq(Events), NEW e \in Events
      PROVE  out \o Append(s, e) = Append(out \o s, e)
  BY <1>1
<1>6. Left(n) \in Seq(Names) /\ Len(Left(n)) = Len(stack) - n
  <2>1. \A i \in 1..(Len(stack) - n) : stack[i] \in Names
    BY <1>1, ElementOfSeq
  <2>2. Len(stack) - n \in Nat
    BY <1>1
  <2>. QED BY <1>1, <2>1, <2>2, SubSeqProperties DEF Left
<1>. QED BY <1>1, <1>2, <1>3, <1>4, <1>5, <1>6

LEMMA InvStartTag ==
    ASSUME Inv, NEW tag \in Tags, NEW attrs, StartTag(tag, attrs)
    PROVE  Inv'
<1>. DEFINE n == Implied(tag)
            e == <<"open", tag>>
<1>1. Tree(out, stack) /\ n \in 0..Len(stack)
  BY ImpliedBounds DEF Inv, Tree
<1>2. elements' \in 0..MaxElements /\ skip' \in 0..MaxSkip /\ repeated' \in BOOLEAN
  <2>1. elements' = elements + 1 /\ skip' = skip /\ elements < MaxElements
    BY DEF StartTag, Counted
  <2>2. repeated' \in {repeated, repeated \/ Repeats(tag, attrs)}
    BY DEF StartTag
  <2>3. elements \in 0..MaxElements /\ skip \in 0..MaxSkip /\ MaxElements \in Nat
    BY ChapterAssumption DEF Inv
  <2>4. elements' \in 0..MaxElements /\ skip' \in 0..MaxSkip
    BY <2>1, <2>3
  <2>5. repeated \in BOOLEAN
    BY DEF Inv
  <2>6. repeated' \in BOOLEAN
    BY <2>2, <2>5, Zenon
  <2>. QED BY <2>4, <2>6
<1>3. tag \in Names /\ e \in Events
  BY DEF Names, Events
<1>4. IF Len(stack) - n >= MaxDepth
      THEN out' = out \o Closing(n) /\ stack' = Left(n)
      ELSE out' = out \o Append(Closing(n), e) /\ stack' = Append(Left(n), tag)
  BY DEF StartTag, Emit
<1>. HIDE DEF n
<1>5. /\ Tree(out \o Closing(n), Left(n)) /\ Len(stack) \in Nat
      /\ Len(Left(n)) = Len(stack) - n
      /\ out \o Append(Closing(n), e) = Append(out \o Closing(n), e)
  BY <1>1, <1>3, TreeOfState
<1>6. CASE Len(stack) - n >= MaxDepth
  BY <1>2, <1>4, <1>5, <1>6 DEF Inv
<1>7. CASE ~(Len(stack) - n >= MaxDepth)
  <2>1. Len(Left(n)) < MaxDepth
    BY <1>1, <1>5, <1>7, ChapterAssumption
  <2>2. Tree(Append(out \o Closing(n), e), Append(Left(n), tag))
    BY <1>3, <1>5, <2>1, TreeOpens
  <2>. QED BY <1>2, <1>4, <1>5, <1>7, <2>2 DEF Inv
<1>. QED BY <1>6, <1>7

LEMMA InvStartEndTag ==
    ASSUME Inv, NEW tag \in Tags, NEW attrs, StartEndTag(tag, attrs)
    PROVE  Inv'
<1>. DEFINE n == Implied(tag)
            e == <<"void", tag>>
<1>1. Tree(out, stack) /\ n \in 0..Len(stack)
  BY ImpliedBounds DEF Inv, Tree
<1>2. elements' \in 0..MaxElements /\ skip' \in 0..MaxSkip /\ repeated' \in BOOLEAN
  <2>1. elements' = elements + 1 /\ skip' = skip /\ elements < MaxElements
    BY DEF StartEndTag, Counted
  <2>2. repeated' \in {repeated, repeated \/ Repeats(tag, attrs)}
    BY DEF StartEndTag
  <2>3. elements \in 0..MaxElements /\ skip \in 0..MaxSkip /\ MaxElements \in Nat
    BY ChapterAssumption DEF Inv
  <2>4. elements' \in 0..MaxElements /\ skip' \in 0..MaxSkip
    BY <2>1, <2>3
  <2>5. repeated \in BOOLEAN
    BY DEF Inv
  <2>6. repeated' \in BOOLEAN
    BY <2>2, <2>5, Zenon
  <2>. QED BY <2>4, <2>6
<1>3. e \in Events /\ e[1] \notin {"open", "close", "text"}
  BY DEF Names, Events
<1>4. out' = out \o Append(Closing(n), e) /\ stack' = Left(n)
  BY DEF StartEndTag, Emit
<1>. HIDE DEF n, e
<1>5. /\ Tree(out \o Closing(n), Left(n))
      /\ out \o Append(Closing(n), e) = Append(out \o Closing(n), e)
  BY <1>1, <1>3, TreeOfState
<1>6. Tree(Append(out \o Closing(n), e), Left(n))
  BY <1>3, <1>5, TreeKeeps
<1>. QED BY <1>2, <1>4, <1>5, <1>6 DEF Inv

LEMMA InvEndTag ==
    ASSUME Inv, NEW tag \in Tags, EndTag(tag)
    PROVE  Inv'
<1>1. PICK n \in 1..Len(stack) : out' = out \o Closing(n) /\ stack' = Left(n)
  BY DEF EndTag, Emit
<1>2. Tree(out, stack)
  BY DEF Inv
<1>3. n \in 0..Len(stack)
  OBVIOUS
<1>4. Tree(out \o Closing(n), Left(n))
  BY <1>2, <1>3, TreeOfState
<1>. QED BY <1>1, <1>4 DEF Inv, EndTag

LEMMA InvData ==
    ASSUME Inv, Data
    PROVE  Inv'
<1>. DEFINE text == <<"text">>
            opens == <<"open", "p">>
            closes == <<"close", "p">>
            none == <<>>
<1>1. /\ text \in Events /\ opens \in Events /\ closes \in Events
      /\ text[1] \notin {"open", "close"} /\ "p" \in Names
  BY DEF Events, Names
<1>2. Tree(out, stack) /\ out \in Seq(Events)
  BY DEF Inv, Tree
<1>3. UNCHANGED <<stack, skip, elements, repeated>>
  BY DEF Data
<1>4. CASE stack # none
  <2>1. out' = out \o <<text>>
    BY <1>4 DEF Data, Emit
  <2>2. out \o <<text>> = Append(out, text)
    <3>. HIDE DEF text
    <3>. QED BY <1>1, <1>2
  <2>. HIDE DEF text
  <2>3. Tree(Append(out, text), stack)
    BY <1>1, <1>2, <1>4, TreeKeeps
  <2>. QED BY <1>3, <2>1, <2>2, <2>3 DEF Inv
<1>5. CASE stack = none
  <2>1. out' = out \o <<opens, text, closes>>
    BY <1>5 DEF Data, Emit
  <2>2. out \o <<opens, text, closes>> = Append(Append(Append(out, opens), text), closes)
    <3>. HIDE DEF text, opens, closes
    <3>. QED BY <1>1, <1>2
  <2>3. Len(none) < MaxDepth /\ none \in Seq(Names)
    BY ChapterAssumption, EmptySeq
  <2>. DEFINE one == Append(none, "p")
  <2>4. one \in Seq(Names) /\ Len(one) = 1 /\ one[1] = "p" /\ SubSeq(one, 1, 1 - 1) = none
    BY <1>1, SubSeqEmpty
  <2>5. Tree(Append(out, opens), one)
    <3>. HIDE DEF none
    <3>. QED BY <1>1, <1>2, <1>5, <2>3, TreeOpens
  <2>. HIDE DEF text, one, opens
  <2>6. Tree(Append(Append(out, opens), text), one)
    <3>1. Len(one) # Len(<<>>)
      BY <2>4
    <3>. QED BY <1>1, <2>5, <3>1, TreeKeeps
  <2>7. one # <<>> /\ closes = <<"close", one[Len(one)]>>
    <3>1. one # <<>>
      <4>1. Len(<<>>) = 0
        OBVIOUS
      <4>. QED BY <2>4, <4>1
    <3>2. one[Len(one)] = "p"
      BY <2>4
    <3>. QED BY <3>1, <3>2
  <2>. HIDE DEF closes
  <2>8. Tree(Append(Append(Append(out, opens), text), closes), SubSeq(one, 1, Len(one) - 1))
    BY <2>6, <2>7, TreeCloses
  <2>9. Tree(out', stack')
    BY <1>3, <1>5, <2>1, <2>2, <2>4, <2>8
  <2>. QED BY <1>3, <2>9 DEF Inv
<1>. QED BY <1>4, <1>5

THEOREM Invariance == Spec => []Inv
<1>1. Init => Inv
  <2>. SUFFICES ASSUME Init PROVE Inv
    OBVIOUS
  <2>1. Tree(out, stack)
    BY TreeEmpty DEF Init
  <2>2. elements \in 0..MaxElements /\ skip \in 0..MaxSkip
    BY ChapterAssumption DEF Init
  <2>3. repeated \in BOOLEAN
    BY DEF Init
  <2>. QED BY <2>1, <2>2, <2>3 DEF Inv
<1>2. Inv /\ [Next]_vars => Inv'
  <2>. SUFFICES ASSUME Inv, [Next]_vars PROVE Inv'
    OBVIOUS
  <2>1. CASE StartHead
    BY <2>1, ChapterAssumption DEF Inv, StartHead
  <2>2. CASE EndHead
    BY <2>2, ChapterAssumption DEF Inv, EndHead
  <2>3. CASE Data
    BY <2>3, InvData
  <2>4. ASSUME NEW tag \in Tags,
               (\E attrs \in AttrLists : StartTag(tag, attrs) \/ StartEndTag(tag, attrs)) \/ EndTag(tag)
        PROVE  Inv'
    BY <2>4, InvStartTag, InvStartEndTag, InvEndTag
  <2>5. CASE UNCHANGED vars
    BY <2>5 DEF vars, Inv
  <2>. QED BY <2>1, <2>2, <2>3, <2>4, <2>5 DEF Next
<1>. QED BY <1>1, <1>2, PTL DEF Spec

LEMMA DocumentTree ==
    ASSUME Inv
    PROVE  /\ Tree(Document, <<>>)
           /\ Document \in Seq(Events) /\ Len(Document) \in Nat
           /\ DOMAIN Document = 1..Len(Document)
<1>1. Tree(out, stack) /\ Len(stack) \in Nat
  BY LenProperties DEF Inv, Tree
<1>2. Len(stack) \in 0..Len(stack) /\ Len(stack) - Len(stack) = 0
  BY <1>1
<1>3. Tree(out \o Closing(Len(stack)), Left(Len(stack)))
  BY <1>1, <1>2, TreeOfState
<1>4. SubSeq(stack, 1, 0) = <<>>
  BY SubSeqEmpty
<1>5. Tree(Document, <<>>)
  BY <1>2, <1>3, <1>4 DEF Document, Left
<1>. QED BY <1>5, LenProperties DEF Tree

\* However a document leaves out or misnests its tags and wherever it ends, the body that
\* _XHTMLNormalizer makes of it is well-nested and within _MAX_HTML_DEPTH, so that
\* sanitize_chapter() renders all of it (if it is parsed: see WellFormed).
THEOREM BodiesAreWellNested == Spec => []WellNested
<1>1. Inv => WellNested
  <2>. SUFFICES ASSUME Inv PROVE WellNested
    OBVIOUS
  <2>. DEFINE doc == Document
              path == Paths(doc)
              none == <<>>
  <2>1. /\ Tree(doc, none) /\ DOMAIN doc = 1..Len(doc)
        /\ none \in Seq(Nat) /\ Len(none) = 0
    BY DocumentTree
  <2>. HIDE DEF doc, none
  <2>2. path[Len(doc)] = <<>>
    <3>1. path[Len(doc)] \in Seq(Nat) /\ Len(path[Len(doc)]) = 0
      BY <2>1 DEF Tree, LeavesOpen
    <3>. HIDE DEF path
    <3>. QED BY <3>1, EmptySeq
  <2>3. \A k \in DOMAIN doc :
            /\ Len(path[k]) <= MaxDepth
            /\ doc[k][1] = "close" => path[k - 1] # <<>> /\ doc[Last(path[k - 1])][2] = doc[k][2]
    <3>. TAKE k \in DOMAIN doc
    <3>1. WellAt(doc, path, k)
      BY <2>1 DEF Tree, WellBegun
    <3>. HIDE DEF path
    <3>. QED BY <3>1 DEF WellAt, Last
  <2>. QED BY <2>2, <2>3 DEF WellNested, Inv, doc
<1>. QED BY <1>1, Invariance, PTL

----------------------------------------------------------------------------
(* The ancestors of an event.                                              *)

LEMMA PrefixSame ==
    ASSUME NEW p \in Seq(Nat), NEW q \in Seq(Nat), NEW n \in Nat, n <= Len(p), n <= Len(q),
           \A i \in 1..n : p[i] = q[i]
    PROVE  SubSeq(p, 1, n) = SubSeq(q, 1, n)
<1>. DEFINE u == SubSeq(p, 1, n)
            v == SubSeq(q, 1, n)
<1>1. \A i \in 1..n : p[i] \in Nat /\ q[i] \in Nat
  <2>1. \A i \in 1..n : i \in 1..Len(p) /\ i \in 1..Len(q)
    BY LenProperties
  <2>. QED BY <2>1, ElementOfSeq
<1>2. u \in Seq(Nat) /\ Len(u) = n /\ \A i \in 1..n : u[i] = p[i]
  BY <1>1, SubSeqProperties
<1>3. v \in Seq(Nat) /\ Len(v) = n /\ \A i \in 1..n : v[i] = q[i]
  BY <1>1, SubSeqProperties
<1>. HIDE DEF u, v
<1>4. u = v
  BY <1>2, <1>3, SeqEqual
<1>. QED BY <1>4 DEF u, v

\* The elements open after event k are there in the order in which they began, each with the
\* elements open at its own beginning.
Ancestors(doc, path, k) ==
    /\ path[k] \in Seq(Nat)
    /\ \A i \in 1..Len(path[k]) :
        /\ path[k][i] \in 1..k /\ doc[path[k][i]][1] = "open"
        /\ path[path[k][i]] = SubSeq(path[k], 1, i)
    /\ \A i, j \in 1..Len(path[k]) : i < j => path[k][i] < path[k][j]

LEMMA AncestorsStep ==
    ASSUME NEW doc, NEW path, NEW k \in Nat \ {0}, Ancestors(doc, path, k - 1),
           path[k] = Onward(doc, k, path[k - 1])
    PROVE  Ancestors(doc, path, k)
<1>. DEFINE p == path[k - 1]
            q == path[k]
<1>1. /\ p \in Seq(Nat) /\ Len(p) \in Nat
      /\ \A i \in 1..Len(p) : /\ p[i] \in 1..(k - 1) /\ doc[p[i]][1] = "open"
                              /\ path[p[i]] = SubSeq(p, 1, i)
      /\ \A i, j \in 1..Len(p) : i < j => p[i] < p[j]
  BY LenProperties DEF Ancestors
<1>2. q = Onward(doc, k, p)
  OBVIOUS
<1>. HIDE DEF p
<1>3. CASE doc[k][1] = "open"
  <2>1. q = Append(p, k)
    BY <1>2, <1>3 DEF Onward
  <2>2. /\ q \in Seq(Nat) /\ Len(q) = Len(p) + 1 /\ q[Len(p) + 1] = k
        /\ \A i \in 1..Len(p) : q[i] = p[i]
    BY <1>1, <2>1
  <2>. HIDE DEF q
  <2>3. ASSUME NEW i \in 1..Len(q)
        PROVE  q[i] \in 1..k /\ doc[q[i]][1] = "open" /\ path[q[i]] = SubSeq(q, 1, i)
    <3>1. CASE i \in 1..Len(p)
      <4>1. SubSeq(p, 1, i) = SubSeq(q, 1, i)
        <5>1. i \in Nat /\ i <= Len(p) /\ i <= Len(q) /\ \A j \in 1..i : j \in 1..Len(p)
          BY <1>1, <2>2, <3>1
        <5>. QED BY <1>1, <2>2, <5>1, PrefixSame
      <4>2. q[i] = p[i] /\ p[i] \in 1..(k - 1)
        BY <1>1, <2>2, <3>1
      <4>3. doc[p[i]][1] = "open" /\ path[p[i]] = SubSeq(p, 1, i)
        BY <1>1, <3>1
      <4>4. q[i] \in 1..k
        BY <4>2
      <4>. QED BY <4>1, <4>2, <4>3, <4>4
    <3>2. CASE i = Len(p) + 1
      <4>1. q[i] = k /\ i = Len(q)
        BY <2>2, <3>2
      <4>2. SubSeq(q, 1, i) = q
        BY <2>2, <4>1, SubSeqFull
      <4>. QED BY <1>3, <4>1, <4>2 DEF q
    <3>. QED BY <1>1, <2>2, <3>1, <3>2
  <2>4. ASSUME NEW i \in 1..Len(q), NEW j \in 1..Len(q), i < j PROVE q[i] < q[j]
    <3>1. i \in 1..Len(p) /\ q[i] = p[i] /\ p[i] \in 1..(k - 1)
      <4>1. i \in 1..Len(p)
        BY <1>1, <2>2, <2>4
      <4>. QED BY <1>1, <2>2, <4>1
    <3>2. CASE j \in 1..Len(p)
      BY <1>1, <2>2, <2>4, <3>1, <3>2
    <3>3. CASE j = Len(p) + 1
      BY <2>2, <3>1, <3>3
    <3>. QED BY <1>1, <2>2, <3>2, <3>3
  <2>. QED BY <2>2, <2>3, <2>4 DEF Ancestors, q
<1>4. CASE doc[k][1] # "open"
  <2>1. PICK m \in 0..Len(p) : q = SubSeq(p, 1, m)
    <3>1. CASE doc[k][1] = "close" /\ p # <<>>
      <4>1. q = SubSeq(p, 1, Len(p) - 1)
        BY <1>2, <1>4, <3>1 DEF Onward, Front
      <4>2. Len(p) - 1 \in 0..Len(p)
        BY <1>1, <3>1, EmptySeq
      <4>. QED BY <4>1, <4>2
    <3>2. CASE ~(doc[k][1] = "close" /\ p # <<>>)
      <4>1. q = p
        BY <1>2, <1>4, <3>2 DEF Onward
      <4>2. SubSeq(p, 1, Len(p)) = p /\ Len(p) \in 0..Len(p)
        BY <1>1, SubSeqFull
      <4>. QED BY <4>1, <4>2
    <3>. QED BY <3>1, <3>2
  <2>2. q \in Seq(Nat) /\ Len(q) = m /\ \A i \in 1..m : q[i] = p[i]
    <3>1. \A i \in 1..m : p[i] \in Nat
      BY <1>1, ElementOfSeq
    <3>. QED BY <1>1, <2>1, <3>1, SubSeqProperties
  <2>. HIDE DEF q
  <2>3. ASSUME NEW i \in 1..Len(q)
        PROVE  q[i] \in 1..k /\ doc[q[i]][1] = "open" /\ path[q[i]] = SubSeq(q, 1, i)
    <3>1. i \in 1..Len(p) /\ i \in Nat /\ i <= Len(p) /\ i <= Len(q) /\ \A j \in 1..i : j \in 1..m
      BY <1>1, <2>2
    <3>2. SubSeq(p, 1, i) = SubSeq(q, 1, i)
      BY <1>1, <2>2, <3>1, PrefixSame
    <3>3. q[i] = p[i] /\ p[i] \in 1..(k - 1)
      BY <1>1, <2>2, <3>1
    <3>4. doc[p[i]][1] = "open" /\ path[p[i]] = SubSeq(p, 1, i)
      BY <1>1, <3>1
    <3>5. q[i] \in 1..k
      BY <3>3
    <3>. QED BY <3>2, <3>3, <3>4, <3>5
  <2>4. ASSUME NEW i \in 1..Len(q), NEW j \in 1..Len(q), i < j PROVE q[i] < q[j]
    <3>1. i \in 1..Len(p) /\ j \in 1..Len(p) /\ q[i] = p[i] /\ q[j] = p[j]
      BY <1>1, <2>2
    <3>. QED BY <1>1, <2>4, <3>1
  <2>. QED BY <2>2, <2>3, <2>4 DEF Ancestors, q
<1>. QED BY <1>3, <1>4

LEMMA Ancestry ==
    ASSUME NEW doc, Len(doc) \in Nat, NEW k \in 0..Len(doc)
    PROVE  Ancestors(doc, Paths(doc), k)
<1>. DEFINE T == {i \in 0..Len(doc) : ~Ancestors(doc, Paths(doc), i)}
<1>1. SUFFICES ASSUME k \in T PROVE FALSE
  OBVIOUS
<1>2. PICK n \in T : \A i \in T : n <= i
  <2>. HIDE DEF T
  <2>1. T \in SUBSET Nat
    BY DEF T
  <2>. QED BY <1>1, <2>1, Smallest
<1>3. n # 0
  <2>1. Paths(doc)[0] = <<>> /\ <<>> \in Seq(Nat) /\ Len(<<>>) = 0
    BY PathsStep
  <2>2. Ancestors(doc, Paths(doc), 0)
    BY <2>1 DEF Ancestors
  <2>. QED BY <1>2, <2>2
<1>4. n \in Nat \ {0} /\ n \in 1..Len(doc) /\ n - 1 \in 0..Len(doc) /\ n - 1 \notin T
  BY <1>2, <1>3
<1>5. Ancestors(doc, Paths(doc), n - 1)
  BY <1>4
<1>6. Ancestors(doc, Paths(doc), n)
  <2>1. Paths(doc)[n] = Onward(doc, n, Paths(doc)[n - 1])
    BY <1>4, PathsStep
  <2>. HIDE DEF T
  <2>. QED BY <1>4, <1>5, <2>1, AncestorsStep
<1>. QED BY <1>2, <1>6

\* The ancestors of an ancestor are ancestors, and they stand in the same order.
Line(doc, path, k, p) ==
    /\ p \in Seq(Nat) /\ Len(p) \in Nat
    /\ \A e : e \in ToSet(p) <=> \E i \in 1..Len(p) : e = p[i]
    /\ \A i \in 1..Len(p) :
        /\ p[i] \in 1..k /\ doc[p[i]][1] = "open"
        /\ path[p[i]] \in Seq(Nat) /\ Len(path[p[i]]) = i
        /\ \A j \in 1..i : path[p[i]][j] = p[j]
        /\ \A e : e \in ToSet(path[p[i]]) <=> \E j \in 1..i : e = p[j]
        /\ path[p[i] - 1] \in Seq(Nat) /\ Len(path[p[i] - 1]) = i - 1
    /\ \A i, j \in 1..Len(p) : i < j => p[i] < p[j]

LEMMA AncestorOf ==
    ASSUME NEW doc, Len(doc) \in Nat, NEW k \in 1..Len(doc)
    PROVE  Line(doc, Paths(doc), k, Paths(doc)[k])
<1>. DEFINE path == Paths(doc)
            p == path[k]
<1>1. Ancestors(doc, path, k)
  <2>1. k \in 0..Len(doc)
    OBVIOUS
  <2>. QED BY <2>1, Ancestry
<1>2. /\ p \in Seq(Nat) /\ Len(p) \in Nat /\ DOMAIN p = 1..Len(p)
      /\ \A i \in 1..Len(p) : /\ p[i] \in 1..k /\ doc[p[i]][1] = "open"
                              /\ path[p[i]] = SubSeq(p, 1, i)
      /\ \A i, j \in 1..Len(p) : i < j => p[i] < p[j]
  BY <1>1, LenProperties DEF Ancestors
<1>3. ASSUME NEW i \in 1..Len(p)
      PROVE  /\ path[p[i]] \in Seq(Nat) /\ Len(path[p[i]]) = i
             /\ \A j \in 1..i : path[p[i]][j] = p[j]
             /\ \A e : e \in ToSet(path[p[i]]) <=> \E j \in 1..i : e = p[j]
             /\ path[p[i] - 1] \in Seq(Nat) /\ Len(path[p[i] - 1]) = i - 1
  <2>. DEFINE e == p[i]
              q == path[e]
              r == path[e - 1]
  <2>1. q = SubSeq(p, 1, i) /\ e \in 1..k /\ doc[e][1] = "open"
    BY <1>2
  <2>2. q = Onward(doc, e, r) /\ r \in Seq(Nat)
    <3>1. e \in 1..Len(doc) /\ e - 1 \in 0..Len(doc)
      <4>. HIDE DEF e
      <4>. QED BY <2>1
    <3>2. r \in Seq(Nat)
      <4>. HIDE DEF e
      <4>. QED BY <3>1, Ancestry DEF Ancestors
    <3>. HIDE DEF e
    <3>. QED BY <3>1, <3>2, PathsStep
  <2>. HIDE DEF p, q, r, e
  <2>3. q \in Seq(Nat) /\ Len(q) = i /\ \A j \in 1..i : q[j] = p[j]
    <3>1. \A j \in 1..i : p[j] \in Nat
      BY <1>2, ElementOfSeq
    <3>. QED BY <1>2, <2>1, <3>1, SubSeqProperties
  <2>4. q = Append(r, e) /\ Len(r) \in Nat
    BY <2>1, <2>2, LenProperties DEF Onward
  <2>5. Len(r) = i - 1
    <3>1. Len(q) = Len(r) + 1
      BY <2>2, <2>4
    <3>. QED BY <2>3, <2>4, <3>1
  <2>6. \A x : x \in ToSet(q) <=> \E j \in 1..i : x = p[j]
    <3>1. DOMAIN q = 1..i
      BY <2>3, LenProperties
    <3>. QED BY <2>3, <3>1 DEF ToSet
  <2>. QED BY <2>2, <2>3, <2>5, <2>6 DEF q, r, e
<1>4. \A e : e \in ToSet(p) <=> \E i \in 1..Len(p) : e = p[i]
  BY <1>2 DEF ToSet
<1>. HIDE DEF p
<1>5. Line(doc, path, k, p)
  BY <1>2, <1>3, <1>4, Zenon DEF Line
<1>. QED BY <1>5 DEF p

LEMMA WithinTransitive ==
    ASSUME NEW doc, Len(doc) \in Nat, NEW t \in 1..Len(doc), NEW k, NEW b,
           Within(Paths(doc), t, k), Within(Paths(doc), k, b)
    PROVE  Within(Paths(doc), t, b)
<1>1. CASE t = k
  BY <1>1
<1>2. CASE k = b
  BY <1>2
<1>3. CASE k \in ToSet(Paths(doc)[t]) /\ b \in ToSet(Paths(doc)[k])
  <2>. DEFINE path == Paths(doc)
              p == path[t]
  <2>1. Line(doc, path, t, p)
    BY AncestorOf
  <2>. HIDE DEF p, path
  <2>2. PICK i \in 1..Len(p) : k = p[i]
    BY <1>3, <2>1 DEF Line, p, path
  <2>3. PICK j \in 1..i : b = p[j]
    <3>1. \A e : e \in ToSet(path[p[i]]) <=> \E j \in 1..i : e = p[j]
      BY <2>1 DEF Line
    <3>2. b \in ToSet(path[p[i]])
      BY <1>3, <2>2 DEF path
    <3>. QED BY <3>1, <3>2
  <2>4. j \in 1..Len(p)
    BY <2>1 DEF Line
  <2>5. b \in ToSet(p)
    BY <2>1, <2>3, <2>4 DEF Line
  <2>. QED BY <2>5 DEF Within, p, path
<1>. QED BY <1>1, <1>2, <1>3 DEF Within

\* A block shows the texts of its elements, but for those in dropped elements.
LEMMA BlockShows ==
    ASSUME NEW doc, Len(doc) \in Nat, DOMAIN doc = 1..Len(doc), NEW t \in Texts(doc), NEW b,
           Within(Paths(doc), t, b), ~Hidden(doc, Paths(doc), t)
    PROVE  t \in Shown(doc, Paths(doc), b)
<1>. DEFINE path == Paths(doc)
<1>1. doc[t] = <<"text">> /\ t \notin Elements(doc)
  BY DEF Texts, Elements
<1>2. ASSUME NEW j \in Between(path, t, b) \cap Elements(doc) PROVE doc[j][2] \notin Dropped
  <2>1. j \in ToSet(path[t])
    BY <1>1 DEF Between
  <2>. QED BY <2>1 DEF Hidden
<1>. QED BY <1>2 DEF Shown, Kept

\* Wherever a link to an id leads, the block there shows every text of the element with that
\* id that is not dropped on purpose (the anchors of sanitize_chapter).
THEOREM LinksFindTheirText == Spec => []AnchorsHit
<1>1. Inv => AnchorsHit
  <2>. SUFFICES ASSUME Inv PROVE AnchorsHit
    OBVIOUS
  <2>. DEFINE doc == Document
              path == Paths(doc)
  <2>1. Len(doc) \in Nat /\ DOMAIN doc = 1..Len(doc)
    BY DocumentTree
  <2>. HIDE DEF doc
  <2>2. ASSUME NEW group \in Chapters(doc, path)
        PROVE  LET anchors == Anchors(doc, path, group)
                   blocks == InOrder(Blocks(doc, path, group))
               IN  \A k \in DOMAIN anchors :
                    /\ anchors[k] \in DOMAIN blocks
                    /\ \A t \in Texts(doc) : Within(path, t, k) /\ ~Hidden(doc, path, t)
                            => t \in Shown(doc, path, blocks[anchors[k]])
    <3>. DEFINE anchors == Anchors(doc, path, group)
                blocks == InOrder(Blocks(doc, path, group))
                hits(k) == {m \in DOMAIN blocks : Within(path, k, blocks[m])}
                linked == {e \in Elements(doc) : hits(e) # {}}
    <3>1. anchors = [k \in linked |-> CHOOSE m \in hits(k) : TRUE]
      BY Zenon DEF Anchors
    <3>. HIDE DEF anchors, blocks
    <3>2. ASSUME NEW k \in DOMAIN anchors
          PROVE  /\ anchors[k] \in DOMAIN blocks
                 /\ \A t \in Texts(doc) : Within(path, t, k) /\ ~Hidden(doc, path, t)
                        => t \in Shown(doc, path, blocks[anchors[k]])
      <4>. DEFINE n == anchors[k]
      <4>1. k \in linked /\ n = CHOOSE m \in hits(k) : TRUE
        BY <3>1, <3>2
      <4>. HIDE DEF n
      <4>2. n \in DOMAIN blocks /\ Within(path, k, blocks[n])
        BY <4>1
      <4>3. ASSUME NEW t \in Texts(doc), Within(path, t, k), ~Hidden(doc, path, t)
            PROVE  t \in Shown(doc, path, blocks[n])
        <5>1. t \in 1..Len(doc)
          BY <2>1 DEF Texts
        <5>2. Within(path, t, blocks[n])
          BY <2>1, <4>2, <4>3, <5>1, WithinTransitive
        <5>. QED BY <2>1, <4>3, <5>2, BlockShows
      <4>. QED BY <4>2, <4>3 DEF n
    <3>. QED BY <3>2 DEF anchors, blocks
  <2>. HIDE DEF path
  <2>. QED BY <2>2, Zenon DEF AnchorsHit, doc, path
<1>. QED BY <1>1, Invariance, PTL

----------------------------------------------------------------------------
(* Where a text comes to be shown.                                         *)

\* What the lemmas below need of a body, and of a text in it with its ancestors p.
TextAt(doc, path, k, p) ==
    /\ Len(doc) \in Nat /\ DOMAIN doc = 1..Len(doc) /\ path = Paths(doc)
    /\ k \in Texts(doc) /\ k \in 1..Len(doc) /\ p = path[k]
    /\ Line(doc, path, k, p)

\* A descent that begins at ancestor a ends at ancestor b: all before it are transparent.
Ends(doc, p, a, b) ==
    /\ \A i \in a..(b - 1) : Transparent(doc, p[i], i - a)
    /\ ~Transparent(doc, p[b], b - a)

LEMMA TextIsNoElement ==
    ASSUME NEW doc, NEW path, NEW k, NEW p, TextAt(doc, path, k, p)
    PROVE  /\ doc[k][1] = "text" /\ k \notin Elements(doc)
           /\ \A i \in 1..Len(p) : p[i] \in Elements(doc) /\ p[i] \in Nat
<1>1. doc[k] = <<"text">>
  BY DEF TextAt, Texts
<1>2. doc[k][1] = "text"
  BY <1>1
<1>3. ASSUME NEW i \in 1..Len(p) PROVE p[i] \in Elements(doc) /\ p[i] \in Nat
  <2>1. p[i] \in 1..k /\ doc[p[i]][1] = "open" /\ k \in 1..Len(doc)
    BY DEF TextAt, Line
  <2>2. p[i] \in 1..Len(doc)
    BY <2>1 DEF TextAt
  <2>. QED BY <2>1, <2>2 DEF Elements, TextAt
<1>. QED BY <1>2, <1>3 DEF Elements

\* The elements that contain ancestor b of a text, and those that contain the text.
PathIs(path, p, b) == \A e : e \in ToSet(path[p[b]]) <=> \E j \in 1..b : e = p[j]
WithinIs(path, p, b) == \A e : Within(path, p[b], e) <=> \E j \in 1..b : e = p[j]

LEMMA LineSets ==
    ASSUME NEW doc, NEW path, NEW k, NEW p, Line(doc, path, k, p), NEW b \in 1..Len(p)
    PROVE  PathIs(path, p, b) /\ WithinIs(path, p, b)
<1>1. PathIs(path, p, b)
  BY DEF Line, PathIs
<1>2. ASSUME NEW e PROVE Within(path, p[b], e) <=> \E i \in 1..b : e = p[i]
  <2>1. e \in ToSet(path[p[b]]) <=> \E i \in 1..b : e = p[i]
    BY <1>1 DEF PathIs
  <2>2. b \in 1..b
    BY DEF Line
  <2>. QED BY <2>1, <2>2 DEF Within
<1>3. WithinIs(path, p, b)
  BY <1>2 DEF WithinIs
<1>. QED BY <1>1, <1>3

LEMMA WithinLine ==
    ASSUME NEW doc, NEW path, NEW k, NEW p, TextAt(doc, path, k, p), NEW x \in Elements(doc)
    PROVE  Within(path, k, x) <=> \E i \in 1..Len(p) : x = p[i]
<1>0. Line(doc, path, k, p)
  BY DEF TextAt
<1>1. x # k
  BY TextIsNoElement
<1>2. x \in ToSet(p) <=> \E i \in 1..Len(p) : x = p[i]
  BY <1>0 DEF Line
<1>3. Within(path, k, x) <=> x \in ToSet(p)
  BY <1>1 DEF Within, TextAt
<1>. QED BY <1>2, <1>3

\* The block of a descent from ancestor a that contains the text.
LEMMA SurfaceOnLine ==
    ASSUME NEW doc, NEW path, NEW k, NEW p, TextAt(doc, path, k, p), NEW a \in 1..Len(p), NEW x
    PROVE  (x \in Surface(doc, path, p[a]) /\ Within(path, k, x))
            <=> \E b \in a..Len(p) : x = p[b] /\ Ends(doc, p, a, b)
<1>. DEFINE depth(j) == Len(path[j - 1]) - Len(path[p[a] - 1])
<1>L. Line(doc, path, k, p)
  BY DEF TextAt
<1>0. /\ Len(p) \in Nat /\ a \in Nat /\ \A i, j \in 1..Len(p) : i < j => p[i] < p[j]
      /\ \A i \in 1..Len(p) : p[i] \in Elements(doc) /\ p[i] \in Nat
  <2>1. Len(p) \in Nat /\ \A i, j \in 1..Len(p) : i < j => p[i] < p[j]
    BY <1>L DEF Line
  <2>2. \A i \in 1..Len(p) : p[i] \in Elements(doc) /\ p[i] \in Nat
    BY TextIsNoElement, Zenon
  <2>. QED BY <2>1, <2>2
<1>1. \A i \in 1..Len(p) : depth(p[i]) = i - a
  <2>. TAKE i \in 1..Len(p)
  <2>1. Len(path[p[i] - 1]) = i - 1 /\ Len(path[p[a] - 1]) = a - 1
    BY <1>L DEF Line
  <2>2. depth(p[i]) = (i - 1) - (a - 1)
    BY <2>1
  <2>. HIDE DEF depth
  <2>. QED BY <1>0, <2>2
<1>2. x \in Surface(doc, path, p[a]) <=>
        /\ x \in Elements(doc) /\ Within(path, x, p[a])
        /\ \A j \in Between(path, x, p[a]) \ {x} : Transparent(doc, j, depth(j))
        /\ ~Transparent(doc, x, depth(x))
  BY DEF Surface
<1>. HIDE DEF depth
<1>3. ASSUME NEW b \in a..Len(p), NEW y
      PROVE  y \in Between(path, p[b], p[a]) \ {p[b]} <=> \E i \in a..(b - 1) : y = p[i]
  <2>1. b \in 1..Len(p) /\ b \in Nat
    BY <1>0
  <2>0. PathIs(path, p, b)
    BY <1>L, <2>1, LineSets
  <2>2. y \in ToSet(path[p[b]]) <=> \E i \in 1..b : y = p[i]
    BY <2>0 DEF PathIs
  <2>3. ASSUME y \in Between(path, p[b], p[a]) \ {p[b]} PROVE \E i \in a..(b - 1) : y = p[i]
    <3>1. PICK i \in 1..b : y = p[i]
      BY <2>2, <2>3 DEF Between
    <3>2. i # b /\ p[i] >= p[a]
      BY <2>3, <3>1 DEF Between
    <3>3. i >= a
      <4>1. i \in 1..Len(p) /\ i \in Nat
        BY <1>0, <2>1
      <4>. QED BY <1>0, <3>2, <4>1
    <3>4. i \in a..(b - 1)
      BY <1>0, <2>1, <3>2, <3>3
    <3>. QED BY <3>1, <3>4
  <2>4. ASSUME NEW i \in a..(b - 1), y = p[i] PROVE y \in Between(path, p[b], p[a]) \ {p[b]}
    <3>1. i \in 1..b /\ i < b /\ i \in 1..Len(p) /\ a <= i /\ i \in Nat
      BY <1>0, <2>1
    <3>2. y \in ToSet(path[p[b]])
      BY <2>2, <2>4, <3>1
    <3>3. p[i] < p[b] /\ p[i] \in Nat /\ p[b] \in Nat /\ p[a] \in Nat
      BY <1>0, <2>1, <3>1
    <3>4. p[i] >= p[a]
      <4>1. CASE i = a
        BY <3>3, <4>1
      <4>2. CASE i # a
        <5>1. a < i
          BY <1>0, <3>1, <4>2
        <5>. QED BY <1>0, <3>1, <3>3, <5>1
      <4>. QED BY <4>1, <4>2
    <3>. QED BY <2>4, <3>2, <3>3, <3>4 DEF Between
  <2>. QED BY <2>3, <2>4
<1>4. ASSUME NEW b \in a..Len(p), x = p[b]
      PROVE  x \in Surface(doc, path, p[a]) /\ Within(path, k, x) <=> Ends(doc, p, a, b)
  <2>1. b \in 1..Len(p) /\ a \in 1..b /\ b \in Nat
    BY <1>0
  <2>2. x \in Elements(doc) /\ Within(path, x, p[a]) /\ Within(path, k, x)
    <3>1. WithinIs(path, p, b)
      BY <1>L, <2>1, LineSets
    <3>2. Within(path, x, p[a]) <=> \E j \in 1..b : p[a] = p[j]
      BY <1>4, <3>1 DEF WithinIs
    <3>. QED BY <1>0, <1>4, <2>1, <3>2, WithinLine
  <2>3. depth(x) = b - a
    BY <1>1, <1>4, <2>1
  <2>4. \A i \in a..(b - 1) : depth(p[i]) = i - a
    <3>1. \A i \in a..(b - 1) : i \in 1..Len(p)
      BY <1>0, <2>1
    <3>. QED BY <1>1, <3>1
  <2>5. (\A j \in Between(path, x, p[a]) \ {x} : Transparent(doc, j, depth(j)))
            <=> \A i \in a..(b - 1) : Transparent(doc, p[i], i - a)
    <3>1. \A y : y \in Between(path, x, p[a]) \ {x} <=> \E i \in a..(b - 1) : y = p[i]
      BY <1>3, <1>4
    <3>. DEFINE D == Between(path, x, p[a]) \ {x}
    <3>2. \A y : y \in D <=> \E i \in a..(b - 1) : y = p[i]
      BY <3>1
    <3>. HIDE DEF D
    <3>3. ASSUME \A j \in D : Transparent(doc, j, depth(j)), NEW i \in a..(b - 1)
          PROVE  Transparent(doc, p[i], i - a)
      BY <2>4, <3>2, <3>3
    <3>4. ASSUME \A i \in a..(b - 1) : Transparent(doc, p[i], i - a), NEW j \in D
          PROVE  Transparent(doc, j, depth(j))
      BY <2>4, <3>2, <3>4
    <3>5. (\A j \in D : Transparent(doc, j, depth(j)))
            <=> \A i \in a..(b - 1) : Transparent(doc, p[i], i - a)
      BY <3>3, <3>4
    <3>. QED BY <3>5 DEF D
  <2>. QED BY <1>2, <2>2, <2>3, <2>5, <1>4 DEF Ends
<1>5. ASSUME x \in Surface(doc, path, p[a]), Within(path, k, x)
      PROVE  \E b \in a..Len(p) : x = p[b]
  <2>1. PICK b \in 1..Len(p) : x = p[b]
    BY <1>2, <1>5, WithinLine
  <2>2. PICK i \in 1..b : p[a] = p[i]
    <3>1. Within(path, p[b], p[a])
      BY <1>2, <1>5, <2>1
    <3>2. WithinIs(path, p, b)
      BY <1>L, LineSets
    <3>3. Within(path, p[b], p[a]) <=> \E j \in 1..b : p[a] = p[j]
      BY <3>2 DEF WithinIs
    <3>. QED BY <3>1, <3>3
  <2>3. i = a
    <3>1. i \in 1..Len(p) /\ i \in Nat /\ p[i] \in Nat
      BY <1>0
    <3>. QED BY <1>0, <2>2, <3>1
  <2>4. b \in a..Len(p)
    BY <1>0, <2>3
  <2>. QED BY <2>1, <2>4
<1>. QED BY <1>4, <1>5

\* A block at the top level that contains the text: the descent begins at the outermost
\* ancestor.
LEMMA TopOnLine ==
    ASSUME NEW doc, NEW path, NEW k, NEW p, TextAt(doc, path, k, p), NEW x
    PROVE  (x \in TopLevel(doc, path) /\ Within(path, k, x))
            <=> \E j \in 1..Len(p) : x = p[j] /\ Ends(doc, p, 1, j)
<1>0. Line(doc, path, k, p) /\ Len(p) \in Nat
  BY DEF TextAt, Line
<1>1. ASSUME x \in TopLevel(doc, path), Within(path, k, x)
      PROVE  \E j \in 1..Len(p) : x = p[j] /\ Ends(doc, p, 1, j)
  <2>1. PICK i \in Roots(doc, path) : x \in Surface(doc, path, i)
    BY <1>1 DEF TopLevel
  <2>2. i \in Elements(doc) /\ Within(path, x, i) /\ path[i - 1] = <<>>
    BY <2>1 DEF Surface, Roots
  <2>3. Within(path, k, i)
    BY <1>1, <2>2, WithinTransitive DEF TextAt
  <2>4. PICK m \in 1..Len(p) : i = p[m]
    BY <2>2, <2>3, WithinLine
  <2>5. Len(path[p[m] - 1]) = m - 1
    BY <1>0 DEF Line
  <2>6. m = 1
    BY <1>0, <2>2, <2>4, <2>5
  <2>7. 1 \in 1..Len(p) /\ i = p[1]
    BY <2>4, <2>6
  <2>. QED BY <1>1, <2>1, <2>7, SurfaceOnLine
<1>2. ASSUME NEW j \in 1..Len(p), x = p[j], Ends(doc, p, 1, j)
      PROVE  x \in TopLevel(doc, path) /\ Within(path, k, x)
  <2>1. 1 \in 1..Len(p)
    BY <1>0
  <2>2. p[1] \in Elements(doc)
    BY <2>1, TextIsNoElement
  <2>3. path[p[1] - 1] \in Seq(Nat) /\ Len(path[p[1] - 1]) = 1 - 1
    BY <1>0, <2>1 DEF Line
  <2>4. path[p[1] - 1] = <<>>
    BY <2>3, EmptySeq
  <2>5. p[1] \in Roots(doc, path)
    BY <2>2, <2>4 DEF Roots
  <2>6. x \in Surface(doc, path, p[1]) /\ Within(path, k, x)
    BY <1>2, <2>1, SurfaceOnLine
  <2>. QED BY <2>5, <2>6 DEF TopLevel
<1>. QED BY <1>1, <1>2

\* A descent ends at one ancestor at most, and it ends if an ancestor is not transparent.
LEMMA EndsOnce ==
    ASSUME NEW doc, NEW p, NEW a \in Int, NEW b \in Int, NEW c \in Int, a <= b, a <= c,
           Ends(doc, p, a, b), Ends(doc, p, a, c)
    PROVE  b = c
<1>1. CASE b < c
  <2>1. b \in a..(c - 1)
    BY <1>1
  <2>. QED BY <2>1 DEF Ends
<1>2. CASE c < b
  <2>1. c \in a..(b - 1)
    BY <1>2
  <2>. QED BY <2>1 DEF Ends
<1>. QED BY <1>1, <1>2

LEMMA EndsSomewhere ==
    ASSUME NEW doc, NEW p, NEW a \in Nat, NEW i \in Nat, a <= i, ~Transparent(doc, p[i], i - a)
    PROVE  \E b \in a..i : Ends(doc, p, a, b)
<1>. DEFINE S == {b \in Nat : b \in a..i /\ ~Transparent(doc, p[b], b - a)}
<1>1. i \in S /\ S \subseteq Nat
  OBVIOUS
<1>. HIDE DEF S
<1>2. PICK b \in S : \A c \in S : b <= c
  BY <1>1, Smallest
<1>3. b \in a..i /\ b \in Nat /\ ~Transparent(doc, p[b], b - a)
  BY <1>2 DEF S
<1>4. ASSUME NEW c \in a..(b - 1) PROVE Transparent(doc, p[c], c - a)
  <2>1. c \in Nat /\ c \in a..i /\ c < b
    BY <1>3
  <2>2. c \notin S
    BY <1>2, <1>3, <2>1
  <2>. QED BY <2>1, <2>2 DEF S
<1>. QED BY <1>3, <1>4 DEF Ends

\* Every block at the top level is in one chapter.
LEMMA OneChapter ==
    ASSUME NEW doc, NEW path, TopLevel(doc, path) \subseteq Nat
    PROVE  /\ \A g \in Chapters(doc, path) : g \subseteq TopLevel(doc, path)
           /\ \A i \in TopLevel(doc, path) :
                \E g \in Chapters(doc, path) :
                    i \in g /\ \A h \in Chapters(doc, path) : i \in h => h = g
<1>. DEFINE top == TopLevel(doc, path)
            starts == {i \in top : doc[i][2] \in Headings \/ \A j \in top : i <= j}
            group(s) == {i \in top : s <= i /\ \A u \in starts : u <= i => u <= s}
<1>1. Chapters(doc, path) = {group(s) : s \in starts}
  BY DEF Chapters
<1>2. top \subseteq Nat /\ starts \subseteq top
  OBVIOUS
<1>3. ASSUME NEW i \in top PROVE \E s \in starts : i \in group(s)
  <2>1. PICK m \in top : \A j \in top : m <= j
    BY <1>2, Smallest
  <2>2. m \in starts /\ m <= i
    BY <2>1
  <2>. HIDE DEF top
  <2>. DEFINE D == {d \in Nat : i - d \in starts}
  <2>. HIDE DEF starts
  <2>3. i - m \in D /\ i - (i - m) = m
    BY <1>2, <2>2, <1>3
  <2>. HIDE DEF D
  <2>4. PICK d \in D : \A e \in D : d <= e
    <3>1. D \subseteq Nat /\ D # {}
      BY <2>3 DEF D
    <3>. QED BY <3>1, Smallest
  <2>5. d \in Nat /\ i - d \in starts
    BY <2>4 DEF D
  <2>6. ASSUME NEW u \in starts, u <= i PROVE u <= i - d
    <3>1. u \in Nat /\ i \in Nat
      BY <1>2, <1>3
    <3>2. i - u \in Nat /\ i - (i - u) = u
      BY <2>6, <3>1
    <3>3. i - u \in D
      BY <3>2 DEF D
    <3>4. d <= i - u
      BY <2>4, <3>3
    <3>. QED BY <2>5, <3>1, <3>4
  <2>7. i - d <= i
    BY <1>2, <1>3, <2>5
  <2>. QED BY <1>3, <2>5, <2>6, <2>7
<1>4. ASSUME NEW i, NEW s \in starts, NEW u \in starts, i \in group(s), i \in group(u)
      PROVE  s = u
  <2>1. s <= i /\ u <= i /\ u <= s /\ s <= u
    BY <1>4
  <2>. QED BY <1>2, <2>1
<1>5. \A s \in starts : group(s) \subseteq top
  OBVIOUS
<1>. HIDE DEF starts, group
<1>6. \A g \in Chapters(doc, path) : g \subseteq top
  BY <1>1, <1>5
<1>7. ASSUME NEW i \in top
      PROVE  \E g \in Chapters(doc, path) :
                i \in g /\ \A h \in Chapters(doc, path) : i \in h => h = g
  <2>1. PICK s \in starts : i \in group(s)
    BY <1>3
  <2>2. \A u \in starts : i \in group(u) => u = s
    BY <1>4, <2>1
  <2>. QED BY <1>1, <2>1, <2>2
<1>. QED BY <1>6, <1>7

\* Ancestor j of the text is a block at the top level, of which ancestor l is a block.
Lands(doc, p, j, l) == Ends(doc, p, 1, j) /\ Ends(doc, p, j, l)

\* The block of a chapter that contains the text.
LEMMA CandidatesOnLine ==
    ASSUME NEW doc, NEW path, NEW k, NEW p, TextAt(doc, path, k, p),
           NEW g \in SUBSET TopLevel(doc, path), NEW x
    PROVE  (x \in Candidates(doc, path, g) /\ Within(path, k, x))
            <=> \E j \in 1..Len(p) : \E l \in j..Len(p) :
                    p[j] \in g /\ x = p[l] /\ Lands(doc, p, j, l)
<1>0. Line(doc, path, k, p) /\ Len(p) \in Nat
  BY DEF TextAt, Line
<1>1. ASSUME x \in Candidates(doc, path, g), Within(path, k, x)
      PROVE  \E j \in 1..Len(p) : \E l \in j..Len(p) :
                p[j] \in g /\ x = p[l] /\ Lands(doc, p, j, l)
  <2>1. PICK i \in g : x \in Surface(doc, path, i)
    BY <1>1 DEF Candidates
  <2>2. Within(path, x, i)
    BY <2>1 DEF Surface
  <2>3. Within(path, k, i)
    BY <1>1, <2>2, WithinTransitive DEF TextAt
  <2>4. PICK j \in 1..Len(p) : i = p[j] /\ Ends(doc, p, 1, j)
    BY <2>1, <2>3, TopOnLine
  <2>5. PICK l \in j..Len(p) : x = p[l] /\ Ends(doc, p, j, l)
    BY <1>1, <2>1, <2>4, SurfaceOnLine
  <2>. QED BY <2>1, <2>4, <2>5 DEF Lands
<1>2. ASSUME NEW j \in 1..Len(p), NEW l \in j..Len(p),
             p[j] \in g, x = p[l], Lands(doc, p, j, l)
      PROVE  x \in Candidates(doc, path, g) /\ Within(path, k, x)
  <2>1. x \in Surface(doc, path, p[j]) /\ Within(path, k, x)
    BY <1>2, SurfaceOnLine DEF Lands
  <2>. QED BY <1>2, <2>1 DEF Candidates
<1>. QED BY <1>1, <1>2

\* A text in a dropped element is shown nowhere: no descent goes through that element.
LEMMA HiddenNowhere ==
    ASSUME NEW doc, NEW path, NEW k, NEW p, TextAt(doc, path, k, p),
           NEW j \in 1..Len(p), NEW l \in j..Len(p), Lands(doc, p, j, l), Hidden(doc, path, k)
    PROVE  k \notin Shown(doc, path, p[l])
<1>0. Line(doc, path, k, p) /\ Len(p) \in Nat
  BY DEF TextAt, Line
<1>1. PICK m \in 1..Len(p) : doc[p[m]][2] \in Dropped
  <2>1. PICK e \in ToSet(p) : doc[e][2] \in Dropped
    BY DEF Hidden, TextAt
  <2>2. \A x : x \in ToSet(p) <=> \E i \in 1..Len(p) : x = p[i]
    BY <1>0 DEF Line
  <2>. QED BY <2>1, <2>2
<1>2. m >= l
  <2>1. \A d : ~Transparent(doc, p[m], d)
    BY <1>1 DEF Transparent, Wraps, Flow, Dropped
  <2>2. m \notin 1..(j - 1) /\ m \notin j..(l - 1)
    BY <2>1 DEF Lands, Ends
  <2>. QED BY <1>0, <2>2
<1>3. p[m] \in Between(path, k, p[l])
  <2>1. l \in 1..Len(p) /\ p[l] \in Nat /\ p[m] \in Nat
    <3>1. l \in 1..Len(p)
      BY <1>0
    <3>. QED BY <3>1, TextIsNoElement
  <2>2. p[m] >= p[l]
    <3>1. \A a, b \in 1..Len(p) : a < b => p[a] < p[b]
      BY <1>0 DEF Line
    <3>2. m = l \/ l < m
      BY <1>0, <1>2
    <3>. QED BY <2>1, <3>1, <3>2
  <2>3. p[m] \in ToSet(path[k])
    <3>1. p[m] \in ToSet(p)
      BY <1>0 DEF Line
    <3>. QED BY <3>1 DEF TextAt
  <2>. QED BY <2>2, <2>3 DEF Between
<1>4. p[m] \in Elements(doc)
  BY TextIsNoElement
<1>. QED BY <1>1, <1>3, <1>4 DEF Shown, Kept

\* Text between the blocks of a wrapper is shown nowhere: two descents go on to its end.
LEMMA BetweenNowhere ==
    ASSUME NEW doc, NEW path, NEW k, NEW p, TextAt(doc, path, k, p),
           NEW j \in 1..Len(p), NEW l \in j..Len(p), Lands(doc, p, j, l)
    PROVE  ~BetweenBlocks(doc, path, k)
<1>0. Line(doc, path, k, p) /\ Len(p) \in Nat /\ MaxFlatten \in Nat
  BY ChapterAssumption DEF TextAt, Line
<1>. SUFFICES ASSUME BetweenBlocks(doc, path, k) PROVE FALSE
  OBVIOUS
<1>1. ASSUME NEW i \in 1..Len(p) PROVE Wraps(doc, p[i]) /\ i - 1 < 2 * MaxFlatten
  <2>1. p[i] \in ToSet(p)
    BY <1>0 DEF Line
  <2>2. Wraps(doc, p[i]) /\ Len(path[p[i] - 1]) < 2 * MaxFlatten
    BY <2>1 DEF BetweenBlocks, TextAt
  <2>3. Len(path[p[i] - 1]) = i - 1
    BY <1>0 DEF Line
  <2>. QED BY <2>2, <2>3
<1>2. j - 1 >= MaxFlatten /\ l - j >= MaxFlatten
  <2>1. l \in 1..Len(p) /\ l \in Nat /\ j \in Nat
    BY <1>0
  <2>2. ~Transparent(doc, p[j], j - 1) /\ ~Transparent(doc, p[l], l - j)
    BY DEF Lands, Ends
  <2>3. ~(j - 1 < MaxFlatten) /\ ~(l - j < MaxFlatten)
    BY <1>1, <2>1, <2>2 DEF Transparent
  <2>. QED BY <1>0, <2>1, <2>3
<1>3. l \in 1..Len(p) /\ l - 1 < 2 * MaxFlatten
  <2>1. l \in 1..Len(p)
    BY <1>0
  <2>. QED BY <1>1, <2>1
<1>. QED BY <1>0, <1>2, <1>3

\* Any other text is in a block of a block at the top level.
LEMMA LandsSomewhere ==
    ASSUME NEW doc, NEW path, NEW k, NEW p, TextAt(doc, path, k, p), p # <<>>,
           ~BetweenBlocks(doc, path, k)
    PROVE  \E j \in 1..Len(p) : \E l \in j..Len(p) : Lands(doc, p, j, l)
<1>0. Line(doc, path, k, p) /\ Len(p) \in Nat /\ MaxFlatten \in Nat
  BY ChapterAssumption DEF TextAt, Line
<1>1. PICK t \in 1..Len(p) : ~Wraps(doc, p[t]) \/ t - 1 >= 2 * MaxFlatten
  <2>1. PICK e \in ToSet(p) : ~(Wraps(doc, e) /\ Len(path[e - 1]) < 2 * MaxFlatten)
    BY DEF BetweenBlocks, TextAt
  <2>2. \A x : x \in ToSet(p) <=> \E i \in 1..Len(p) : x = p[i]
    BY <1>0 DEF Line
  <2>3. PICK i \in 1..Len(p) : e = p[i]
    BY <2>1, <2>2
  <2>4. Len(path[p[i] - 1]) = i - 1
    BY <1>0 DEF Line
  <2>5. ~Wraps(doc, p[i]) \/ i - 1 >= 2 * MaxFlatten
    BY <1>0, <2>1, <2>3, <2>4
  <2>. QED BY <2>5
<1>2. t \in Nat /\ 1 <= t /\ t <= Len(p)
  BY <1>0
<1>3. PICK j \in 1..t : Ends(doc, p, 1, j)
  <2>1. ~Transparent(doc, p[t], t - 1)
    BY <1>0, <1>1, <1>2 DEF Transparent
  <2>. QED BY <1>2, <2>1, EndsSomewhere
<1>4. j \in Nat /\ 1 <= j /\ j <= t /\ j \in 1..Len(p)
  BY <1>0, <1>2
<1>5. \E i \in j..t : ~Transparent(doc, p[i], i - j)
  <2>1. CASE ~Wraps(doc, p[t])
    <3>1. ~Transparent(doc, p[t], t - j)
      BY <2>1 DEF Transparent
    <3>. QED BY <1>4, <1>2, <3>1
  <2>2. CASE t - 1 >= 2 * MaxFlatten
    <3>1. j - 1 <= MaxFlatten
      <4>1. CASE j = 1
        BY <1>0, <4>1
      <4>2. CASE j # 1
        <5>1. j - 1 \in 1..(j - 1)
          BY <1>4, <4>2
        <5>2. Transparent(doc, p[j - 1], j - 1 - 1)
          BY <1>3, <5>1 DEF Ends
        <5>3. j - 1 - 1 < MaxFlatten
          BY <5>2 DEF Transparent
        <5>. QED BY <1>0, <1>4, <5>3
      <4>. QED BY <4>1, <4>2
    <3>2. j + MaxFlatten \in j..t /\ (j + MaxFlatten) - j = MaxFlatten
      BY <1>0, <1>2, <1>4, <2>2, <3>1
    <3>3. ~Transparent(doc, p[j + MaxFlatten], (j + MaxFlatten) - j)
      BY <1>0, <3>2 DEF Transparent
    <3>. QED BY <3>2, <3>3
  <2>. QED BY <1>1, <2>1, <2>2
<1>6. PICK l \in j..t : Ends(doc, p, j, l)
  <2>1. PICK i \in j..t : ~Transparent(doc, p[i], i - j)
    BY <1>5
  <2>2. i \in Nat /\ j <= i /\ i <= t
    BY <1>2, <1>4
  <2>3. PICK l \in j..i : Ends(doc, p, j, l)
    BY <1>4, <2>1, <2>2, EndsSomewhere
  <2>4. l \in j..t
    BY <1>2, <1>4, <2>2
  <2>. QED BY <2>3, <2>4
<1>7. l \in j..Len(p)
  BY <1>0, <1>2, <1>4
<1>. QED BY <1>3, <1>4, <1>6, <1>7 DEF Lands

\* A block of a chapter that shows the text is where it lands.
LEMMA ShownOnLine ==
    ASSUME NEW doc, NEW path, NEW k, NEW p, TextAt(doc, path, k, p),
           NEW g \in SUBSET TopLevel(doc, path), NEW x
    PROVE  /\ x \in Blocks(doc, path, g) /\ k \in Shown(doc, path, x)
                => /\ ~Hidden(doc, path, k)
                   /\ \E j \in 1..Len(p) : \E l \in j..Len(p) :
                        p[j] \in g /\ x = p[l] /\ Lands(doc, p, j, l)
           /\ ~Hidden(doc, path, k)
                => \A j \in 1..Len(p) : \A l \in j..Len(p) :
                        p[j] \in g /\ x = p[l] /\ Lands(doc, p, j, l)
                            => x \in Blocks(doc, path, g) /\ k \in Shown(doc, path, x)
<1>1. ASSUME x \in Blocks(doc, path, g), k \in Shown(doc, path, x)
      PROVE  /\ ~Hidden(doc, path, k)
             /\ \E j \in 1..Len(p) : \E l \in j..Len(p) :
                    p[j] \in g /\ x = p[l] /\ Lands(doc, p, j, l)
  <2>1. x \in Candidates(doc, path, g) /\ Within(path, k, x)
    BY <1>1 DEF Blocks, Shown, Kept
  <2>2. PICK j \in 1..Len(p) : \E l \in j..Len(p) :
            p[j] \in g /\ x = p[l] /\ Lands(doc, p, j, l)
    BY <2>1, CandidatesOnLine
  <2>3. PICK l \in j..Len(p) : p[j] \in g /\ x = p[l] /\ Lands(doc, p, j, l)
    BY <2>2
  <2>4. ~Hidden(doc, path, k)
    BY <1>1, <2>3, HiddenNowhere
  <2>. QED BY <2>3, <2>4
<1>2. ASSUME ~Hidden(doc, path, k), NEW j \in 1..Len(p), NEW l \in j..Len(p),
             p[j] \in g, x = p[l], Lands(doc, p, j, l)
      PROVE  x \in Blocks(doc, path, g) /\ k \in Shown(doc, path, x)
  <2>1. x \in Candidates(doc, path, g) /\ Within(path, k, x)
    BY <1>2, CandidatesOnLine
  <2>2. k \in Shown(doc, path, x)
    BY <1>2, <2>1, BlockShows DEF TextAt
  <2>3. Renders(doc, path, x)
    BY <2>2 DEF Shown, Renders
  <2>. QED BY <2>1, <2>2, <2>3 DEF Blocks
<1>. QED BY <1>1, <1>2

\* The text lands in one place, for its ancestors are in order and every descent ends once.
LEMMA LandsOnce ==
    ASSUME NEW doc, NEW path, NEW k, NEW p, TextAt(doc, path, k, p),
           NEW j \in 1..Len(p), NEW l \in j..Len(p), Lands(doc, p, j, l),
           NEW i \in 1..Len(p), NEW m \in i..Len(p), Lands(doc, p, i, m)
    PROVE  i = j /\ m = l
<1>0. Len(p) \in Nat
  BY DEF TextAt, Line
<1>1. j \in Int /\ i \in Int /\ l \in Int /\ m \in Int /\ 1 <= j /\ 1 <= i /\ j <= l /\ i <= m
  BY <1>0
<1>2. i = j
  BY <1>1, EndsOnce DEF Lands
<1>3. m = l
  BY <1>1, <1>2, EndsOnce DEF Lands
<1>. QED BY <1>2, <1>3

LEMMA PlacesOfText ==
    ASSUME NEW doc, NEW path, NEW k, NEW p, TextAt(doc, path, k, p), p # <<>>
    PROVE  Cardinality(Places(doc, path, k))
                = IF Hidden(doc, path, k) \/ BetweenBlocks(doc, path, k) THEN 0 ELSE 1
<1>. DEFINE P == Places(doc, path, k)
<1>0. TopLevel(doc, path) \subseteq Nat
  <2>1. Elements(doc) \subseteq Nat
    BY DEF Elements, TextAt
  <2>. QED BY <2>1 DEF TopLevel, Surface
<1>1. \A g \in Chapters(doc, path) : g \in SUBSET TopLevel(doc, path)
  BY <1>0, OneChapter
<1>2. \A q : q \in P <=> \E g \in Chapters(doc, path) : \E x \in Blocks(doc, path, g) :
                            q = <<g, x>> /\ k \in Shown(doc, path, x)
  BY DEF Places
<1>. HIDE DEF P
<1>3. ASSUME NEW q \in P
      PROVE  /\ ~Hidden(doc, path, k)
             /\ \E g \in Chapters(doc, path) : \E j \in 1..Len(p) : \E l \in j..Len(p) :
                    q = <<g, p[l]>> /\ p[j] \in g /\ Lands(doc, p, j, l)
  <2>1. PICK g \in Chapters(doc, path) : \E x \in Blocks(doc, path, g) :
            q = <<g, x>> /\ k \in Shown(doc, path, x)
    BY <1>2, <1>3
  <2>2. PICK x \in Blocks(doc, path, g) : q = <<g, x>> /\ k \in Shown(doc, path, x)
    BY <2>1
  <2>3. g \in SUBSET TopLevel(doc, path)
    BY <1>1
  <2>4. /\ ~Hidden(doc, path, k)
        /\ \E j \in 1..Len(p) : \E l \in j..Len(p) :
                    p[j] \in g /\ x = p[l] /\ Lands(doc, p, j, l)
    BY <2>2, <2>3, ShownOnLine
  <2>. QED BY <2>2, <2>4
<1>4. CASE Hidden(doc, path, k) \/ BetweenBlocks(doc, path, k)
  <2>1. P = {}
    <3>. SUFFICES ASSUME NEW q \in P PROVE FALSE
      OBVIOUS
    <3>1. PICK j \in 1..Len(p) : \E l \in j..Len(p) : Lands(doc, p, j, l)
      BY <1>3
    <3>2. ~BetweenBlocks(doc, path, k)
      BY <3>1, BetweenNowhere
    <3>. QED BY <1>3, <1>4, <3>2
  <2>. QED BY <1>4, <2>1, FS_EmptySet DEF P
<1>5. CASE ~Hidden(doc, path, k) /\ ~BetweenBlocks(doc, path, k)
  <2>1. PICK j \in 1..Len(p) : \E l \in j..Len(p) : Lands(doc, p, j, l)
    BY <1>5, LandsSomewhere
  <2>2. PICK l \in j..Len(p) : Lands(doc, p, j, l)
    BY <2>1
  <2>3. p[j] \in TopLevel(doc, path)
    BY <2>2, TopOnLine DEF Lands
  <2>4. PICK g \in Chapters(doc, path) :
            p[j] \in g /\ \A h \in Chapters(doc, path) : p[j] \in h => h = g
    BY <1>0, <2>3, OneChapter
  <2>5. <<g, p[l]>> \in P
    <3>1. p[l] \in Blocks(doc, path, g) /\ k \in Shown(doc, path, p[l])
      BY <1>1, <1>5, <2>2, <2>4, ShownOnLine
    <3>. QED BY <1>2, <3>1
  <2>6. ASSUME NEW q \in P PROVE q = <<g, p[l]>>
    <3>1. PICK h \in Chapters(doc, path), i \in 1..Len(p) : \E m \in i..Len(p) :
              q = <<h, p[m]>> /\ p[i] \in h /\ Lands(doc, p, i, m)
      BY <1>3, <2>6
    <3>2. PICK m \in i..Len(p) : q = <<h, p[m]>> /\ p[i] \in h /\ Lands(doc, p, i, m)
      BY <3>1
    <3>3. i = j /\ m = l
      BY <2>2, <3>2, LandsOnce
    <3>4. h = g
      BY <2>4, <3>2, <3>3
    <3>. QED BY <3>2, <3>3, <3>4
  <2>7. P = {<<g, p[l]>>}
    BY <2>5, <2>6
  <2>. QED BY <1>5, <2>7, FS_Singleton DEF P
<1>. QED BY <1>4, <1>5

\* Whatever the tags of a document, no text of it is lost or shown twice: each is in one
\* block of one chapter, but for that in elements dropped on purpose and that between the
\* blocks of a wrapper (the optional end tags, the caps, _top_level_block_elements() and
\* the split at the headings).
THEOREM TextsShownOnce == Spec => []TextKept
<1>1. Inv => TextKept
  <2>. SUFFICES ASSUME Inv PROVE TextKept
    OBVIOUS
  <2>. DEFINE doc == Document
              path == Paths(doc)
  <2>1. Len(doc) \in Nat /\ DOMAIN doc = 1..Len(doc) /\ Tree(doc, <<>>)
    BY DocumentTree
  <2>. HIDE DEF doc
  <2>2. ASSUME NEW k \in Texts(doc)
        PROVE  Cardinality(Places(doc, path, k))
                = IF Hidden(doc, path, k) \/ BetweenBlocks(doc, path, k) THEN 0 ELSE 1
    <3>1. k \in 1..Len(doc) /\ doc[k] = <<"text">>
      BY <2>1 DEF Texts
    <3>2. Line(doc, path, k, path[k])
      BY <2>1, <3>1, AncestorOf
    <3>3. path[k] # <<>>
      <4>1. WellAt(doc, path, k)
        BY <2>1, <3>1 DEF Tree, WellBegun
      <4>. QED BY <3>1, <4>1 DEF WellAt
    <3>4. TextAt(doc, path, k, path[k])
      BY <2>1, <3>1, <3>2 DEF TextAt
    <3>. HIDE DEF path
    <3>. QED BY <3>3, <3>4, PlacesOfText
  <2>. HIDE DEF path
  <2>. QED BY <2>2, Zenon DEF TextKept, doc, path
<1>. QED BY <1>1, Invariance, PTL

----------------------------------------------------------------------------
(* Sets of numbers in order.                                               *)

Rank(S, x) == Cardinality({y \in S : y < x})

LEMMA RankGrows ==
    ASSUME NEW S \in SUBSET Nat, IsFiniteSet(S), NEW x \in S, NEW z \in S, x < z
    PROVE  Rank(S, x) < Rank(S, z)
<1>. DEFINE below == {y \in S : y < x}
            under == {y \in S : y < z}
<1>1. IsFiniteSet(below) /\ IsFiniteSet(under)
  BY FS_Subset
<1>2. x \notin below /\ below \cup {x} \subseteq under
  <2>1. x \in Nat /\ z \in Nat /\ S \subseteq Nat
    OBVIOUS
  <2>2. ~(x < x) /\ \A y \in Nat : y < x => y < z
    BY <2>1
  <2>. QED BY <2>1, <2>2
<1>. HIDE DEF below, under
<1>3. Cardinality(below \cup {x}) = Cardinality(below) + 1
  BY <1>1, <1>2, FS_AddElement
<1>4. Cardinality(below \cup {x}) <= Cardinality(under)
  BY <1>1, <1>2, FS_Subset
<1>5. Cardinality(below) \in Nat /\ Cardinality(under) \in Nat
  BY <1>1, FS_CardinalityType
<1>6. Cardinality(below) < Cardinality(under)
  BY <1>3, <1>4, <1>5
<1>. QED BY <1>6 DEF Rank, below, under

LEMMA RankBounds ==
    ASSUME NEW S \in SUBSET Nat, IsFiniteSet(S), NEW x \in S
    PROVE  Rank(S, x) \in 0..(Cardinality(S) - 1)
<1>. DEFINE below == {y \in S : y < x}
<1>1. below \subseteq S \ {x}
  OBVIOUS
<1>2. IsFiniteSet(S \ {x}) /\ Cardinality(S \ {x}) = Cardinality(S) - 1
  BY FS_RemoveElement
<1>. HIDE DEF below
<1>3. IsFiniteSet(below) /\ Cardinality(below) <= Cardinality(S \ {x})
  BY <1>1, <1>2, FS_Subset
<1>4. Cardinality(below) \in Nat /\ Cardinality(S) \in Nat
  BY <1>3, FS_CardinalityType
<1>. QED BY <1>2, <1>3, <1>4 DEF Rank, below

\* Sorted() lists every element once, the smaller before the larger.
LEMMA SortedLists ==
    ASSUME NEW S \in SUBSET Nat, IsFiniteSet(S)
    PROVE  /\ Cardinality(S) \in Nat
           /\ Sorted(S) \in [1..Cardinality(S) -> S]
           /\ \A i, j \in 1..Cardinality(S) : i < j => Sorted(S)[i] < Sorted(S)[j]
           /\ \A x \in S : \E i \in 1..Cardinality(S) : Sorted(S)[i] = x
<1>. DEFINE n == Cardinality(S)
            rank == [x \in S |-> Rank(S, x)]
            s == Sorted(S)
<1>0. n \in Nat
  BY FS_CardinalityType
<1>. HIDE DEF n
<1>1. \A x, z \in S : Rank(S, x) = Rank(S, z) => x = z
  <2>1. \A x, z \in S : x < z => Rank(S, x) < Rank(S, z)
    BY RankGrows
  <2>2. \A x \in S : Rank(S, x) \in Int
    BY RankBounds
  <2>. QED BY <2>1, <2>2
<1>2. rank \in Injection(S, 0..(n - 1))
  <2>1. rank \in [S -> 0..(n - 1)]
    BY RankBounds DEF n
  <2>. QED BY <1>1, <2>1 DEF Injection, IsInjective
<1>3. IsFiniteSet(0..(n - 1)) /\ Cardinality(0..(n - 1)) = n
  <2>1. IsFiniteSet(0..(n - 1)) /\ Cardinality(0..(n - 1)) = IF 0 > n - 1 THEN 0 ELSE n - 1 - 0 + 1
    BY <1>0, FS_Interval
  <2>. QED BY <1>0, <2>1
<1>4. rank \in Surjection(S, 0..(n - 1))
  BY <1>2, <1>3, FS_Injection DEF n
<1>5. \A k \in 1..n : \E x \in S : Rank(S, x) = k - 1
  <2>. SUFFICES ASSUME NEW k \in 1..n PROVE \E x \in S : Rank(S, x) = k - 1
    OBVIOUS
  <2>1. k - 1 \in 0..(n - 1)
    BY <1>0
  <2>2. PICK x \in S : rank[x] = k - 1
    BY <1>4, <2>1 DEF Surjection
  <2>. QED BY <2>2
<1>6. \A k \in 1..n : s[k] \in S /\ Rank(S, s[k]) = k - 1
  <2>1. s = [k \in 1..n |-> CHOOSE x \in S : Rank(S, x) = k - 1]
    BY DEF Sorted, Rank, n
  <2>. HIDE DEF s
  <2>. QED BY <1>5, <2>1
<1>7. s \in [1..n -> S]
  <2>1. s = [k \in 1..n |-> CHOOSE x \in S : Rank(S, x) = k - 1]
    BY DEF Sorted, Rank, n
  <2>. HIDE DEF s
  <2>. QED BY <1>6, <2>1
<1>. HIDE DEF s
<1>8. ASSUME NEW i \in 1..n, NEW j \in 1..n, i < j PROVE s[i] < s[j]
  <2>1. s[i] \in S /\ s[j] \in S /\ Rank(S, s[i]) = i - 1 /\ Rank(S, s[j]) = j - 1
    BY <1>6
  <2>2. s[j] < s[i] => Rank(S, s[j]) < Rank(S, s[i])
    BY <2>1, RankGrows
  <2>3. s[i] # s[j] /\ ~(s[j] < s[i])
    BY <1>0, <1>8, <2>1, <2>2
  <2>4. s[i] \in Nat /\ s[j] \in Nat
    BY <2>1
  <2>. QED BY <2>3, <2>4
<1>9. ASSUME NEW x \in S PROVE \E i \in 1..n : s[i] = x
  <2>1. Rank(S, x) \in 0..(n - 1)
    BY RankBounds DEF n
  <2>2. Rank(S, x) + 1 \in 1..n /\ (Rank(S, x) + 1) - 1 = Rank(S, x)
    BY <1>0, <2>1
  <2>3. s[Rank(S, x) + 1] \in S /\ Rank(S, s[Rank(S, x) + 1]) = Rank(S, x)
    BY <1>6, <2>2
  <2>. QED BY <1>1, <2>2, <2>3
<1>. QED BY <1>0, <1>7, <1>8, <1>9 DEF n, s

\* Picked() keeps the items at the positions in S, in their order, and no others.
LEMMA PickedItems ==
    ASSUME NEW T, NEW s \in Seq(T), NEW S \in SUBSET (DOMAIN s)
    PROVE  /\ Picked(s, S) \in Seq(T) /\ Len(Picked(s, S)) = Cardinality(S)
           /\ Cardinality(S) \in 0..Len(s)
           /\ \A n \in 1..Cardinality(S) : \E i \in S : Picked(s, S)[n] = s[i]
           /\ \A i \in S : \E n \in 1..Cardinality(S) : Picked(s, S)[n] = s[i]
<1>1. DOMAIN s = 1..Len(s) /\ Len(s) \in Nat /\ \A i \in DOMAIN s : s[i] \in T
  BY LenProperties, ElementOfSeq
<1>2. IsFiniteSet(1..Len(s)) /\ Cardinality(1..Len(s)) = Len(s)
  <2>1. IsFiniteSet(1..Len(s)) /\ Cardinality(1..Len(s)) = IF 1 > Len(s) THEN 0 ELSE Len(s) - 1 + 1
    BY <1>1, FS_Interval
  <2>. QED BY <1>1, <2>1
<1>3. IsFiniteSet(S) /\ Cardinality(S) <= Len(s) /\ S \in SUBSET Nat
  BY <1>1, <1>2, FS_Subset
<1>. DEFINE n == Cardinality(S)
            order == Sorted(S)
            p == Picked(s, S)
<1>4. n \in Nat /\ order \in [1..n -> S] /\ \A i \in S : \E k \in 1..n : order[k] = i
  BY <1>3, SortedLists
<1>5. p = [k \in 1..n |-> s[order[k]]]
  BY DEF Picked
<1>. HIDE DEF n, order, p
<1>6. p \in [1..n -> T] /\ \A k \in 1..n : order[k] \in S /\ p[k] = s[order[k]]
  BY <1>1, <1>4, <1>5
<1>7. p \in Seq(T) /\ Len(p) = n
  BY <1>4, <1>6, IsASeq
<1>8. \A i \in S : \E k \in 1..n : p[k] = s[i]
  BY <1>4, <1>6
<1>9. \A k \in 1..n : \E i \in S : p[k] = s[i]
  BY <1>6
<1>10. n \in 0..Len(s)
  BY <1>1, <1>3, <1>4 DEF n
<1>. QED BY <1>7, <1>8, <1>9, <1>10 DEF n, p

----------------------------------------------------------------------------
(* Outlines and the entries made of them.                                  *)

Entries == [depth : 0..MaxTocDepth, to : Nat]

LEMMA MinOf ==
    ASSUME NEW S \in SUBSET Nat, NEW x \in S
    PROVE  Min(S) \in S /\ \A y \in S : Min(S) <= y
<1>1. \E m \in S : \A y \in S : m <= y
  BY Smallest
<1>2. \E m \in S : \A y \in S : m =< y
  BY <1>1
<1>. QED BY <1>2 DEF Min

LEMMA CutOff ==
    ASSUME NEW T, NEW s \in Seq(T), NEW n \in Nat
    PROVE  /\ UpTo(n, s) \in Seq(T)
           /\ Len(UpTo(n, s)) = IF n < Len(s) THEN n ELSE Len(s)
           /\ \A i \in 1..Len(UpTo(n, s)) : i \in 1..Len(s) /\ UpTo(n, s)[i] = s[i]
<1>. DEFINE m == Min({n, Len(s)})
<1>1. Len(s) \in Nat /\ DOMAIN s = 1..Len(s) /\ \A i \in 1..Len(s) : s[i] \in T
  BY LenProperties, ElementOfSeq
<1>2. m = IF n < Len(s) THEN n ELSE Len(s)
  <2>1. m \in {n, Len(s)} /\ \A y \in {n, Len(s)} : m <= y
    BY <1>1, MinOf
  <2>. DEFINE l == Len(s)
  <2>2. l \in Nat /\ m \in {n, l} /\ \A y \in {n, l} : m <= y
    BY <1>1, <2>1
  <2>. HIDE DEF m, l
  <2>3. m = IF n < l THEN n ELSE l
    BY <2>2
  <2>. QED BY <2>3 DEF l
<1>3. UpTo(n, s) = SubSeq(s, 1, m)
  BY DEF UpTo
<1>. HIDE DEF m
<1>4. m \in 0..Len(s) /\ \A i \in 1..m : i \in 1..Len(s)
  <2>1. CASE n < Len(s)
    BY <1>1, <1>2, <2>1
  <2>2. CASE ~(n < Len(s))
    BY <1>1, <1>2, <2>2
  <2>. QED BY <2>1, <2>2
<1>5. \A i \in 1..m : s[i] \in T
  BY <1>1, <1>4
<1>6. /\ SubSeq(s, 1, m) \in Seq(T) /\ Len(SubSeq(s, 1, m)) = IF 1 <= m THEN m - 1 + 1 ELSE 0
      /\ \A i \in 1..(m - 1 + 1) : SubSeq(s, 1, m)[i] = s[1 + i - 1]
  BY <1>4, <1>5, SubSeqProperties
<1>7. Len(SubSeq(s, 1, m)) = m /\ \A i \in 1..m : SubSeq(s, 1, m)[i] = s[i]
  BY <1>4, <1>6
<1>. QED BY <1>2, <1>3, <1>4, <1>6, <1>7

\* _flatten_pdf_outline() and its likes keep entries within the caps, each for an item with
\* a place; while the cap on entries is not met, all of them.
LEMMA FlattenedEntries ==
    ASSUME NEW outline \in Seq(Items)
    PROVE  /\ Flattened(outline) \in Seq(Entries)
           /\ Len(outline) <= MaxEntries =>
                \A i \in DOMAIN outline :
                    outline[i].to \in Nat /\ outline[i].depth <= MaxWalk
                        => \E n \in DOMAIN Flattened(outline) :
                                Flattened(outline)[n].to = outline[i].to
<1>. DEFINE kept == {i \in DOMAIN outline : outline[i].to >= 0 /\ outline[i].depth <= MaxWalk}
            listed == Picked(outline, kept)
            cut == UpTo(MaxEntries, listed)
            f == Flattened(outline)
<1>0. MaxEntries \in Nat \ {0} /\ MaxTocDepth \in Nat
  BY ContentsAssumption
<1>1. /\ listed \in Seq(Items) /\ Len(listed) = Cardinality(kept)
      /\ Len(listed) \in 0..Len(outline)
      /\ \A n \in 1..Len(listed) : \E i \in kept : listed[n] = outline[i]
      /\ \A i \in kept : \E n \in 1..Len(listed) : listed[n] = outline[i]
  <2>1. kept \in SUBSET (DOMAIN outline)
    OBVIOUS
  <2>. HIDE DEF kept
  <2>. QED BY <2>1, PickedItems
<1>2. \A n \in 1..Len(listed) : listed[n] \in Items /\ listed[n].to \in Nat
  <2>. SUFFICES ASSUME NEW n \in 1..Len(listed)
                PROVE  listed[n] \in Items /\ listed[n].to \in Nat
    OBVIOUS
  <2>1. PICK i \in kept : listed[n] = outline[i]
    BY <1>1
  <2>2. outline[i] \in Items /\ outline[i].to >= 0
    BY <2>1, ElementOfSeq, LenProperties
  <2>. HIDE DEF listed
  <2>. QED BY <2>1, <2>2 DEF Items, Broken, Group
<1>. HIDE DEF listed
<1>3. /\ cut \in Seq(Items) /\ Len(cut) = IF MaxEntries < Len(listed) THEN MaxEntries ELSE Len(listed)
      /\ \A n \in 1..Len(cut) : n \in 1..Len(listed)
  BY <1>0, <1>1, CutOff
<1>4. f = [n \in DOMAIN cut |-> [listed[n] EXCEPT !.depth = Min({@, MaxTocDepth})]]
  BY DEF Flattened, listed
<1>5. DOMAIN cut = 1..Len(cut) /\ Len(cut) \in Nat
  BY <1>3, LenProperties
<1>. HIDE DEF cut, f
<1>6. \A n \in 1..Len(cut) : f[n] \in Entries /\ f[n].to = listed[n].to
  <2>. SUFFICES ASSUME NEW n \in 1..Len(cut) PROVE f[n] \in Entries /\ f[n].to = listed[n].to
    OBVIOUS
  <2>. DEFINE d == listed[n].depth
  <2>1. listed[n] \in Items /\ listed[n].to \in Nat
    BY <1>2, <1>3
  <2>2. f[n] = [listed[n] EXCEPT !.depth = Min({d, MaxTocDepth})]
    BY <1>4, <1>5
  <2>3. d \in Nat
    BY <2>1 DEF Items
  <2>4. Min({d, MaxTocDepth}) \in 0..MaxTocDepth
    <3>. HIDE DEF d
    <3>1. Min({d, MaxTocDepth}) \in {d, MaxTocDepth} /\ Min({d, MaxTocDepth}) <= MaxTocDepth
      BY <1>0, <2>3, MinOf
    <3>. QED BY <1>0, <2>3, <3>1
  <2>. HIDE DEF d
  <2>5. f[n].depth = Min({d, MaxTocDepth}) /\ f[n].to = listed[n].to
        /\ f[n] = [depth |-> f[n].depth, to |-> f[n].to]
    BY <2>1, <2>2 DEF Items
  <2>. QED BY <2>1, <2>4, <2>5 DEF Entries
<1>7. f \in Seq(Entries) /\ Len(f) = Len(cut) /\ DOMAIN f = 1..Len(cut)
  <2>1. f \in [1..Len(cut) -> Entries]
    BY <1>4, <1>5, <1>6
  <2>. QED BY <1>5, <2>1, IsASeq
<1>8. ASSUME Len(outline) <= MaxEntries, NEW i \in DOMAIN outline,
             outline[i].to \in Nat, outline[i].depth <= MaxWalk
      PROVE  \E n \in DOMAIN f : f[n].to = outline[i].to
  <2>1. i \in kept
    BY <1>8
  <2>2. PICK n \in 1..Len(listed) : listed[n] = outline[i]
    BY <1>1, <2>1
  <2>3. Len(cut) = Len(listed)
    <3>1. Len(outline) \in Nat
      BY LenProperties
    <3>. QED BY <1>0, <1>1, <1>3, <1>8, <3>1
  <2>. QED BY <1>6, <1>7, <2>2, <2>3
<1>. QED BY <1>7, <1>8 DEF f

\* The entries of a table of contents are those that lead to a chapter, the shallowest at
\* depth 0.
Known(entries, chapterOf) == {i \in DOMAIN entries : entries[i].to \in DOMAIN chapterOf}

LEMMA TocEntries ==
    ASSUME NEW entries \in Seq(Entries), NEW chapterOf
    PROVE  LET known == Known(entries, chapterOf)
               toc == Toc(entries, chapterOf)
           IN  /\ DOMAIN toc = 1..Cardinality(known) /\ Len(toc) = Cardinality(known)
               /\ \A n \in DOMAIN toc :
                    toc[n].chapter = chapterOf[Picked(entries, known)[n].to]
               /\ Indented(toc)
               /\ \A i \in known : \E n \in DOMAIN toc : toc[n].chapter = chapterOf[entries[i].to]
<1>. DEFINE at == Known(entries, chapterOf)
            known == Picked(entries, at)
            depths == {known[n].depth : n \in DOMAIN known}
            base == Min(depths)
            toc == Toc(entries, chapterOf)
<1>0. MaxTocDepth \in Nat
  BY ContentsAssumption
<1>1. /\ known \in Seq(Entries) /\ Len(known) = Cardinality(at)
      /\ \A i \in at : \E n \in 1..Len(known) : known[n] = entries[i]
  <2>1. at \in SUBSET (DOMAIN entries)
    BY DEF Known
  <2>. HIDE DEF at
  <2>. QED BY <2>1, PickedItems
<1>2. DOMAIN known = 1..Len(known) /\ Len(known) \in Nat
  BY <1>1, LenProperties
<1>3. \A n \in 1..Len(known) : known[n] \in Entries
  BY <1>1, ElementOfSeq
<1>4. toc = [n \in DOMAIN known |->
                [depth |-> known[n].depth - base, chapter |-> chapterOf[known[n].to]]]
  BY DEF Toc, Known
<1>. HIDE DEF known, toc, at
<1>5. depths \in SUBSET (0..MaxTocDepth)
  BY <1>2, <1>3 DEF Entries
<1>6. ASSUME toc # <<>>
      PROVE  /\ \E n \in DOMAIN toc : toc[n].depth = 0
             /\ \A n \in DOMAIN toc : toc[n].depth \in 0..MaxTocDepth
  <2>1. Len(known) # 0
    <3>. SUFFICES ASSUME Len(known) = 0 PROVE toc = <<>>
      BY <1>6
    <3>1. DOMAIN known = {}
      BY <1>2
    <3>. QED BY <1>4, <3>1
  <2>2. 1 \in DOMAIN known /\ known[1].depth \in depths
    BY <1>2, <2>1
  <2>. HIDE DEF depths
  <2>3. base \in depths /\ \A d \in depths : base <= d
    <3>1. depths \in SUBSET Nat
      BY <1>0, <1>5
    <3>. QED BY <2>2, <3>1, MinOf
  <2>. HIDE DEF base
  <2>4. PICK n \in DOMAIN known : known[n].depth = base
    BY <2>3 DEF depths
  <2>5. base \in 0..MaxTocDepth
    BY <1>5, <2>3
  <2>6. \A m \in DOMAIN known : known[m].depth \in 0..MaxTocDepth /\ base <= known[m].depth
    BY <1>5, <2>3 DEF depths
  <2>7. \A m \in DOMAIN toc : m \in DOMAIN known /\ toc[m].depth = known[m].depth - base
    BY <1>4
  <2>8. toc[n].depth = 0 /\ n \in DOMAIN toc
    BY <1>4, <2>4, <2>5
  <2>. QED BY <1>0, <2>5, <2>6, <2>7, <2>8
<1>7. Indented(toc)
  BY <1>6, Zenon DEF Indented
<1>8. \A i \in at : \E n \in DOMAIN toc : toc[n].chapter = chapterOf[entries[i].to]
  BY <1>1, <1>2, <1>4
<1>9. DOMAIN toc = 1..Cardinality(at) /\ Len(toc) = Cardinality(at)
  <2>. DEFINE shown == {[depth |-> known[n].depth - base, chapter |-> chapterOf[known[n].to]] :
                            n \in 1..Len(known)}
  <2>1. toc \in [1..Len(known) -> shown]
    BY <1>2, <1>4
  <2>. HIDE DEF shown
  <2>2. Len(toc) = Len(known) /\ DOMAIN toc = 1..Len(known)
    BY <1>2, <2>1, IsASeq
  <2>. QED BY <1>1, <2>2
<1>10. \A n \in DOMAIN toc : toc[n].chapter = chapterOf[known[n].to]
  BY <1>4
<1>. QED BY <1>7, <1>8, <1>9, <1>10 DEF known, toc, at

\* In a nav every item keeps a link of its own, and its place.
LEMMA LinkedItems ==
    ASSUME NEW nav \in Seq(Items)
    PROVE  /\ Linked(nav) \in Seq(Items) /\ DOMAIN Linked(nav) = DOMAIN nav
           /\ Len(Linked(nav)) = Len(nav)
           /\ \A i \in DOMAIN nav : /\ Linked(nav)[i].depth = nav[i].depth
                                    /\ nav[i].to # Group => Linked(nav)[i].to = nav[i].to
<1>. DEFINE links(i) == {j \in Below(nav, i) : nav[j].to # Group}
            l == Linked(nav)
<1>1. DOMAIN nav = 1..Len(nav) /\ Len(nav) \in Nat /\ \A i \in DOMAIN nav : nav[i] \in Items
  BY LenProperties, ElementOfSeq
<1>2. l = [i \in DOMAIN nav |->
            IF nav[i].to # Group \/ links(i) = {} THEN nav[i]
            ELSE [nav[i] EXCEPT !.to = nav[Min(links(i))].to]]
  BY DEF Linked
<1>3. ASSUME NEW i \in DOMAIN nav, links(i) # {} PROVE nav[Min(links(i))] \in Items
  <2>1. links(i) \in SUBSET (DOMAIN nav)
    BY DEF Below
  <2>. HIDE DEF links
  <2>2. PICK x \in links(i) : TRUE
    BY <1>3
  <2>3. links(i) \in SUBSET Nat
    BY <1>1, <2>1
  <2>4. Min(links(i)) \in links(i)
    BY <2>2, <2>3, MinOf
  <2>. QED BY <1>1, <2>1, <2>4
<1>. HIDE DEF links, l
<1>4. ASSUME NEW i \in DOMAIN nav
      PROVE  /\ l[i] \in Items /\ l[i].depth = nav[i].depth
             /\ nav[i].to # Group => l[i].to = nav[i].to
  <2>1. CASE nav[i].to # Group \/ links(i) = {}
    <3>1. l[i] = nav[i]
      BY <1>2, <2>1
    <3>. QED BY <1>1, <3>1
  <2>2. CASE nav[i].to = Group /\ links(i) # {}
    <3>. DEFINE m == nav[Min(links(i))]
    <3>1. l[i] = [nav[i] EXCEPT !.to = m.to]
      BY <1>2, <2>2
    <3>2. m \in Items /\ nav[i] \in Items
      BY <1>1, <1>3, <2>2
    <3>. HIDE DEF m
    <3>. QED BY <2>2, <3>1, <3>2 DEF Items
  <2>. QED BY <2>1, <2>2
<1>5. l \in [1..Len(nav) -> Items]
  BY <1>1, <1>2, <1>4
<1>6. l \in Seq(Items) /\ Len(l) = Len(nav) /\ DOMAIN l = DOMAIN nav
  BY <1>1, <1>5, IsASeq
<1>. QED BY <1>4, <1>6 DEF l

\* The table of contents of an EPUB starts at the left margin, whatever is nested in what and
\* whichever of its items lead to a chapter (_build_toc).
THEOREM ContentsStartAtTheMargin ==
    ASSUME NEW nav \in Seq(Items), NEW ncx \in Seq(Items)
    PROVE  Indented(BookToc(nav, ncx))
<1>. DEFINE listed == Flattened(Linked(nav))
            entries == IF listed # <<>> THEN listed ELSE Flattened(ncx)
<1>1. listed \in Seq(Entries) /\ Flattened(ncx) \in Seq(Entries)
  BY LinkedItems, FlattenedEntries
<1>2. entries \in Seq(Entries)
  BY <1>1
<1>. HIDE DEF entries
<1>3. Indented(Toc(entries, ChapterOf))
  BY <1>2, TocEntries
<1>4. BookToc(nav, ncx) = Toc(entries, ChapterOf)
  BY DEF BookToc, entries
<1>. QED BY <1>3, <1>4

\* Every chapter that a nav links to can be reached from the contents, for any nav within the
\* cap on entries: neither groups without a link, nor skipped entries, nor the depths cut off
\* lose one (_toc_entries_from_nav, _build_toc).
THEOREM NavLeadsToItsChapters ==
    ASSUME NEW nav \in Seq(Items), NEW ncx \in Seq(Items)
    PROVE  NavReaches(nav, ncx)
<1>. DEFINE linked == Linked(nav)
            listed == Flattened(linked)
            toc == BookToc(nav, ncx)
<1>1. /\ linked \in Seq(Items) /\ DOMAIN linked = DOMAIN nav /\ Len(linked) = Len(nav)
      /\ \A i \in DOMAIN nav : /\ linked[i].depth = nav[i].depth
                               /\ nav[i].to # Group => linked[i].to = nav[i].to
  BY LinkedItems
<1>. HIDE DEF linked
<1>2. /\ listed \in Seq(Entries)
      /\ Len(linked) <= MaxEntries =>
            \A i \in DOMAIN linked :
                linked[i].to \in Nat /\ linked[i].depth <= MaxWalk
                    => \E n \in DOMAIN listed : listed[n].to = linked[i].to
  BY <1>1, FlattenedEntries
<1>3. toc = Toc(IF listed # <<>> THEN listed ELSE Flattened(ncx), ChapterOf)
  BY DEF BookToc, linked
<1>. HIDE DEF listed, toc
<1>4. ASSUME NEW i \in DOMAIN nav, Len(nav) <= MaxEntries, nav[i].to \in DOMAIN ChapterOf,
             nav[i].depth <= MaxWalk
      PROVE  \E j \in DOMAIN toc : toc[j].chapter = ChapterOf[nav[i].to]
  <2>1. nav[i].to \in Nat /\ nav[i].to # Group
    BY <1>4, OutlinesAssumption DEF Group
  <2>2. linked[i].to = nav[i].to /\ linked[i].depth = nav[i].depth /\ i \in DOMAIN linked
    BY <1>1, <2>1
  <2>3. PICK n \in DOMAIN listed : listed[n].to = nav[i].to
    BY <1>1, <1>2, <1>4, <2>1, <2>2
  <2>4. listed # <<>>
    BY <2>3
  <2>5. toc = Toc(listed, ChapterOf)
    BY <1>3, <2>4
  <2>. DEFINE known == Known(listed, ChapterOf)
  <2>6. n \in known
    BY <1>4, <2>3 DEF Known
  <2>7. \A m \in known : \E j \in DOMAIN toc : toc[j].chapter = ChapterOf[listed[m].to]
    BY <1>2, <2>5, TocEntries
  <2>. QED BY <2>3, <2>6, <2>7
<1>. QED BY <1>4, Zenon DEF NavReaches, toc

----------------------------------------------------------------------------
(* The chapters of a PDF.                                                  *)

LEMMA ValidEntries ==
    ASSUME NEW outline \in Seq(Items), NEW pages \in Nat
    PROVE  /\ Valid(outline, pages) \in Seq(Entries)
           /\ \A i \in DOMAIN Valid(outline, pages) : Valid(outline, pages)[i].to \in 0..(pages - 1)
<1>. DEFINE listed == Flattened(outline)
            S == {i \in DOMAIN listed : listed[i].to < pages}
            v == Valid(outline, pages)
<1>1. listed \in Seq(Entries)
  BY FlattenedEntries
<1>2. v = Picked(listed, S)
  BY DEF Valid
<1>. HIDE DEF listed, v
<1>3. S \in SUBSET (DOMAIN listed)
  OBVIOUS
<1>. HIDE DEF S
<1>4. /\ v \in Seq(Entries) /\ Len(v) = Cardinality(S)
      /\ \A n \in 1..Cardinality(S) : \E i \in S : v[n] = listed[i]
  BY <1>1, <1>2, <1>3, PickedItems
<1>5. ASSUME NEW i \in DOMAIN v PROVE v[i].to \in 0..(pages - 1)
  <2>1. i \in 1..Cardinality(S) /\ v[i] \in Entries
    BY <1>4, LenProperties, ElementOfSeq
  <2>2. PICK j \in S : v[i] = listed[j]
    BY <1>4, <2>1
  <2>3. v[i].to \in Nat /\ v[i].to < pages
    BY <2>1, <2>2 DEF Entries, S
  <2>. QED BY <2>3
<1>. QED BY <1>4, <1>5 DEF v

\* Chapters begin at different pages in order, the first at the first page.
LEMMA StartsInOrder ==
    ASSUME NEW pages \in Nat \ {0}, NEW valid \in Seq(Entries),
           \A i \in DOMAIN valid : valid[i].to \in 0..(pages - 1)
    PROVE  /\ Starts(valid) \in Seq(0..(pages - 1)) /\ Len(Starts(valid)) \in Nat \ {0}
           /\ Starts(valid)[1] = 0
           /\ \A i, j \in 1..Len(Starts(valid)) : i < j => Starts(valid)[i] < Starts(valid)[j]
<1>. DEFINE S == {0} \cup {valid[i].to : i \in DOMAIN valid}
            all == Sorted(S)
            n == Cardinality(S)
            s == Starts(valid)
<1>0. MaxChapters \in Nat \ {0}
  BY ContentsAssumption
<1>1. S \subseteq 0..(pages - 1) /\ 0 \in S
  <2>1. 0 \in 0..(pages - 1)
    OBVIOUS
  <2>. QED BY <2>1
<1>2. s = UpTo(MaxChapters, all)
  BY DEF Starts
<1>. HIDE DEF S, s
<1>3. S \in SUBSET Nat /\ IsFiniteSet(S)
  <2>1. IsFiniteSet(0..(pages - 1))
    BY FS_Interval
  <2>2. IsFiniteSet(S)
    BY <1>1, <2>1, FS_Subset
  <2>3. 0..(pages - 1) \subseteq Nat
    OBVIOUS
  <2>. QED BY <1>1, <2>2, <2>3
<1>4. /\ n \in Nat /\ all \in [1..n -> S]
      /\ \A i, j \in 1..n : i < j => all[i] < all[j]
      /\ \A x \in S : \E i \in 1..n : all[i] = x
  BY <1>3, SortedLists
<1>. HIDE DEF n, all
<1>5. all \in Seq(0..(pages - 1)) /\ Len(all) = n
  <2>1. all \in [1..n -> 0..(pages - 1)]
    BY <1>1, <1>4
  <2>. QED BY <1>4, <2>1, IsASeq
<1>6. n >= 1 /\ all[1] = 0
  <2>1. PICK i \in 1..n : all[i] = 0
    BY <1>1, <1>4
  <2>2. 1 \in 1..n /\ all[1] \in Nat /\ n >= 1
    <3>1. 1 \in 1..n /\ n >= 1
      BY <1>4, <2>1
    <3>2. all[1] \in S
      BY <1>4, <3>1
    <3>. QED BY <1>3, <3>1, <3>2
  <2>3. ~(1 < i)
    BY <1>4, <2>1, <2>2
  <2>. QED BY <1>4, <2>1, <2>2, <2>3
<1>7. /\ s \in Seq(0..(pages - 1)) /\ Len(s) = IF MaxChapters < n THEN MaxChapters ELSE n
      /\ \A i \in 1..Len(s) : i \in 1..n /\ s[i] = all[i]
  BY <1>0, <1>2, <1>5, CutOff
<1>8. Len(s) \in Nat \ {0}
  BY <1>0, <1>4, <1>6, <1>7
<1>9. s[1] = 0 /\ \A i, j \in 1..Len(s) : i < j => s[i] < s[j]
  <2>1. 1 \in 1..Len(s)
    BY <1>8
  <2>. QED BY <1>4, <1>6, <1>7, <2>1
<1>. QED BY <1>7, <1>8, <1>9 DEF s

LEMMA WholeRuns ==
    ASSUME NEW x \in Nat, NEW d \in Nat \ {0}
    PROVE  /\ x \div d \in Nat
           /\ d * (x \div d) <= x /\ x < d * (x \div d + 1)
OBVIOUS

LEMMA Times ==
    ASSUME NEW d \in Nat, NEW a \in Nat, NEW b \in Nat, a <= b
    PROVE  d * a <= d * b /\ d * a \in Nat /\ d * b \in Nat
OBVIOUS

\* The runs reach to the last page, and the limit of chapters never cuts them, because the
\* limit of pages is no larger than that many runs hold.
LEMMA RunsOfPages ==
    ASSUME NEW pages \in 1..MaxPages
    PROVE  \E whole \in Nat \ {0} :
                /\ whole * RunLength >= pages
                /\ \A i \in 1..whole : (i - 1) * RunLength < pages
                /\ Runs(pages) = [i \in 1..whole |->
                        <<(i - 1) * RunLength, Min({i * RunLength, pages})>>]
<1>. DEFINE whole == (pages + RunLength - 1) \div RunLength
            r == RunLength
            c == MaxChapters
<1>0. /\ r \in Nat \ {0} /\ c \in Nat \ {0} /\ pages \in Nat \ {0}
      /\ MaxPages \in Nat /\ pages <= MaxPages /\ MaxPages <= r * c
  BY ContentsAssumption
<1>1. pages + r - 1 \in Nat
  BY <1>0
<1>2. whole \in Nat /\ r * whole <= pages + r - 1 /\ pages + r - 1 < r * (whole + 1)
  BY <1>0, <1>1, WholeRuns
<1>3. Runs(pages) = [i \in 1..Min({c, whole}) |-> <<(i - 1) * r, Min({i * r, pages})>>]
  BY DEF Runs
<1>. HIDE DEF whole, r, c
<1>4. r * (whole + 1) = r * whole + r /\ r * whole \in Nat
  BY <1>0, <1>2
<1>5. r * whole >= pages
  <2>. DEFINE m == r * whole
  <2>1. m \in Nat /\ pages + r - 1 < m + r
    BY <1>2, <1>4
  <2>. HIDE DEF m
  <2>2. m >= pages
    BY <1>0, <2>1
  <2>. QED BY <2>2 DEF m
<1>6. whole # 0
  <2>. SUFFICES ASSUME whole = 0 PROVE FALSE
    OBVIOUS
  <2>1. r * whole = 0
    BY <1>0
  <2>. QED BY <1>0, <1>5, <2>1
<1>7. \A i \in 1..whole : (i - 1) * r < pages
  <2>. SUFFICES ASSUME NEW i \in 1..whole PROVE (i - 1) * r < pages
    OBVIOUS
  <2>1. r * (i - 1) <= r * (whole - 1) /\ r * (i - 1) \in Nat /\ r * (whole - 1) \in Nat
    <3>1. i - 1 \in Nat /\ whole - 1 \in Nat /\ i - 1 <= whole - 1
      BY <1>2
    <3>. QED BY <1>0, <3>1, Times
  <2>2. r * (whole - 1) = r * whole - r
    BY <1>0, <1>2
  <2>3. r * (whole - 1) < pages
    <3>. DEFINE m == r * whole
                l == r * (whole - 1)
    <3>1. m \in Nat /\ l \in Nat /\ m <= pages + r - 1 /\ l = m - r
      BY <1>2, <1>4, <2>1, <2>2
    <3>. HIDE DEF m, l
    <3>2. l < pages
      BY <1>0, <3>1
    <3>. QED BY <3>2 DEF l
  <2>4. (i - 1) * r = r * (i - 1)
    BY <1>0
  <2>. DEFINE k == r * (i - 1)
              l == r * (whole - 1)
  <2>5. k <= l /\ l < pages /\ k \in Nat /\ l \in Nat
    BY <2>1, <2>3
  <2>. HIDE DEF k, l
  <2>6. k < pages
    BY <1>0, <2>5
  <2>. QED BY <2>4, <2>6 DEF k
<1>8. whole <= c
  <2>. SUFFICES ASSUME whole >= c + 1 PROVE FALSE
    BY <1>0, <1>2
  <2>1. whole - 1 \in Nat /\ c <= whole - 1 /\ whole \in 1..whole
    BY <1>0, <1>2
  <2>2. r * c <= r * (whole - 1) /\ r * c \in Nat /\ r * (whole - 1) \in Nat
    BY <1>0, <2>1, Times
  <2>3. (whole - 1) * r < pages
    BY <1>7, <2>1
  <2>4. (whole - 1) * r = r * (whole - 1)
    BY <1>0, <2>1
  <2>. DEFINE k == r * c
              l == r * (whole - 1)
  <2>5. k <= l /\ l < pages /\ k \in Nat /\ l \in Nat /\ MaxPages <= k
    BY <1>0, <2>2, <2>3, <2>4
  <2>. HIDE DEF k, l
  <2>. QED BY <1>0, <2>5
<1>9. Min({c, whole}) = whole
  <2>. DEFINE m == Min({c, whole})
  <2>1. m \in {c, whole} /\ \A y \in {c, whole} : m <= y
    BY <1>0, <1>2, MinOf
  <2>. HIDE DEF m
  <2>2. m = whole
    BY <1>0, <1>2, <1>8, <2>1
  <2>. QED BY <2>2 DEF m
<1>10. whole * r >= pages
  <2>1. whole * r = r * whole
    BY <1>0, <1>2
  <2>. QED BY <1>5, <2>1
<1>. QED BY <1>2, <1>3, <1>6, <1>7, <1>9, <1>10 DEF r

\* Each page of a PDF is in one chapter and the chapters are in order: whatever its outline
\* names, in whatever order and however deep, with the limit of chapters in the middle of it,
\* or without one, up to the very limit of pages (_pdf_chapter_ranges).
THEOREM PagesAreInOneChapter ==
    ASSUME NEW outline \in Seq(Items), NEW pages \in 1..MaxPages
    PROVE  PagesInOrder(outline, pages)
<1>. DEFINE valid == Valid(outline, pages)
            chapters == PdfChapters(outline, pages)
            n == Len(chapters)
<1>0. pages \in Nat \ {0} /\ RunLength \in Nat \ {0}
  BY ContentsAssumption
<1>1. valid \in Seq(Entries) /\ \A i \in DOMAIN valid : valid[i].to \in 0..(pages - 1)
  BY <1>0, ValidEntries
<1>2. chapters = IF valid = <<>> THEN Runs(pages) ELSE Ranges(Starts(valid), pages)
  BY DEF PdfChapters
<1>. HIDE DEF valid, chapters
<1>3. SUFFICES /\ chapters \in Seq((0..pages) \X (0..pages)) /\ n \in Nat \ {0}
               /\ chapters[1][1] = 0 /\ chapters[n][2] = pages
               /\ \A i \in 1..n : /\ chapters[i][1] < chapters[i][2]
                                  /\ i < n => chapters[i + 1][1] = chapters[i][2]
  <2>1. DOMAIN chapters = 1..n /\ Last(chapters) = chapters[n]
    BY <1>3, LenProperties DEF Last
  <2>. QED BY <1>3, <2>1 DEF PagesInOrder, chapters
<1>4. CASE valid # <<>>
  <2>. DEFINE s == Starts(valid)
              m == Len(s)
  <2>1. /\ s \in Seq(0..(pages - 1)) /\ m \in Nat \ {0} /\ s[1] = 0
        /\ \A i, j \in 1..m : i < j => s[i] < s[j]
    BY <1>0, <1>1, StartsInOrder
  <2>2. DOMAIN s = 1..m /\ \A i \in 1..m : s[i] \in 0..(pages - 1)
    BY <2>1, LenProperties, ElementOfSeq
  <2>3. chapters = [i \in DOMAIN s |-> <<s[i], IF i < m THEN s[i + 1] ELSE pages>>]
    BY <1>2, <1>4 DEF Ranges
  <2>. HIDE DEF s, m
  <2>4. \A i \in 1..m : chapters[i] = <<s[i], IF i < m THEN s[i + 1] ELSE pages>>
    BY <2>2, <2>3
  <2>5. ASSUME NEW i \in 1..m
        PROVE  /\ chapters[i] \in (0..pages) \X (0..pages)
               /\ chapters[i][1] = s[i] /\ s[i] < chapters[i][2]
               /\ chapters[i][2] = IF i < m THEN s[i + 1] ELSE pages
    <3>1. s[i] \in 0..(pages - 1) /\ s[i] \in 0..pages /\ s[i] < pages /\ pages \in 0..pages
      BY <1>0, <2>2
    <3>2. CASE i < m
      <4>1. i + 1 \in 1..m /\ i < i + 1
        BY <2>1, <3>2
      <4>2. s[i + 1] \in 0..(pages - 1) /\ s[i] < s[i + 1]
        BY <2>1, <2>2, <4>1
      <4>3. s[i + 1] \in 0..pages
        BY <1>0, <4>2
      <4>4. chapters[i] = <<s[i], s[i + 1]>>
        BY <2>4, <3>2
      <4>. QED BY <3>1, <3>2, <4>2, <4>3, <4>4
    <3>3. CASE ~(i < m)
      <4>1. chapters[i] = <<s[i], pages>>
        BY <2>4, <3>3
      <4>. QED BY <3>1, <3>3, <4>1
    <3>. QED BY <3>2, <3>3
  <2>6. chapters \in Seq((0..pages) \X (0..pages)) /\ n = m
    <3>1. chapters \in [1..m -> (0..pages) \X (0..pages)]
      BY <2>2, <2>3, <2>5
    <3>. QED BY <2>1, <3>1, IsASeq
  <2>7. chapters[1][1] = 0 /\ chapters[m][2] = pages
    <3>1. 1 \in 1..m /\ m \in 1..m /\ ~(m < m)
      BY <2>1
    <3>. QED BY <2>1, <2>5, <3>1
  <2>8. \A i \in 1..m : i < m => chapters[i + 1][1] = chapters[i][2]
    <3>. SUFFICES ASSUME NEW i \in 1..m, i < m PROVE chapters[i + 1][1] = chapters[i][2]
      OBVIOUS
    <3>1. i + 1 \in 1..m
      BY <2>1
    <3>. QED BY <2>5, <3>1
  <2>9. \A i \in 1..m : chapters[i][1] < chapters[i][2]
    BY <2>5
  <2>. QED BY <2>1, <2>6, <2>7, <2>8, <2>9
<1>5. CASE valid = <<>>
  <2>1. PICK m \in Nat \ {0} :
            /\ m * RunLength >= pages
            /\ \A i \in 1..m : (i - 1) * RunLength < pages
            /\ Runs(pages) = [i \in 1..m |->
                    <<(i - 1) * RunLength, Min({i * RunLength, pages})>>]
    BY RunsOfPages
  <2>. DEFINE edge(i) == i * RunLength
  <2>2. \A i \in 0..m : edge(i) \in Nat /\ edge(i) < edge(i + 1)
    BY <1>0
  <2>3. edge(0) = 0
    BY <1>0
  <2>4. /\ edge(m) >= pages
        /\ \A i \in 1..m : edge(i - 1) < pages
        /\ chapters = [i \in 1..m |-> <<edge(i - 1), Min({edge(i), pages})>>]
    BY <1>2, <1>5, <2>1
  <2>. HIDE DEF edge
  <2>5. ASSUME NEW i \in 1..m
        PROVE  /\ chapters[i] \in (0..pages) \X (0..pages)
               /\ chapters[i][1] = edge(i - 1) /\ edge(i - 1) < chapters[i][2]
               /\ chapters[i][2] = IF i < m THEN edge(i) ELSE pages
    <3>. DEFINE a == edge(i - 1)
                b == edge(i)
    <3>1. i - 1 \in 0..m /\ i \in 0..m /\ (i - 1) + 1 = i
      OBVIOUS
    <3>2. a \in Nat /\ b \in Nat /\ a < b /\ a < pages
      BY <2>2, <2>4, <3>1
    <3>3. i < m => b < pages
      <4>. SUFFICES ASSUME i < m PROVE b < pages
        OBVIOUS
      <4>1. i + 1 \in 1..m /\ (i + 1) - 1 = i
        BY <2>1
      <4>2. edge((i + 1) - 1) < pages
        BY <2>4, <4>1
      <4>. QED BY <4>1, <4>2
    <3>4. ~(i < m) => b >= pages
      <4>. SUFFICES ASSUME ~(i < m) PROVE b >= pages
        OBVIOUS
      <4>1. i = m
        OBVIOUS
      <4>. QED BY <2>4, <4>1
    <3>5. chapters[i] = <<a, Min({b, pages})>>
      BY <2>4
    <3>. HIDE DEF a, b
    <3>6. Min({b, pages}) \in {b, pages} /\ Min({b, pages}) <= b /\ Min({b, pages}) <= pages
      BY <1>0, <3>2, MinOf
    <3>7. Min({b, pages}) = IF i < m THEN b ELSE pages
      <4>. DEFINE k == Min({b, pages})
      <4>1. k \in {b, pages} /\ k <= b /\ k <= pages
        BY <3>6
      <4>. HIDE DEF k
      <4>2. k = IF i < m THEN b ELSE pages
        BY <1>0, <3>2, <3>3, <3>4, <4>1
      <4>. QED BY <4>2 DEF k
    <3>8. a \in 0..pages /\ (IF i < m THEN b ELSE pages) \in 0..pages /\ a < IF i < m THEN b ELSE pages
      BY <1>0, <3>2, <3>3
    <3>9. /\ chapters[i] \in (0..pages) \X (0..pages)
          /\ chapters[i][1] = a /\ a < chapters[i][2]
          /\ chapters[i][2] = IF i < m THEN b ELSE pages
      BY <3>5, <3>7, <3>8
    <3>. QED BY <3>9 DEF a, b
  <2>6. chapters \in Seq((0..pages) \X (0..pages)) /\ n = m
    <3>1. chapters \in [1..m -> (0..pages) \X (0..pages)]
      BY <2>4, <2>5
    <3>. QED BY <2>1, <3>1, IsASeq
  <2>7. chapters[1][1] = 0 /\ chapters[m][2] = pages
    <3>1. 1 \in 1..m /\ m \in 1..m /\ ~(m < m) /\ 1 - 1 = 0
      BY <2>1
    <3>. QED BY <2>3, <2>5, <3>1
  <2>8. \A i \in 1..m : i < m => chapters[i + 1][1] = chapters[i][2]
    <3>. SUFFICES ASSUME NEW i \in 1..m, i < m PROVE chapters[i + 1][1] = chapters[i][2]
      OBVIOUS
    <3>1. i + 1 \in 1..m /\ (i + 1) - 1 = i
      BY <2>1
    <3>2. chapters[i + 1][1] = edge((i + 1) - 1)
      BY <2>5, <3>1
    <3>. QED BY <2>5, <3>1, <3>2
  <2>9. \A i \in 1..m : chapters[i][1] < chapters[i][2]
    BY <2>5
  <2>. QED BY <2>1, <2>6, <2>7, <2>8, <2>9
<1>. QED BY <1>4, <1>5

\* The entries of a PDF lead where they say: each opens the chapter that begins on its page,
\* and a bookmark has its entry unless the limit of chapters has taken its chapter
\* (_pdf_chapter_ranges).
THEOREM EntriesOpenTheirChapters ==
    ASSUME NEW outline \in Seq(Items), NEW pages \in 1..MaxPages
    PROVE  EntriesLand(outline, pages)
<1>. DEFINE valid == Valid(outline, pages)
            chapters == PdfChapters(outline, pages)
            begins == {chapters[i][1] : i \in DOMAIN chapters}
            picked == {i \in DOMAIN valid : valid[i].to \in begins}
            opened == Picked(valid, picked)
            toc == PdfToc(outline, pages)
            s == Starts(valid)
            chapterOf == [p \in ToSet(s) |-> CHOOSE i \in DOMAIN s : s[i] = p]
<1>0. pages \in Nat \ {0}
  BY ContentsAssumption
<1>1. valid \in Seq(Entries) /\ \A i \in DOMAIN valid : valid[i].to \in 0..(pages - 1)
  BY <1>0, ValidEntries
<1>2. SUFFICES ASSUME valid # <<>>
               PROVE  /\ Len(toc) = Len(opened)
                      /\ \A i \in DOMAIN toc : chapters[toc[i].chapter][1] = opened[i].to
  BY Zenon DEF EntriesLand
<1>3. chapters = Ranges(s, pages)
  BY <1>2 DEF PdfChapters
<1>4. toc = Toc(valid, chapterOf)
  BY <1>2 DEF PdfToc
<1>. HIDE DEF valid, chapters, toc, s
<1>5. DOMAIN chapters = DOMAIN s /\ \A i \in DOMAIN s : chapters[i][1] = s[i]
  BY <1>3 DEF Ranges
<1>6. begins = ToSet(s)
  BY <1>5 DEF ToSet
<1>7. \A p \in ToSet(s) : chapterOf[p] \in DOMAIN s /\ s[chapterOf[p]] = p
  <2>. SUFFICES ASSUME NEW p \in ToSet(s) PROVE chapterOf[p] \in DOMAIN s /\ s[chapterOf[p]] = p
    OBVIOUS
  <2>1. \E i \in DOMAIN s : s[i] = p
    BY DEF ToSet
  <2>. QED BY <2>1
<1>8. DOMAIN chapterOf = ToSet(s)
  OBVIOUS
<1>. HIDE DEF chapterOf, begins
<1>9. {i \in DOMAIN valid : valid[i].to \in DOMAIN chapterOf} = picked
  BY <1>6, <1>8
<1>10. /\ DOMAIN toc = 1..Cardinality(picked) /\ Len(toc) = Cardinality(picked)
       /\ \A n \in DOMAIN toc : toc[n].chapter = chapterOf[opened[n].to]
  <2>. HIDE DEF picked
  <2>. DEFINE known == Known(valid, chapterOf)
  <2>1. /\ DOMAIN Toc(valid, chapterOf) = 1..Cardinality(known)
        /\ Len(Toc(valid, chapterOf)) = Cardinality(known)
        /\ \A n \in DOMAIN Toc(valid, chapterOf) :
                Toc(valid, chapterOf)[n].chapter = chapterOf[Picked(valid, known)[n].to]
    BY <1>1, TocEntries
  <2>2. known = picked
    BY <1>9 DEF Known
  <2>. HIDE DEF known
  <2>. QED BY <1>4, <2>1, <2>2
<1>11. /\ Len(opened) = Cardinality(picked)
       /\ \A n \in 1..Cardinality(picked) : \E i \in picked : opened[n] = valid[i]
  <2>1. picked \in SUBSET (DOMAIN valid)
    OBVIOUS
  <2>. HIDE DEF picked
  <2>. QED BY <1>1, <2>1, PickedItems
<1>12. ASSUME NEW n \in DOMAIN toc PROVE chapters[toc[n].chapter][1] = opened[n].to
  <2>1. PICK i \in picked : opened[n] = valid[i]
    BY <1>10, <1>11
  <2>2. opened[n].to \in ToSet(s)
    BY <1>6, <2>1
  <2>. HIDE DEF picked, opened
  <2>. QED BY <1>5, <1>7, <1>10, <2>2
<1>. QED BY <1>10, <1>11, <1>12

\* So does the table of contents of a PDF, with bookmarks or without (_pdf_chapter_ranges,
\* _build_toc).
THEOREM PdfContentsStartAtTheMargin ==
    ASSUME NEW outline \in Seq(Items), NEW pages \in 1..MaxPages
    PROVE  Indented(PdfToc(outline, pages))
<1>. DEFINE valid == Valid(outline, pages)
            toc == PdfToc(outline, pages)
            runs == Runs(pages)
<1>0. pages \in Nat /\ MaxTocDepth \in Nat
  BY ContentsAssumption
<1>1. valid \in Seq(Entries)
  BY <1>0, ValidEntries
<1>2. CASE valid # <<>>
  <2>. DEFINE s == Starts(valid)
              chapterOf == [p \in ToSet(s) |-> CHOOSE i \in DOMAIN s : s[i] = p]
  <2>1. toc = Toc(valid, chapterOf)
    BY <1>2 DEF PdfToc
  <2>. HIDE DEF valid, s, chapterOf, toc
  <2>2. Indented(Toc(valid, chapterOf))
    BY <1>1, TocEntries
  <2>. QED BY <2>1, <2>2 DEF toc
<1>3. CASE valid = <<>>
  <2>1. toc = [i \in DOMAIN runs |-> [depth |-> 0, chapter |-> i]]
    BY <1>3 DEF PdfToc
  <2>. HIDE DEF toc, runs
  <2>2. \A i \in DOMAIN toc : toc[i].depth = 0
    BY <2>1
  <2>3. ASSUME toc # <<>> PROVE \E i \in DOMAIN toc : toc[i].depth = 0
    <3>1. DOMAIN runs # {}
      <4>. SUFFICES ASSUME DOMAIN runs = {} PROVE toc = <<>>
        BY <2>3
      <4>. QED BY <2>1
    <3>. QED BY <2>1, <2>2, <3>1
  <2>4. Indented(toc)
    BY <1>0, <2>2, <2>3 DEF Indented
  <2>. QED BY <2>4 DEF toc
<1>. QED BY <1>2, <1>3

\* Together: whatever the outline of a PDF and the nav or NCX of an EPUB, each page is in one
\* chapter, and the entries of the contents open what they name (_pdf_chapter_ranges,
\* _build_toc; "every outline entry maps to the chapter it opens").
THEOREM ContentsLeadWhereTheySay == Spec => []ContentsLead
<1>1. ASSUME NEW outline \in PdfOutlines, NEW pages \in 1..MaxPages
      PROVE  /\ PagesInOrder(outline, pages)
             /\ EntriesLand(outline, pages)
             /\ Indented(PdfToc(outline, pages))
  <2>1. outline \in Seq(Items)
    BY OutlinesAssumption
  <2>. QED BY <2>1, PagesAreInOneChapter, EntriesOpenTheirChapters, PdfContentsStartAtTheMargin
<1>2. ASSUME NEW nav \in Navs, NEW ncx \in Navs
      PROVE  NavReaches(nav, ncx) /\ Indented(BookToc(nav, ncx))
  <2>1. nav \in Seq(Items) /\ ncx \in Seq(Items)
    BY OutlinesAssumption
  <2>. QED BY <2>1, NavLeadsToItsChapters, ContentsStartAtTheMargin
<1>3. OutlinesLead
  BY <1>1, <1>2, Zenon DEF OutlinesLead
<1>4. ContentsLead
  BY <1>3 DEF ContentsLead
<1>. QED BY <1>4, PTL

=============================================================================
