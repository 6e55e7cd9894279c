---------------------------- MODULE Covers_proofs ----------------------------
(***************************************************************************)
(* Proofs about the upstream client and the cover cache, for any number of *)
(* requests, processes, connections, hops and covers, and any limit.       *)
(*                                                                         *)
(* A task is known by its shape (Tasks), so every invariant is about the   *)
(* shape of one task, about two tasks of one process (Alone), or about     *)
(* what the directory holds (Contents); its order matters to no theorem.   *)
(***************************************************************************)
EXTENDS Covers, FiniteSetTheorems, SequenceTheorems, TLAPS

\* A fetch, wherever it is: every address has passed the guard, and one that still has a
\* request to send has not sent them all.
FetchTask ==
    {t \in Fetching : /\ t.url \in Allowed
                      /\ t.stage = "pool" => t.sent < MaxHops
                      /\ t.op = "cover" => t.asked \in CoverUrls}

FileNames ==
    ({"payload", "type"} \X CoverUrls) \cup ({"tmp"} \X CoverUrls \X Processes)

SaveTask == [op : {"cover"}, asked : CoverUrls, stage : Saving \ {"prune"}]
PruneTask ==
    [op : {"cover"}, asked : CoverUrls, stage : {"prune"}, total : Nat, files : Seq(FileNames)]

Tasks == {Idle} \cup FetchTask \cup SaveTask \cup PruneTask

Files == [name : FileNames, whole : BOOLEAN]
Contents(dir) == {dir[i] : i \in DOMAIN dir}
Distinct(dir) == \A i, j \in DOMAIN dir : dir[i].name = dir[j].name => i = j
Directories == {dir \in Seq(Files) : Distinct(dir)}

Typed ==
    /\ task \in [Requests -> Tasks]
    /\ held \in [Requests -> Nat]
    /\ covers \in Directories
    /\ unpruned \in BOOLEAN

----------------------------------------------------------------------------
LEMMA Constants ==
    /\ IsFiniteSet(Requests)
    /\ ProcessOf \in [Requests -> Processes]
    /\ Takes \in [Requests -> SUBSET {"feed", "download", "cover"}]
    /\ Allowed \subseteq Urls /\ CoverUrls \subseteq Allowed
    /\ MaxHops \in Nat \ {0} /\ PoolSize \in Nat \ {0} /\ MaxChunks \in Nat
    /\ CoverSize \in Nat /\ TypeSize \in Nat /\ Limit \in Nat
BY UpstreamAssumption, CoversAssumption

\* What each stage says of the shape of a task.
LEMMA Shapes ==
    ASSUME NEW r \in Requests, task[r] \in Tasks
    PROVE  /\ task[r] = Idle \/ task[r].op # "none"
           /\ task[r] # Idle /\ task[r].stage \in Awaits <=> task[r] \in FetchTask
           /\ Saves(r) /\ ~At(r, "prune") <=> task[r] \in SaveTask
           /\ At(r, "prune") <=> task[r] \in PruneTask
<1>. DEFINE t == task[r]
<1>. USE DEF Idle, Saves, At, Saving, Awaits
<1>1. CASE t = Idle
  BY <1>1 DEF FetchTask, Fetching, SaveTask, PruneTask, Ops
<1>2. CASE t \in FetchTask
  BY <1>2 DEF FetchTask, Fetching, SaveTask, PruneTask, Ops
<1>3. CASE t \in SaveTask
  BY <1>3 DEF FetchTask, Fetching, SaveTask, PruneTask, Ops
<1>4. CASE t \in PruneTask
  BY <1>4 DEF FetchTask, Fetching, SaveTask, PruneTask, Ops
<1>. QED BY <1>1, <1>2, <1>3, <1>4 DEF Tasks

----------------------------------------------------------------------------
(* The directory as the sequence of its files.                             *)

LEMMA RemoveAtProperties ==
    ASSUME NEW S, NEW s \in Seq(S), NEW i \in 1..Len(s)
    PROVE  /\ RemoveAt(s, i) \in Seq(S)
           /\ Len(RemoveAt(s, i)) = Len(s) - 1
           /\ \A j \in 1..(Len(s) - 1) : RemoveAt(s, i)[j] = s[IF j < i THEN j ELSE j + 1]
<1>. DEFINE front == SubSeq(s, 1, i - 1)
            back == SubSeq(s, i + 1, Len(s))
<1>1. /\ front \in Seq(S) /\ Len(front) = i - 1
      /\ \A k \in 1..(i - 1) : front[k] = s[k]
  BY SubSeqProperties
<1>2. /\ back \in Seq(S) /\ Len(back) = Len(s) - i
      /\ \A k \in 1..(Len(s) - i) : back[k] = s[k + i]
  BY SubSeqProperties, LenProperties
<1>3. RemoveAt(s, i) = front \o back
  BY DEF RemoveAt
<1>. HIDE DEF front, back
<1>4. /\ front \o back \in Seq(S)
      /\ Len(front \o back) = Len(s) - 1
  BY <1>1, <1>2, ConcatProperties, LenProperties
<1>5. ASSUME NEW j \in 1..(Len(s) - 1)
      PROVE  (front \o back)[j] = s[IF j < i THEN j ELSE j + 1]
  <2>0. Len(s) \in Nat
    BY LenProperties
  <2>1. (front \o back)[j] = IF j <= Len(front) THEN front[j] ELSE back[j - Len(front)]
    BY <1>1, <1>2, <2>0, ConcatProperties
  <2>2. CASE j < i
    BY <1>1, <2>0, <2>1, <2>2
  <2>3. CASE ~(j < i)
    <3>1. j - (i - 1) \in 1..(Len(s) - i) /\ (j - (i - 1)) + i = j + 1
      BY <2>0, <2>3
    <3>. QED BY <1>1, <1>2, <2>0, <2>1, <2>3, <3>1
  <2>. QED BY <2>2, <2>3
<1>. QED BY <1>3, <1>4, <1>5

LEMMA InDirectory ==
    ASSUME NEW dir \in Directories
    PROVE  /\ dir \in Seq(Files)
           /\ Len(dir) \in Nat /\ DOMAIN dir = 1..Len(dir)
           /\ \A i \in 1..Len(dir) : dir[i] \in Files
           /\ Contents(dir) \subseteq Files
           /\ Names(dir) = {f.name : f \in Contents(dir)}
           /\ Names(dir) \subseteq FileNames
           /\ \A f, g \in Contents(dir) : f.name = g.name => f = g
<1>1. dir \in Seq(Files) /\ Len(dir) \in Nat /\ DOMAIN dir = 1..Len(dir)
  BY LenProperties DEF Directories
<1>2. \A i \in 1..Len(dir) : dir[i] \in Files
  BY <1>1, ElementOfSeq
<1>. QED BY <1>1, <1>2 DEF Directories, Distinct, Contents, Names, Files

\* Removing a name removes the file of that name, and no other.
LEMMA WithoutProperties ==
    ASSUME NEW dir \in Directories, NEW name
    PROVE  /\ Without(dir, name) \in Directories
           /\ Contents(Without(dir, name)) = {f \in Contents(dir) : f.name # name}
           /\ Names(Without(dir, name)) = Names(dir) \ {name}
<1>0. /\ dir \in Seq(Files) /\ Len(dir) \in Nat /\ DOMAIN dir = 1..Len(dir)
      /\ Names(dir) = {f.name : f \in Contents(dir)}
  BY InDirectory
<1>1. CASE name \notin Names(dir)
  BY <1>0, <1>1 DEF Without
<1>2. CASE name \in Names(dir)
  <2>. DEFINE p == Place(dir, name)
              rest == RemoveAt(dir, p)
              Shifted(j) == IF j < p THEN j ELSE j + 1
  <2>1. p \in 1..Len(dir) /\ dir[p].name = name
    BY <1>0, <1>2 DEF Place, Names
  <2>. HIDE DEF p
  <2>2. /\ rest \in Seq(Files) /\ Len(rest) = Len(dir) - 1
        /\ \A j \in 1..(Len(dir) - 1) : rest[j] = dir[Shifted(j)]
    BY <1>0, <2>1, RemoveAtProperties
  <2>3. DOMAIN rest = 1..(Len(dir) - 1)
    BY <2>2, LenProperties
  <2>4. Without(dir, name) = rest
    BY <1>2 DEF Without, p
  <2>. HIDE DEF rest
  <2>5. \A j \in 1..(Len(dir) - 1) : Shifted(j) \in 1..Len(dir) /\ Shifted(j) # p
    BY <1>0, <2>1
  <2>6. \A i \in 1..Len(dir) : i # p => \E j \in 1..(Len(dir) - 1) : Shifted(j) = i
    <3>. SUFFICES ASSUME NEW i \in 1..Len(dir), i # p
                  PROVE  \E j \in 1..(Len(dir) - 1) : Shifted(j) = i
      OBVIOUS
    <3>1. CASE i < p
      BY <1>0, <2>1, <3>1
    <3>2. CASE i > p
      <4>1. i - 1 \in 1..(Len(dir) - 1) /\ Shifted(i - 1) = i
        BY <1>0, <2>1, <3>2
      <4>. QED BY <4>1
    <3>. QED BY <1>0, <2>1, <3>1, <3>2
  <2>7. \A i, j \in 1..Len(dir) : dir[i].name = dir[j].name => i = j
    BY <1>0 DEF Directories, Distinct
  <2>8. Distinct(rest)
    <3>1. \A i, j \in 1..(Len(dir) - 1) : Shifted(i) = Shifted(j) => i = j
      BY <1>0, <2>1
    <3>. QED BY <2>2, <2>3, <2>5, <2>7, <3>1 DEF Distinct
  <2>9. Contents(rest) = {f \in Contents(dir) : f.name # name}
    <3>1. ASSUME NEW j \in 1..(Len(dir) - 1)
          PROVE  rest[j] \in Contents(dir) /\ rest[j].name # name
      BY <1>0, <2>1, <2>2, <2>5, <2>7 DEF Contents
    <3>2. ASSUME NEW i \in 1..Len(dir), dir[i].name # name
          PROVE  dir[i] \in Contents(rest)
      <4>1. PICK j \in 1..(Len(dir) - 1) : Shifted(j) = i
        BY <2>1, <2>6, <3>2
      <4>. QED BY <2>2, <2>3, <4>1 DEF Contents
    <3>. QED BY <1>0, <2>3, <3>1, <3>2 DEF Contents
  <2>. QED BY <1>0, <2>2, <2>4, <2>8, <2>9, InDirectory DEF Directories
<1>. QED BY <1>1, <1>2

LEMMA FreshProperties ==
    ASSUME covers \in Directories, NEW name \in FileNames, NEW whole \in BOOLEAN
    PROVE  /\ Fresh(name, whole) \in Directories
           /\ \A g \in Contents(Fresh(name, whole)) :
                \/ g \in Contents(covers) /\ g.name # name
                \/ g.name = name /\ (g.whole <=> whole)
           /\ Names(Fresh(name, whole)) = Names(covers) \cup {name}
<1>. DEFINE f == [name |-> name, whole |-> whole]
            dir == Without(covers, name)
            n == Len(dir)
            new == Append(dir, f)
<1>1. /\ dir \in Directories
      /\ Contents(dir) = {g \in Contents(covers) : g.name # name}
      /\ Names(dir) = Names(covers) \ {name}
  BY WithoutProperties
<1>2. new = Fresh(name, whole)
  BY DEF Fresh
<1>. HIDE DEF dir
<1>3. /\ dir \in Seq(Files) /\ n \in Nat /\ DOMAIN dir = 1..n
      /\ Names(dir) = {g.name : g \in Contents(dir)}
  BY <1>1, InDirectory
<1>4. f \in Files /\ f.name = name
  BY DEF Files
<1>5. /\ new \in Seq(Files) /\ Len(new) = n + 1
      /\ \A i \in 1..n : new[i] = dir[i]
      /\ new[n + 1] = f
  BY <1>3, <1>4, AppendProperties
<1>6. DOMAIN new = 1..(n + 1)
  BY <1>5, LenProperties
<1>7. \A i \in 1..n : dir[i].name # name
  BY <1>1, <1>3 DEF Contents
<1>. HIDE DEF f, n, new
<1>8. Distinct(new)
  <2>1. \A i, j \in 1..n : dir[i].name = dir[j].name => i = j
    BY <1>1, <1>3 DEF Directories, Distinct
  <2>. QED BY <1>3, <1>4, <1>5, <1>6, <1>7, <2>1 DEF Distinct
<1>9. Contents(new) = Contents(dir) \cup {f}
  <2>1. \A i \in 1..(n + 1) : new[i] \in Contents(dir) \cup {f}
    BY <1>3, <1>5 DEF Contents
  <2>2. \A i \in 1..n : dir[i] \in Contents(new)
    BY <1>3, <1>5, <1>6 DEF Contents
  <2>3. f \in Contents(new)
    BY <1>3, <1>5, <1>6 DEF Contents
  <2>. QED BY <1>3, <1>6, <2>1, <2>2, <2>3 DEF Contents
<1>10. new \in Directories
  BY <1>5, <1>8 DEF Directories
<1>11. Names(new) = Names(covers) \cup {name}
  BY <1>1, <1>4, <1>9, <1>10, InDirectory
<1>12. \A g \in Contents(new) :
          \/ g \in Contents(covers) /\ g.name # name
          \/ g.name = name /\ (g.whole <=> whole)
  <2>1. f.name = name /\ (f.whole <=> whole)
    BY DEF f
  <2>. QED BY <1>1, <1>9, <2>1
<1>. QED BY <1>2, <1>10, <1>11, <1>12

\* os.replace(): the file of the temporary name has the payload's name, the old payload is
\* gone, and the others stay.
LEMMA RenamedProperties ==
    ASSUME covers \in Directories, NEW u \in CoverUrls, NEW p \in Processes,
           Has(Tmp(u, p))
    PROVE  LET new == Renamed(u, Tmp(u, p)) IN
           /\ new \in Directories
           /\ \A f \in Contents(new) :
                \/ f \in Contents(covers) /\ f.name \notin {Payload(u), Tmp(u, p)}
                \/ /\ f.name = Payload(u)
                   /\ \E g \in Contents(covers) : g.name = Tmp(u, p) /\ g.whole = f.whole
<1>. DEFINE tmp == Tmp(u, p)
            dir == Without(covers, Payload(u))
            n == Len(dir)
            new == Renamed(u, tmp)
<1>1. /\ dir \in Directories
      /\ Contents(dir) = {g \in Contents(covers) : g.name # Payload(u)}
  BY WithoutProperties
<1>. HIDE DEF dir
<1>2. /\ dir \in Seq(Files) /\ n \in Nat /\ DOMAIN dir = 1..n
      /\ \A i \in 1..n : dir[i] \in Files /\ dir[i].name # Payload(u)
  BY <1>1, InDirectory DEF Contents
<1>3. new = [i \in 1..n |-> IF dir[i].name = tmp
                            THEN [dir[i] EXCEPT !.name = Payload(u)] ELSE dir[i]]
  BY <1>2 DEF Renamed, dir
<1>4. Payload(u) \in FileNames
  BY DEF Payload, FileNames
<1>. HIDE DEF n, new, tmp
<1>5. \A i \in 1..n :
        /\ new[i] \in Files
        /\ dir[i].name = tmp => new[i].name = Payload(u) /\ new[i].whole = dir[i].whole
        /\ dir[i].name # tmp => new[i] = dir[i]
  BY <1>2, <1>3, <1>4 DEF Files
<1>6. new \in Seq(Files) /\ DOMAIN new = 1..n
  BY <1>2, <1>3, <1>5, IsASeq
<1>7. \A i, j \in 1..n : dir[i].name = dir[j].name => i = j
  BY <1>1, <1>2 DEF Directories, Distinct
<1>8. Distinct(new)
  BY <1>2, <1>5, <1>6, <1>7 DEF Distinct
<1>9. ASSUME NEW i \in 1..n
      PROVE  \/ new[i] \in Contents(covers) /\ new[i].name \notin {Payload(u), tmp}
             \/ /\ new[i].name = Payload(u)
                /\ \E g \in Contents(covers) : g.name = tmp /\ g.whole = new[i].whole
  <2>1. dir[i] \in Contents(covers)
    BY <1>1, <1>2 DEF Contents
  <2>. QED BY <1>2, <1>5, <2>1
<1>10. \A f \in Contents(new) : \E i \in 1..n : f = new[i]
  BY <1>6 DEF Contents
<1>. QED BY <1>6, <1>8, <1>9, <1>10 DEF Directories, new, tmp

\* Two neighbours of one clock tick may be listed the other way round.
LEMMA SwapProperties ==
    ASSUME NEW dir \in Directories, Len(dir) > 1
    PROVE  LET n == Len(dir)
               new == [dir EXCEPT ![n] = dir[n - 1], ![n - 1] = dir[n]]
           IN  new \in Directories /\ Contents(new) = Contents(dir)
<1>. DEFINE n == Len(dir)
            new == [dir EXCEPT ![n] = dir[n - 1], ![n - 1] = dir[n]]
<1>1. /\ dir \in Seq(Files) /\ n \in Nat /\ DOMAIN dir = 1..n
      /\ \A i \in 1..n : dir[i] \in Files
  BY InDirectory
<1>2. \A i, j \in 1..n : dir[i].name = dir[j].name => i = j
  BY <1>1 DEF Directories, Distinct
<1>3. n > 1
  OBVIOUS
<1>. HIDE DEF n
<1>4. new = [i \in 1..n |-> IF i = n - 1 THEN dir[n] ELSE IF i = n THEN dir[n - 1] ELSE dir[i]]
  BY <1>1, <1>3
<1>5. /\ new[n] = dir[n - 1] /\ new[n - 1] = dir[n]
      /\ \A i \in 1..n : i # n /\ i # n - 1 => new[i] = dir[i]
  BY <1>1, <1>3, <1>4
<1>6. DOMAIN new = 1..n /\ \A i \in 1..n : new[i] \in Files
  BY <1>1, <1>3, <1>4
<1>. HIDE DEF new
<1>7. new \in Seq(Files)
  <2>1. new = [i \in 1..n |-> new[i]]
    BY <1>4, <1>6 DEF new
  <2>. QED BY <1>1, <1>6, <2>1, IsASeq
<1>8. Distinct(new)
  BY <1>1, <1>2, <1>3, <1>5, <1>6 DEF Distinct
<1>9. Contents(new) = Contents(dir)
  <2>1. \A i \in 1..n : \E j \in 1..n : new[i] = dir[j]
    BY <1>1, <1>3, <1>5
  <2>2. \A i \in 1..n : \E j \in 1..n : dir[i] = new[j]
    BY <1>1, <1>3, <1>5
  <2>3. Contents(new) = {new[i] : i \in 1..n}
    BY <1>6 DEF Contents
  <2>4. Contents(dir) = {dir[i] : i \in 1..n}
    BY <1>1 DEF Contents
  <2>. QED BY <2>1, <2>2, <2>3, <2>4
<1>. QED BY <1>7, <1>8, <1>9 DEF Directories, new, n

----------------------------------------------------------------------------
(* How much there is of a set of files.                                    *)

\* The elements of a sequence are finitely many.
LEMMA FiniteRange ==
    ASSUME NEW S, NEW s \in Seq(S)
    PROVE  /\ IsFiniteSet(ToSet(s))
           /\ ToSet(s) = {s[i] : i \in 1..Len(s)}
           /\ ToSet(s) \subseteq S
<1>1. Len(s) \in Nat /\ DOMAIN s = 1..Len(s) /\ \A i \in 1..Len(s) : s[i] \in S
  BY LenProperties, ElementOfSeq
<1>2. s \in Surjection(1..Len(s), ToSet(s))
  BY <1>1 DEF ToSet, Surjection
<1>3. IsFiniteSet(1..Len(s))
  BY <1>1, FS_Interval
<1>. QED BY <1>1, <1>2, <1>3, FS_Surjection DEF ToSet

LEMMA FiniteNames ==
    ASSUME NEW dir \in Directories
    PROVE  IsFiniteSet(Names(dir))
<1>. DEFINE s == [i \in 1..Len(dir) |-> dir[i].name]
<1>1. /\ dir \in Seq(Files) /\ Len(dir) \in Nat /\ DOMAIN dir = 1..Len(dir)
      /\ \A i \in 1..Len(dir) : dir[i].name \in FileNames
  BY InDirectory DEF Files
<1>2. s \in Seq(FileNames) /\ ToSet(s) = Names(dir)
  <2>1. s \in Seq(FileNames)
    BY <1>1, IsASeq
  <2>2. DOMAIN s = 1..Len(dir)
    OBVIOUS
  <2>. QED BY <1>1, <2>1, <2>2 DEF ToSet, Names
<1>. QED BY <1>2, FiniteRange

LEMMA Times == \A k, a, b \in Nat :
    /\ k * a \in Nat
    /\ a <= b => k * a <= k * b
    /\ k * (a + 1) = k * a + k
<1>. SUFFICES ASSUME NEW k \in Nat, NEW a \in Nat, NEW b \in Nat
              PROVE  k * a \in Nat /\ (a <= b => k * a <= k * b) /\ k * (a + 1) = k * a + k
  OBVIOUS
<1>. QED BY SMTT(20)

LEMMA SizeType ==
    ASSUME NEW S, IsFiniteSet(S)
    PROVE  SizeOf(S) \in Nat
<1>. DEFINE T == {n \in S : n[1] = "type"}
<1>1. Cardinality(T) \in Nat /\ Cardinality(S \ T) \in Nat
  BY FS_Subset, FS_CardinalityType
<1>. QED BY <1>1, Times, Constants DEF SizeOf

LEMMA SizeMonotonic ==
    ASSUME NEW S, IsFiniteSet(S), NEW R, R \subseteq S
    PROVE  SizeOf(R) <= SizeOf(S)
<1>. DEFINE T(X) == {n \in X : n[1] = "type"}
<1>1. T(R) \subseteq T(S) /\ R \ T(R) \subseteq S \ T(S)
  OBVIOUS
<1>2. IsFiniteSet(T(S)) /\ IsFiniteSet(S \ T(S))
  BY FS_Subset
<1>3. /\ IsFiniteSet(T(R)) /\ Cardinality(T(R)) <= Cardinality(T(S))
      /\ IsFiniteSet(R \ T(R)) /\ Cardinality(R \ T(R)) <= Cardinality(S \ T(S))
  BY <1>1, <1>2, FS_Subset
<1>4. /\ Cardinality(T(R)) \in Nat /\ Cardinality(T(S)) \in Nat
      /\ Cardinality(R \ T(R)) \in Nat /\ Cardinality(S \ T(S)) \in Nat
  BY <1>2, <1>3, FS_CardinalityType
<1>5. /\ TypeSize * Cardinality(T(R)) <= TypeSize * Cardinality(T(S))
      /\ CoverSize * Cardinality(R \ T(R)) <= CoverSize * Cardinality(S \ T(S))
      /\ TypeSize * Cardinality(T(R)) \in Nat /\ TypeSize * Cardinality(T(S)) \in Nat
      /\ CoverSize * Cardinality(R \ T(R)) \in Nat /\ CoverSize * Cardinality(S \ T(S)) \in Nat
  BY <1>3, <1>4, Times, Constants
<1>. QED BY <1>5 DEF SizeOf

LEMMA SizeOfRest ==
    ASSUME NEW S, IsFiniteSet(S), NEW name \in S
    PROVE  /\ SizeOf(S \ {name}) \in Nat
           /\ SizeOf(S \ {name}) = SizeOf(S) - Size(name)
<1>. DEFINE T(X) == {n \in X : n[1] = "type"}
            R == S \ {name}
<1>1. IsFiniteSet(R) /\ IsFiniteSet(T(S)) /\ IsFiniteSet(S \ T(S))
  BY FS_Subset
<1>2. /\ Cardinality(T(S)) \in Nat /\ Cardinality(S \ T(S)) \in Nat
      /\ SizeOf(R) \in Nat
  BY <1>1, FS_CardinalityType, SizeType
<1>3. CASE name[1] = "type"
  <2>1. T(R) = T(S) \ {name} /\ R \ T(R) = S \ T(S) /\ name \in T(S)
    BY <1>3
  <2>2. /\ IsFiniteSet(T(R))
        /\ Cardinality(T(R)) = Cardinality(T(S)) - 1
    BY <1>1, <2>1, FS_RemoveElement
  <2>3. Cardinality(T(R)) \in Nat /\ Cardinality(T(S)) = Cardinality(T(R)) + 1
    BY <1>2, <2>2, FS_CardinalityType
  <2>4. TypeSize * Cardinality(T(S)) = TypeSize * Cardinality(T(R)) + TypeSize
    BY <2>3, Times, Constants
  <2>5. /\ TypeSize * Cardinality(T(R)) \in Nat /\ TypeSize * Cardinality(T(S)) \in Nat
        /\ CoverSize * Cardinality(S \ T(S)) \in Nat
    BY <1>2, <2>3, Times, Constants
  <2>6. /\ SizeOf(R) = TypeSize * Cardinality(T(R)) + CoverSize * Cardinality(S \ T(S))
        /\ SizeOf(S) = TypeSize * Cardinality(T(S)) + CoverSize * Cardinality(S \ T(S))
    BY <2>1 DEF SizeOf
  <2>7. Size(name) = TypeSize
    BY <1>3 DEF Size
  <2>. HIDE DEF T, R
  <2>8. SizeOf(R) = SizeOf(S) - Size(name)
    BY <2>4, <2>5, <2>6, <2>7, Constants
  <2>. QED BY <1>2, <2>8 DEF R
<1>4. CASE name[1] # "type"
  <2>1. T(R) = T(S) /\ R \ T(R) = (S \ T(S)) \ {name} /\ name \in S \ T(S)
    BY <1>4
  <2>2. /\ IsFiniteSet(R \ T(R))
        /\ Cardinality(R \ T(R)) = Cardinality(S \ T(S)) - 1
    BY <1>1, <2>1, FS_RemoveElement
  <2>3. /\ Cardinality(R \ T(R)) \in Nat
        /\ Cardinality(S \ T(S)) = Cardinality(R \ T(R)) + 1
    BY <1>2, <2>2, FS_CardinalityType
  <2>4. CoverSize * Cardinality(S \ T(S)) = CoverSize * Cardinality(R \ T(R)) + CoverSize
    BY <2>3, Times, Constants
  <2>5. /\ CoverSize * Cardinality(R \ T(R)) \in Nat /\ CoverSize * Cardinality(S \ T(S)) \in Nat
        /\ TypeSize * Cardinality(T(S)) \in Nat
    BY <1>2, <2>3, Times, Constants
  <2>6. /\ SizeOf(R) = TypeSize * Cardinality(T(S)) + CoverSize * Cardinality(R \ T(R))
        /\ SizeOf(S) = TypeSize * Cardinality(T(S)) + CoverSize * Cardinality(S \ T(S))
    BY <2>1 DEF SizeOf
  <2>7. Size(name) = CoverSize
    BY <1>4 DEF Size
  <2>. HIDE DEF T, R
  <2>8. SizeOf(R) = SizeOf(S) - Size(name)
    BY <2>4, <2>5, <2>6, <2>7, Constants
  <2>. QED BY <1>2, <2>8 DEF R
<1>. QED BY <1>2, <1>3, <1>4

----------------------------------------------------------------------------
(* The inductive invariant.                                                *)

\* A request holds a connection exactly while it awaits an answer.
Awaiting(r) == At(r, "head") \/ At(r, "body") \/ At(r, "reader")
Connections ==
    /\ \A r \in Requests : held[r] = IF Awaiting(r) THEN 1 ELSE 0
    /\ \A p \in Processes : InUse(p) <= PoolSize

\* A process saves one cover at a time.
Alone ==
    \A q, r \in Requests : ProcessOf[q] = ProcessOf[r] /\ Saves(q) /\ Saves(r) => q = r

PayloadsWhole == \A f \in Contents(covers) : f.name[1] = "payload" => f.whole

\* Nobody but the writer of a temporary file touches it, except to remove it.
WrittenWhole ==
    \A r \in Requests : At(r, "rename") =>
        \A f \in Contents(covers) : f.name = TmpOf(r) => f.whole

\* A list being pruned, and the total that is left of it.
Listed(r) ==
    /\ IsInjective(task[r].files) /\ task[r].files # <<>>
    /\ task[r].total = SizeOf(ToSet(task[r].files))
Lists == \A r \in Requests : At(r, "prune") => Listed(r)

\* What makes the prunings of two processes harmless to each other: when nobody adds files,
\* there is somebody whose list has all there is.
Adds(r) == Saves(r) /\ ~At(r, "prune")
Covered(r) == At(r, "prune") /\ Names(covers) \subseteq ToSet(task[r].files)
Fits ==
    ~unpruned /\ (\A r \in Requests : ~Adds(r)) =>
        Total <= Limit \/ \E r \in Requests : Covered(r)

Inv ==
    /\ Typed /\ Connections /\ Alone
    /\ PayloadsWhole /\ WrittenWhole
    /\ Lists /\ Fits

\* What can be said of a request of the invariant's states, whatever it is doing.
LEMMA Request ==
    ASSUME Typed, NEW r \in Requests
    PROVE  /\ task[r] \in Tasks /\ held[r] \in Nat
           /\ Saves(r) <=> task[r] \in SaveTask \cup PruneTask
           /\ Adds(r) <=> task[r] \in SaveTask
           /\ At(r, "prune") <=> task[r] \in PruneTask
           /\ Awaiting(r) <=> task[r] \in FetchTask /\ task[r].stage # "pool"
           /\ \A stage \in Awaits : At(r, stage) => task[r] \in FetchTask
           /\ Saves(r) => TmpOf(r) = Tmp(task[r].asked, ProcessOf[r]) /\ TmpOf(r) \in FileNames
<1>1. task[r] \in Tasks /\ held[r] \in Nat
  BY DEF Typed
<1>2. Saves(r) <=> task[r] \in SaveTask \cup PruneTask
  BY <1>1, Shapes DEF At, Saves, Saving
<1>3. \A stage \in Awaits : At(r, stage) => task[r] \in FetchTask
  BY <1>1, Shapes DEF At
<1>4. Awaiting(r) <=> task[r] \in FetchTask /\ task[r].stage # "pool"
  BY <1>1, <1>3, Shapes DEF At, Awaits, Awaiting
<1>5. Saves(r) => TmpOf(r) \in FileNames
  BY <1>2, Constants DEF SaveTask, PruneTask, TmpOf, Tmp, FileNames
<1>. QED BY <1>1, <1>2, <1>3, <1>4, <1>5, Shapes DEF Adds, TmpOf

\* The pool is used by fewer, or by one more where there was room.
LEMMA InUseKept ==
    ASSUME Connections,
           \A q \in Requests : held'[q] > 0 => held[q] > 0
    PROVE  \A p \in Processes : InUse(p)' <= PoolSize
<1>. SUFFICES ASSUME NEW p \in Processes
              PROVE  InUse(p)' <= PoolSize
  OBVIOUS
<1>. DEFINE S == {r \in Requests : ProcessOf[r] = p /\ held[r] > 0}
            T == {r \in Requests : ProcessOf[r] = p /\ held'[r] > 0}
<1>1. IsFiniteSet(S) /\ T \subseteq S
  BY Constants, FS_Subset
<1>2. Cardinality(T) <= Cardinality(S) /\ IsFiniteSet(T)
  BY <1>1, FS_Subset
<1>3. Cardinality(T) \in Nat /\ Cardinality(S) \in Nat
  BY <1>1, <1>2, FS_CardinalityType
<1>4. Cardinality(S) <= PoolSize
  BY DEF Connections, InUse
<1>. QED BY <1>2, <1>3, <1>4, Constants DEF InUse

LEMMA InUseOneMore ==
    ASSUME Connections, NEW r \in Requests, InUse(ProcessOf[r]) < PoolSize,
           \A q \in Requests \ {r} : held'[q] = held[q]
    PROVE  \A p \in Processes : InUse(p)' <= PoolSize
<1>. SUFFICES ASSUME NEW p \in Processes
              PROVE  InUse(p)' <= PoolSize
  OBVIOUS
<1>. DEFINE S == {q \in Requests : ProcessOf[q] = p /\ held[q] > 0}
            T == {q \in Requests : ProcessOf[q] = p /\ held'[q] > 0}
<1>1. IsFiniteSet(S) /\ IsFiniteSet(T) /\ IsFiniteSet(S \cup {r})
  BY Constants, FS_Subset, FS_AddElement
<1>2. /\ Cardinality(T) \in Nat /\ Cardinality(S) \in Nat
      /\ Cardinality(S \cup {r}) \in Nat
      /\ Cardinality(S) <= PoolSize
  BY <1>1, FS_CardinalityType DEF Connections, InUse
<1>3. CASE ProcessOf[r] = p
  <2>1. T \subseteq S \cup {r}
    OBVIOUS
  <2>2. Cardinality(T) <= Cardinality(S \cup {r})
    BY <1>1, <2>1, FS_Subset
  <2>. HIDE DEF S, T
  <2>3. Cardinality(S \cup {r}) = IF r \in S THEN Cardinality(S) ELSE Cardinality(S) + 1
    BY <1>1, FS_AddElement
  <2>4. Cardinality(S) < PoolSize
    BY <1>3 DEF InUse, S
  <2>5. Cardinality(T) <= PoolSize
    BY <1>2, <2>2, <2>3, <2>4, Constants
  <2>. QED BY <2>5 DEF InUse, T
<1>4. CASE ProcessOf[r] # p
  <2>1. T \subseteq S
    BY <1>4
  <2>. QED BY <1>1, <1>2, <2>1, FS_Subset, Constants DEF InUse
<1>. QED BY <1>3, <1>4

\* A step of one request.  It may not take a connection without awaiting an answer.
OnlyTask(r) == \A q \in Requests \ {r} : task'[q] = task[q]
OnlyHeld(r) == \A q \in Requests \ {r} : held'[q] = held[q]

LEMMA ConnectionsKept ==
    ASSUME Typed, Typed', Connections, NEW r \in Requests, OnlyTask(r), OnlyHeld(r),
           held'[r] = IF Awaiting(r)' THEN 1 ELSE 0,
           Awaiting(r)' => Awaiting(r) \/ InUse(ProcessOf[r]) < PoolSize
    PROVE  Connections'
<1>1. \A q \in Requests : held'[q] = IF Awaiting(q)' THEN 1 ELSE 0
  BY DEF OnlyTask, OnlyHeld, Connections, Awaiting, At
<1>2. \A p \in Processes : InUse(p)' <= PoolSize
  <2>1. CASE Awaiting(r)' /\ ~Awaiting(r)
    BY <2>1, InUseOneMore DEF OnlyHeld
  <2>2. CASE ~Awaiting(r)' \/ Awaiting(r)
    <3>1. \A q \in Requests : held'[q] > 0 => held[q] > 0
      BY <2>2 DEF OnlyHeld, Connections
    <3>. QED BY <3>1, InUseKept
  <2>. QED BY <2>1, <2>2
<1>. QED BY <1>1, <1>2 DEF Connections

----------------------------------------------------------------------------
(* The steps of a fetch.  Each is a step of one request that is not saving, *)
(* and leaves the directory alone.                                          *)

FetchOnly(r) ==
    /\ OnlyTask(r) /\ ~Saves(r) /\ ~Saves(r)'
    /\ UNCHANGED <<covers, unpruned>>

LEMMA BeginStep ==
    ASSUME Typed, Connections, NEW r \in Requests, NEW u \in Urls, NEW op \in Ops,
           Begin(r, op, u), op = "cover" => u \in CoverUrls, UNCHANGED <<covers, unpruned>>
    PROVE  Typed' /\ Connections' /\ FetchOnly(r)
<1>. DEFINE t == [op |-> op, asked |-> u, url |-> u, stage |-> "pool", sent |-> 0, chunks |-> 0]
<1>1. t \in FetchTask
  BY Constants DEF Begin, FetchTask, Fetching, Ops, Awaits
<1>2. /\ task' = [task EXCEPT ![r] = t] /\ task[r] = Idle /\ held' = held
      /\ t.stage = "pool"
  BY DEF Begin
<1>. HIDE DEF t
<1>3. Typed' /\ OnlyTask(r) /\ OnlyHeld(r) /\ task'[r] = t
  BY <1>1, <1>2 DEF Typed, Tasks, OnlyTask, OnlyHeld
<1>4. ~Awaiting(r) /\ ~Awaiting(r)' /\ ~Saves(r) /\ ~Saves(r)'
  BY <1>2, <1>3 DEF Awaiting, At, Saves, Saving
<1>. QED BY <1>2, <1>3, <1>4, ConnectionsKept DEF Connections, FetchOnly

\* A request that goes on fetching, or ends.
LEMMA FetchMove ==
    ASSUME Typed, Connections, NEW r \in Requests, NEW t \in FetchTask \cup {Idle},
           task[r] \in FetchTask,
           task' = [task EXCEPT ![r] = t],
           \/ held' = held
           \/ held' = [held EXCEPT ![r] = @ + 1] /\ InUse(ProcessOf[r]) < PoolSize
           \/ held' = [held EXCEPT ![r] = @ - 1] /\ Awaiting(r),
           held'[r] = IF t # Idle /\ t.stage # "pool" THEN 1 ELSE 0,
           UNCHANGED <<covers, unpruned>>
    PROVE  Typed' /\ Connections' /\ FetchOnly(r)
<1>1. /\ task' \in [Requests -> Tasks] /\ task'[r] = t
      /\ OnlyTask(r) /\ OnlyHeld(r)
  BY DEF Typed, Tasks, OnlyTask, OnlyHeld
<1>2. held' \in [Requests -> Nat]
  BY DEF Typed, Connections
<1>3. Typed'
  BY <1>1, <1>2 DEF Typed
<1>4. Awaiting(r)' <=> t # Idle /\ t.stage # "pool"
  BY <1>1 DEF Awaiting, At, FetchTask, Fetching, Awaits
<1>5. ~Saves(r) /\ ~Saves(r)'
  BY <1>1 DEF Saves, Saving, FetchTask, Fetching, Awaits
<1>6. Awaiting(r)' => Awaiting(r) \/ InUse(ProcessOf[r]) < PoolSize
  BY <1>4 DEF Connections
<1>. QED BY <1>1, <1>3, <1>4, <1>5, <1>6, ConnectionsKept DEF FetchOnly

LEMMA OneMoreSent ==
    ASSUME NEW w \in FetchTask, w.stage = "pool",
           NEW t, t = [w EXCEPT !.stage = "head", !.sent = @ + 1]
    PROVE  t \in FetchTask /\ t # Idle /\ t.stage # "pool"
<1>1. PICK n \in Nat : n = w.sent + 1
  BY DEF FetchTask, Fetching
<1>2. n \in 0..MaxHops
  BY <1>1, Constants DEF FetchTask, Fetching
<1>3. t = [w EXCEPT !.stage = "head", !.sent = n]
  BY <1>1
<1>4. /\ t \in FetchTask /\ t.stage = "head" /\ t.op = w.op
  BY <1>2, <1>3, Constants DEF FetchTask, Fetching, Awaits
<1>. QED BY <1>4 DEF FetchTask, Fetching, Idle, Ops

LEMMA FetchStep ==
    ASSUME Typed, Connections, NEW r \in Requests, Fetch(r)
    PROVE  Typed' /\ Connections' /\ FetchOnly(r)
<1>. USE DEF Awaits
<1>0. UNCHANGED <<covers, unpruned>>
  BY DEF Fetch
<1>1. /\ task \in [Requests -> Tasks] /\ held \in [Requests -> Nat]
      /\ held[r] = IF Awaiting(r) THEN 1 ELSE 0
  BY DEF Typed, Connections
<1>2. CASE Connect(r)
  <2>. DEFINE t == [task[r] EXCEPT !.stage = "head", !.sent = @ + 1]
  <2>1. task[r] \in FetchTask /\ task[r].stage = "pool" /\ ~Awaiting(r)
    BY <1>2, Request DEF Connect, At, Awaiting
  <2>2. t \in FetchTask /\ t # Idle /\ t.stage # "pool"
    BY <2>1, OneMoreSent
  <2>5. task' = [task EXCEPT ![r] = t]
    BY <1>1, <1>2 DEF Connect
  <2>6. held' = [held EXCEPT ![r] = @ + 1] /\ held'[r] = 1 /\ InUse(ProcessOf[r]) < PoolSize
    BY <1>1, <1>2, <2>1 DEF Connect
  <2>. HIDE DEF t
  <2>. QED BY <1>0, <2>1, <2>2, <2>5, <2>6, FetchMove
<1>3. CASE PoolTimeout(r)
  <2>1. task[r] \in FetchTask /\ ~Awaiting(r)
    BY <1>3, Request DEF PoolTimeout, At, Awaiting
  <2>. QED BY <1>0, <1>1, <1>3, <2>1, FetchMove DEF PoolTimeout, End
<1>4. CASE FetchFails(r) \/ FeedRead(r) \/ Streamed(r)
  <2>1. task[r] \in FetchTask /\ Awaiting(r)
    BY <1>4, Request DEF FetchFails, FeedRead, Streamed, Awaiting
  <2>2. task' = [task EXCEPT ![r] = Idle] /\ held' = [held EXCEPT ![r] = @ - 1]
    BY <1>4 DEF FetchFails, FeedRead, Streamed, Close, End
  <2>3. held'[r] = 0
    BY <1>1, <2>1, <2>2
  <2>4. task[r] \in FetchTask /\ Idle \in FetchTask \cup {Idle}
    BY <2>1
  <2>. QED BY <1>0, <2>1, <2>2, <2>3, <2>4, FetchMove
<1>5. CASE Answered(r)
  <2>. DEFINE to == IF Is(r, "download") THEN "reader" ELSE "body"
              t == [task[r] EXCEPT !.stage = to]
  <2>1. task[r] \in FetchTask /\ Awaiting(r)
    BY <1>5, Request DEF Answered, Awaiting
  <2>2. t \in FetchTask /\ t # Idle /\ t.stage # "pool"
    BY <2>1, Constants DEF FetchTask, Fetching, Idle, Ops
  <2>3. task' = [task EXCEPT ![r] = t] /\ held' = held
    BY <1>1, <1>5 DEF Answered, Goto
  <2>. HIDE DEF t
  <2>. QED BY <1>0, <1>1, <2>1, <2>2, <2>3, FetchMove
<1>6. CASE Chunk(r)
  <2>. DEFINE t == [task[r] EXCEPT !.chunks = @ + 1]
  <2>1. task[r] \in FetchTask /\ Awaiting(r) /\ task[r].stage # "pool"
    BY <1>6, Request DEF Chunk, Awaiting, At
  <2>2. t \in FetchTask /\ t # Idle /\ t.stage # "pool"
    BY <1>6, <2>1, Constants DEF FetchTask, Fetching, Idle, Ops, Chunk
  <2>3. task' = [task EXCEPT ![r] = t] /\ held' = held
    BY <1>1, <1>6 DEF Chunk
  <2>. HIDE DEF t
  <2>. QED BY <1>0, <1>1, <2>1, <2>2, <2>3, FetchMove
<1>7. ASSUME NEW u \in Urls, Follow(r, u)
      PROVE  Typed' /\ Connections' /\ FetchOnly(r)
  <2>. DEFINE t == [task[r] EXCEPT !.stage = "pool", !.url = u]
  <2>1. task[r] \in FetchTask /\ Awaiting(r)
    BY <1>7, Request DEF Follow, Awaiting
  <2>2. t \in FetchTask /\ t.stage = "pool"
    BY <1>7, <2>1 DEF FetchTask, Fetching, Follow
  <2>3. task' = [task EXCEPT ![r] = t] /\ held' = [held EXCEPT ![r] = @ - 1]
    BY <1>1, <1>7 DEF Follow, Close
  <2>. HIDE DEF t
  <2>4. held'[r] = 0
    BY <1>1, <2>1, <2>3
  <2>. QED BY <1>0, <2>1, <2>2, <2>3, <2>4, FetchMove
<1>. QED BY <1>2, <1>3, <1>4, <1>5, <1>6, <1>7 DEF Fetch, Step

\* A step of a request that is not saving disturbs nobody who is.
LEMMA FetchKeeps ==
    ASSUME Inv, NEW r \in Requests, FetchOnly(r)
    PROVE  Alone' /\ PayloadsWhole' /\ WrittenWhole' /\ Lists' /\ Fits'
<1>1. ASSUME NEW q \in Requests
      PROVE  /\ Saves(q)' <=> Saves(q)
             /\ Saves(q)' => task'[q] = task[q]
  <2>1. CASE q = r
    BY <2>1 DEF FetchOnly
  <2>2. CASE q # r
    BY <2>2 DEF FetchOnly, OnlyTask, Saves
  <2>. QED BY <2>1, <2>2
<1>2. /\ \A q \in Requests : At(q, "rename")' => At(q, "rename") /\ task'[q] = task[q]
      /\ \A q \in Requests : At(q, "prune")' => At(q, "prune") /\ task'[q] = task[q]
      /\ \A q \in Requests : Adds(q) => Adds(q)'
      /\ \A q \in Requests : Covered(q) => Covered(q)'
  BY <1>1 DEF At, Saves, Saving, Adds, Covered, FetchOnly, Names
<1>3. Alone'
  BY <1>1 DEF Inv, Alone
<1>4. PayloadsWhole' /\ WrittenWhole'
  BY <1>2 DEF Inv, PayloadsWhole, WrittenWhole, TmpOf, FetchOnly, Contents
<1>5. Lists'
  BY <1>2 DEF Inv, Lists, Listed, SizeOf
<1>6. Fits'
  <2>1. Total' = Total /\ unpruned' = unpruned
    BY DEF FetchOnly, Total, Names, SizeOf
  <2>. QED BY <1>2, <2>1 DEF Inv, Fits
<1>. QED BY <1>3, <1>4, <1>5, <1>6

----------------------------------------------------------------------------
(* The steps of a save.                                                    *)

LEMMA SaveTyped ==
    ASSUME Inv, NEW r \in Requests, Saves(r), NEW t \in SaveTask \cup PruneTask \cup {Idle},
           task' = [task EXCEPT ![r] = t], held' = held,
           covers' \in Directories, unpruned' \in BOOLEAN
    PROVE  Typed' /\ Connections' /\ Alone' /\ OnlyTask(r) /\ task'[r] = t
<1>1. task' \in [Requests -> Tasks] /\ OnlyTask(r) /\ task'[r] = t
  BY DEF Inv, Typed, Tasks, OnlyTask
<1>2. Typed'
  BY <1>1 DEF Inv, Typed
<1>3. ~Awaiting(r) /\ ~Awaiting(r)'
  BY <1>1 DEF Awaiting, At, Saves, Saving, SaveTask, PruneTask
<1>4. Connections'
  BY <1>1, <1>2, <1>3, ConnectionsKept DEF Inv, OnlyHeld, Connections
<1>5. \A q \in Requests : Saves(q)' => Saves(q)
  BY <1>1 DEF OnlyTask, Saves
<1>. QED BY <1>1, <1>2, <1>4, <1>5 DEF Inv, Alone

\* The others, when one request saves: their tasks are the same, their processes are others.
LEMMA Others ==
    ASSUME Inv, NEW r \in Requests, Saves(r), OnlyTask(r), NEW q \in Requests, q # r
    PROVE  /\ \A stage \in Saving \cup Awaits : At(q, stage)' <=> At(q, stage)
           /\ Adds(q)' <=> Adds(q)
           /\ Saves(q) => TmpOf(q) # TmpOf(r)
           /\ TmpOf(q)' = TmpOf(q)
           /\ Listed(q)' <=> Listed(q)
<1>1. task'[q] = task[q]
  BY DEF OnlyTask
<1>. QED BY <1>1 DEF At, Saves, Adds, TmpOf, Tmp, Inv, Alone, Listed, SizeOf

\* While a cover is being saved, nobody is promised that the directory fits.
LEMMA AddingFits ==
    ASSUME NEW r \in Requests, Adds(r)'
    PROVE  Fits'
BY DEF Fits

LEMMA ListsKept ==
    ASSUME Inv, NEW r \in Requests, Saves(r), OnlyTask(r),
           At(r, "prune")' => Listed(r)'
    PROVE  Lists'
<1>. SUFFICES ASSUME NEW q \in Requests, At(q, "prune")'
              PROVE  Listed(q)'
  BY DEF Lists
<1>1. CASE q = r
  BY <1>1
<1>2. CASE q # r
  <2>1. At(q, "prune")
    BY <1>2, Others DEF Saving
  <2>. QED BY <1>2, <2>1, Others DEF Inv, Lists
<1>. QED BY <1>1, <1>2

\* What is new in the directory is the writer's own temporary file, or no temporary file.
LEMMA WrittenKept ==
    ASSUME Inv, NEW r \in Requests, Saves(r), OnlyTask(r),
           \A f \in Contents(covers') :
                f \in Contents(covers) \/ f.name = TmpOf(r) \/ f.name[1] # "tmp",
           At(r, "rename")' => \A f \in Contents(covers') : f.name = TmpOf(r)' => f.whole
    PROVE  WrittenWhole'
<1>. SUFFICES ASSUME NEW q \in Requests, At(q, "rename")',
                     NEW f \in Contents(covers'), f.name = TmpOf(q)'
              PROVE  f.whole
  BY DEF WrittenWhole
<1>1. CASE q = r
  BY <1>1
<1>2. CASE q # r
  <2>1. /\ At(q, "rename") /\ Saves(q)
        /\ f.name = TmpOf(q) /\ TmpOf(q) # TmpOf(r)
    BY <1>2, Others DEF At, Saves, Saving
  <2>2. f.name[1] = "tmp"
    BY <2>1 DEF TmpOf, Tmp
  <2>. QED BY <2>1, <2>2 DEF Inv, WrittenWhole
<1>. QED BY <1>1, <1>2

LEMMA CoverReadStep ==
    ASSUME Inv, NEW r \in Requests, CoverRead(r)
    PROVE  Inv'
<1>. DEFINE t == [op |-> "cover", asked |-> task[r].asked, stage |-> "open"]
<1>1. /\ task[r] \in FetchTask /\ Awaiting(r) /\ ~Saves(r)
      /\ task[r].op = "cover"
  BY Request DEF CoverRead, Awaiting, Inv, At, Is, Awaits, Saves, Saving
<1>2. t \in SaveTask
  BY <1>1 DEF FetchTask, SaveTask, Saving
<1>3. /\ task' = [task EXCEPT ![r] = t] /\ held' = [held EXCEPT ![r] = @ - 1]
      /\ covers' = covers /\ unpruned' = unpruned /\ Runs(r)
  BY DEF CoverRead, Close
<1>4. t.stage = "open" /\ t # Idle
  BY DEF Idle
<1>. HIDE DEF t
<1>5. /\ task' \in [Requests -> Tasks] /\ task'[r] = t /\ OnlyTask(r) /\ OnlyHeld(r)
      /\ held' \in [Requests -> Nat] /\ held'[r] = 0
  BY <1>1, <1>2, <1>3 DEF Inv, Typed, Tasks, OnlyTask, OnlyHeld, Connections
<1>6. Typed'
  BY <1>3, <1>5 DEF Inv, Typed
<1>7. Connections'
  <2>1. ~Awaiting(r)'
    BY <1>4, <1>5 DEF Awaiting, At
  <2>. QED BY <1>5, <1>6, <2>1, ConnectionsKept DEF Inv
<1>8. \A q \in Requests \ {r} : task'[q] = task[q]
  BY <1>5 DEF OnlyTask
<1>9. Alone'
  <2>1. \A q \in Requests \ {r} : Saves(q)' => Saves(q) /\ ProcessOf[q] # ProcessOf[r]
    BY <1>3, <1>8 DEF Saves, Runs
  <2>. QED BY <2>1 DEF Inv, Alone, Saves
<1>10. PayloadsWhole' /\ Total' = Total
  BY <1>3 DEF Inv, PayloadsWhole, Contents, Total, SizeOf, Names
<1>11. WrittenWhole' /\ Lists'
  <2>1. \A q \in Requests : At(q, "rename")' \/ At(q, "prune")' => q # r
    BY <1>4, <1>5 DEF At
  <2>. QED BY <1>3, <1>8, <2>1 DEF Inv, WrittenWhole, Lists, Listed, SizeOf, At, TmpOf, Contents
<1>12. Fits'
  BY <1>4, <1>5, AddingFits DEF Adds, At, Saves, Saving
<1>. QED BY <1>6, <1>7, <1>9, <1>10, <1>11, <1>12 DEF Inv

\* A stage of a save that leads to another one, which may add to the directory.
LEMMA GotoStep ==
    ASSUME Inv, NEW r \in Requests, Adds(r), NEW stage \in Saving \ {"prune"},
           Goto(r, stage), UNCHANGED <<held, unpruned>>, covers' \in Directories
    PROVE  /\ Typed' /\ Connections' /\ Alone' /\ OnlyTask(r) /\ Saves(r)
           /\ Lists' /\ Fits'
           /\ TmpOf(r)' = TmpOf(r) /\ TmpOf(r) = Tmp(task[r].asked, ProcessOf[r])
           /\ task[r].asked \in CoverUrls
           /\ At(r, "rename")' <=> stage = "rename"
<1>1. task \in [Requests -> Tasks] /\ task[r] \in SaveTask /\ Saves(r)
  BY Request DEF Inv, Typed, Adds
<1>. DEFINE t == [task[r] EXCEPT !.stage = stage]
<1>2. /\ t \in SaveTask /\ t.stage = stage /\ t.asked = task[r].asked /\ t # Idle
      /\ task[r].asked \in CoverUrls
  BY <1>1 DEF SaveTask, Idle
<1>3. task' = [task EXCEPT ![r] = t]
  BY <1>1 DEF Goto
<1>4. unpruned' \in BOOLEAN
  BY DEF Inv, Typed
<1>. HIDE DEF t
<1>5. Typed' /\ Connections' /\ Alone' /\ OnlyTask(r) /\ task'[r] = t
  BY <1>1, <1>2, <1>3, <1>4, SaveTyped
<1>6. Adds(r)' /\ ~At(r, "prune")' /\ (At(r, "rename")' <=> stage = "rename")
  BY <1>2, <1>5 DEF Adds, At, Saves, Saving
<1>7. Lists' /\ Fits'
  BY <1>1, <1>5, <1>6, ListsKept, AddingFits
<1>. QED BY <1>1, <1>2, <1>5, <1>6, <1>7 DEF TmpOf

LEMMA OpenStep ==
    ASSUME Inv, NEW r \in Requests, OpenTmp(r) \/ WriteTmp(r)
    PROVE  Inv'
<1>1. Adds(r) /\ TmpOf(r) \in FileNames /\ covers \in Directories
  BY Request DEF Inv, Typed, OpenTmp, WriteTmp, Adds, At, Saves, Saving
<1>. DEFINE whole == At(r, "write")
            to == IF whole THEN "rename" ELSE "write"
<1>2. Goto(r, to) /\ UNCHANGED <<held, unpruned>>
  BY DEF OpenTmp, WriteTmp, At
<1>3. \/ covers' = Fresh(TmpOf(r), FALSE) /\ to = "write"
      \/ covers' = Fresh(TmpOf(r), TRUE)
      \/ covers' = covers /\ ~Has(TmpOf(r))
  BY DEF OpenTmp, WriteTmp, At
<1>. HIDE DEF whole
<1>4. /\ covers' \in Directories
      /\ \A f \in Contents(covers') : f \in Contents(covers) \/ f.name = TmpOf(r)
      /\ to = "rename" => \A f \in Contents(covers') : f.name = TmpOf(r) => f.whole
  <2>1. CASE covers' = Fresh(TmpOf(r), FALSE) /\ to = "write"
    BY <1>1, <2>1, FreshProperties
  <2>2. CASE covers' = Fresh(TmpOf(r), TRUE)
    BY <1>1, <2>2, FreshProperties
  <2>3. CASE covers' = covers /\ ~Has(TmpOf(r))
    BY <1>1, <2>3, InDirectory DEF Has
  <2>. QED BY <1>3, <2>1, <2>2, <2>3
<1>5. to \in Saving \ {"prune"}
  BY DEF Saving
<1>. HIDE DEF to
<1>6. /\ Typed' /\ Connections' /\ Alone' /\ OnlyTask(r) /\ Saves(r)
      /\ Lists' /\ Fits'
      /\ TmpOf(r)' = TmpOf(r)
      /\ At(r, "rename")' <=> to = "rename"
  BY <1>1, <1>2, <1>4, <1>5, GotoStep
<1>7. WrittenWhole'
  BY <1>4, <1>6, WrittenKept
<1>8. PayloadsWhole'
  <2>1. TmpOf(r)[1] = "tmp"
    BY DEF TmpOf, Tmp
  <2>. QED BY <1>4, <2>1 DEF Inv, PayloadsWhole
<1>. QED BY <1>6, <1>7, <1>8 DEF Inv

\* What is renamed is whole: nobody else of the process was saving meanwhile, and nobody of
\* another process writes under this name.
LEMMA RenameStep ==
    ASSUME Inv, NEW r \in Requests, Rename(r)
    PROVE  Inv'
<1>. DEFINE u == task[r].asked
<1>1. Adds(r) /\ covers \in Directories /\ At(r, "rename")
  BY DEF Inv, Typed, Rename, Adds, At, Saves, Saving
<1>2. u \in CoverUrls /\ ProcessOf[r] \in Processes /\ TmpOf(r) = Tmp(u, ProcessOf[r])
  BY <1>1, Request, Constants DEF Inv, SaveTask, TmpOf
<1>3. /\ covers' = Renamed(u, TmpOf(r)) /\ Has(TmpOf(r))
      /\ Goto(r, "type") /\ UNCHANGED <<held, unpruned>>
  BY DEF Rename
<1>. HIDE DEF u
<1>4. /\ covers' \in Directories
      /\ \A f \in Contents(covers') :
            \/ f \in Contents(covers)
            \/ /\ f.name = Payload(u)
               /\ \E g \in Contents(covers) : g.name = TmpOf(r) /\ g.whole = f.whole
  BY <1>1, <1>2, <1>3, RenamedProperties
<1>5. "type" \in Saving \ {"prune"}
  BY DEF Saving
<1>6. /\ Typed' /\ Connections' /\ Alone' /\ OnlyTask(r) /\ Saves(r)
      /\ Lists' /\ Fits' /\ ~At(r, "rename")'
  BY <1>1, <1>3, <1>4, <1>5, GotoStep
<1>7. Payload(u)[1] # "tmp"
  BY DEF Payload
<1>8. WrittenWhole'
  BY <1>4, <1>6, <1>7, WrittenKept
<1>9. PayloadsWhole'
  BY <1>1, <1>4 DEF Inv, PayloadsWhole, WrittenWhole
<1>. QED BY <1>6, <1>8, <1>9 DEF Inv

\* Opening and writing a type file touch no other file.
LEMMA TypingProperties ==
    ASSUME covers \in Directories, NEW u \in CoverUrls, NEW whole \in BOOLEAN, Typing(u, whole)
    PROVE  /\ covers' \in Directories
           /\ \A f \in Contents(covers') : f \in Contents(covers) \/ f.name[1] = "type"
<1>. DEFINE dir == Fresh(Type(u), whole)
            n == Len(dir)
<1>1. Type(u) \in FileNames /\ Type(u)[1] = "type"
  BY DEF Type, FileNames
<1>2. /\ dir \in Directories
      /\ \A f \in Contents(dir) : f \in Contents(covers) \/ f.name = Type(u)
  BY <1>1, FreshProperties
<1>3. \/ covers' = dir
      \/ n > 1 /\ covers' = [dir EXCEPT ![n] = dir[n - 1], ![n - 1] = dir[n]]
  BY DEF Typing
<1>. HIDE DEF dir
<1>4. covers' \in Directories /\ Contents(covers') = Contents(dir)
  BY <1>2, <1>3, SwapProperties
<1>. QED BY <1>1, <1>2, <1>4

LEMMA TypeStep ==
    ASSUME Inv, NEW r \in Requests, OpenType(r) \/ WriteType(r)
    PROVE  Inv'
<1>1. Adds(r) /\ covers \in Directories /\ task[r].asked \in CoverUrls
  <2>1. At(r, "type") \/ At(r, "fill")
    BY DEF OpenType, WriteType
  <2>2. Saves(r) /\ Adds(r)
    BY <2>1 DEF Adds, At, Saves, Saving
  <2>. QED BY <2>2, Request DEF Inv, Typed, SaveTask
<1>2. PICK stage \in {"fill", "scan"} : Goto(r, stage)
  BY DEF OpenType, WriteType
<1>3. UNCHANGED <<held, unpruned>>
  BY DEF OpenType, WriteType
<1>4. \/ covers' = covers
      \/ \E whole \in BOOLEAN : Typing(task[r].asked, whole)
  BY DEF OpenType, WriteType
<1>5. /\ covers' \in Directories
      /\ \A f \in Contents(covers') : f \in Contents(covers) \/ f.name[1] = "type"
  BY <1>1, <1>4, TypingProperties
<1>6. stage \in Saving \ {"prune"} /\ stage # "rename"
  BY <1>2 DEF Saving
<1>7. /\ Typed' /\ Connections' /\ Alone' /\ OnlyTask(r) /\ Saves(r)
      /\ Lists' /\ Fits' /\ ~At(r, "rename")'
  BY <1>1, <1>2, <1>3, <1>5, <1>6, GotoStep
<1>8. WrittenWhole'
  BY <1>5, <1>7, WrittenKept
<1>9. PayloadsWhole'
  BY <1>5 DEF Inv, PayloadsWhole
<1>. QED BY <1>7, <1>8, <1>9 DEF Inv

LEMMA SizeOfNothing == SizeOf({}) = 0
<1>1. {n \in {} : n[1] = "type"} = {} /\ {} \ {} = {} /\ Cardinality({}) = 0
  BY FS_EmptySet
<1>. QED BY <1>1, Constants DEF SizeOf

LEMMA TotalType ==
    ASSUME Typed
    PROVE  Total \in Nat
BY FiniteNames, SizeType DEF Typed, Total

LEMMA ScanStep ==
    ASSUME Inv, NEW r \in Requests, Scan(r)
    PROVE  Inv'
<1>. DEFINE list == [i \in DOMAIN covers |-> covers[i].name]
            t == [op |-> "cover", asked |-> task[r].asked, stage |-> "prune",
                  total |-> Total, files |-> list]
<1>1. /\ Adds(r) /\ Saves(r) /\ covers \in Directories /\ task[r].asked \in CoverUrls
      /\ Total \in Nat
  BY Request, TotalType DEF Inv, Typed, Scan, Adds, At, Saves, Saving, SaveTask
<1>2. /\ Len(covers) \in Nat /\ DOMAIN covers = 1..Len(covers)
      /\ \A i \in 1..Len(covers) : covers[i].name \in FileNames
      /\ \A i, j \in 1..Len(covers) : covers[i].name = covers[j].name => i = j
  BY <1>1, InDirectory DEF Files, Directories, Distinct
<1>3. list \in Seq(FileNames) /\ ToSet(list) = Names(covers) /\ IsInjective(list)
  <2>1. list \in Seq(FileNames)
    BY <1>2, IsASeq
  <2>2. DOMAIN list = 1..Len(covers)
    BY <1>2
  <2>. QED BY <1>2, <2>1, <2>2 DEF ToSet, Names, IsInjective
<1>4. /\ held' = held /\ covers' = covers /\ unpruned' = FALSE
      /\ \/ Total <= Limit /\ task' = [task EXCEPT ![r] = Idle]
         \/ Total > Limit /\ task' = [task EXCEPT ![r] = t]
  BY <1>1, Constants DEF Scan, End
<1>5. Total > Limit => list # <<>>
  <2>1. list = <<>> => Names(covers) = {}
    BY <1>3, EmptySeq DEF ToSet
  <2>2. Names(covers) = {} => Total = 0
    BY SizeOfNothing DEF Total
  <2>. QED BY <1>1, <2>1, <2>2, Constants
<1>. HIDE DEF list
<1>6. t \in PruneTask /\ t.files = list /\ t.total = Total /\ t # Idle /\ t.stage = "prune"
  BY <1>1, <1>3 DEF PruneTask, Idle
<1>. HIDE DEF t
<1>7. covers' \in Directories /\ unpruned' \in BOOLEAN
  BY <1>1, <1>4
<1>8. /\ Typed' /\ Connections' /\ Alone' /\ OnlyTask(r)
      /\ task'[r] = IF Total <= Limit THEN Idle ELSE t
  BY <1>1, <1>4, <1>6, <1>7, SaveTyped, Constants
<1>9. /\ PayloadsWhole' /\ Total' = Total /\ Names(covers)' = Names(covers)
      /\ Contents(covers') = Contents(covers)
  BY <1>4 DEF Inv, PayloadsWhole, Contents, Total, SizeOf, Names
<1>10. /\ At(r, "prune")' <=> ~(Total <= Limit)
       /\ ~At(r, "rename")'
  BY <1>6, <1>8 DEF At
<1>11. WrittenWhole'
  BY <1>1, <1>8, <1>9, <1>10, WrittenKept
<1>12. At(r, "prune")' => Listed(r)' /\ Covered(r)'
  <2>. HAVE At(r, "prune")'
  <2>1. task'[r] = t /\ Total > Limit
    BY <1>1, <1>8, <1>10, Constants
  <2>2. /\ IsInjective(t.files) /\ t.files # <<>> /\ t.total = SizeOf(ToSet(t.files))
        /\ Names(covers') \subseteq ToSet(t.files)
    BY <1>3, <1>4, <1>5, <1>6, <2>1 DEF Total
  <2>. QED BY <2>1, <2>2 DEF Listed, Covered, SizeOf
<1>13. Lists'
  BY <1>1, <1>8, <1>12, ListsKept
<1>14. Fits'
  BY <1>9, <1>10, <1>12 DEF Fits
<1>. QED BY <1>8, <1>9, <1>11, <1>13, <1>14 DEF Inv

\* The list without the file it begins with.
LEMMA ListTail ==
    ASSUME NEW files \in Seq(FileNames), files # <<>>, IsInjective(files)
    PROVE  /\ Head(files) \in ToSet(files) /\ Tail(files) \in Seq(FileNames)
           /\ IsInjective(Tail(files))
           /\ ToSet(Tail(files)) = ToSet(files) \ {Head(files)}
           /\ SizeOf(ToSet(Tail(files))) \in Nat
           /\ SizeOf(ToSet(Tail(files))) = SizeOf(ToSet(files)) - Size(Head(files))
<1>. DEFINE n == Len(files)
            rest == Tail(files)
<1>1. /\ n \in Nat /\ n >= 1 /\ DOMAIN files = 1..n
      /\ Head(files) = files[1]
      /\ rest \in Seq(FileNames) /\ Len(rest) = n - 1
      /\ \A i \in 1..(n - 1) : rest[i] = files[i + 1]
  BY HeadTailProperties, LenProperties, EmptySeq
<1>2. \A i, j \in 1..n : files[i] = files[j] => i = j
  BY <1>1 DEF IsInjective
<1>3. DOMAIN rest = 1..(n - 1)
  BY <1>1, LenProperties
<1>. HIDE DEF n, rest
<1>4. \A i, j \in 1..(n - 1) : rest[i] = rest[j] => i = j
  BY <1>1, <1>2
<1>5. ToSet(rest) = ToSet(files) \ {files[1]}
  <2>1. ASSUME NEW i \in 1..(n - 1)
        PROVE  rest[i] \in ToSet(files) /\ rest[i] # files[1]
    <3>1. i + 1 \in 1..n /\ 1 \in 1..n /\ i + 1 # 1
      BY <1>1
    <3>2. rest[i] = files[i + 1] /\ files[i + 1] \in ToSet(files)
      BY <1>1, <3>1 DEF ToSet
    <3>. QED BY <1>2, <3>1, <3>2
  <2>2. ASSUME NEW i \in 1..n, files[i] # files[1]
        PROVE  files[i] \in ToSet(rest)
    <3>1. i - 1 \in 1..(n - 1) /\ (i - 1) + 1 = i
      BY <1>1, <2>2
    <3>2. rest[i - 1] = files[i]
      BY <1>1, <3>1
    <3>. QED BY <1>3, <3>1, <3>2 DEF ToSet
  <2>. QED BY <1>1, <1>3, <2>1, <2>2 DEF ToSet
<1>6. IsFiniteSet(ToSet(files)) /\ files[1] \in ToSet(files)
  <2>1. 1 \in DOMAIN files
    BY <1>1
  <2>. QED BY <2>1, FiniteRange DEF ToSet
<1>. QED BY <1>1, <1>3, <1>4, <1>5, <1>6, SizeOfRest DEF IsInjective, rest

\* One removal takes no file from the directory but the first of the list and its type file,
\* and where it does not fail the first is gone, whoever has removed it.
LEMMA PruneRemoves ==
    ASSUME Inv, NEW r \in Requests, Prune(r)
    PROVE  /\ covers' \in Directories /\ unpruned' \in BOOLEAN
           /\ unpruned => unpruned'
           /\ Contents(covers') \subseteq Contents(covers)
           /\ Names(covers') \subseteq Names(covers)
           /\ ~unpruned' => Head(task[r].files) \notin Names(covers')
<1>. DEFINE name == Head(task[r].files)
            rest == Without(covers, name)
            both == Without(rest, Type(name[2]))
<1>1. covers \in Directories /\ unpruned \in BOOLEAN
  BY DEF Inv, Typed
<1>2. \/ /\ covers' \in {rest, both} /\ unpruned' = unpruned
      \/ /\ covers' \in {covers, rest} /\ unpruned' = TRUE
  BY DEF Prune
<1>. HIDE DEF name
<1>3. /\ rest \in Directories /\ Contents(rest) \subseteq Contents(covers)
      /\ Names(rest) = Names(covers) \ {name}
  BY <1>1, WithoutProperties
<1>. HIDE DEF rest
<1>4. /\ both \in Directories /\ Contents(both) \subseteq Contents(rest)
      /\ Names(both) \subseteq Names(rest)
  BY <1>3, WithoutProperties
<1>. HIDE DEF both
<1>. QED BY <1>1, <1>2, <1>3, <1>4 DEF name

LEMMA PruneStep ==
    ASSUME Inv, NEW r \in Requests, Prune(r)
    PROVE  Inv'
<1>. DEFINE w == task[r]
            name == Head(w.files)
            left == w.total - Size(name)
            rest == Tail(w.files)
            t == [w EXCEPT !.total = left, !.files = Tail(@)]
            ends == left <= Limit \/ rest = <<>>
            next == IF ends THEN Idle ELSE t
<1>1. At(r, "prune") /\ Saves(r) /\ ~Adds(r) /\ w \in PruneTask /\ Listed(r)
  BY Request DEF Inv, Lists, Prune, At, Saves, Adds, Saving
<1>2. /\ w.files \in Seq(FileNames) /\ w.files # <<>> /\ IsInjective(w.files)
      /\ w.total = SizeOf(ToSet(w.files))
  BY <1>1 DEF Listed, PruneTask
<1>3. /\ rest \in Seq(FileNames) /\ IsInjective(rest)
      /\ ToSet(rest) = ToSet(w.files) \ {name}
      /\ left = SizeOf(ToSet(rest)) /\ left \in Nat
  BY <1>2, ListTail
<1>4. /\ covers' \in Directories /\ unpruned' \in BOOLEAN
      /\ unpruned => unpruned'
      /\ Contents(covers') \subseteq Contents(covers)
      /\ Names(covers') \subseteq Names(covers)
      /\ ~unpruned' => name \notin Names(covers')
  BY PruneRemoves
<1>5. task \in [Requests -> Tasks] /\ held' = held
  BY DEF Inv, Typed, Prune
<1>6. task' = [task EXCEPT ![r] = next]
  BY <1>5 DEF Prune, End
<1>7. t \in PruneTask /\ t.total = left /\ t.files = rest /\ t.stage = "prune"
  <2>. HIDE DEF left, rest, w
  <2>1. t = [w EXCEPT !.total = left, !.files = rest]
    BY DEF rest
  <2>. QED BY <1>1, <1>3, <2>1 DEF PruneTask
<1>. HIDE DEF t, left, rest, name, ends
<1>8. /\ Typed' /\ Connections' /\ Alone' /\ OnlyTask(r)
      /\ task'[r] = next
  <2>1. next \in SaveTask \cup PruneTask \cup {Idle}
    BY <1>7
  <2>. HIDE DEF next
  <2>. QED BY <1>1, <1>4, <1>5, <1>6, <2>1, SaveTyped
<1>9. PayloadsWhole'
  BY <1>4 DEF Inv, PayloadsWhole
<1>10. /\ At(r, "prune")' <=> ~ends
       /\ ~At(r, "rename")' /\ ~Adds(r)'
  BY <1>7, <1>8 DEF At, Idle, PruneTask, Adds, Saves
<1>11. WrittenWhole'
  BY <1>1, <1>4, <1>8, <1>10, WrittenKept
<1>12. Lists'
  <2>1. At(r, "prune")' => Listed(r)'
    BY <1>3, <1>7, <1>8, <1>10 DEF Listed, SizeOf, ends
  <2>. QED BY <1>1, <1>8, <2>1, ListsKept
<1>13. Fits'
  <2>. SUFFICES ASSUME ~unpruned', \A q \in Requests : ~Adds(q)'
                PROVE  (Total <= Limit)' \/ \E q \in Requests : Covered(q)'
    BY DEF Fits
  <2>1. ~unpruned /\ \A q \in Requests : ~Adds(q)
    <3>1. \A q \in Requests \ {r} : Adds(q)' <=> Adds(q)
      BY <1>1, <1>8, Others
    <3>. QED BY <1>1, <1>4, <3>1
  <2>2. Total' <= Total /\ Total \in Nat /\ Total' \in Nat
    <3>1. Total = SizeOf(Names(covers)) /\ Total' = SizeOf(Names(covers'))
      BY DEF Total, SizeOf, Names
    <3>2. IsFiniteSet(Names(covers)) /\ IsFiniteSet(Names(covers'))
      <4>1. covers \in Directories
        BY DEF Inv, Typed
      <4>. QED BY <1>4, <4>1, FiniteNames
    <3>. QED BY <1>4, <3>1, <3>2, SizeMonotonic, SizeType
  <2>3. CASE Total <= Limit
    BY <2>2, <2>3, Constants
  <2>4. CASE Covered(r)
    <3>1. Names(covers') \subseteq ToSet(rest)
      BY <1>3, <1>4, <2>4 DEF Covered
    <3>2. CASE ~ends
      BY <1>7, <1>8, <1>10, <3>1, <3>2 DEF Covered
    <3>3. CASE left <= Limit
      <4>1. Total' <= left
        BY <1>3, <3>1, FiniteRange, SizeMonotonic DEF Total, SizeOf
      <4>. QED BY <1>3, <2>2, <3>3, <4>1, Constants
    <3>4. CASE rest = <<>>
      <4>1. Names(covers') = {}
        BY <3>1, <3>4 DEF ToSet
      <4>2. Total' = 0
        BY <4>1, SizeOfNothing DEF Total, SizeOf
      <4>. QED BY <4>2, Constants
    <3>. QED BY <3>2, <3>3, <3>4 DEF ends
  <2>5. ASSUME NEW q \in Requests, q # r, Covered(q)
        PROVE  Covered(q)'
    BY <1>1, <1>4, <1>8, <2>5, Others DEF Covered, OnlyTask, Saving
  <2>. QED BY <2>1, <2>3, <2>4, <2>5 DEF Inv, Fits
<1>. QED BY <1>8, <1>9, <1>11, <1>12, <1>13 DEF Inv

LEMMA SaveFailsStep ==
    ASSUME Inv, NEW r \in Requests, SaveFails(r)
    PROVE  Inv'
<1>1. /\ Saves(r) /\ task' = [task EXCEPT ![r] = Idle] /\ held' = held
      /\ covers' = covers /\ unpruned' = TRUE
  BY DEF SaveFails, End
<1>2. covers' \in Directories /\ unpruned' \in BOOLEAN
  BY <1>1 DEF Inv, Typed
<1>3. Typed' /\ Connections' /\ Alone' /\ OnlyTask(r) /\ task'[r] = Idle
  BY <1>1, <1>2, SaveTyped
<1>4. ~At(r, "rename")' /\ ~At(r, "prune")'
  BY <1>3 DEF At
<1>5. PayloadsWhole' /\ Contents(covers') = Contents(covers)
  BY <1>1 DEF Inv, PayloadsWhole, Contents
<1>6. WrittenWhole'
  BY <1>1, <1>3, <1>4, <1>5, WrittenKept
<1>7. Lists'
  BY <1>1, <1>3, <1>4, ListsKept
<1>8. Fits'
  BY <1>1 DEF Fits
<1>. QED BY <1>3, <1>5, <1>6, <1>7, <1>8 DEF Inv

\* A process that dies frees its connections; its temporary files are nobody's now, until a
\* save of the same cover truncates them.
LEMMA CrashStep ==
    ASSUME Inv, NEW p \in Processes, Crash(p)
    PROVE  Inv'
<1>. DEFINE mine == {r \in Requests : ProcessOf[r] = p}
<1>1. /\ task' = [r \in Requests |-> IF r \in mine THEN Idle ELSE task[r]]
      /\ held' = [r \in Requests |-> IF r \in mine THEN 0 ELSE held[r]]
      /\ unpruned' = (unpruned \/ \E r \in mine : Saves(r))
      /\ covers' = covers
  BY DEF Crash
<1>2. \A r \in Requests : \/ task'[r] = Idle /\ held'[r] = 0
                          \/ task'[r] = task[r] /\ held'[r] = held[r]
  BY <1>1
<1>3. Typed'
  <2>1. task' \in [Requests -> Tasks] /\ held' \in [Requests -> Nat]
    BY <1>1 DEF Inv, Typed, Tasks
  <2>2. unpruned' \in BOOLEAN /\ covers' \in Directories
    BY <1>1 DEF Inv, Typed
  <2>. QED BY <2>1, <2>2 DEF Typed
<1>4. Connections'
  <2>1. \A r \in Requests : held'[r] = IF Awaiting(r)' THEN 1 ELSE 0
    BY <1>2 DEF Inv, Connections, Awaiting, At
  <2>2. \A r \in Requests : held'[r] > 0 => held[r] > 0
    BY <1>2
  <2>. QED BY <2>1, <2>2, InUseKept DEF Connections, Inv
<1>5. /\ \A r \in Requests : Saves(r)' => Saves(r) /\ task'[r] = task[r]
      /\ \A r \in Requests : At(r, "rename")' => At(r, "rename") /\ task'[r] = task[r]
      /\ \A r \in Requests : At(r, "prune")' => At(r, "prune") /\ task'[r] = task[r]
  BY <1>2 DEF Saves, At
<1>6. Alone'
  BY <1>5 DEF Inv, Alone
<1>7. PayloadsWhole' /\ WrittenWhole'
  BY <1>1, <1>5 DEF Inv, PayloadsWhole, WrittenWhole, Contents, TmpOf
<1>8. Lists'
  BY <1>5 DEF Inv, Lists, Listed, SizeOf
<1>9. Fits'
  <2>. SUFFICES ASSUME ~unpruned', \A r \in Requests : ~Adds(r)'
                PROVE  (Total <= Limit)' \/ \E r \in Requests : Covered(r)'
    BY DEF Fits
  <2>1. ~unpruned /\ \A r \in mine : ~Saves(r)
    BY <1>1
  <2>2. \A r \in Requests : Saves(r) => task'[r] = task[r]
    BY <1>1, <2>1
  <2>3. /\ \A r \in Requests : Adds(r) => Adds(r)'
        /\ \A r \in Requests : Covered(r) => Covered(r)'
    BY <1>1, <2>2 DEF Adds, Covered, At, Saves, Saving, Names
  <2>4. Total' = Total
    BY <1>1 DEF Total, SizeOf, Names
  <2>. QED BY <2>1, <2>3, <2>4 DEF Inv, Fits
<1>. QED BY <1>3, <1>4, <1>6, <1>7, <1>8, <1>9 DEF Inv

----------------------------------------------------------------------------
LEMMA InvInit == Init => Inv
<1>. SUFFICES ASSUME Init PROVE Inv
  OBVIOUS
<1>. USE DEF Init, FetchInit
<1>0. covers = <<>> /\ DOMAIN covers = {} /\ unpruned = FALSE
  OBVIOUS
<1>1. Typed
  <2>1. covers \in Directories
    BY <1>0, EmptySeq DEF Directories, Distinct
  <2>. QED BY <2>1 DEF Typed, Tasks
<1>2. \A r \in Requests : task[r] = Idle /\ held[r] = 0
  OBVIOUS
<1>3. Connections
  <2>1. ASSUME NEW p \in Processes
        PROVE  InUse(p) <= PoolSize
    <3>1. {r \in Requests : ProcessOf[r] = p /\ held[r] > 0} = {}
      BY <1>2
    <3>2. InUse(p) = 0
      BY <3>1, FS_EmptySet DEF InUse
    <3>. QED BY <3>2, Constants
  <2>. QED BY <1>2, <2>1 DEF Connections, Awaiting, At
<1>4. Alone /\ WrittenWhole /\ Lists
  BY <1>2 DEF Alone, WrittenWhole, Lists, At, Saves
<1>5. PayloadsWhole
  BY <1>0 DEF PayloadsWhole, Contents
<1>6. Fits
  <2>1. Names(covers) = {}
    BY <1>0 DEF Names
  <2>. QED BY <2>1, SizeOfNothing, Constants DEF Fits, Total
<1>. QED BY <1>1, <1>3, <1>4, <1>5, <1>6 DEF Inv

LEMMA InvNext == Inv /\ [Next]_vars => Inv'
<1>. SUFFICES ASSUME Inv, [Next]_vars PROVE Inv'
  OBVIOUS
<1>1. ASSUME NEW r \in Requests, Typed', Connections', FetchOnly(r)
      PROVE  Inv'
  BY <1>1, FetchKeeps DEF Inv
<1>2. ASSUME NEW r \in Requests, NEW u \in Urls, Ask(r, u)
      PROVE  Inv'
  <2>1. "feed" \in Ops /\ "download" \in Ops
    BY DEF Ops
  <2>. QED BY <1>1, <1>2, <2>1, BeginStep DEF Inv, Ask
<1>3. ASSUME NEW r \in Requests, NEW u \in Urls, AskCover(r, u)
      PROVE  Inv'
  <2>1. "cover" \in Ops
    BY DEF Ops
  <2>. QED BY <1>1, <1>3, <2>1, BeginStep DEF Inv, AskCover
<1>4. ASSUME NEW r \in Requests, Fetch(r)
      PROVE  Inv'
  BY <1>1, <1>4, FetchStep DEF Inv
<1>5. ASSUME NEW r \in Requests, Save(r)
      PROVE  Inv'
  BY <1>5, OpenStep, RenameStep, TypeStep, ScanStep, PruneStep, SaveFailsStep DEF Save
<1>6. CASE UNCHANGED vars
  BY <1>6 DEF vars, fetching, Inv, Typed, Connections, Alone, PayloadsWhole, WrittenWhole,
              Lists, Fits, Awaiting, At, Saves, Adds, Covered, Listed, TmpOf, InUse, Total,
              SizeOf, Names, Contents
<1>. QED BY <1>2, <1>3, <1>4, <1>5, <1>6, CoverReadStep, CrashStep DEF Next

\* The invariant holds of every behaviour of requests, processes and their deaths.
THEOREM Invariance == Spec => []Inv
<1>. QED BY InvInit, InvNext, PTL DEF Spec

\* Whatever redirects, errors, caps, readers that go away and processes that die do, a
\* request holds one connection while it awaits an answer and none otherwise, no process
\* holds more than its pool has, and only addresses that resolve_url() let pass are asked.
THEOREM ConnectionsHold == Spec => []OneConnectionEach
<1>1. Inv => OneConnectionEach
  <2>. SUFFICES ASSUME Inv PROVE OneConnectionEach
    OBVIOUS
  <2>1. ASSUME NEW r \in Requests, At(r, "head")
        PROVE  task[r].url \in Allowed
    BY <2>1, Request DEF Inv, Awaits, FetchTask
  <2>. QED BY <2>1 DEF Inv, Connections, Awaiting, OneConnectionEach
<1>. QED BY <1>1, Invariance, PTL

\* Two processes may save one cover at once, prune each other's files and be killed at any
\* point: what the cache has under the name of a cover is a whole one (stream_cover() writes
\* a temporary file of the process' own, and os.replace() takes it only when it is written).
THEOREM CoversAreWhole == Spec => []WholeCovers
<1>1. Inv => WholeCovers
  <2>. SUFFICES ASSUME Inv PROVE WholeCovers
    OBVIOUS
  <2>1. FetchTypeOK
    <3>1. \A r \in Requests : task[r] # Idle /\ task[r].stage \in Awaits => task[r] \in Fetching
      BY Shapes DEF Inv, Typed, FetchTask
    <3>. QED BY <3>1 DEF FetchTypeOK, Inv, Typed
  <2>2. \A r \in Requests : Saves(r) => task[r].op = "cover" /\ task[r].asked \in CoverUrls
    BY Request DEF Inv, SaveTask, PruneTask
  <2>3. TypeOK
    BY <2>1, <2>2 DEF TypeOK, Inv, Typed, Directories, Distinct
  <2>. QED BY <2>3 DEF WholeCovers, Inv, PayloadsWhole, Contents
<1>. QED BY <1>1, Invariance, PTL

\* When every save has run to its end, the cache is no larger than MAX_COVER_CACHE_BYTES: two
\* processes that prune at once may both count a file that only one of them removes, but the
\* list of the last to have scanned the directory has everything that is in it.
THEOREM CoversStayWithinLimit == Spec => []CoversFit
<1>1. Inv => CoversFit
  <2>1. ASSUME NEW r \in Requests
        PROVE  Adds(r) \/ Covered(r) => Saves(r)
    BY DEF Adds, Covered, At, Saves, Saving
  <2>. QED BY <2>1 DEF Inv, Fits, CoversFit, Total
<1>. QED BY <1>1, Invariance, PTL

=============================================================================
