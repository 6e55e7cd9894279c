-------------------------- MODULE ShelveCache_proofs --------------------------
(***************************************************************************)
(* Proofs about the reader cache, for any number of books, opens and       *)
(* server processes, and any ceiling.                                      *)
(*                                                                         *)
(* Base holds through crashes and for every format.  Clean and Owned rest  *)
(* on it: what a build directory can hold, and who has it.  What a reader  *)
(* sees of a deletion, and the ceiling, need one process without comics,   *)
(* for only then is the event loop held from the first page written to the *)
(* last directory pruned (Solo).                                           *)
(***************************************************************************)
EXTENDS ShelveCache, FiniteSetTheorems, SequenceTheorems, WellFoundedInduction, TLAPS

\* Places where a task never lets go of the event loop, whatever it shelves, and those where
\* it does so for the worker thread of a comic.
Held == {"contested", "condemned", "evicted", "landed", "pruning", "deleting"}
Unpacking == {"building", "written", "built"}

\* Places of a task that has a build directory, and of one that has a spool file.
Builds == {"fetching", "building", "written", "built", "contested", "condemned", "evicted"}
Spools == Builds \cup {"spooling", "landed"}

\* Of the tasks in the middle of a segment, only the one that holds the loop goes on.
Segments == \A t \in Tasks :
    At(t, Held) \/ (At(t, Unpacking) /\ Book(t) \notin Comics) => loop[Pid(t)] = t

\* A task is in the queue of its lock until it is done, and past the lock as its head.
Locked == \A t \in Tasks : task[t] # Idle =>
    /\ t \in ToSet(lock[Build(t)])
    /\ ~At(t, {"queued"}) => Head(lock[Build(t)]) = t

Prunes == \A t \in Tasks : At(t, {"pruning", "deleting"}) => doomed[Pid(t)] # <<>>

Base == TypeOK /\ Segments /\ Locked /\ Prunes

Clean ==
    /\ \A t \in Tasks : At(t, Builds) => "stale" \notin content[Build(t)]
    /\ NoStalePages

Owned ==
    /\ \A s \in spools : \E t \in Tasks : At(t, Spools) /\ Build(t) = s
    /\ \A d \in ToSet(listing) :
        d[2] # Public => \E t \in Tasks : At(t, Builds) /\ Build(t) = d

\* One process, and nothing but its event loop writes.
SoloAssumption == Comics = {} /\ \A p, q \in Pids : p = q

WholePages == {"pages", "manifest"}

\* What a task has written.
Made(t) ==
    /\ At(t, {"fetching", "building"}) => content[Build(t)] = {}
    /\ At(t, {"written"}) => content[Build(t)] = {"pages"}
    /\ At(t, {"built", "contested", "condemned", "evicted"}) => content[Build(t)] = WholePages
Progress == \A t \in Tasks : Made(t)

UnderDeletion(d) == \E t \in Tasks : At(t, {"deleting"}) /\ Head(doomed[Pid(t)]) = d

Published == \A k \in Keys :
    content[<<k, Public>>] \in {{}, WholePages} \/ UnderDeletion(<<k, Public>>)

Deletions == \A t \in Tasks : At(t, {"deleting"}) => content[Head(doomed[Pid(t)])] \subseteq seen[Pid(t)]

DoomedInPrune == \A p \in Pids :
    doomed[p] # <<>> => \E t \in Tasks : At(t, {"pruning", "deleting"}) /\ Pid(t) = p

\* The books that are in the cache and not about to be deleted.
Staying == {k \in Keys : /\ content[<<k, Public>>] # {}
                         /\ \A p \in Pids : <<k, Public>> \notin ToSet(doomed[p])}
Fits ==
    (\A t \in Tasks : ~At(t, {"landed"}))
        => IsFiniteSet(Staying) /\ Cardinality(Staying) <= Limit

Solo == Progress /\ Published /\ Deletions /\ DoomedInPrune /\ Fits

----------------------------------------------------------------------------
(* The listing as a sequence without repetitions.                          *)

Listed(s) == s \in Seq(Dirs) /\ IsInjective(s)

LEMMA InListing ==
    ASSUME NEW s, Listed(s)
    PROVE  /\ s \in Seq(Dirs) /\ Len(s) \in Nat /\ DOMAIN s = 1..Len(s)
           /\ \A i \in 1..Len(s) : s[i] \in Dirs
           /\ \A i, j \in 1..Len(s) : s[i] = s[j] => i = j
           /\ ToSet(s) = {s[i] : i \in 1..Len(s)} /\ ToSet(s) \subseteq Dirs
<1>1. s \in Seq(Dirs) /\ Len(s) \in Nat /\ DOMAIN s = 1..Len(s)
  BY LenProperties DEF Listed
<1>2. \A i \in 1..Len(s) : s[i] \in Dirs
  BY <1>1, ElementOfSeq
<1>. QED BY <1>1, <1>2 DEF Listed, IsInjective, ToSet

LEMMA RemoveAtProperties ==
    ASSUME NEW S, NEW s \in Seq(S), NEW i \in 1..Len(s)
    PROVE  /\ RemoveAt(s, i) \in Seq(S)
           /\ Len(RemoveAt(s, i)) = Len(s) - 1
           /\ \A j \in 1..(Len(s) - 1) : RemoveAt(s, i)[j] = s[IF j < i THEN j ELSE j + 1]
<1>. DEFINE front == SubSeq(s, 1, i - 1)
            back == SubSeq(s, i + 1, Len(s))
<1>1. /\ front \in Seq(S) /\ Len(front) = i - 1
      /\ \A k \in 1..(i - 1) : front[k] = s[k]
  BY SubSeqProperties
<1>2. /\ back \in Seq(S) /\ Len(back) = Len(s) - i
      /\ \A k \in 1..(Len(s) - i) : back[k] = s[k + i]
  BY SubSeqProperties, LenProperties
<1>3. RemoveAt(s, i) = front \o back
  BY DEF RemoveAt
<1>. HIDE DEF front, back
<1>4. /\ front \o back \in Seq(S)
      /\ Len(front \o back) = Len(s) - 1
  BY <1>1, <1>2, ConcatProperties, LenProperties
<1>5. ASSUME NEW j \in 1..(Len(s) - 1)
      PROVE  (front \o back)[j] = s[IF j < i THEN j ELSE j + 1]
  <2>0. Len(s) \in Nat
    BY LenProperties
  <2>1. (front \o back)[j] = IF j <= Len(front) THEN front[j] ELSE back[j - Len(front)]
    BY <1>1, <1>2, <2>0, ConcatProperties
  <2>2. CASE j < i
    BY <1>1, <2>0, <2>1, <2>2
  <2>3. CASE ~(j < i)
    <3>1. j - (i - 1) \in 1..(Len(s) - i) /\ (j - (i - 1)) + i = j + 1
      BY <2>0, <2>3
    <3>. QED BY <1>1, <1>2, <2>0, <2>1, <2>3, <3>1
  <2>. QED BY <2>2, <2>3
<1>. QED BY <1>3, <1>4, <1>5

\* Without(s, d) lists the same directories except d, each once.
LEMMA WithoutProperties ==
    ASSUME NEW s, Listed(s), NEW d
    PROVE  /\ Listed(Without(s, d))
           /\ ToSet(Without(s, d)) = ToSet(s) \ {d}
<1>1. CASE d \notin ToSet(s)
  BY <1>1 DEF Without
<1>2. CASE d \in ToSet(s)
  <2>. DEFINE p == CHOOSE i \in DOMAIN s : s[i] = d
              w == RemoveAt(s, p)
              old(j) == IF j < p THEN j ELSE j + 1
  <2>0. /\ s \in Seq(Dirs) /\ Len(s) \in Nat /\ DOMAIN s = 1..Len(s)
        /\ \A i \in 1..Len(s) : s[i] \in Dirs
        /\ \A i, j \in 1..Len(s) : s[i] = s[j] => i = j
        /\ ToSet(s) = {s[i] : i \in 1..Len(s)}
    BY InListing
  <2>1. p \in 1..Len(s) /\ s[p] = d
    BY <1>2, <2>0
  <2>2. Without(s, d) = w
    BY <1>2 DEF Without
  <2>. HIDE DEF p
  <2>5. /\ w \in Seq(Dirs) /\ Len(w) = Len(s) - 1
        /\ \A j \in 1..(Len(s) - 1) : w[j] = s[old(j)]
    BY <2>0, <2>1, RemoveAtProperties
  <2>6. \A j \in 1..(Len(s) - 1) : w[j] = s[old(j)] /\ old(j) \in 1..Len(s) \ {p}
    BY <2>0, <2>1, <2>5
  <2>7. DOMAIN w = 1..(Len(s) - 1)
    BY <2>5, LenProperties
  <2>. HIDE DEF w
  <2>8. IsInjective(w)
    <3>1. ASSUME NEW i \in DOMAIN w, NEW j \in DOMAIN w, w[i] = w[j]
          PROVE  i = j
      <4>1. old(i) = old(j)
        BY <2>0, <2>6, <2>7, <3>1
      <4>. QED BY <2>0, <2>1, <2>7, <4>1
    <3>. QED BY <3>1 DEF IsInjective
  <2>9. ToSet(w) = ToSet(s) \ {d}
    <3>1. ToSet(w) \subseteq ToSet(s) \ {d}
      BY <2>0, <2>1, <2>6, <2>7 DEF ToSet
    <3>2. ASSUME NEW i \in 1..Len(s), s[i] # d
          PROVE  s[i] \in ToSet(w)
      <4>. DEFINE j == IF i < p THEN i ELSE i - 1
      <4>1. j \in 1..(Len(s) - 1) /\ old(j) = i
        BY <2>0, <2>1, <3>2
      <4>2. w[j] = s[i]
        BY <2>6, <4>1
      <4>. QED BY <2>7, <4>1, <4>2 DEF ToSet
    <3>. QED BY <2>0, <3>1, <3>2
  <2>. QED BY <2>2, <2>5, <2>8, <2>9 DEF Listed
<1>. QED BY <1>1, <1>2

LEMMA AppendListed ==
    ASSUME NEW s, Listed(s), NEW d \in Dirs, d \notin ToSet(s)
    PROVE  Listed(Append(s, d)) /\ ToSet(Append(s, d)) = ToSet(s) \cup {d}
<1>. DEFINE w == Append(s, d)
<1>0. /\ s \in Seq(Dirs) /\ Len(s) \in Nat /\ DOMAIN s = 1..Len(s)
      /\ \A i, j \in 1..Len(s) : s[i] = s[j] => i = j
      /\ ToSet(s) = {s[i] : i \in 1..Len(s)}
  BY InListing
<1>1. /\ w \in Seq(Dirs) /\ Len(w) = Len(s) + 1
      /\ \A i \in 1..Len(s) : w[i] = s[i]
      /\ w[Len(s) + 1] = d
  BY <1>0, AppendProperties
<1>2. DOMAIN w = 1..(Len(s) + 1)
  BY <1>1, LenProperties
<1>. HIDE DEF w
<1>3. \A i \in 1..Len(s) : s[i] # d
  BY <1>0
<1>4. IsInjective(w)
  <2>1. ASSUME NEW i \in DOMAIN w, NEW j \in DOMAIN w, w[i] = w[j]
        PROVE  i = j
    <3>1. i \in 1..Len(s) \/ i = Len(s) + 1
      BY <1>0, <1>2
    <3>2. j \in 1..Len(s) \/ j = Len(s) + 1
      BY <1>0, <1>2
    <3>. QED BY <1>0, <1>1, <1>3, <2>1, <3>1, <3>2
  <2>. QED BY <2>1 DEF IsInjective
<1>5. ToSet(w) = ToSet(s) \cup {d}
  <2>1. DOMAIN w = (1..Len(s)) \cup {Len(s) + 1}
    BY <1>0, <1>2
  <2>. QED BY <1>0, <1>1, <2>1 DEF ToSet
<1>. QED BY <1>1, <1>4, <1>5 DEF Listed, w

LEMMA TouchedProperties ==
    ASSUME Listed(listing), NEW d \in Dirs
    PROVE  Listed(Touched(d)) /\ ToSet(Touched(d)) = ToSet(listing) \cup {d}
BY WithoutProperties, AppendListed DEF Touched

\* A directory under its new name.
LEMMA RenamedProperties ==
    ASSUME NEW s, Listed(s), NEW old \in ToSet(s), NEW new \in Dirs, new \notin ToSet(s)
    PROVE  /\ Listed(ReplaceAll(s, old, new))
           /\ ToSet(ReplaceAll(s, old, new)) = (ToSet(s) \ {old}) \cup {new}
<1>. DEFINE w == ReplaceAll(s, old, new)
<1>0. /\ s \in Seq(Dirs) /\ Len(s) \in Nat /\ DOMAIN s = 1..Len(s)
      /\ \A i \in 1..Len(s) : s[i] \in Dirs
      /\ \A i, j \in 1..Len(s) : s[i] = s[j] => i = j
      /\ ToSet(s) = {s[i] : i \in 1..Len(s)}
  BY InListing
<1>1. w = [i \in 1..Len(s) |-> IF s[i] = old THEN new ELSE s[i]]
  BY DEF ReplaceAll
<1>2. w \in Seq(Dirs)
  <2>1. w \in [1..Len(s) -> Dirs]
    BY <1>0, <1>1
  <2>. QED BY <1>0, <2>1, SeqDef
<1>3. DOMAIN w = 1..Len(s) /\ \A i \in 1..Len(s) : w[i] = IF s[i] = old THEN new ELSE s[i]
  BY <1>1
<1>. HIDE DEF w
<1>4. IsInjective(w)
  BY <1>0, <1>3 DEF IsInjective
<1>5. ToSet(w) = (ToSet(s) \ {old}) \cup {new}
  BY <1>0, <1>3 DEF ToSet
<1>. QED BY <1>2, <1>4, <1>5 DEF Listed, w
----------------------------------------------------------------------------
(* Tasks, locks and event loops.                                           *)

Opens == [at : Places, key : Keys, pid : Pids]

TasksOK ==
    /\ task \in [Tasks -> {Idle} \cup Opens]
    /\ lock \in [Keys \X Pids -> Seq(Tasks)]
    /\ loop \in [Pids -> Tasks \cup {NoTask}]

DiskOK ==
    /\ spools \subseteq Keys \X Pids
    /\ content \in [Dirs -> SUBSET Parts]
    /\ Listed(listing)
    /\ \A d \in Dirs : content[d] # {} => Exists(d)

PruneOK ==
    /\ doomed \in [Pids -> Seq(Dirs)]
    /\ seen \in [Pids -> SUBSET Parts]

LEMMA Types == TypeOK <=> TasksOK /\ DiskOK /\ PruneOK
BY DEF TypeOK, TasksOK, DiskOK, PruneOK, Opens, Listed

LEMMA Active ==
    ASSUME TasksOK, NEW t \in Tasks
    PROVE  /\ task[t] # Idle => task[t] \in Opens
           /\ task[t] \in Opens => /\ task[t] # Idle
                                   /\ Book(t) \in Keys /\ Pid(t) \in Pids
                                   /\ Build(t) \in Keys \X Pids
                                   /\ Build(t) \in Dirs /\ Shelf(t) \in Dirs
                                   /\ Build(t)[2] = Pid(t) /\ Shelf(t)[2] = Public
                                   /\ Build(t) # Shelf(t)
           /\ \A places \in SUBSET Places : At(t, places) => task[t] \in Opens
<1>1. "idle" \notin Places
  BY DEF Places
<1>2. task[t] \in {Idle} \cup Opens
  BY DEF TasksOK
<1>3. task[t] \in Opens => Book(t) \in Keys /\ Pid(t) \in Pids /\ Pid(t) # Public
  BY NamesAssumption DEF Opens, Book, Pid
<1>4. task[t] \in Opens => task[t] # Idle
  BY <1>1 DEF Opens, Idle
<1>5. \A places \in SUBSET Places : At(t, places) => task[t] \in Opens
  BY <1>1, <1>2 DEF Idle, At
<1>. QED BY <1>2, <1>3, <1>4, <1>5 DEF Build, Shelf, Dirs

LEMMA PlacesKnown ==
    /\ Held \subseteq Places /\ Unpacking \subseteq Places
    /\ Builds \subseteq Places /\ Spools \subseteq Places
    /\ {"queued"} \subseteq Places /\ {"spooling"} \subseteq Places
BY DEF Held, Unpacking, Builds, Spools, Places

\* A task that goes from one place to another.
LEMMA Moved ==
    ASSUME TasksOK, NEW t \in Tasks, task[t] \in Opens, NEW place \in Places, Goto(t, place)
    PROVE  /\ task' \in [Tasks -> {Idle} \cup Opens]
           /\ task'[t] = [at |-> place, key |-> Book(t), pid |-> Pid(t)]
           /\ task'[t] \in Opens
           /\ \A u \in Tasks \ {t} : task'[u] = task[u]
<1>1. task' = [task EXCEPT ![t] = [task[t] EXCEPT !.at = place]]
  BY DEF Goto, TasksOK
<1>2. [task[t] EXCEPT !.at = place] = [at |-> place, key |-> Book(t), pid |-> Pid(t)]
  BY DEF Opens, Book, Pid
<1>3. [at |-> place, key |-> Book(t), pid |-> Pid(t)] \in Opens
  BY Active DEF Opens
<1>. QED BY <1>1, <1>2, <1>3 DEF TasksOK

\* No other task that holds an event loop loses it.
LEMMA SegmentsKept ==
    ASSUME TasksOK, Segments, NEW t \in Tasks, task[t] \in Opens,
           \A u \in Tasks \ {t} : task'[u] = task[u],
           \/ UNCHANGED loop
           \/ Turn(t) /\ (Hold(t) \/ Yield(t)),
           At(t, Held)' \/ (At(t, Unpacking)' /\ Book(t)' \notin Comics) => loop'[Pid(t)'] = t
    PROVE  loop' \in [Pids -> Tasks \cup {NoTask}] /\ Segments'
<1>1. loop' \in [Pids -> Tasks \cup {NoTask}]
  BY Active DEF Hold, Yield, TasksOK
<1>2. ASSUME NEW u \in Tasks, u # t,
             At(u, Held) \/ (At(u, Unpacking) /\ Book(u) \notin Comics)
      PROVE  loop'[Pid(u)] = u
  <2>1. loop[Pid(u)] = u /\ task[u] \in Opens /\ Pid(u) \in Pids /\ u # NoTask
    BY <1>2, Active, PlacesKnown, NamesAssumption DEF Segments
  <2>2. CASE UNCHANGED loop
    BY <2>1, <2>2
  <2>3. CASE Turn(t) /\ (Hold(t) \/ Yield(t))
    <3>1. Pid(t) # Pid(u)
      BY <1>2, <2>1, <2>3 DEF Turn
    <3>. QED BY <2>1, <2>3, <3>1, Active DEF Hold, Yield, TasksOK
  <2>. QED BY <2>2, <2>3
<1>. QED BY <1>1, <1>2 DEF Segments, At, Book, Pid

LEMMA GotoKeeps ==
    ASSUME TasksOK, Segments, Locked, NEW t \in Tasks, task[t] \in Opens,
           NEW place \in Places, Goto(t, place), UNCHANGED lock,
           Head(lock[Build(t)]) = t,
           \/ UNCHANGED loop
           \/ Turn(t) /\ (Hold(t) \/ Yield(t)),
           place \in Held \/ (place \in Unpacking /\ Book(t) \notin Comics) => loop'[Pid(t)] = t
    PROVE  TasksOK' /\ Segments' /\ Locked'
<1>1. /\ task' \in [Tasks -> {Idle} \cup Opens]
      /\ task'[t] = [at |-> place, key |-> Book(t), pid |-> Pid(t)]
      /\ \A u \in Tasks \ {t} : task'[u] = task[u]
  BY Moved
<1>2. Book(t)' = Book(t) /\ Pid(t)' = Pid(t) /\ Build(t)' = Build(t)
  BY <1>1 DEF Book, Pid, Build
<1>3. loop' \in [Pids -> Tasks \cup {NoTask}] /\ Segments'
  BY <1>1, <1>2, SegmentsKept DEF At
<1>4. Locked'
  <2>1. t \in ToSet(lock[Build(t)])
    BY Active DEF Locked
  <2>2. ASSUME NEW u \in Tasks, task'[u] # Idle
        PROVE  /\ u \in ToSet(lock'[Build(u)'])
               /\ ~At(u, {"queued"})' => Head(lock'[Build(u)']) = u
    <3>1. CASE u = t
      BY <1>2, <2>1, <3>1
    <3>2. CASE u # t
      <4>1. task'[u] = task[u] /\ Build(u)' = Build(u)
        BY <1>1, <3>2 DEF Build, Book, Pid
      <4>. QED BY <2>2, <4>1 DEF Locked, At
    <3>. QED BY <3>1, <3>2
  <2>. QED BY <2>2 DEF Locked
<1>. QED BY <1>1, <1>3, <1>4 DEF TasksOK

\* The next in line becomes the head.
LEMMA TailProperties ==
    ASSUME NEW S, NEW s \in Seq(S), s # <<>>
    PROVE  /\ Tail(s) \in Seq(S)
           /\ ToSet(s) \subseteq {Head(s)} \cup ToSet(Tail(s))
<1>1. /\ Tail(s) \in Seq(S) /\ Len(Tail(s)) = Len(s) - 1
      /\ \A i \in 1..(Len(s) - 1) : Tail(s)[i] = s[i + 1]
      /\ Len(s) \in Nat
  BY HeadTailProperties, LenProperties
<1>2. ASSUME NEW i \in 1..Len(s)
      PROVE  s[i] \in {Head(s)} \cup ToSet(Tail(s))
  <2>1. CASE i = 1
    BY <2>1, HeadTailProperties
  <2>2. CASE i # 1
    <3>1. i - 1 \in 1..Len(Tail(s)) /\ Tail(s)[i - 1] = s[i]
      BY <1>1, <2>2
    <3>2. DOMAIN Tail(s) = 1..Len(Tail(s))
      BY <1>1, LenProperties
    <3>. QED BY <3>1, <3>2 DEF ToSet
  <2>. QED BY <2>1, <2>2
<1>3. DOMAIN s = 1..Len(s)
  BY LenProperties
<1>. QED BY <1>1, <1>2, <1>3 DEF ToSet

LEMMA Left ==
    ASSUME TasksOK, NEW t \in Tasks, Leave(t)
    PROVE  /\ task' \in [Tasks -> {Idle} \cup Opens]
           /\ task'[t] = Idle
           /\ \A u \in Tasks \ {t} : task'[u] = task[u]
BY DEF TasksOK, Leave

LEMMA LeaveKeeps ==
    ASSUME TasksOK, Segments, Locked, NEW t \in Tasks, task[t] \in Opens,
           Head(lock[Build(t)]) = t, Turn(t), Leave(t)
    PROVE  TasksOK' /\ Segments' /\ Locked'
<1>1. /\ task' \in [Tasks -> {Idle} \cup Opens]
      /\ task'[t] = Idle
      /\ \A u \in Tasks \ {t} : task'[u] = task[u]
  BY Left
<1>2. loop' \in [Pids -> Tasks \cup {NoTask}] /\ Segments'
  <2>1. ~At(t, Held)' /\ ~At(t, Unpacking)'
    BY <1>1 DEF At, Idle, Held, Unpacking
  <2>. QED BY <1>1, <2>1, SegmentsKept DEF Leave
<1>3. /\ lock[Build(t)] \in Seq(Tasks) /\ t \in ToSet(lock[Build(t)])
      /\ lock[Build(t)] # <<>>
      /\ Build(t) \in Keys \X Pids
  BY Active DEF Locked, TasksOK, ToSet
<1>4. /\ Tail(lock[Build(t)]) \in Seq(Tasks)
      /\ ToSet(lock[Build(t)]) \subseteq {t} \cup ToSet(Tail(lock[Build(t)]))
  BY <1>3, TailProperties
<1>5. /\ lock' \in [Keys \X Pids -> Seq(Tasks)]
      /\ lock'[Build(t)] = Tail(lock[Build(t)])
      /\ \A l \in Keys \X Pids : l # Build(t) => lock'[l] = lock[l]
  BY <1>3, <1>4 DEF Leave, TasksOK
<1>6. ASSUME NEW u \in Tasks, task'[u] # Idle
      PROVE  /\ u \in ToSet(lock'[Build(u)'])
             /\ ~At(u, {"queued"})' => Head(lock'[Build(u)']) = u
  <2>1. u # t /\ task'[u] = task[u] /\ Build(u)' = Build(u) /\ Build(u) \in Keys \X Pids
    BY <1>1, <1>6, Active DEF Build, Book, Pid
  <2>2. /\ u \in ToSet(lock[Build(u)])
        /\ ~At(u, {"queued"}) => Head(lock[Build(u)]) = u
    BY <1>6, <2>1 DEF Locked
  <2>3. CASE Build(u) = Build(t)
    BY <1>4, <1>5, <2>1, <2>2, <2>3 DEF At
  <2>4. CASE Build(u) # Build(t)
    BY <1>5, <2>1, <2>2, <2>4 DEF At
  <2>. QED BY <2>3, <2>4
<1>. QED BY <1>1, <1>2, <1>5, <1>6 DEF TasksOK, Locked
----------------------------------------------------------------------------
(* The cache directory.                                                    *)

\* What a directory holds is changed without touching the listing, or not at all.
LEMMA ContentKeeps ==
    ASSUME DiskOK, NEW d \in Dirs, NEW c \in SUBSET Parts,
           content' = [content EXCEPT ![d] = c],
           c = {} \/ Exists(d),
           UNCHANGED <<spools, listing>>
    PROVE  DiskOK'
BY DEF DiskOK, Exists

LEMMA DeleteKeeps ==
    ASSUME DiskOK, NEW d \in Dirs, Delete(d)
    PROVE  /\ content' \in [Dirs -> SUBSET Parts]
           /\ content'[d] = {} /\ \A e \in Dirs \ {d} : content'[e] = content[e]
           /\ Listed(listing') /\ ToSet(listing') = ToSet(listing) \ {d}
           /\ \A e \in Dirs : content'[e] # {} => Exists(e)'
<1>1. /\ content' = [content EXCEPT ![d] = {}]
      /\ listing' = Without(listing, d)
  BY DEF Delete
<1>2. Listed(listing') /\ ToSet(listing') = ToSet(listing) \ {d}
  BY <1>1, WithoutProperties DEF DiskOK
<1>3. /\ content' \in [Dirs -> SUBSET Parts]
      /\ content'[d] = {} /\ \A e \in Dirs \ {d} : content'[e] = content[e]
  BY <1>1 DEF DiskOK
<1>. QED BY <1>2, <1>3 DEF DiskOK, Exists

LEMMA PublishKeeps ==
    ASSUME DiskOK, NEW t \in Tasks, TasksOK, task[t] \in Opens, CanRename(t), Publish(t)
    PROVE  /\ content' \in [Dirs -> SUBSET Parts]
           /\ content'[Shelf(t)] = content[Build(t)] /\ content'[Build(t)] = {}
           /\ \A d \in Dirs \ {Shelf(t), Build(t)} : content'[d] = content[d]
           /\ Listed(listing') /\ ToSet(listing') = (ToSet(listing) \ {Build(t)}) \cup {Shelf(t)}
           /\ \A d \in Dirs : content'[d] # {} => Exists(d)'
<1>. DEFINE b == Build(t)
            s == Shelf(t)
            rest == Without(listing, s)
<1>1. b \in Dirs /\ s \in Dirs /\ b # s
  BY Active
<1>2. /\ content' = [content EXCEPT ![s] = content[b], ![b] = {}]
      /\ listing' = ReplaceAll(rest, b, s)
      /\ b \in ToSet(listing)
  BY DEF Publish, CanRename, Exists
<1>3. Listed(rest) /\ ToSet(rest) = ToSet(listing) \ {s}
  BY WithoutProperties DEF DiskOK
<1>. HIDE DEF b, s, rest
<1>4. Listed(listing') /\ ToSet(listing') = (ToSet(listing) \ {b}) \cup {s}
  BY <1>1, <1>2, <1>3, RenamedProperties
<1>5. /\ content' \in [Dirs -> SUBSET Parts]
      /\ content'[s] = content[b] /\ content'[b] = {}
      /\ \A d \in Dirs \ {s, b} : content'[d] = content[d]
  BY <1>1, <1>2 DEF DiskOK
<1>6. \A d \in Dirs : content'[d] # {} => Exists(d)'
  BY <1>4, <1>5 DEF DiskOK, Exists
<1>. QED BY <1>4, <1>5, <1>6 DEF b, s

LEMMA PrunesKept ==
    ASSUME Prunes, UNCHANGED doomed, NEW t \in Tasks,
           \A u \in Tasks \ {t} : task'[u] = task[u],
           ~At(t, {"pruning", "deleting"})'
    PROVE  Prunes'
BY DEF Prunes, At, Pid

\* What most steps have in common: a task past its lock goes on, and prunes nothing.
LEMMA GotoBase ==
    ASSUME Base, NEW t \in Tasks, NEW places \in SUBSET Places, At(t, places),
           "queued" \notin places \/ Head(lock[Build(t)]) = t,
           NEW place \in Places, place \notin {"pruning", "deleting"},
           Goto(t, place), UNCHANGED lock,
           \/ UNCHANGED loop
           \/ Turn(t) /\ (Hold(t) \/ Yield(t)),
           place \in Held \/ (place \in Unpacking /\ Book(t) \notin Comics) => loop'[Pid(t)] = t,
           DiskOK', UNCHANGED pruneVars
    PROVE  Base'
<1>1. TasksOK /\ task[t] \in Opens /\ task[t] # Idle
  BY Types, Active DEF Base
<1>2. Head(lock[Build(t)]) = t
  BY <1>1 DEF Base, Locked, At
<1>3. TasksOK' /\ Segments' /\ Locked'
  BY <1>1, <1>2, GotoKeeps DEF Base
<1>4. Prunes'
  <2>1. task'[t].at = place /\ \A u \in Tasks \ {t} : task'[u] = task[u]
    <3>1. /\ task'[t] = [at |-> place, key |-> Book(t), pid |-> Pid(t)]
          /\ \A u \in Tasks \ {t} : task'[u] = task[u]
      BY <1>1, Moved
    <3>. QED BY <3>1
  <2>2. ~At(t, {"pruning", "deleting"})'
    BY <2>1 DEF At
  <2>. QED BY <2>1, <2>2, PrunesKept DEF Base, pruneVars
<1>5. TypeOK'
  BY <1>3, Types DEF Base, PruneOK, pruneVars, TypeOK, TasksOK, DiskOK, Opens, Listed
<1>. QED BY <1>3, <1>4, <1>5 DEF Base

LEMMA LeaveBase ==
    ASSUME Base, NEW t \in Tasks, NEW places \in SUBSET Places, At(t, places),
           "queued" \notin places \/ Head(lock[Build(t)]) = t,
           Turn(t), Leave(t), DiskOK', UNCHANGED pruneVars
    PROVE  Base'
<1>1. TasksOK /\ task[t] \in Opens /\ task[t] # Idle
  BY Types, Active DEF Base
<1>2. Head(lock[Build(t)]) = t
  BY <1>1 DEF Base, Locked, At
<1>3. TasksOK' /\ Segments' /\ Locked'
  BY <1>1, <1>2, LeaveKeeps DEF Base
<1>4. Prunes'
  BY <1>1, Left, PrunesKept DEF Base, At, pruneVars, Idle
<1>5. TypeOK'
  BY <1>3, Types DEF Base, PruneOK, pruneVars, TypeOK, TasksOK, DiskOK, Opens, Listed
<1>. QED BY <1>3, <1>4, <1>5 DEF Base
----------------------------------------------------------------------------
(* Every step keeps Base.                                                  *)

\* What Base says of a task at places where it holds the event loop, or is past its lock.
LEMMA BaseFacts ==
    ASSUME Base, NEW t \in Tasks
    PROVE  /\ TasksOK /\ DiskOK /\ PruneOK
           /\ task[t] # Idle <=> task[t] \in Opens
           /\ At(t, Held) => Turn(t) /\ loop[Pid(t)] = t
           /\ task[t] \in Opens => /\ Book(t) \in Keys /\ Pid(t) \in Pids
                                   /\ Build(t) \in Keys \X Pids
                                   /\ Build(t) \in Dirs /\ Shelf(t) \in Dirs
                                   /\ Build(t) # Shelf(t)
BY Types, Active DEF Base, Segments, Turn

\* A new task takes its place in line.
LEMMA OpenBase ==
    ASSUME Base, NEW t \in Tasks, NEW k \in Keys, NEW p \in Pids, Open(t, k, p)
    PROVE  Base'
<1>. DEFINE l == <<k, p>>
            place == IF lock[l] = <<>> THEN "spooling" ELSE "queued"
            new == [at |-> place, key |-> k, pid |-> p]
<1>1. /\ TasksOK /\ DiskOK /\ PruneOK
      /\ task[t] = Idle
      /\ lock' = [lock EXCEPT ![l] = Append(@, t)]
      /\ task' = [task EXCEPT ![t] = new]
      /\ spools' = IF lock[l] = <<>> THEN spools \cup {l} ELSE spools
      /\ UNCHANGED <<loop, content, listing, pruneVars>>
  BY BaseFacts DEF Open
<1>2. l \in Keys \X Pids /\ new \in Opens
  BY DEF Opens, Places
<1>3. /\ lock[l] \in Seq(Tasks) /\ Append(lock[l], t) \in Seq(Tasks)
      /\ ToSet(Append(lock[l], t)) = ToSet(lock[l]) \cup {t}
      /\ lock[l] # <<>> => Head(Append(lock[l], t)) = Head(lock[l])
      /\ lock[l] = <<>> => Head(Append(lock[l], t)) = t
      /\ lock[l] = <<>> => ToSet(lock[l]) = {}
  <2>. DEFINE s == lock[l]
              w == Append(s, t)
  <2>1. s \in Seq(Tasks) /\ Len(s) \in Nat /\ DOMAIN s = 1..Len(s)
    BY <1>1, <1>2, LenProperties DEF TasksOK
  <2>2. /\ w \in Seq(Tasks) /\ Len(w) = Len(s) + 1 /\ w # <<>>
        /\ \A i \in 1..Len(s) : w[i] = s[i]
        /\ w[Len(s) + 1] = t
    BY <2>1, AppendProperties
  <2>3. DOMAIN w = (1..Len(s)) \cup {Len(s) + 1}
    BY <2>1, <2>2, LenProperties
  <2>. HIDE DEF s, w
  <2>4. ToSet(w) = ToSet(s) \cup {t}
    BY <2>1, <2>2, <2>3 DEF ToSet
  <2>5. s # <<>> => Len(s) # 0
    BY <2>1, EmptySeq
  <2>6. Head(w) = w[1]
    BY <2>2, HeadTailProperties
  <2>7. s # <<>> => Head(s) = s[1]
    BY <2>1, HeadTailProperties
  <2>8. s = <<>> => Len(s) = 0 /\ ToSet(s) = {}
    BY <2>1 DEF ToSet
  <2>. QED BY <2>1, <2>2, <2>4, <2>5, <2>6, <2>7, <2>8 DEF s, w
<1>. HIDE DEF l, new
<1>4. TasksOK'
  BY <1>1, <1>2, <1>3 DEF TasksOK
<1>5. /\ task'[t] = new /\ \A u \in Tasks \ {t} : task'[u] = task[u]
      /\ lock'[l] = Append(lock[l], t)
      /\ \A m \in Keys \X Pids : m # l => lock'[m] = lock[m]
  BY <1>1, <1>2, <1>3 DEF TasksOK
<1>6. /\ new.at = place /\ new.key = k /\ new.pid = p /\ l = <<k, p>>
  BY DEF new, l
<1>7. Segments'
  BY <1>1, <1>5, <1>6 DEF Base, Segments, At, Book, Pid, Held, Unpacking
<1>8. Prunes'
  BY <1>1, <1>5, <1>6 DEF Base, Prunes, At, Pid, pruneVars
<1>9. Locked'
  <2>1. ASSUME NEW u \in Tasks, task'[u] # Idle
        PROVE  /\ u \in ToSet(lock'[Build(u)'])
               /\ ~At(u, {"queued"})' => Head(lock'[Build(u)']) = u
    <3>1. CASE u = t
      <4>1. Build(u)' = l /\ u \in ToSet(lock'[l])
        BY <1>3, <1>5, <1>6, <3>1 DEF Build, Book, Pid
      <4>2. ~At(u, {"queued"})' => lock[l] = <<>>
        BY <1>5, <1>6, <3>1 DEF At
      <4>. QED BY <1>3, <1>5, <3>1, <4>1, <4>2
    <3>2. CASE u # t
      <4>1. /\ task'[u] = task[u] /\ Build(u)' = Build(u) /\ Build(u) \in Keys \X Pids
            /\ u \in ToSet(lock[Build(u)])
            /\ ~At(u, {"queued"})' => Head(lock[Build(u)]) = u
        BY <1>1, <1>5, <2>1, <3>2, Active DEF Build, Book, Pid, Base, Locked, At
      <4>2. CASE Build(u) = l
        BY <1>3, <1>5, <4>1, <4>2
      <4>3. CASE Build(u) # l
        BY <1>5, <4>1, <4>3
      <4>. QED BY <4>2, <4>3
    <3>. QED BY <3>1, <3>2
  <2>. QED BY <2>1 DEF Locked
<1>10. DiskOK' /\ PruneOK'
  BY <1>1, <1>2 DEF DiskOK, PruneOK, pruneVars, Exists
<1>11. TypeOK'
  BY <1>4, <1>10 DEF TypeOK, TasksOK, DiskOK, PruneOK, Opens, Listed
<1>. QED BY <1>7, <1>8, <1>9, <1>11 DEF Base

\* What a step comes to: for its task, and for the cache directory.
Same(t) == \A u \in Tasks \ {t} : task'[u] = task[u]
Goes(t, place) == task'[t] = [at |-> place, key |-> Book(t), pid |-> Pid(t)] /\ Same(t)
Ends(t) == task'[t] = Idle /\ Same(t)

Holding(d, c) == content'[d] = c /\ \A e \in Dirs \ {d} : content'[e] = content[e]
Deleted(d) == Holding(d, {}) /\ ToSet(listing') = ToSet(listing) \ {d}
Shelves(t) ==
    /\ content'[Shelf(t)] = content[Build(t)] /\ content'[Build(t)] = {}
    /\ \A d \in Dirs \ {Shelf(t), Build(t)} : content'[d] = content[d]
    /\ ToSet(listing') = (ToSet(listing) \ {Build(t)}) \cup {Shelf(t)}

LEMMA GoesAndEnds ==
    ASSUME Base, NEW t \in Tasks, task[t] \in Opens
    PROVE  /\ \A place \in Places : Goto(t, place) => Goes(t, place)
           /\ Leave(t) => Ends(t)
BY BaseFacts, Moved, Left DEF Goes, Ends, Same

LEMMA FindShelvedStep ==
    ASSUME Base, NEW t \in Tasks, FindShelved(t)
    PROVE  Base' /\ Ends(t)
<1>1. At(t, {"queued"}) /\ {"queued"} \in SUBSET Places /\ task[t] \in Opens
  BY BaseFacts, Active, PlacesKnown DEF FindShelved
<1>2. DiskOK'
  BY BaseFacts DEF FindShelved, diskVars, DiskOK, Exists
<1>. QED BY <1>1, <1>2, LeaveBase, GoesAndEnds DEF FindShelved

LEMMA StartSpoolStep ==
    ASSUME Base, NEW t \in Tasks, StartSpool(t)
    PROVE  Base' /\ Goes(t, "spooling")
<1>1. /\ At(t, {"queued"}) /\ {"queued"} \in SUBSET Places /\ task[t] \in Opens
      /\ "spooling" \in Places /\ "spooling" \notin Held /\ "spooling" \notin Unpacking
  BY BaseFacts, Active, PlacesKnown DEF StartSpool, Places, Held, Unpacking
<1>2. DiskOK'
  BY <1>1, BaseFacts DEF StartSpool, DiskOK, Exists
<1>. QED BY <1>1, <1>2, GotoBase, GoesAndEnds DEF StartSpool

LEMMA SpoolFailsStep ==
    ASSUME Base, NEW t \in Tasks, SpoolFails(t)
    PROVE  Base' /\ Ends(t)
<1>1. At(t, {"spooling"}) /\ {"spooling"} \in SUBSET Places /\ task[t] \in Opens
  BY BaseFacts, Active, PlacesKnown DEF SpoolFails
<1>2. DiskOK'
  BY BaseFacts DEF SpoolFails, DiskOK, Exists, DropSpool
<1>. QED BY <1>1, <1>2, LeaveBase, GoesAndEnds DEF SpoolFails

LEMMA SpooledStep ==
    ASSUME Base, NEW t \in Tasks, Spooled(t)
    PROVE  /\ Base'
           /\ Goes(t, "fetching") \/ Goes(t, "building")
           /\ Holding(Build(t), {}) /\ ToSet(listing') = ToSet(listing) \cup {Build(t)}
<1>1. /\ At(t, {"spooling"}) /\ {"spooling"} \in SUBSET Places
      /\ task[t] \in Opens /\ Build(t) \in Dirs
  BY BaseFacts, Active, PlacesKnown DEF Spooled
<1>2. /\ Listed(listing') /\ ToSet(listing') = ToSet(listing) \cup {Build(t)}
      /\ content' = [content EXCEPT ![Build(t)] = {}] /\ UNCHANGED spools
  BY <1>1, BaseFacts, TouchedProperties DEF Spooled, DiskOK
<1>3. DiskOK' /\ Holding(Build(t), {})
  BY <1>1, <1>2, BaseFacts DEF DiskOK, Exists, Holding
<1>4. CASE Book(t) \in WebPages
  <2>1. Goto(t, "fetching") /\ UNCHANGED <<loop, lock, pruneVars>>
    BY <1>4 DEF Spooled
  <2>2. "fetching" \in Places /\ "fetching" \notin Held /\ "fetching" \notin Unpacking
    BY DEF Places, Held, Unpacking
  <2>. QED BY <1>1, <1>2, <1>3, <2>1, <2>2, GotoBase, GoesAndEnds
<1>5. CASE Book(t) \notin WebPages
  <2>1. /\ Goto(t, "building") /\ UNCHANGED <<lock, pruneVars>>
        /\ UNCHANGED loop \/ Hold(t)
        /\ Book(t) \notin Comics => Hold(t)
        /\ Turn(t)
    BY <1>5 DEF Spooled
  <2>2. "building" \in Places /\ "building" \notin Held
    BY DEF Places, Held
  <2>3. Book(t) \notin Comics => loop'[Pid(t)] = t
    BY <1>1, <2>1, BaseFacts DEF Hold, TasksOK
  <2>. QED BY <1>1, <1>2, <1>3, <2>1, <2>2, <2>3, GotoBase, GoesAndEnds
<1>. QED BY <1>1, <1>2, <1>3, <1>4, <1>5

LEMMA ImagesFetchedStep ==
    ASSUME Base, NEW t \in Tasks, ImagesFetched(t)
    PROVE  Base' /\ Goes(t, "building")
<1>1. /\ At(t, {"fetching"}) /\ {"fetching"} \in SUBSET Places
      /\ "building" \in Places
  BY DEF ImagesFetched, Places
<1>2. task[t] \in Opens /\ Pid(t) \in Pids
  BY <1>1, BaseFacts, Active
<1>3. DiskOK' /\ loop'[Pid(t)] = t
  BY <1>2, BaseFacts DEF ImagesFetched, diskVars, DiskOK, Exists, Hold, TasksOK
<1>. QED BY <1>1, <1>2, <1>3, GotoBase, GoesAndEnds DEF ImagesFetched

LEMMA WritePagesStep ==
    ASSUME Base, NEW t \in Tasks, WritePages(t)
    PROVE  /\ Base' /\ Goes(t, "written")
           /\ Holding(Build(t), content[Build(t)] \cup {"pages"}) /\ UNCHANGED <<listing, spools>>
<1>1. /\ At(t, {"building"}) /\ {"building"} \in SUBSET Places
      /\ "written" \in Places /\ "written" \notin Held
      /\ At(t, Unpacking) /\ "pages" \in Parts
  BY DEF WritePages, Places, Held, Unpacking, Parts, At
<1>2. task[t] \in Opens /\ Build(t) \in Dirs
  BY <1>1, BaseFacts, Active
<1>3. Book(t) \notin Comics => loop[Pid(t)] = t
  BY <1>1 DEF Base, Segments
<1>4. content[Build(t)] \cup {"pages"} \in SUBSET Parts
  BY <1>1, <1>2, BaseFacts DEF DiskOK
<1>5. DiskOK' /\ Holding(Build(t), content[Build(t)] \cup {"pages"})
  BY <1>2, <1>4, BaseFacts, ContentKeeps DEF WritePages, DiskOK, Holding
<1>. QED BY <1>1, <1>2, <1>3, <1>5, GotoBase, GoesAndEnds DEF WritePages

LEMMA WriteManifestStep ==
    ASSUME Base, NEW t \in Tasks, WriteManifest(t)
    PROVE  /\ Base' /\ Goes(t, "built")
           /\ Holding(Build(t), content[Build(t)] \cup {"manifest"})
           /\ ToSet(listing') = ToSet(listing) /\ UNCHANGED spools
<1>1. /\ At(t, {"written"}) /\ {"written"} \in SUBSET Places
      /\ "built" \in Places /\ "built" \notin Held
      /\ At(t, Unpacking) /\ "manifest" \in Parts
  BY DEF WriteManifest, Places, Held, Unpacking, Parts, At
<1>2. task[t] \in Opens /\ Build(t) \in Dirs
  BY <1>1, BaseFacts, Active
<1>3. Book(t) \notin Comics => loop[Pid(t)] = t
  BY <1>1 DEF Base, Segments
<1>4. /\ content' = [content EXCEPT ![Build(t)] = @ \cup {"manifest"}]
      /\ Listed(listing') /\ ToSet(listing') = ToSet(listing)
      /\ UNCHANGED spools
  <2>1. Listed(listing') /\ ToSet(listing') = ToSet(listing) \cup {Build(t)}
    BY <1>2, BaseFacts, TouchedProperties DEF WriteManifest, DiskOK
  <2>2. Build(t) \in ToSet(listing)
    BY DEF WriteManifest, Exists
  <2>. QED BY <2>1, <2>2 DEF WriteManifest
<1>5. DiskOK' /\ Holding(Build(t), content[Build(t)] \cup {"manifest"})
  <2>1. content[Build(t)] \cup {"manifest"} \in SUBSET Parts
    BY <1>1, <1>2, BaseFacts DEF DiskOK
  <2>. QED BY <1>2, <1>4, <2>1, BaseFacts DEF WriteManifest, DiskOK, Holding, Exists
<1>. QED BY <1>1, <1>2, <1>3, <1>4, <1>5, GotoBase, GoesAndEnds DEF WriteManifest

\* A directory is deleted, and the task ends or goes on.
LEMMA DeletedDisk ==
    ASSUME Base, NEW d \in Dirs, Delete(d), spools' \subseteq spools
    PROVE  DiskOK' /\ Deleted(d)
BY Types, DeleteKeeps DEF DiskOK, Deleted, Holding, Base

LEMMA ExtractFailsStep ==
    ASSUME Base, NEW t \in Tasks, ExtractFails(t)
    PROVE  Base' /\ Ends(t) /\ Deleted(Build(t)) /\ spools' = spools \ {Build(t)}
<1>1. At(t, {"building", "written"}) /\ {"building", "written"} \in SUBSET Places
  BY DEF ExtractFails, Places
<1>2. task[t] \in Opens /\ Build(t) \in Dirs
  BY <1>1, BaseFacts, Active
<1>3. DiskOK' /\ Deleted(Build(t))
  BY <1>2, DeletedDisk DEF ExtractFails, DropSpool
<1>. QED BY <1>1, <1>2, <1>3, LeaveBase, GoesAndEnds DEF ExtractFails, DropSpool

LEMMA RenameStep ==
    ASSUME Base, NEW t \in Tasks, Rename(t)
    PROVE  Base' /\ Goes(t, "landed") /\ Shelves(t) /\ UNCHANGED spools
<1>1. /\ At(t, {"built"}) /\ {"built"} \in SUBSET Places
      /\ "landed" \in Places /\ "landed" \in Held
  BY DEF Rename, Places, Held
<1>2. task[t] \in Opens /\ Pid(t) \in Pids
  BY <1>1, BaseFacts, Active
<1>3. DiskOK' /\ Shelves(t)
  BY <1>2, BaseFacts, PublishKeeps DEF Rename, DiskOK, Shelves
<1>4. loop'[Pid(t)] = t
  BY <1>2, BaseFacts DEF Rename, Hold, TasksOK
<1>. QED BY <1>1, <1>2, <1>3, <1>4, GotoBase, GoesAndEnds DEF Rename

LEMMA RenameFailsStep ==
    ASSUME Base, NEW t \in Tasks, RenameFails(t)
    PROVE  Base' /\ Goes(t, "contested")
<1>1. /\ At(t, {"built"}) /\ {"built"} \in SUBSET Places
      /\ "contested" \in Places /\ "contested" \in Held
  BY DEF RenameFails, Places, Held
<1>2. task[t] \in Opens /\ Pid(t) \in Pids
  BY <1>1, BaseFacts, Active
<1>3. DiskOK' /\ loop'[Pid(t)] = t
  BY <1>2, BaseFacts DEF RenameFails, Hold, TasksOK, diskVars, DiskOK, Exists
<1>. QED BY <1>1, <1>2, <1>3, GotoBase, GoesAndEnds DEF RenameFails

\* From here on the task holds the event loop.
LEMMA HeldGoes ==
    ASSUME Base, NEW t \in Tasks, NEW place \in Places, At(t, {place}), place \in Held,
           NEW next \in Held \ {"pruning", "deleting"}, Goto(t, next),
           DiskOK', UNCHANGED <<lock, loop, pruneVars>>
    PROVE  Base' /\ Goes(t, next)
<1>1. At(t, Held) /\ {place} \in SUBSET Places /\ "queued" \notin {place}
  BY DEF At, Held
<1>2. task[t] \in Opens /\ loop[Pid(t)] = t
  BY <1>1, BaseFacts, Active
<1>3. next \in Places /\ next \notin {"pruning", "deleting"}
  BY DEF Held, Places
<1>. QED BY <1>1, <1>2, <1>3, GotoBase, GoesAndEnds

LEMMA DeferStep ==
    ASSUME Base, NEW t \in Tasks, Defer(t)
    PROVE  Base' /\ Goes(t, "landed") /\ Deleted(Build(t)) /\ UNCHANGED spools
<1>1. /\ At(t, {"contested"}) /\ "contested" \in Places /\ "contested" \in Held
      /\ "landed" \in Held \ {"pruning", "deleting"}
      /\ {"contested"} \in SUBSET Places
  BY DEF Defer, Places, Held
<1>2. DiskOK' /\ Deleted(Build(t))
  BY <1>1, BaseFacts, Active, DeletedDisk DEF Defer
<1>. QED BY <1>1, <1>2, HeldGoes DEF Defer

LEMMA CondemnStep ==
    ASSUME Base, NEW t \in Tasks, Condemn(t)
    PROVE  Base' /\ Goes(t, "condemned")
<1>1. /\ At(t, {"contested"}) /\ "contested" \in Places /\ "contested" \in Held
      /\ "condemned" \in Held \ {"pruning", "deleting"}
  BY DEF Condemn, Places, Held
<1>2. DiskOK'
  BY BaseFacts DEF Condemn, diskVars, DiskOK, Exists
<1>. QED BY <1>1, <1>2, HeldGoes DEF Condemn

LEMMA EvictStep ==
    ASSUME Base, NEW t \in Tasks, Evict(t)
    PROVE  Base' /\ Goes(t, "evicted") /\ Deleted(Shelf(t)) /\ UNCHANGED spools
<1>1. /\ At(t, {"condemned"}) /\ "condemned" \in Places /\ "condemned" \in Held
      /\ "evicted" \in Held \ {"pruning", "deleting"}
      /\ {"condemned"} \in SUBSET Places
  BY DEF Evict, Places, Held
<1>2. DiskOK' /\ Deleted(Shelf(t))
  BY <1>1, BaseFacts, Active, DeletedDisk DEF Evict
<1>. QED BY <1>1, <1>2, HeldGoes DEF Evict

LEMMA ReplaceStep ==
    ASSUME Base, NEW t \in Tasks, Replace(t)
    PROVE  Base' /\ Goes(t, "landed") /\ Shelves(t) /\ UNCHANGED spools
<1>1. /\ At(t, {"evicted"}) /\ "evicted" \in Places /\ "evicted" \in Held
      /\ "landed" \in Held \ {"pruning", "deleting"}
      /\ {"evicted"} \in SUBSET Places
  BY DEF Replace, Places, Held
<1>2. DiskOK' /\ Shelves(t)
  BY <1>1, BaseFacts, Active, PublishKeeps DEF Replace, DiskOK, Shelves
<1>. QED BY <1>1, <1>2, HeldGoes DEF Replace

LEMMA ReplaceFailsStep ==
    ASSUME Base, NEW t \in Tasks, ReplaceFails(t)
    PROVE  Base' /\ Ends(t) /\ Deleted(Build(t)) /\ spools' = spools \ {Build(t)}
<1>1. At(t, {"evicted"}) /\ {"evicted"} \in SUBSET Places /\ At(t, Held)
  BY DEF ReplaceFails, Places, At, Held
<1>2. task[t] \in Opens /\ Build(t) \in Dirs /\ Turn(t)
  BY <1>1, BaseFacts, Active
<1>3. DiskOK' /\ Deleted(Build(t))
  BY <1>2, DeletedDisk DEF ReplaceFails, DropSpool
<1>. QED BY <1>1, <1>2, <1>3, LeaveBase, GoesAndEnds DEF ReplaceFails, DropSpool
----------------------------------------------------------------------------
(* The pruning.                                                            *)

LEMMA LoadType ==
    ASSUME NEW s \in Seq(Dirs)
    PROVE  /\ IsFiniteSet(ToSet(s)) /\ IsFiniteSet({d \in ToSet(s) : content[d] \ {"manifest"} # {}})
           /\ Load(s) \in Nat
<1>1. s \in [1..Len(s) -> Dirs] /\ Len(s) \in Nat
  BY LenProperties
<1>2. IsFiniteSet(1..Len(s))
  BY <1>1, FS_Interval
<1>3. [i \in 1..Len(s) |-> s[i]] \in Surjection(1..Len(s), ToSet(s))
  BY <1>1 DEF ToSet, Surjection
<1>4. IsFiniteSet(ToSet(s))
  BY <1>2, <1>3, FS_Surjection
<1>5. IsFiniteSet({d \in ToSet(s) : content[d] \ {"manifest"} # {}})
  BY <1>4, FS_Subset
<1>. QED BY <1>4, <1>5, FS_CardinalityType DEF Load

LEMMA AfterType ==
    ASSUME Listed(listing), NEW n \in 0..Len(listing)
    PROVE  /\ After(n) \in Seq(Dirs) /\ Len(After(n)) = Len(listing) - n
           /\ \A i \in 1..(Len(listing) - n) : After(n)[i] = listing[n + i]
<1>1. listing \in Seq(Dirs) /\ Len(listing) \in Nat
  BY InListing
<1>2. /\ n + 1 \in 1..(Len(listing) + 1) /\ Len(listing) \in n..Len(listing)
      /\ Len(listing) - (n + 1) + 1 = Len(listing) - n
      /\ \A i \in 1..(Len(listing) - n) : (n + 1) + i - 1 = n + i
  BY <1>1
<1>3. \A i \in (n + 1)..Len(listing) : listing[i] \in Dirs
  BY <1>1, InListing
<1>. DEFINE w == SubSeq(listing, n + 1, Len(listing))
<1>4. /\ w \in Seq(Dirs)
      /\ Len(w) = IF n + 1 <= Len(listing) THEN Len(listing) - (n + 1) + 1 ELSE 0
      /\ \A i \in 1..(Len(listing) - (n + 1) + 1) : w[i] = listing[(n + 1) + i - 1]
  BY <1>1, <1>3, SubSeqProperties
<1>5. Len(w) = Len(listing) - n
  BY <1>1, <1>4
<1>6. \A i \in 1..(Len(listing) - n) : w[i] = listing[n + i]
  BY <1>2, <1>4
<1>. QED BY <1>4, <1>5, <1>6 DEF After

\* What is left once the victims are gone fits, and there is always such a choice.
LEMMA VictimsProperties ==
    ASSUME Listed(listing)
    PROVE  \E n \in 0..Len(listing) :
                Victims = SubSeq(listing, 1, n) /\ Load(After(n)) <= Limit
<1>. DEFINE Enough == {n \in 0..Len(listing) : Load(After(n)) <= Limit}
            R == OpToRel(<, Nat)
            P(n) == /\ Load(After(n)) <= Limit
                    /\ \A m \in 0..(n - 1) : Load(After(m)) > Limit
<1>1. Len(listing) \in Nat /\ Limit \in Nat
  BY InListing, LimitAssumption
<1>2. Len(listing) \in Enough
  <2>1. Len(After(Len(listing))) = 0 /\ After(Len(listing)) \in Seq(Dirs)
    BY <1>1, AfterType
  <2>2. After(Len(listing)) = <<>>
    BY <2>1, EmptySeq
  <2>3. {d \in ToSet(<<>>) : content[d] \ {"manifest"} # {}} = {}
    BY DEF ToSet
  <2>4. Load(After(Len(listing))) = 0
    BY <2>2, <2>3, FS_EmptySet DEF Load
  <2>. QED BY <1>1, <2>4
<1>3. PICK n \in Enough : \A m \in Enough : ~(<<m, n>> \in R)
  <2>1. IsWellFoundedOn(R, Nat)
    BY NatLessThanWellFounded
  <2>2. Enough \subseteq Nat /\ Enough # {}
    BY <1>1, <1>2
  <2>. HIDE DEF Enough, R
  <2>. QED BY <2>1, <2>2, WFMin
<1>. HIDE DEF R
<1>4. P(n)
  <2>1. ASSUME NEW m \in 0..(n - 1)
        PROVE  Load(After(m)) > Limit
    <3>0. n \in 0..Len(listing)
      OBVIOUS
    <3>1. m \in 0..Len(listing) /\ m < n /\ m \in Nat /\ n \in Nat
      BY <1>1, <3>0
    <3>2. m \notin Enough
      BY <1>3, <3>1 DEF R, OpToRel
    <3>3. Load(After(m)) \in Nat
      BY <3>1, AfterType, LoadType
    <3>. QED BY <1>1, <3>1, <3>2, <3>3
  <2>. QED BY <1>3, <2>1
<1>5. n \in 0..Len(listing)
  BY <1>3
<1>. DEFINE c == CHOOSE i \in 0..Len(listing) : P(i)
<1>6. Victims = SubSeq(listing, 1, c)
  BY DEF Victims
<1>7. c \in 0..Len(listing) /\ P(c)
  BY <1>4, <1>5
<1>. QED BY <1>6, <1>7

LEMMA VictimsType ==
    ASSUME Listed(listing)
    PROVE  Victims \in Seq(Dirs)
<1>1. listing \in Seq(Dirs) /\ Len(listing) \in Nat
  BY InListing
<1>. QED BY <1>1, VictimsProperties, SubSeqProperties
\* One task of a process at a time is in the middle of publishing or pruning.
LEMMA HeldAlone ==
    ASSUME Base, NEW t \in Tasks, NEW u \in Tasks, t # u, At(t, Held), At(u, Held)
    PROVE  task[t] \in Opens /\ task[u] \in Opens /\ Pid(t) # Pid(u)
BY BaseFacts, Active, PlacesKnown

LEMMA PrunersHeld == \A t \in Tasks : At(t, {"pruning", "deleting"}) => At(t, Held)
BY DEF At, Held

LEMMA LandStep ==
    ASSUME Base, NEW t \in Tasks, Land(t)
    PROVE  /\ Base'
           /\ spools' = spools \ {Build(t)}
           /\ \/ Victims = <<>> /\ Ends(t) /\ UNCHANGED doomed
              \/ /\ Victims # <<>> /\ Goes(t, "pruning")
                 /\ doomed' = [doomed EXCEPT ![Pid(t)] = Victims]
<1>1. /\ At(t, {"landed"}) /\ {"landed"} \in SUBSET Places /\ At(t, Held)
      /\ "pruning" \in Places /\ "pruning" \in Held
  BY DEF Land, Places, At, Held
<1>2. /\ task[t] \in Opens /\ Pid(t) \in Pids /\ Turn(t) /\ loop[Pid(t)] = t
      /\ TasksOK /\ PruneOK /\ DiskOK /\ task[t] # Idle
  BY <1>1, BaseFacts, Active
<1>3. DiskOK'
  BY <1>2 DEF Land, DropSpool, DiskOK, Exists
<1>4. CASE Victims = <<>>
  <2>1. Leave(t) /\ UNCHANGED pruneVars
    BY <1>4 DEF Land, pruneVars
  <2>. QED BY <1>1, <1>2, <1>3, <1>4, <2>1, LeaveBase, GoesAndEnds DEF Land, DropSpool, pruneVars
<1>5. CASE Victims # <<>>
  <2>1. /\ Goto(t, "pruning") /\ UNCHANGED <<lock, loop>> /\ UNCHANGED seen
        /\ doomed' = [doomed EXCEPT ![Pid(t)] = Victims]
    BY <1>5 DEF Land
  <2>2. Head(lock[Build(t)]) = t
    BY <1>1, <1>2 DEF Base, Locked, At
  <2>3. TasksOK' /\ Segments' /\ Locked'
    BY <1>1, <1>2, <2>1, <2>2, GotoKeeps DEF Base
  <2>4. Goes(t, "pruning")
    BY <1>1, <1>2, <2>1, GoesAndEnds
  <2>5. Victims \in Seq(Dirs)
    BY <1>2, VictimsType DEF DiskOK
  <2>6. PruneOK' /\ doomed'[Pid(t)] = Victims
        /\ \A p \in Pids : p # Pid(t) => doomed'[p] = doomed[p]
    BY <1>2, <2>1, <2>5 DEF PruneOK
  <2>7. ASSUME NEW u \in Tasks, At(u, {"pruning", "deleting"})'
        PROVE  (doomed[Pid(u)])' # <<>>
    <3>1. CASE u = t
      BY <1>5, <2>4, <2>6, <3>1 DEF Goes, Pid
    <3>2. CASE u # t
      <4>1. task'[u] = task[u] /\ Pid(u)' = Pid(u) /\ At(u, {"pruning", "deleting"})
        BY <2>4, <2>7, <3>2 DEF Goes, Same, Pid, At
      <4>2. Pid(u) # Pid(t) /\ Pid(u) \in Pids /\ doomed[Pid(u)] # <<>>
        BY <1>1, <3>2, <4>1, HeldAlone, PrunersHeld, BaseFacts DEF Base, Prunes
      <4>. QED BY <2>6, <4>1, <4>2
    <3>. QED BY <3>1, <3>2
  <2>8. TypeOK'
    BY <1>3, <2>3, <2>6 DEF TypeOK, TasksOK, DiskOK, PruneOK, Opens, Listed
  <2>. QED BY <1>5, <2>1, <2>3, <2>4, <2>7, <2>8 DEF Base, Prunes, Land, DropSpool
<1>. QED BY <1>4, <1>5

\* The directory a deletion is about.
Victim(t) == Head(doomed[Pid(t)])

LEMMA VictimFacts ==
    ASSUME Base, NEW t \in Tasks, At(t, {"pruning", "deleting"})
    PROVE  /\ task[t] \in Opens /\ Pid(t) \in Pids /\ task[t] # Idle
           /\ Turn(t) /\ loop[Pid(t)] = t /\ At(t, Held)
           /\ Head(lock[Build(t)]) = t
           /\ doomed[Pid(t)] \in Seq(Dirs) /\ doomed[Pid(t)] # <<>>
           /\ Victim(t) \in Dirs
<1>1. At(t, Held) /\ {"pruning", "deleting"} \in SUBSET Places /\ ~At(t, {"queued"})
  BY PrunersHeld DEF Places, At
<1>2. /\ task[t] \in Opens /\ Pid(t) \in Pids /\ task[t] # Idle
      /\ Turn(t) /\ loop[Pid(t)] = t
  BY <1>1, BaseFacts, Active
<1>3. doomed[Pid(t)] \in Seq(Dirs) /\ doomed[Pid(t)] # <<>>
  BY <1>2, BaseFacts DEF Base, Prunes, PruneOK
<1>4. Victim(t) \in Dirs
  BY <1>3, HeadTailProperties DEF Victim
<1>. QED BY <1>1, <1>2, <1>3, <1>4 DEF Base, Locked

LEMMA DeleteSomeStep ==
    ASSUME Base, NEW t \in Tasks, DeleteSome(t)
    PROVE  /\ Base' /\ Goes(t, "deleting")
           /\ seen' = [seen EXCEPT ![Pid(t)] = content[Victim(t)]]
           /\ \E kept \in SUBSET content[Victim(t)] : Holding(Victim(t), kept)
           /\ ToSet(listing') = ToSet(listing) /\ UNCHANGED <<spools, doomed>>
<1>. DEFINE d == Victim(t)
<1>1. At(t, {"pruning", "deleting"}) /\ "deleting" \in Places /\ "deleting" \in Held
  BY DEF DeleteSome, At, Places, Held
<1>2. /\ task[t] \in Opens /\ Pid(t) \in Pids /\ loop[Pid(t)] = t
      /\ Head(lock[Build(t)]) = t /\ doomed[Pid(t)] # <<>> /\ d \in Dirs
  BY <1>1, VictimFacts
<1>3. TasksOK /\ PruneOK /\ DiskOK
  BY BaseFacts
<1>4. /\ seen' = [seen EXCEPT ![Pid(t)] = content[d]]
      /\ Goto(t, "deleting") /\ UNCHANGED <<lock, loop, spools, doomed>>
  BY DEF DeleteSome, Victim
<1>5. PICK kept \in SUBSET content[d] :
        /\ content' = [content EXCEPT ![d] = kept]
        /\ listing' = IF "manifest" \in content[d] \ kept THEN Touched(d) ELSE listing
  BY DEF DeleteSome, Victim
<1>. HIDE DEF d
<1>6. content[d] \in SUBSET Parts
  BY <1>2, <1>3 DEF DiskOK
<1>7. content' \in [Dirs -> SUBSET Parts] /\ Holding(d, kept)
  BY <1>2, <1>3, <1>5, <1>6 DEF DiskOK, Holding
<1>8. Listed(listing') /\ ToSet(listing') = ToSet(listing)
  <2>1. CASE "manifest" \in content[d] \ kept
    <3>1. d \in ToSet(listing)
      BY <1>2, <1>3, <2>1 DEF DiskOK, Exists
    <3>2. listing' = Touched(d)
      BY <1>5, <2>1
    <3>3. Listed(Touched(d)) /\ ToSet(Touched(d)) = ToSet(listing) \cup {d}
      BY <1>2, <1>3, TouchedProperties DEF DiskOK
    <3>. QED BY <3>1, <3>2, <3>3
  <2>2. CASE "manifest" \notin content[d] \ kept
    BY <1>3, <1>5, <2>2 DEF DiskOK
  <2>. QED BY <2>1, <2>2
<1>9. DiskOK'
  <2>1. \A e \in Dirs : content'[e] # {} => content[e] # {}
    BY <1>5, <1>7 DEF Holding
  <2>. QED BY <1>3, <1>4, <1>7, <1>8, <2>1 DEF DiskOK, Exists
<1>10. PruneOK'
  BY <1>2, <1>3, <1>4, <1>6 DEF PruneOK
<1>11. TasksOK' /\ Segments' /\ Locked'
  BY <1>1, <1>2, <1>3, <1>4, GotoKeeps DEF Base
<1>12. Goes(t, "deleting")
  BY <1>1, <1>2, <1>4, GoesAndEnds
<1>13. Prunes'
  <2>1. ASSUME NEW u \in Tasks, At(u, {"pruning", "deleting"})'
        PROVE  (doomed[Pid(u)])' # <<>>
    <3>1. CASE u = t
      BY <1>2, <1>4, <1>12, <3>1 DEF Goes, Pid
    <3>2. CASE u # t
      BY <1>4, <1>12, <2>1, <3>2 DEF Goes, Same, Pid, At, Base, Prunes
    <3>. QED BY <3>1, <3>2
  <2>. QED BY <2>1 DEF Prunes
<1>14. TypeOK'
  BY <1>9, <1>10, <1>11 DEF TypeOK, TasksOK, DiskOK, PruneOK, Opens, Listed
<1>. QED BY <1>4, <1>7, <1>8, <1>11, <1>12, <1>13, <1>14 DEF Base, d

LEMMA DeleteRestStep ==
    ASSUME Base, NEW t \in Tasks, DeleteRest(t)
    PROVE  /\ Base'
           /\ Holding(Victim(t), content[Victim(t)] \ seen[Pid(t)])
           /\ IF content[Victim(t)] \subseteq seen[Pid(t)]
              THEN ToSet(listing') = ToSet(listing) \ {Victim(t)}
              ELSE UNCHANGED listing
           /\ UNCHANGED spools
           /\ doomed' = [doomed EXCEPT ![Pid(t)] = Tail(@)]
           /\ seen' = [seen EXCEPT ![Pid(t)] = {}]
           /\ IF Tail(doomed[Pid(t)]) = <<>> THEN Ends(t) ELSE Goes(t, "pruning")
<1>. DEFINE d == Victim(t)
            p == Pid(t)
<1>1. /\ At(t, {"pruning", "deleting"}) /\ At(t, {"deleting"})
      /\ "pruning" \in Places /\ "pruning" \in Held
  BY DEF DeleteRest, At, Places, Held
<1>2. /\ task[t] \in Opens /\ p \in Pids /\ loop[p] = t /\ Turn(t) /\ At(t, Held)
      /\ Head(lock[Build(t)]) = t /\ d \in Dirs
      /\ doomed[p] \in Seq(Dirs) /\ doomed[p] # <<>>
  BY <1>1, VictimFacts
<1>3. TasksOK /\ PruneOK /\ DiskOK
  BY BaseFacts
<1>4. /\ content' = [content EXCEPT ![d] = @ \ seen[p]]
      /\ listing' = IF content[d] \subseteq seen[p] THEN Without(listing, d) ELSE listing
      /\ seen' = [seen EXCEPT ![p] = {}]
      /\ doomed' = [doomed EXCEPT ![p] = Tail(@)]
      /\ IF Len(doomed[p]) = 1 THEN Leave(t) ELSE Goto(t, "pruning") /\ UNCHANGED <<lock, loop>>
      /\ UNCHANGED spools
  BY DEF DeleteRest, Victim
<1>5. /\ Tail(doomed[p]) \in Seq(Dirs)
      /\ Len(doomed[p]) = 1 <=> Tail(doomed[p]) = <<>>
  <2>1. Len(Tail(doomed[p])) = Len(doomed[p]) - 1 /\ Len(doomed[p]) \in Nat
        /\ Tail(doomed[p]) \in Seq(Dirs)
    BY <1>2, HeadTailProperties, LenProperties
  <2>2. Tail(doomed[p]) = <<>> <=> Len(Tail(doomed[p])) = 0
    BY <2>1, EmptySeq
  <2>. QED BY <2>1, <2>2
<1>. HIDE DEF d, p
<1>6. content' \in [Dirs -> SUBSET Parts] /\ Holding(d, content[d] \ seen[p])
  BY <1>2, <1>3, <1>4 DEF DiskOK, Holding
<1>7. /\ Listed(listing')
      /\ IF content[d] \subseteq seen[p]
         THEN ToSet(listing') = ToSet(listing) \ {d}
         ELSE UNCHANGED listing
  BY <1>3, <1>4, WithoutProperties DEF DiskOK
<1>8. DiskOK'
  <2>1. \A e \in Dirs : content'[e] # {} => e \in ToSet(listing')
    BY <1>3, <1>6, <1>7 DEF DiskOK, Exists, Holding
  <2>. QED BY <1>3, <1>4, <1>6, <1>7, <2>1 DEF DiskOK, Exists
<1>9. /\ PruneOK'
      /\ doomed'[p] = Tail(doomed[p]) /\ \A q \in Pids : q # p => doomed'[q] = doomed[q]
  BY <1>2, <1>3, <1>4, <1>5 DEF PruneOK
<1>10. TasksOK' /\ Segments' /\ Locked'
  <2>1. CASE Leave(t)
    BY <1>2, <1>3, <2>1, LeaveKeeps DEF Base
  <2>2. CASE Goto(t, "pruning") /\ UNCHANGED <<lock, loop>>
    BY <1>1, <1>2, <1>3, <2>2, GotoKeeps DEF Base, p
  <2>. QED BY <1>4, <2>1, <2>2
<1>11. IF Tail(doomed[p]) = <<>> THEN Ends(t) ELSE Goes(t, "pruning")
  BY <1>1, <1>2, <1>4, <1>5, GoesAndEnds
<1>12. Prunes'
  <2>1. ASSUME NEW u \in Tasks, At(u, {"pruning", "deleting"})'
        PROVE  (doomed[Pid(u)])' # <<>>
    <3>1. CASE u = t
      <4>1. task'[t] # Idle
        BY <2>1, <3>1 DEF At, Idle
      <4>2. Tail(doomed[p]) # <<>> /\ Goes(t, "pruning")
        BY <1>11, <4>1 DEF Ends
      <4>3. (doomed[Pid(u)])' = doomed'[p]
        BY <3>1, <4>2 DEF Goes, Pid, p
      <4>. QED BY <1>9, <4>2, <4>3
    <3>2. CASE u # t
      <4>1. task'[u] = task[u] /\ Pid(u)' = Pid(u) /\ At(u, {"pruning", "deleting"})
        BY <1>11, <2>1, <3>2 DEF Goes, Ends, Same, Pid, At
      <4>2. Pid(u) # p /\ Pid(u) \in Pids /\ doomed[Pid(u)] # <<>>
        BY <1>2, <3>2, <4>1, HeldAlone, VictimFacts DEF p
      <4>. QED BY <1>9, <4>1, <4>2
    <3>. QED BY <3>1, <3>2
  <2>. QED BY <2>1 DEF Prunes
<1>13. TypeOK'
  BY <1>8, <1>9, <1>10 DEF TypeOK, TasksOK, DiskOK, PruneOK, Opens, Listed
<1>. QED BY <1>4, <1>6, <1>7, <1>10, <1>11, <1>12, <1>13 DEF Base, d, p

LEMMA CrashStep ==
    ASSUME Base, NEW p \in Pids, Crash(p)
    PROVE  /\ Base'
           /\ \A t \in Tasks : \/ task'[t] = Idle
                               \/ task'[t] = task[t] /\ task[t] \in Opens /\ Pid(t) # p
           /\ \A d \in Dirs : content'[d] = IF d[2] = p /\ content[d] # {} THEN {"stale"} ELSE content[d]
           /\ UNCHANGED <<spools, listing>>
<1>1. TasksOK /\ PruneOK /\ DiskOK
  BY Types DEF Base
<1>2. /\ task' = [t \in Tasks |-> IF task[t] # Idle /\ Pid(t) = p THEN Idle ELSE task[t]]
      /\ lock' = [l \in DOMAIN lock |-> IF l[2] = p THEN <<>> ELSE lock[l]]
      /\ loop' = [loop EXCEPT ![p] = NoTask]
      /\ content' = [d \in Dirs |-> IF d[2] = p /\ content[d] # {} THEN {"stale"} ELSE content[d]]
      /\ doomed' = [doomed EXCEPT ![p] = <<>>]
      /\ seen' = [seen EXCEPT ![p] = {}]
      /\ UNCHANGED <<spools, listing>>
  BY DEF Crash
<1>3. DOMAIN lock = Keys \X Pids
  BY <1>1 DEF TasksOK
<1>4. TasksOK'
  <2>1. task' \in [Tasks -> {Idle} \cup Opens]
    BY <1>1, <1>2 DEF TasksOK
  <2>2. lock' \in [Keys \X Pids -> Seq(Tasks)]
    <3>1. <<>> \in Seq(Tasks)
      BY EmptySeq
    <3>. QED BY <1>1, <1>2, <1>3, <3>1 DEF TasksOK
  <2>. QED BY <1>1, <1>2, <2>1, <2>2 DEF TasksOK
<1>5. DiskOK' /\ PruneOK'
  <2>1. content' \in [Dirs -> SUBSET Parts]
    BY <1>1, <1>2 DEF DiskOK, Parts
  <2>2. doomed' \in [Pids -> Seq(Dirs)] /\ seen' \in [Pids -> SUBSET Parts]
    <3>1. <<>> \in Seq(Dirs)
      BY EmptySeq
    <3>. QED BY <1>1, <1>2, <3>1 DEF PruneOK
  <2>. QED BY <1>1, <1>2, <2>1, <2>2 DEF DiskOK, PruneOK, Exists
<1>6. ASSUME NEW t \in Tasks, task'[t] # Idle
      PROVE  /\ task'[t] = task[t] /\ task[t] \in Opens /\ task[t] # Idle
             /\ Pid(t)' = Pid(t) /\ Book(t)' = Book(t) /\ Build(t)' = Build(t)
             /\ Pid(t) \in Pids /\ Pid(t) # p
             /\ Build(t) \in Keys \X Pids /\ Build(t)[2] = Pid(t)
  <2>1. task'[t] = task[t] /\ task[t] # Idle /\ Pid(t) # p
    BY <1>2, <1>6
  <2>. QED BY <1>1, <2>1, Active DEF Pid, Book, Build
<1>7. \A t \in Tasks : At(t, Places)' => task'[t] # Idle
  BY DEF At, Idle, Places
<1>8. Segments'
  <2>1. ASSUME NEW t \in Tasks, At(t, Held)' \/ (At(t, Unpacking) /\ Book(t) \notin Comics)'
        PROVE  (loop[Pid(t)])' = t
    <3>1. task'[t] # Idle
      BY <1>7, <2>1, PlacesKnown DEF At
    <3>2. At(t, Held) \/ (At(t, Unpacking) /\ Book(t) \notin Comics)
      BY <1>6, <2>1, <3>1 DEF At
    <3>. QED BY <1>1, <1>2, <1>6, <3>1, <3>2 DEF Base, Segments, TasksOK
  <2>. QED BY <2>1 DEF Segments
<1>9. Locked'
  <2>1. ASSUME NEW t \in Tasks, task'[t] # Idle
        PROVE  (lock[Build(t)])' = lock[Build(t)]
    BY <1>2, <1>3, <1>6, <2>1
  <2>. QED BY <1>6, <2>1 DEF Base, Locked, At
<1>10. Prunes'
  <2>1. ASSUME NEW t \in Tasks, At(t, {"pruning", "deleting"})'
        PROVE  (doomed[Pid(t)])' # <<>>
    <3>1. task'[t] # Idle
      BY <2>1 DEF At, Idle
    <3>. QED BY <1>1, <1>2, <1>6, <2>1, <3>1 DEF Base, Prunes, At, PruneOK
  <2>. QED BY <2>1 DEF Prunes
<1>11. TypeOK'
  BY <1>4, <1>5 DEF TypeOK, TasksOK, DiskOK, PruneOK, Opens, Listed
<1>. QED BY <1>2, <1>6, <1>8, <1>9, <1>10, <1>11 DEF Base
----------------------------------------------------------------------------
(* Base, and with it the types and the locks.                              *)

Acts == Step \/ \E p \in Pids : Crash(p)

LEMMA Empty ==
    /\ Listed(<<>>) /\ ToSet(<<>>) = {}
    /\ <<>> \in Seq(Tasks) /\ <<>> \in Seq(Dirs)
BY EmptySeq DEF Listed, IsInjective, ToSet

LEMMA BaseInit == Init => Base
<1>. SUFFICES ASSUME Init PROVE Base
  OBVIOUS
<1>1. \A t \in Tasks : task[t] = Idle /\ ~At(t, Places)
  BY DEF Init, At, Idle, Places
<1>2. TypeOK
  BY Empty DEF Init, TypeOK, Dirs, Exists, Listed
<1>3. Segments /\ Prunes /\ Locked
  BY <1>1, PlacesKnown DEF Segments, Prunes, Locked, At, Places, Held, Unpacking
<1>. QED BY <1>2, <1>3 DEF Base

LEMMA BaseNext ==
    ASSUME Base, [Acts]_vars
    PROVE  Base'
<1>1. CASE Step
  <2>1. PICK t \in Tasks : \/ \E k \in Keys, p \in Pids : Open(t, k, p)
                           \/ ImagesFetched(t)
                           \/ Proceed(t)
    BY <1>1 DEF Step
  <2>2. CASE \E k \in Keys, p \in Pids : Open(t, k, p)
    BY <2>2, OpenBase
  <2>3. CASE ImagesFetched(t)
    BY <2>3, ImagesFetchedStep
  <2>4. CASE Proceed(t)
    BY <2>4, FindShelvedStep, StartSpoolStep, SpoolFailsStep, SpooledStep, WritePagesStep,
       WriteManifestStep, ExtractFailsStep, RenameStep, RenameFailsStep, DeferStep,
       CondemnStep, EvictStep, ReplaceStep, ReplaceFailsStep, LandStep, DeleteSomeStep,
       DeleteRestStep DEF Proceed
  <2>. QED BY <2>1, <2>2, <2>3, <2>4
<1>2. CASE \E p \in Pids : Crash(p)
  BY <1>2, CrashStep
<1>3. CASE UNCHANGED vars
  BY <1>3 DEF vars, diskVars, pruneVars, Base, TypeOK, Segments, Locked, Prunes, At, Book, Pid,
     Build, Exists
<1>. QED BY <1>1, <1>2, <1>3 DEF Acts

\* Whether the processes crash or not, whatever the formats: the types hold, and the listing
\* names each directory once and every one that holds something (ShelveCache's TypeOK).
THEOREM Typed == SteadySpec \/ CrashSpec => []TypeOK
<1>1. SteadySpec => Init /\ [][Acts]_vars
  BY PTL DEF SteadySpec, Acts
<1>2. CrashSpec => Init /\ [][Acts]_vars
  BY PTL DEF CrashSpec, Acts
<1>3. Base => TypeOK
  BY DEF Base
<1>. QED BY <1>1, <1>2, <1>3, BaseInit, BaseNext, PTL

LEMMA BuilderAlone == Base => OneBuilder
<1>. SUFFICES ASSUME Base, NEW t \in Tasks, NEW u \in Tasks,
                     task[t] # Idle, task[u] # Idle, Build(t) = Build(u),
                     ~At(t, {"queued"}), ~At(u, {"queued"})
              PROVE  t = u
  BY DEF OneBuilder
<1>. QED BY DEF Base, Locked

\* Of the opens of one book in one process at most one is past the lock, whatever fails and
\* whoever dies: a build directory and a spool file have one writer (_shelve_lock).
THEOREM OneWriterEach == SteadySpec \/ CrashSpec => []OneBuilder
<1>1. SteadySpec => Init /\ [][Acts]_vars
  BY PTL DEF SteadySpec, Acts
<1>2. CrashSpec => Init /\ [][Acts]_vars
  BY PTL DEF CrashSpec, Acts
<1>. QED BY <1>1, <1>2, BuilderAlone, BaseInit, BaseNext, PTL
----------------------------------------------------------------------------
(* Clean and Owned: what build directories hold, and whose they are.       *)

LEMMA GoesFacts ==
    ASSUME NEW t \in Tasks, NEW place \in Places, Goes(t, place)
    PROVE  /\ Same(t)
           /\ Book(t)' = Book(t) /\ Pid(t)' = Pid(t) /\ Build(t)' = Build(t) /\ Shelf(t)' = Shelf(t)
           /\ \A places \in SUBSET Places : At(t, places)' <=> place \in places
BY DEF Goes, Book, Pid, Build, Shelf, At

LEMMA EndsFacts ==
    ASSUME NEW t \in Tasks, Ends(t)
    PROVE  Same(t) /\ \A places \in SUBSET Places : ~At(t, places)'
BY DEF Ends, At, Idle, Places

LEMMA OthersSame ==
    ASSUME NEW t \in Tasks, NEW u \in Tasks, u # t, Same(t)
    PROVE  /\ task'[u] = task[u] /\ Book(u)' = Book(u) /\ Pid(u)' = Pid(u)
           /\ Build(u)' = Build(u) /\ Shelf(u)' = Shelf(u)
           /\ \A places \in SUBSET Places : At(u, places)' <=> At(u, places)
BY DEF Same, Book, Pid, Build, Shelf, At

\* Nothing becomes stale while its process lives.
NothingStaler == \A d \in Dirs : "stale" \in content'[d] => "stale" \in content[d]

LEMMA CleanKept ==
    ASSUME Base, Clean, NEW t \in Tasks, Same(t), NothingStaler,
           At(t, Builds)' => "stale" \notin (content[Build(t)])'
    PROVE  Clean'
<1>1. ASSUME NEW u \in Tasks, At(u, Builds)'
      PROVE  "stale" \notin (content[Build(u)])'
  <2>1. CASE u = t
    BY <1>1, <2>1
  <2>2. CASE u # t
    <3>1. At(u, Builds) /\ Build(u)' = Build(u)
      BY <1>1, <2>2, OthersSame, PlacesKnown
    <3>2. Build(u) \in Dirs /\ "stale" \notin content[Build(u)]
      BY <3>1, BaseFacts, Active, PlacesKnown DEF Clean
    <3>. QED BY <3>1, <3>2 DEF NothingStaler
  <2>. QED BY <2>1, <2>2
<1>2. NoStalePages'
  BY DEF NoStalePages, Clean, NothingStaler, Dirs
<1>. QED BY <1>1, <1>2 DEF Clean

\* Most steps take a task that has a build directory on, or end it.
LEMMA CleanGoes ==
    ASSUME Base, Clean, NEW t \in Tasks, NEW place \in Places, Goes(t, place),
           NothingStaler, place \in Builds => At(t, Builds)
    PROVE  Clean'
<1>1. Same(t) /\ Build(t)' = Build(t) /\ (At(t, Builds)' => At(t, Builds))
  BY GoesFacts, PlacesKnown
<1>2. At(t, Builds) => Build(t) \in Dirs
  BY BaseFacts, Active, PlacesKnown
<1>3. At(t, Builds)' => "stale" \notin (content[Build(t)])'
  BY <1>1, <1>2 DEF Clean, NothingStaler
<1>. QED BY <1>1, <1>3, CleanKept

LEMMA CleanEnds ==
    ASSUME Base, Clean, NEW t \in Tasks, Ends(t), NothingStaler
    PROVE  Clean'
BY EndsFacts, PlacesKnown, CleanKept

LEMMA EmptiedIsClean ==
    ASSUME NEW d \in Dirs, NEW c, Holding(d, c), "stale" \in c => "stale" \in content[d]
    PROVE  NothingStaler
BY DEF Holding, NothingStaler

LEMMA PublishedIsClean ==
    ASSUME Base, Clean, NEW t \in Tasks, At(t, Builds), Shelves(t)
    PROVE  NothingStaler
<1>1. /\ Build(t) \in Dirs /\ Shelf(t) \in Dirs
      /\ "stale" \notin content[Build(t)]
  BY BaseFacts, Active, PlacesKnown DEF Clean
<1>. QED BY <1>1 DEF Shelves, NothingStaler

LEMMA CleanOpen ==
    ASSUME Base, Clean, NEW t \in Tasks, NEW k \in Keys, NEW p \in Pids, Open(t, k, p)
    PROVE  Clean'
<1>1. TasksOK
  BY BaseFacts
<1>2. Same(t) /\ ~At(t, Builds)' /\ NothingStaler
  BY <1>1 DEF Open, TasksOK, Same, At, Builds, NothingStaler
<1>. QED BY <1>2, CleanKept

LEMMA CleanProceed ==
    ASSUME Base, Clean, NEW t \in Tasks, ImagesFetched(t) \/ Proceed(t)
    PROVE  Clean'
<1>0. UNCHANGED content => NothingStaler
  BY DEF NothingStaler
<1>1. ASSUME FindShelved(t) \/ SpoolFails(t) PROVE Clean'
  <2>1. Ends(t) /\ UNCHANGED content
    BY <1>1, FindShelvedStep, SpoolFailsStep DEF FindShelved, SpoolFails, diskVars
  <2>. QED BY <1>0, <2>1, CleanEnds
<1>2. ASSUME StartSpool(t) PROVE Clean'
  <2>1. Goes(t, "spooling") /\ UNCHANGED content
    BY <1>2, StartSpoolStep DEF StartSpool
  <2>2. "spooling" \in Places /\ "spooling" \notin Builds
    BY DEF Places, Builds
  <2>. QED BY <1>0, <2>1, <2>2, CleanGoes
<1>3. ASSUME Spooled(t) PROVE Clean'
  <2>1. /\ Goes(t, "fetching") \/ Goes(t, "building")
        /\ Holding(Build(t), {})
    BY <1>3, SpooledStep
  <2>2. task[t] \in Opens /\ Build(t) \in Dirs /\ {"spooling"} \in SUBSET Places
    BY <1>3, BaseFacts, Active, PlacesKnown DEF Spooled
  <2>3. NothingStaler /\ content'[Build(t)] = {}
    BY <2>1, <2>2, EmptiedIsClean DEF Holding
  <2>4. Same(t) /\ Build(t)' = Build(t)
    BY <2>1, GoesFacts DEF Places
  <2>. QED BY <2>3, <2>4, CleanKept
<1>4. ASSUME ImagesFetched(t) PROVE Clean'
  <2>1. Goes(t, "building") /\ UNCHANGED content
    BY <1>4, ImagesFetchedStep DEF ImagesFetched, diskVars
  <2>2. "building" \in Places /\ At(t, Builds)
    BY <1>4 DEF ImagesFetched, At, Builds, Places
  <2>. QED BY <1>0, <2>1, <2>2, CleanGoes
<1>5. ASSUME WritePages(t) \/ WriteManifest(t) PROVE Clean'
  <2>1. PICK place \in {"written", "built"}, part \in {"pages", "manifest"} :
          Goes(t, place) /\ Holding(Build(t), content[Build(t)] \cup {part})
    BY <1>5, WritePagesStep, WriteManifestStep
  <2>2. At(t, Builds) /\ place \in Places
    BY <1>5 DEF WritePages, WriteManifest, At, Builds, Places
  <2>3. Build(t) \in Dirs
    BY <2>2, BaseFacts, Active, PlacesKnown
  <2>4. NothingStaler
    BY <2>1, <2>3, EmptiedIsClean
  <2>. QED BY <2>1, <2>2, <2>4, CleanGoes
<1>6. ASSUME ExtractFails(t) \/ ReplaceFails(t) PROVE Clean'
  <2>1. Ends(t) /\ Holding(Build(t), {}) /\ At(t, Builds)
    BY <1>6, ExtractFailsStep, ReplaceFailsStep DEF Deleted, ExtractFails, ReplaceFails, At, Builds
  <2>2. Build(t) \in Dirs
    BY <2>1, BaseFacts, Active, PlacesKnown
  <2>. QED BY <2>1, <2>2, EmptiedIsClean, CleanEnds
<1>7. ASSUME Rename(t) \/ Replace(t) PROVE Clean'
  <2>1. Goes(t, "landed") /\ Shelves(t) /\ At(t, Builds)
    BY <1>7, RenameStep, ReplaceStep DEF Rename, Replace, At, Builds
  <2>2. "landed" \in Places /\ "landed" \notin Builds
    BY DEF Places, Builds
  <2>. QED BY <2>1, <2>2, PublishedIsClean, CleanGoes
<1>8. ASSUME RenameFails(t) \/ Condemn(t) PROVE Clean'
  <2>1. PICK place \in {"contested", "condemned"} : Goes(t, place) /\ UNCHANGED content
    BY <1>8, RenameFailsStep, CondemnStep DEF RenameFails, Condemn, diskVars
  <2>2. place \in Places /\ At(t, Builds)
    BY <1>8 DEF RenameFails, Condemn, At, Builds, Places
  <2>. QED BY <1>0, <2>1, <2>2, CleanGoes
<1>9. ASSUME Defer(t) \/ Evict(t) PROVE Clean'
  <2>1. At(t, Builds)
    BY <1>9 DEF Defer, Evict, At, Builds
  <2>2. Build(t) \in Dirs /\ Shelf(t) \in Dirs
    BY <2>1, BaseFacts, Active, PlacesKnown
  <2>3. PICK place \in {"landed", "evicted"}, d \in {Build(t), Shelf(t)} :
          Goes(t, place) /\ Holding(d, {})
    BY <1>9, DeferStep, EvictStep DEF Deleted
  <2>4. NothingStaler /\ place \in Places
    BY <2>2, <2>3, EmptiedIsClean DEF Places
  <2>. QED BY <2>1, <2>3, <2>4, CleanGoes
<1>10. ASSUME Land(t) PROVE Clean'
  <2>1. Ends(t) \/ Goes(t, "pruning")
    BY <1>10, LandStep
  <2>2. UNCHANGED content /\ "pruning" \in Places /\ "pruning" \notin Builds
    BY <1>10 DEF Land, Places, Builds
  <2>. QED BY <1>0, <2>1, <2>2, CleanGoes, CleanEnds
<1>11. ASSUME DeleteSome(t) \/ DeleteRest(t) PROVE Clean'
  <2>1. At(t, {"pruning", "deleting"})
    BY <1>11 DEF DeleteSome, DeleteRest, At
  <2>2. Victim(t) \in Dirs
    BY <2>1, VictimFacts
  <2>3. PICK c \in SUBSET content[Victim(t)] :
          Holding(Victim(t), c) /\ (Ends(t) \/ Goes(t, "pruning") \/ Goes(t, "deleting"))
    <3>1. content[Victim(t)] \ seen[Pid(t)] \in SUBSET content[Victim(t)]
      OBVIOUS
    <3>. QED BY <1>11, <3>1, DeleteSomeStep, DeleteRestStep
  <2>4. NothingStaler
    BY <2>2, <2>3, EmptiedIsClean
  <2>5. {"pruning", "deleting"} \subseteq Places \ Builds
    BY DEF Places, Builds
  <2>. QED BY <2>3, <2>4, <2>5, CleanGoes, CleanEnds
<1>. QED BY <1>1, <1>2, <1>3, <1>4, <1>5, <1>6, <1>7, <1>8, <1>9, <1>10, <1>11 DEF Proceed

LEMMA CleanCrash ==
    ASSUME Base, Clean, NEW p \in Pids, Crash(p)
    PROVE  Clean'
<1>1. ASSUME NEW t \in Tasks, At(t, Builds)'
      PROVE  "stale" \notin (content[Build(t)])'
  <2>1. task'[t] # Idle
    BY <1>1 DEF At, Idle, Builds
  <2>2. task'[t] = task[t] /\ task[t] \in Opens /\ Pid(t) # p
    BY <2>1, CrashStep
  <2>3. At(t, Builds) /\ Build(t)' = Build(t) /\ Build(t) \in Dirs /\ Build(t)[2] # p
    BY <1>1, <2>2, BaseFacts, Active DEF At, Build, Book, Pid
  <2>. QED BY <2>3, CrashStep DEF Clean
<1>2. NoStalePages'
  BY CrashStep, NamesAssumption DEF NoStalePages, Clean, Dirs
<1>. QED BY <1>1, <1>2 DEF Clean

LEMMA CleanNext ==
    ASSUME Base, Clean, [Acts]_vars
    PROVE  Clean'
<1>1. CASE Step
  BY <1>1, CleanOpen, CleanProceed DEF Step
<1>2. CASE \E p \in Pids : Crash(p)
  BY <1>2, CleanCrash
<1>3. CASE UNCHANGED vars
  BY <1>3 DEF vars, diskVars, Clean, NoStalePages, At, Book, Pid, Build
<1>. QED BY <1>1, <1>2, <1>3 DEF Acts

LEMMA CleanInit == Init => Clean
<1>. SUFFICES ASSUME Init PROVE Clean
  OBVIOUS
<1>1. \A t \in Tasks : ~At(t, Builds)
  BY DEF Init, At, Idle, Builds
<1>. QED BY <1>1 DEF Init, Clean, NoStalePages, Dirs

\* No published book ever holds files of a build that died, though the next build of the book
\* in a process of the same pid works in a directory of the same name: _shelve_record empties
\* it first.
THEOREM NothingStalePublished == SteadySpec \/ CrashSpec => []NoStalePages
<1>1. SteadySpec => Init /\ [][Acts]_vars
  BY PTL DEF SteadySpec, Acts
<1>2. CrashSpec => Init /\ [][Acts]_vars
  BY PTL DEF CrashSpec, Acts
<1>3. Clean => NoStalePages
  BY DEF Clean
<1>. QED BY <1>1, <1>2, <1>3, BaseInit, CleanInit, BaseNext, CleanNext, PTL
----------------------------------------------------------------------------
(* Spool files and build directories belong to opens in progress.          *)

LEMMA OwnedKept ==
    ASSUME Owned, NEW t \in Tasks, Same(t),
           \A s \in spools' : \/ s \in spools /\ (At(t, Spools) => s # Build(t))
                              \/ At(t, Spools)' /\ s = Build(t)',
           \A d \in ToSet(listing') :
                d[2] # Public => \/ d \in ToSet(listing) /\ (At(t, Builds) => d # Build(t))
                                 \/ At(t, Builds)' /\ d = Build(t)'
    PROVE  Owned'
<1>1. ASSUME NEW s \in spools'
      PROVE  \E u \in Tasks : At(u, Spools)' /\ Build(u)' = s
  <2>1. CASE s \in spools /\ (At(t, Spools) => s # Build(t))
    <3>1. PICK u \in Tasks : At(u, Spools) /\ Build(u) = s
      BY <2>1 DEF Owned
    <3>2. u # t
      BY <2>1, <3>1
    <3>. QED BY <3>1, <3>2, OthersSame, PlacesKnown
  <2>2. CASE At(t, Spools)' /\ s = Build(t)'
    BY <2>2
  <2>. QED BY <2>1, <2>2
<1>2. ASSUME NEW d \in ToSet(listing'), d[2] # Public
      PROVE  \E u \in Tasks : At(u, Builds)' /\ Build(u)' = d
  <2>1. CASE d \in ToSet(listing) /\ (At(t, Builds) => d # Build(t))
    <3>1. PICK u \in Tasks : At(u, Builds) /\ Build(u) = d
      BY <1>2, <2>1 DEF Owned
    <3>2. u # t
      BY <2>1, <3>1
    <3>. QED BY <3>1, <3>2, OthersSame, PlacesKnown
  <2>2. CASE At(t, Builds)' /\ d = Build(t)'
    BY <2>2
  <2>. QED BY <1>2, <2>1, <2>2
<1>. QED BY <1>1, <1>2 DEF Owned

\* A task goes on with what it has.
LEMMA OwnedGoes ==
    ASSUME Owned, NEW t \in Tasks, NEW place \in Places, Goes(t, place),
           spools' \subseteq spools \cup {Build(t)},
           place \notin Spools /\ At(t, Spools) => Build(t) \notin spools',
           place \notin Spools /\ ~At(t, Spools) => UNCHANGED spools,
           place \in Spools \/ At(t, Spools) \/ UNCHANGED spools,
           \A d \in ToSet(listing') :
                d \in ToSet(listing) \/ d[2] = Public \/ (place \in Builds /\ d = Build(t)),
           place \in Builds \/ Build(t) \notin ToSet(listing') \/ ~At(t, Builds)
    PROVE  Owned'
<1>1. /\ Same(t) /\ Build(t)' = Build(t)
      /\ At(t, Builds)' <=> place \in Builds
      /\ At(t, Spools)' <=> place \in Spools
  BY GoesFacts, PlacesKnown
<1>2. ASSUME NEW s \in spools'
      PROVE  \/ s \in spools /\ (At(t, Spools) => s # Build(t))
             \/ At(t, Spools)' /\ s = Build(t)'
  BY <1>1
<1>3. ASSUME NEW d \in ToSet(listing'), d[2] # Public
      PROVE  \/ d \in ToSet(listing) /\ (At(t, Builds) => d # Build(t))
             \/ At(t, Builds)' /\ d = Build(t)'
  BY <1>1, <1>3
<1>. QED BY <1>1, <1>2, <1>3, OwnedKept

LEMMA OwnedEnds ==
    ASSUME Owned, NEW t \in Tasks, Ends(t),
           spools' \subseteq spools, At(t, Spools) => Build(t) \notin spools',
           ToSet(listing') \subseteq ToSet(listing),
           At(t, Builds) => Build(t) \notin ToSet(listing')
    PROVE  Owned'
BY EndsFacts, OwnedKept

LEMMA OwnedOpen ==
    ASSUME Base, Owned, NEW t \in Tasks, NEW k \in Keys, NEW p \in Pids, Open(t, k, p)
    PROVE  Owned'
<1>. DEFINE free == lock[<<k, p>>] = <<>>
<1>1. /\ task'[t] = [at |-> IF free THEN "spooling" ELSE "queued", key |-> k, pid |-> p]
      /\ Same(t) /\ task[t] = Idle
      /\ spools' = IF free THEN spools \cup {<<k, p>>} ELSE spools
      /\ UNCHANGED listing
  BY BaseFacts DEF Open, TasksOK, Same
<1>2. ~At(t, Spools) /\ ~At(t, Builds)
  BY <1>1 DEF At, Idle, Spools, Builds
<1>3. free => At(t, Spools)' /\ Build(t)' = <<k, p>>
  BY <1>1 DEF At, Spools, Build, Book, Pid
<1>. HIDE DEF free
<1>. QED BY <1>1, <1>2, <1>3, OwnedKept

LEMMA OwnedProceed ==
    ASSUME Base, Owned, NEW t \in Tasks, ImagesFetched(t) \/ Proceed(t)
    PROVE  Owned'
<1>0. Builds \subseteq Spools /\ "landed" \notin Builds
  BY DEF Spools, Builds
<1>1. ASSUME FindShelved(t) PROVE Owned'
  <2>1. Ends(t) /\ UNCHANGED <<spools, listing>>
    BY <1>1, FindShelvedStep DEF FindShelved, diskVars
  <2>2. ~At(t, Spools) /\ ~At(t, Builds)
    BY <1>1 DEF FindShelved, At, Spools, Builds
  <2>. QED BY <2>1, <2>2, OwnedEnds
<1>2. ASSUME StartSpool(t) PROVE Owned'
  <2>1. Goes(t, "spooling") /\ spools' = spools \cup {Build(t)} /\ UNCHANGED listing
    BY <1>2, StartSpoolStep DEF StartSpool
  <2>2. ~At(t, Builds) /\ "spooling" \in Places /\ "spooling" \in Spools
    BY <1>2 DEF StartSpool, At, Spools, Builds, Places
  <2>. QED BY <2>1, <2>2, OwnedGoes
<1>3. ASSUME SpoolFails(t) PROVE Owned'
  <2>1. Ends(t) /\ spools' = spools \ {Build(t)} /\ UNCHANGED listing
    BY <1>3, SpoolFailsStep DEF SpoolFails, DropSpool
  <2>2. ~At(t, Builds)
    BY <1>3 DEF SpoolFails, At, Builds
  <2>. QED BY <2>1, <2>2, OwnedEnds
<1>4. ASSUME Spooled(t) PROVE Owned'
  <2>1. PICK place \in {"fetching", "building"} : Goes(t, place)
    BY <1>4, SpooledStep
  <2>2. ToSet(listing') = ToSet(listing) \cup {Build(t)} /\ UNCHANGED spools
    BY <1>4, SpooledStep DEF Spooled
  <2>3. place \in Places /\ place \in Builds /\ place \in Spools
    BY DEF Places, Builds, Spools
  <2>. QED BY <2>1, <2>2, <2>3, OwnedGoes
<1>5. ASSUME ImagesFetched(t) \/ RenameFails(t) \/ Condemn(t) PROVE Owned'
  <2>1. PICK place \in {"building", "contested", "condemned"} :
          Goes(t, place) /\ UNCHANGED <<spools, listing>>
    BY <1>5, ImagesFetchedStep, RenameFailsStep, CondemnStep
       DEF ImagesFetched, RenameFails, Condemn, diskVars
  <2>2. place \in Places /\ place \in Builds /\ place \in Spools
    BY DEF Places, Builds, Spools
  <2>. QED BY <2>1, <2>2, OwnedGoes
<1>6. ASSUME WritePages(t) \/ WriteManifest(t) PROVE Owned'
  <2>1. PICK place \in {"written", "built"} :
          Goes(t, place) /\ ToSet(listing') = ToSet(listing) /\ UNCHANGED spools
    BY <1>6, WritePagesStep, WriteManifestStep
  <2>2. place \in Places /\ place \in Builds /\ place \in Spools
    BY DEF Places, Builds, Spools
  <2>. QED BY <2>1, <2>2, OwnedGoes
<1>7. ASSUME ExtractFails(t) \/ ReplaceFails(t) PROVE Owned'
  <2>1. Ends(t) /\ ToSet(listing') = ToSet(listing) \ {Build(t)} /\ spools' = spools \ {Build(t)}
    BY <1>7, ExtractFailsStep, ReplaceFailsStep DEF Deleted
  <2>. QED BY <2>1, OwnedEnds
<1>8. ASSUME Rename(t) \/ Replace(t) PROVE Owned'
  <2>1. Goes(t, "landed") /\ Shelves(t) /\ UNCHANGED spools /\ At(t, Builds)
    BY <1>8, RenameStep, ReplaceStep DEF Rename, Replace, At, Builds
  <2>2. "landed" \in Places /\ "landed" \in Spools
    BY DEF Places, Spools
  <2>3. Shelf(t)[2] = Public /\ Build(t) # Shelf(t)
    BY <2>1, BaseFacts, Active, PlacesKnown
  <2>4. Build(t) \notin ToSet(listing')
        /\ \A d \in ToSet(listing') : d \in ToSet(listing) \/ d[2] = Public
    BY <2>1, <2>3 DEF Shelves
  <2>. QED BY <2>1, <2>2, <2>4, OwnedGoes
<1>9. ASSUME Defer(t) PROVE Owned'
  <2>1. /\ Goes(t, "landed") /\ ToSet(listing') = ToSet(listing) \ {Build(t)} /\ UNCHANGED spools
        /\ "landed" \in Places /\ "landed" \in Spools
    BY <1>9, DeferStep DEF Deleted, Places, Spools
  <2>. QED BY <2>1, OwnedGoes
<1>10. ASSUME Evict(t) PROVE Owned'
  <2>1. /\ Goes(t, "evicted") /\ ToSet(listing') = ToSet(listing) \ {Shelf(t)} /\ UNCHANGED spools
        /\ "evicted" \in Places /\ "evicted" \in Spools /\ "evicted" \in Builds
    BY <1>10, EvictStep DEF Deleted, Places, Spools, Builds
  <2>. QED BY <2>1, OwnedGoes
<1>11. ASSUME Land(t) PROVE Owned'
  <2>1. /\ spools' = spools \ {Build(t)} /\ UNCHANGED listing
        /\ Ends(t) \/ Goes(t, "pruning")
    BY <1>11, LandStep DEF Land
  <2>2. ~At(t, Builds) /\ At(t, Spools) /\ "pruning" \in Places
    BY <1>11 DEF Land, At, Builds, Spools, Places
  <2>. QED BY <2>1, <2>2, OwnedGoes, OwnedEnds
<1>12. ASSUME DeleteSome(t) \/ DeleteRest(t) PROVE Owned'
  <2>1. ~At(t, Spools) /\ ~At(t, Builds)
    BY <1>12 DEF DeleteSome, DeleteRest, At, Builds, Spools
  <2>2. ToSet(listing') \subseteq ToSet(listing) /\ UNCHANGED spools
    BY <1>12, DeleteSomeStep, DeleteRestStep
  <2>3. \/ Ends(t)
        \/ \E place \in {"pruning", "deleting"} : Goes(t, place)
    BY <1>12, DeleteSomeStep, DeleteRestStep
  <2>4. {"pruning", "deleting"} \subseteq Places
    BY DEF Places
  <2>. QED BY <2>1, <2>2, <2>3, <2>4, OwnedGoes, OwnedEnds
<1>. QED BY <1>1, <1>2, <1>3, <1>4, <1>5, <1>6, <1>7, <1>8, <1>9, <1>10, <1>11, <1>12 DEF Proceed

LEMMA OwnedNext ==
    ASSUME Base, Owned, [Step]_vars
    PROVE  Owned'
<1>1. CASE Step
  BY <1>1, OwnedOpen, OwnedProceed DEF Step
<1>2. CASE UNCHANGED vars
  BY <1>2 DEF vars, diskVars, Owned, At, Book, Pid, Build
<1>. QED BY <1>1, <1>2

\* Whatever failed, was refused or was pruned on the way: once no open is in progress, neither
\* a spool file nor a build directory is left (_shelve_record's except and finally clauses).
THEOREM LeavesNothing == SteadySpec => []NothingLeftBehind
<1>1. Init => Owned
  BY Empty DEF Init, Owned
<1>2. Owned => NothingLeftBehind
  BY DEF Owned, NothingLeftBehind, At, Idle, Spools, Builds
<1>3. Base /\ [Step]_vars => Base'
  BY BaseNext DEF Acts
<1>. QED BY <1>1, <1>2, <1>3, BaseInit, OwnedNext, PTL DEF SteadySpec
----------------------------------------------------------------------------
(* The copy published first.                                               *)

LEMMA FirstStays ==
    ASSUME Base, [Acts]_vars, NEW k \in Keys, Whole(k)
    PROVE  Whole(k)' \/ Pruned(k) \/ Condemned(k)
<1>. DEFINE d == <<k, Public>>
<1>0. /\ d \in Dirs /\ d[2] = Public /\ content[d] # {}
      /\ Whole(k)' <=> content'[d] = content[d]
  BY DEF Dirs, Whole
<1>1. UNCHANGED content => Whole(k)'
  BY DEF Whole
<1>2. ASSUME NEW t \in Tasks, task[t] \in Opens
      PROVE  /\ Build(t) \in Dirs /\ Build(t) # d
             /\ Shelf(t) = d => Book(t) = k
  BY <1>2, BaseFacts, NamesAssumption DEF Build, Shelf, Dirs
<1>3. ASSUME NEW t \in Tasks, task[t] \in Opens, NEW c, Holding(Build(t), c)
      PROVE  Whole(k)'
  BY <1>0, <1>2, <1>3 DEF Holding, Whole
<1>4. ASSUME NEW t \in Tasks, NEW places \in SUBSET Places, At(t, places)
      PROVE  task[t] \in Opens
  BY <1>4, BaseFacts, Active
<1>5. ASSUME NEW t \in Tasks, \E key \in Keys, p \in Pids : Open(t, key, p)
      PROVE  Whole(k)'
  BY <1>1, <1>5 DEF Open
<1>6. ASSUME NEW t \in Tasks, ImagesFetched(t) \/ FindShelved(t) \/ StartSpool(t)
                              \/ SpoolFails(t) \/ RenameFails(t) \/ Condemn(t) \/ Land(t)
      PROVE  Whole(k)'
  BY <1>1, <1>6 DEF ImagesFetched, FindShelved, StartSpool, SpoolFails, RenameFails, Condemn, Land,
     diskVars
<1>7. ASSUME NEW t \in Tasks, Spooled(t) \/ WritePages(t) \/ WriteManifest(t)
                              \/ ExtractFails(t) \/ Defer(t) \/ ReplaceFails(t)
      PROVE  Whole(k)'
  <2>1. At(t, {"spooling", "building", "written", "contested", "evicted"})
    BY <1>7 DEF Spooled, WritePages, WriteManifest, ExtractFails, Defer, ReplaceFails, At
  <2>2. task[t] \in Opens
    BY <1>4, <2>1 DEF Places
  <2>3. \E c : Holding(Build(t), c)
    BY <1>7, SpooledStep, WritePagesStep, WriteManifestStep, ExtractFailsStep, DeferStep,
       ReplaceFailsStep DEF Deleted
  <2>. QED BY <1>3, <2>2, <2>3
<1>8. ASSUME NEW t \in Tasks, Rename(t) \/ Replace(t)
      PROVE  Whole(k)'
  <2>1. At(t, {"built", "evicted"}) /\ CanRename(t)
    BY <1>8 DEF Rename, Replace, At
  <2>2. task[t] \in Opens /\ Shelf(t) # d
    BY <1>0, <1>4, <2>1 DEF Places, CanRename
  <2>3. Shelves(t)
    BY <1>8, RenameStep, ReplaceStep
  <2>. QED BY <1>0, <1>2, <2>2, <2>3 DEF Shelves, Whole
<1>9. ASSUME NEW t \in Tasks, Evict(t)
      PROVE  Whole(k)' \/ Condemned(k)
  <2>1. At(t, {"condemned"}) /\ task[t] \in Opens
    BY <1>4, <1>9 DEF Evict, Places
  <2>2. Holding(Shelf(t), {})
    BY <1>9, EvictStep DEF Deleted
  <2>. QED BY <1>0, <1>2, <2>1, <2>2 DEF Holding, Whole, Condemned
<1>10. ASSUME NEW t \in Tasks, DeleteSome(t) \/ DeleteRest(t)
       PROVE  Whole(k)' \/ Pruned(k)
  <2>1. At(t, {"pruning", "deleting"})
    BY <1>10 DEF DeleteSome, DeleteRest, At
  <2>2. \E c : Holding(Victim(t), c)
    BY <1>10, DeleteSomeStep, DeleteRestStep
  <2>. QED BY <1>0, <2>1, <2>2 DEF Holding, Whole, Pruned, Victim
<1>11. ASSUME NEW p \in Pids, Crash(p)
       PROVE  Whole(k)'
  BY <1>0, <1>11, CrashStep, NamesAssumption DEF Whole
<1>12. CASE UNCHANGED vars
  BY <1>1, <1>12 DEF vars, diskVars
<1>. QED BY <1>5, <1>6, <1>7, <1>8, <1>9, <1>10, <1>11, <1>12 DEF Acts, Step, Proceed

\* When two processes shelve one book, the copy published first stays, even through crashes,
\* until it is pruned or an open that found a leftover in its place takes it away (the rename
\* in _shelve_record, and what it does when that fails).
THEOREM FirstCopyStays == CrashSpec => FirstWins
<1>1. Base /\ [Acts]_vars => [\A k \in Keys : Whole(k) => Whole(k)' \/ Pruned(k) \/ Condemned(k)]_vars
  BY FirstStays
<1>. QED BY <1>1, BaseInit, BaseNext, PTL DEF CrashSpec, FirstWins, Acts
----------------------------------------------------------------------------
(* One process without comics: from the first page written to the last     *)
(* directory pruned, nothing else runs.                                    *)

Running == Held \cup Unpacking
Alone(t) == \A u \in Tasks \ {t} : ~At(u, Running)

LEMMA RunningHolds ==
    ASSUME Base, SoloAssumption, NEW u \in Tasks, At(u, Running)
    PROVE  u # NoTask /\ Pid(u) \in Pids /\ \A p \in Pids : loop[p] = u
<1>1. At(u, Held) \/ At(u, Unpacking)
  BY DEF At, Running
<1>2. Pid(u) \in Pids /\ loop[Pid(u)] = u
  BY <1>1, BaseFacts, Active, PlacesKnown DEF Base, Segments, SoloAssumption
<1>. QED BY <1>2, NamesAssumption DEF SoloAssumption

LEMMA ActsOfOpens ==
    ASSUME Base, NEW t \in Tasks, ImagesFetched(t) \/ Proceed(t)
    PROVE  At(t, Places) /\ task[t] \in Opens
<1>1. At(t, Places)
  BY DEF ImagesFetched, Proceed, FindShelved, StartSpool, SpoolFails, Spooled, WritePages,
     WriteManifest, ExtractFails, Rename, RenameFails, Defer, Condemn, Evict, Replace,
     ReplaceFails, Land, DeleteSome, DeleteRest, At, Places
<1>. QED BY <1>1, BaseFacts, Active

LEMMA ActsAlone ==
    ASSUME Base, SoloAssumption, NEW t \in Tasks, ImagesFetched(t) \/ Proceed(t)
    PROVE  Alone(t)
<1>1. task[t] \in Opens /\ Pid(t) \in Pids
  BY ActsOfOpens, BaseFacts
<1>2. Turn(t)
  <2>1. CASE At(t, Held)
    BY <2>1, BaseFacts
  <2>2. CASE ~At(t, Held)
    <3>1. CASE WritePages(t) \/ WriteManifest(t)
      BY <3>1 DEF WritePages, WriteManifest, Unpacks, Turn, SoloAssumption
    <3>2. CASE ~(WritePages(t) \/ WriteManifest(t))
      BY <2>2, <3>2 DEF ImagesFetched, Proceed, FindShelved, StartSpool, SpoolFails, Spooled,
         ExtractFails, Rename, RenameFails, Defer, Condemn, Evict, Replace,
         ReplaceFails, Land, DeleteSome, DeleteRest, At, Held
    <3>. QED BY <3>1, <3>2
  <2>. QED BY <2>1, <2>2
<1>3. ASSUME NEW u \in Tasks \ {t}, At(u, Running)
      PROVE  FALSE
  <2>1. u \in Tasks /\ u # t
    BY <1>3
  <2>2. u # NoTask /\ loop[Pid(t)] = u
    BY <1>1, <1>3, <2>1, RunningHolds
  <2>. QED BY <1>2, <2>1, <2>2 DEF Turn
<1>. QED BY <1>3 DEF Alone

LEMMA OpenAlone ==
    ASSUME Base, SoloAssumption, NEW t \in Tasks, NEW k \in Keys, NEW p \in Pids, Open(t, k, p)
    PROVE  Alone(t) /\ ~At(t, Running)
<1>1. loop[p] = NoTask
  BY DEF Open
<1>2. \A u \in Tasks : ~At(u, Running)
  BY <1>1, RunningHolds
<1>. QED BY <1>2 DEF Alone

\* What nobody but t can be doing.
LEMMA AloneFacts ==
    ASSUME NEW t \in Tasks, Alone(t)
    PROVE  /\ \A u \in Tasks : \A places \in SUBSET Running : At(u, places) => u = t
           /\ {"landed"} \in SUBSET Running /\ {"deleting"} \in SUBSET Running
           /\ {"pruning", "deleting"} \in SUBSET Running
           /\ Running \subseteq Places
           /\ {"building"} \in SUBSET Running /\ {"written"} \in SUBSET Running
           /\ {"built", "contested", "condemned", "evicted"} \in SUBSET Running
BY DEF Alone, At, Running, Held, Unpacking, Places

\* While t neither lands nor prunes, no book is half deleted.
LEMMA NothingPruned ==
    ASSUME NEW t \in Tasks, Alone(t), ~At(t, {"pruning", "deleting"}),
           DoomedInPrune, Published
    PROVE  /\ \A p \in Pids : doomed[p] = <<>>
           /\ \A d : ~UnderDeletion(d)
           /\ \A k \in Keys : content[<<k, Public>>] \in {{}, WholePages}
<1>1. \A u \in Tasks : ~At(u, {"pruning", "deleting"})
  BY AloneFacts
<1>2. \A u \in Tasks : ~At(u, {"deleting"})
  BY <1>1 DEF At
<1>. QED BY <1>1, <1>2 DEF DoomedInPrune, Published, UnderDeletion

\* Steps outside the pruning.
LEMMA PlainSolo ==
    ASSUME Solo, NEW t \in Tasks, Alone(t), Same(t), UNCHANGED pruneVars,
           ~At(t, {"pruning", "deleting"}), ~At(t, {"pruning", "deleting"})',
           ~At(t, {"landed"}),
           \A k \in Keys : content'[<<k, Public>>] \in {{}, WholePages},
           \/ At(t, {"landed"})'
           \/ \A k \in Keys : content'[<<k, Public>>] \in {{}, content[<<k, Public>>]}
    PROVE  Published' /\ Deletions' /\ DoomedInPrune' /\ Fits'
<1>1. \A p \in Pids : doomed[p] = <<>>
  BY NothingPruned DEF Solo
<1>2. \A u \in Tasks : ~At(u, {"deleting"})'
  <2>1. ASSUME NEW u \in Tasks, u # t PROVE ~At(u, {"deleting"})'
    BY <2>1, AloneFacts, OthersSame
  <2>2. ~At(t, {"deleting"})'
    BY DEF At
  <2>. QED BY <2>1, <2>2
<1>3. Published' /\ Deletions'
  BY <1>2 DEF Published, Deletions
<1>4. DoomedInPrune'
  BY <1>1 DEF DoomedInPrune, pruneVars
<1>5. ASSUME \A u \in Tasks : ~At(u, {"landed"})'
      PROVE  IsFiniteSet(Staying') /\ Cardinality(Staying') <= Limit
  <2>1. \A k \in Keys : content'[<<k, Public>>] \in {{}, content[<<k, Public>>]}
    BY <1>5
  <2>2. Staying' \in SUBSET Staying
    BY <2>1 DEF Staying, pruneVars
  <2>3. \A u \in Tasks : ~At(u, {"landed"})
    BY AloneFacts
  <2>4. IsFiniteSet(Staying) /\ Cardinality(Staying) <= Limit
    BY <2>3 DEF Solo, Fits
  <2>5. /\ IsFiniteSet(Staying') /\ Cardinality(Staying') <= Cardinality(Staying)
        /\ Cardinality(Staying') \in Nat /\ Cardinality(Staying) \in Nat
    BY <2>2, <2>4, FS_Subset, FS_CardinalityType
  <2>. QED BY <2>4, <2>5, LimitAssumption
<1>6. Fits'
  BY <1>5 DEF Fits
<1>. QED BY <1>3, <1>4, <1>6

\* Nobody else changes what a task has written.
LEMMA ProgressKept ==
    ASSUME Base, Progress, NEW t \in Tasks, Alone(t), Same(t), Made(t)',
           \A d \in Dirs : \/ content'[d] \subseteq content[d]
                           \/ At(t, Places \ {"queued"}) /\ d \in {Build(t), Shelf(t)}
    PROVE  Progress'
<1>1. ASSUME NEW u \in Tasks, u # t
      PROVE  Made(u)'
  <2>1. ~At(u, {"building"})' /\ ~At(u, {"written"})'
        /\ ~At(u, {"built", "contested", "condemned", "evicted"})'
    BY <1>1, AloneFacts, OthersSame
  <2>2. ASSUME At(u, {"fetching"})'
        PROVE  (content[Build(u)])' = {}
    <3>1. At(u, {"fetching"}) /\ Build(u)' = Build(u) /\ {"fetching"} \in SUBSET Places
      BY <1>1, <2>2, OthersSame DEF Places
    <3>2. Build(u) \in Dirs /\ content[Build(u)] = {} /\ task[u] \in Opens /\ task[u] # Idle
      BY <3>1, BaseFacts, Active DEF Progress, Made, At
    <3>3. CASE content'[Build(u)] \subseteq content[Build(u)]
      BY <3>1, <3>2, <3>3
    <3>4. CASE At(t, Places \ {"queued"}) /\ Build(u) \in {Build(t), Shelf(t)}
      <4>1. /\ task[t] # Idle /\ ~At(t, {"queued"}) /\ ~At(u, {"queued"})
            /\ Places \ {"queued"} \in SUBSET Places
        BY <3>1, <3>4 DEF At, Idle, Places
      <4>2. Shelf(t)[2] = Public /\ Build(u)[2] # Public
        BY <3>2, <3>4, <4>1, BaseFacts, NamesAssumption DEF Build, Shelf
      <4>3. Build(u) = Build(t)
        BY <3>4, <4>2
      <4>. QED BY <1>1, <3>2, <4>1, <4>3, BuilderAlone DEF OneBuilder
    <3>. QED BY <3>2, <3>3, <3>4
  <2>. QED BY <2>1, <2>2 DEF Made, At
<1>. QED BY <1>1 DEF Progress

LEMMA MadeGoes ==
    ASSUME NEW t \in Tasks, NEW place \in Places, Goes(t, place),
           place \in {"fetching", "building"} => content'[Build(t)] = {},
           place = "written" => content'[Build(t)] = {"pages"},
           place \in {"built", "contested", "condemned", "evicted"}
                => content'[Build(t)] = WholePages
    PROVE  Made(t)'
<1>1. Build(t)' = Build(t) /\ task'[t].at = place
  BY GoesFacts DEF Goes
<1>. QED BY <1>1 DEF Made, At

LEMMA MadeEnds ==
    ASSUME NEW t \in Tasks, Ends(t)
    PROVE  Made(t)'
BY EndsFacts DEF Made, Places
\* Steps that leave the published books alone, with what the task has written by then.
LEMMA UnpublishedSolo ==
    ASSUME Base, Solo, NEW t \in Tasks, Alone(t), Same(t), Made(t)', UNCHANGED pruneVars,
           ~At(t, {"pruning", "deleting"}), ~At(t, {"pruning", "deleting"})',
           ~At(t, {"landed"}),
           \/ UNCHANGED content
           \/ At(t, Places \ {"queued"}) /\ \E c : Holding(Build(t), c)
    PROVE  Solo'
<1>1. \A k \in Keys : content'[<<k, Public>>] = content[<<k, Public>>]
  <2>1. CASE UNCHANGED content
    BY <2>1
  <2>2. CASE At(t, Places \ {"queued"}) /\ \E c : Holding(Build(t), c)
    <3>1. Build(t)[2] # Public
      BY <2>2, BaseFacts, Active, NamesAssumption DEF Build
    <3>. QED BY <2>2, <3>1 DEF Holding, Dirs
  <2>. QED BY <2>1, <2>2
<1>2. Published' /\ Deletions' /\ DoomedInPrune' /\ Fits'
  <2>1. \A k \in Keys : content[<<k, Public>>] \in {{}, WholePages}
    BY NothingPruned DEF Solo
  <2>. QED BY <1>1, <2>1, PlainSolo
<1>3. \A d \in Dirs : \/ content'[d] \subseteq content[d]
                      \/ At(t, Places \ {"queued"}) /\ d \in {Build(t), Shelf(t)}
  BY DEF Holding
<1>4. Progress'
  BY <1>3, ProgressKept DEF Solo
<1>. QED BY <1>2, <1>4 DEF Solo

LEMMA SoloOpen ==
    ASSUME Base, Solo, SoloAssumption,
           NEW t \in Tasks, NEW k \in Keys, NEW p \in Pids, Open(t, k, p)
    PROVE  Solo'
<1>1. /\ task' = [task EXCEPT ![t] =
            [at |-> IF lock[<<k, p>>] = <<>> THEN "spooling" ELSE "queued", key |-> k, pid |-> p]]
      /\ UNCHANGED content /\ UNCHANGED pruneVars
  BY DEF Open
<1>2. /\ Same(t) /\ task'[t].at \in {"spooling", "queued"}
  BY <1>1, BaseFacts DEF TasksOK, Same
<1>3. Made(t)' /\ ~At(t, {"pruning", "deleting"})'
  BY <1>2 DEF Made, At
<1>4. Alone(t) /\ ~At(t, Running)
  BY OpenAlone
<1>5. ~At(t, {"pruning", "deleting"}) /\ ~At(t, {"landed"})
  BY <1>4 DEF At, Running, Held
<1>. QED BY <1>1, <1>2, <1>3, <1>4, <1>5, UnpublishedSolo

LEMMA SoloBuilding ==
    ASSUME Base, Solo, NEW t \in Tasks, Alone(t),
           \/ FindShelved(t) \/ StartSpool(t) \/ SpoolFails(t) \/ Spooled(t) \/ ImagesFetched(t)
           \/ WritePages(t) \/ WriteManifest(t) \/ ExtractFails(t) \/ ReplaceFails(t)
           \/ RenameFails(t) \/ Condemn(t)
    PROVE  Solo'
<1>. DEFINE Steps(place) == Goes(t, place) /\ place \notin {"pruning", "deleting"}
            Keeps == UNCHANGED content
            Fills == At(t, Places \ {"queued"}) /\ \E c : Holding(Build(t), c)
<1>1. UNCHANGED pruneVars
  BY DEF FindShelved, StartSpool, SpoolFails, Spooled, ImagesFetched, WritePages, WriteManifest,
     ExtractFails, ReplaceFails, RenameFails, Condemn
<1>2. ~At(t, {"pruning", "deleting"}) /\ ~At(t, {"landed"})
  BY DEF FindShelved, StartSpool, SpoolFails, Spooled, ImagesFetched, WritePages, WriteManifest,
     ExtractFails, ReplaceFails, RenameFails, Condemn, At
<1>3. task[t] \in Opens /\ Build(t) \in Dirs /\ Made(t)
  BY ActsOfOpens, BaseFacts DEF Proceed, Solo, Progress
<1>4. ASSUME NEW place \in Places \ {"pruning", "deleting"}, Goes(t, place), Made(t)',
             Keeps \/ Fills
      PROVE  Solo'
  <2>1. Same(t) /\ ~At(t, {"pruning", "deleting"})'
    BY <1>4, GoesFacts DEF Goes, At
  <2>. QED BY <1>1, <1>2, <1>4, <2>1, UnpublishedSolo
<1>5. ASSUME Ends(t), Keeps \/ Fills
      PROVE  Solo'
  <2>1. Same(t) /\ Made(t)' /\ ~At(t, {"pruning", "deleting"})'
    BY <1>5, EndsFacts, MadeEnds DEF Places
  <2>. QED BY <1>1, <1>2, <1>5, <2>1, UnpublishedSolo
<1>6. ASSUME FindShelved(t) \/ SpoolFails(t) PROVE Solo'
  <2>1. Ends(t) /\ Keeps
    BY <1>6, FindShelvedStep, SpoolFailsStep DEF FindShelved, SpoolFails, diskVars
  <2>. QED BY <1>5, <2>1
<1>7. ASSUME StartSpool(t) PROVE Solo'
  <2>1. Goes(t, "spooling") /\ Keeps /\ "spooling" \in Places \ {"pruning", "deleting"}
    BY <1>7, StartSpoolStep DEF StartSpool, Places
  <2>2. Made(t)'
    BY <2>1, MadeGoes
  <2>. QED BY <1>4, <2>1, <2>2
<1>8. ASSUME Spooled(t) PROVE Solo'
  <2>1. PICK place \in {"fetching", "building"} : Goes(t, place) /\ Holding(Build(t), {})
    BY <1>8, SpooledStep
  <2>2. Fills /\ place \in Places \ {"pruning", "deleting"}
    BY <1>8, <2>1 DEF Spooled, At, Places
  <2>3. Made(t)'
    BY <2>1, <2>2, MadeGoes DEF Holding
  <2>. QED BY <1>4, <2>1, <2>2, <2>3
<1>9. ASSUME ImagesFetched(t) PROVE Solo'
  <2>1. Goes(t, "building") /\ Keeps /\ "building" \in Places \ {"pruning", "deleting"}
    BY <1>9, ImagesFetchedStep DEF ImagesFetched, diskVars, Places
  <2>2. content[Build(t)] = {}
    BY <1>3, <1>9 DEF ImagesFetched, Made, At
  <2>3. Made(t)'
    BY <2>1, <2>2, MadeGoes
  <2>. QED BY <1>4, <2>1, <2>3
<1>10. ASSUME WritePages(t) PROVE Solo'
  <2>1. /\ Goes(t, "written") /\ Holding(Build(t), content[Build(t)] \cup {"pages"})
        /\ "written" \in Places \ {"pruning", "deleting"} /\ Fills
    BY <1>10, WritePagesStep DEF WritePages, At, Places
  <2>2. content[Build(t)] = {}
    BY <1>3, <1>10 DEF WritePages, Made, At
  <2>3. Made(t)'
    BY <2>1, <2>2, MadeGoes DEF Holding
  <2>. QED BY <1>4, <2>1, <2>3
<1>11. ASSUME WriteManifest(t) PROVE Solo'
  <2>1. /\ Goes(t, "built") /\ Holding(Build(t), content[Build(t)] \cup {"manifest"})
        /\ "built" \in Places \ {"pruning", "deleting"} /\ Fills
    BY <1>11, WriteManifestStep DEF WriteManifest, At, Places
  <2>2. content[Build(t)] = {"pages"}
    BY <1>3, <1>11 DEF WriteManifest, Made, At
  <2>3. content'[Build(t)] = WholePages
    BY <2>1, <2>2 DEF Holding, WholePages
  <2>4. Made(t)'
    BY <2>1, <2>3, MadeGoes
  <2>. QED BY <1>4, <2>1, <2>4
<1>12. ASSUME ExtractFails(t) \/ ReplaceFails(t) PROVE Solo'
  <2>1. Ends(t) /\ Fills
    BY <1>12, ExtractFailsStep, ReplaceFailsStep DEF Deleted, ExtractFails, ReplaceFails, At, Places
  <2>. QED BY <1>5, <2>1
<1>13. ASSUME RenameFails(t) \/ Condemn(t) PROVE Solo'
  <2>1. PICK place \in {"contested", "condemned"} : Goes(t, place) /\ Keeps
    BY <1>13, RenameFailsStep, CondemnStep DEF RenameFails, Condemn, diskVars
  <2>2. content[Build(t)] = WholePages
    BY <1>3, <1>13 DEF RenameFails, Condemn, Made, At
  <2>3. place \in Places \ {"pruning", "deleting"}
    BY DEF Places
  <2>4. Made(t)'
    BY <2>1, <2>2, <2>3, MadeGoes
  <2>. QED BY <1>4, <2>1, <2>3, <2>4
<1>. QED BY <1>6, <1>7, <1>8, <1>9, <1>10, <1>11, <1>12, <1>13

LEMMA SoloPublishing ==
    ASSUME Base, Solo, NEW t \in Tasks, Alone(t),
           Rename(t) \/ Defer(t) \/ Evict(t) \/ Replace(t)
    PROVE  Solo'
<1>1. /\ UNCHANGED pruneVars /\ At(t, Places \ {"queued"})
      /\ ~At(t, {"pruning", "deleting"}) /\ ~At(t, {"landed"})
  BY DEF Rename, Defer, Evict, Replace, At, Places
<1>2. /\ task[t] \in Opens /\ Build(t) \in Dirs /\ Shelf(t) \in Dirs /\ Build(t) # Shelf(t)
      /\ Made(t) /\ \A k \in Keys : <<k, Public>> \in Dirs /\ <<k, Public>> # Build(t)
  <2>1. task[t] \in Opens
    BY ActsOfOpens DEF Proceed
  <2>. QED BY <2>1, BaseFacts, NamesAssumption DEF Solo, Progress, Build, Dirs
<1>3. content[Build(t)] = WholePages
  BY <1>2 DEF Rename, Defer, Evict, Replace, Made, At
<1>4. \A k \in Keys : content[<<k, Public>>] \in {{}, WholePages}
  BY <1>1, NothingPruned DEF Solo
<1>5. CASE Evict(t)
  <2>1. /\ Goes(t, "evicted") /\ Holding(Shelf(t), {}) /\ "evicted" \in Places
    BY <1>5, EvictStep DEF Deleted, Places
  <2>2. Same(t) /\ ~At(t, {"pruning", "deleting"})'
    BY <2>1, GoesFacts DEF Goes, At
  <2>3. Made(t)'
    BY <1>2, <1>3, <2>1, MadeGoes DEF Holding
  <2>4. Progress'
    BY <1>1, <2>1, <2>2, <2>3, ProgressKept DEF Solo, Holding
  <2>5. \A k \in Keys : content'[<<k, Public>>] \in {{}, content[<<k, Public>>]}
    BY <1>2, <2>1 DEF Holding
  <2>6. Published' /\ Deletions' /\ DoomedInPrune' /\ Fits'
    BY <1>1, <1>4, <2>2, <2>5, PlainSolo
  <2>. QED BY <2>4, <2>6 DEF Solo
<1>6. CASE Rename(t) \/ Defer(t) \/ Replace(t)
  <2>1. /\ Goes(t, "landed") /\ "landed" \in Places
        /\ Shelves(t) \/ Holding(Build(t), {})
    BY <1>6, RenameStep, DeferStep, ReplaceStep DEF Deleted, Places
  <2>2. Same(t) /\ ~At(t, {"pruning", "deleting"})' /\ At(t, {"landed"})'
    BY <2>1, GoesFacts DEF Goes, At
  <2>3. Made(t)'
    BY <2>1, MadeGoes
  <2>4. \A d \in Dirs : content'[d] \subseteq content[d] \/ d \in {Build(t), Shelf(t)}
    BY <2>1 DEF Shelves, Holding
  <2>5. Progress'
    BY <1>1, <2>2, <2>3, <2>4, ProgressKept DEF Solo
  <2>6. \A k \in Keys : content'[<<k, Public>>] \in {{}, WholePages}
    BY <1>2, <1>3, <1>4, <2>1 DEF Shelves, Holding
  <2>7. Published' /\ Deletions' /\ DoomedInPrune' /\ Fits'
    BY <1>1, <2>2, <2>6, PlainSolo
  <2>. QED BY <2>5, <2>7 DEF Solo
<1>. QED BY <1>5, <1>6
\* What is not among the n first of the listing is among the others.
LEMMA SplitListing ==
    ASSUME Listed(listing), NEW n \in 0..Len(listing), NEW d \in ToSet(listing),
           d \notin ToSet(SubSeq(listing, 1, n))
    PROVE  d \in ToSet(After(n))
<1>1. listing \in Seq(Dirs) /\ Len(listing) \in Nat /\ ToSet(listing) = {listing[i] : i \in 1..Len(listing)}
  BY InListing
<1>2. PICK i \in 1..Len(listing) : listing[i] = d
  BY <1>1
<1>3. CASE i <= n
  <2>. DEFINE w == SubSeq(listing, 1, n)
  <2>1. \A j \in 1..n : listing[j] \in Dirs
    BY <1>1, InListing
  <2>2. /\ w \in Seq(Dirs)
        /\ Len(w) = IF 1 <= n THEN n - 1 + 1 ELSE 0
        /\ \A j \in 1..(n - 1 + 1) : w[j] = listing[1 + j - 1]
    BY <1>1, <2>1, SubSeqProperties
  <2>3. i \in 1..Len(w) /\ w[i] = d
    BY <1>1, <1>2, <1>3, <2>2
  <2>4. DOMAIN w = 1..Len(w)
    BY <2>2, LenProperties
  <2>5. d \in ToSet(w)
    BY <2>3, <2>4 DEF ToSet
  <2>. QED BY <2>5
<1>4. CASE ~(i <= n)
  <2>1. /\ After(n) \in Seq(Dirs) /\ Len(After(n)) = Len(listing) - n
        /\ \A j \in 1..(Len(listing) - n) : After(n)[j] = listing[n + j]
    BY AfterType
  <2>2. (i - n) \in 1..(Len(listing) - n) /\ n + (i - n) = i
    BY <1>1, <1>2, <1>4
  <2>3. After(n)[i - n] = d
    BY <1>2, <2>1, <2>2
  <2>4. DOMAIN After(n) = 1..(Len(listing) - n)
    BY <2>1, LenProperties
  <2>. QED BY <2>2, <2>3, <2>4 DEF ToSet
<1>. QED BY <1>3, <1>4

\* Whole books that are not among the victims fit.
LEMMA RestFits ==
    ASSUME DiskOK, NEW S \in SUBSET Keys,
           \A k \in S : /\ content[<<k, Public>>] = WholePages
                        /\ <<k, Public>> \notin ToSet(Victims)
    PROVE  IsFiniteSet(S) /\ Cardinality(S) <= Limit
<1>1. PICK n \in 0..Len(listing) : Victims = SubSeq(listing, 1, n) /\ Load(After(n)) <= Limit
  BY VictimsProperties DEF DiskOK
<1>. DEFINE T == {d \in ToSet(After(n)) : content[d] \ {"manifest"} # {}}
            f == [k \in S |-> <<k, Public>>]
<1>2. IsFiniteSet(T) /\ Cardinality(T) <= Limit /\ Cardinality(T) \in Nat
  <2>1. After(n) \in Seq(Dirs)
    BY AfterType DEF DiskOK
  <2>. QED BY <1>1, <2>1, LoadType DEF Load
<1>3. ASSUME NEW k \in S
      PROVE  <<k, Public>> \in T
  <2>1. <<k, Public>> \in Dirs /\ content[<<k, Public>>] = WholePages
    BY DEF Dirs
  <2>2. <<k, Public>> \in ToSet(listing) /\ "pages" \in content[<<k, Public>>] \ {"manifest"}
    BY <2>1 DEF DiskOK, Exists, WholePages
  <2>3. <<k, Public>> \in ToSet(After(n))
    BY <1>1, <2>2, SplitListing DEF DiskOK
  <2>. QED BY <2>2, <2>3
<1>. HIDE DEF T
<1>4. f \in Injection(S, T)
  BY <1>3 DEF Injection, IsInjective
<1>5. IsFiniteSet(S) /\ Cardinality(S) <= Cardinality(T)
  BY <1>2, <1>4, FS_Injection
<1>6. Cardinality(S) \in Nat
  BY <1>5, FS_CardinalityType
<1>. QED BY <1>2, <1>5, <1>6, LimitAssumption

LEMMA SoloLand ==
    ASSUME Base, Solo, NEW t \in Tasks, Alone(t), Land(t)
    PROVE  Solo'
<1>1. At(t, {"landed"}) /\ ~At(t, {"pruning", "deleting"}) /\ task[t] \in Opens /\ Pid(t) \in Pids
  <2>1. task[t] \in Opens
    BY ActsOfOpens DEF Proceed
  <2>. QED BY <2>1, BaseFacts DEF Land, At
<1>2. /\ \A p \in Pids : doomed[p] = <<>>
      /\ \A k \in Keys : content[<<k, Public>>] \in {{}, WholePages}
  BY <1>1, NothingPruned DEF Solo
<1>3. DiskOK /\ PruneOK /\ UNCHANGED <<content, listing, seen>>
  BY BaseFacts DEF Land
<1>4. PICK place \in {"idle", "pruning"} :
        /\ IF place = "idle" THEN Ends(t) ELSE Goes(t, place)
        /\ place = "idle" => Victims = <<>> /\ UNCHANGED doomed
        /\ place = "pruning" => doomed' = [doomed EXCEPT ![Pid(t)] = Victims]
  BY LandStep
<1>5. Same(t) /\ Made(t)' /\ ~At(t, {"deleting"})' /\ ~At(t, {"landed"})'
  <2>1. CASE place = "idle"
    BY <1>4, <2>1, EndsFacts, MadeEnds DEF Places
  <2>2. CASE place = "pruning"
    <3>1. Goes(t, "pruning") /\ "pruning" \in Places
      BY <1>4, <2>2 DEF Places
    <3>. QED BY <3>1, GoesFacts, MadeGoes DEF Goes, At
  <2>. QED BY <2>1, <2>2
<1>6. Progress'
  BY <1>3, <1>5, ProgressKept DEF Solo
<1>7. \A u \in Tasks : ~At(u, {"deleting"})' /\ ~At(u, {"landed"})'
  <2>1. ASSUME NEW u \in Tasks, u # t
        PROVE  ~At(u, {"deleting"})' /\ ~At(u, {"landed"})'
    BY <1>5, <2>1, AloneFacts, OthersSame
  <2>. QED BY <1>5, <2>1
<1>8. Published' /\ Deletions'
  BY <1>2, <1>3, <1>7 DEF Published, Deletions
<1>9. DoomedInPrune'
  <2>1. CASE place = "idle"
    BY <1>2, <1>4, <2>1 DEF DoomedInPrune
  <2>2. CASE place = "pruning"
    <3>1. At(t, {"pruning", "deleting"})' /\ Pid(t)' = Pid(t)
      BY <1>4, <2>2 DEF Goes, At, Pid
    <3>2. \A p \in Pids : p # Pid(t) => doomed'[p] = <<>>
      BY <1>2, <1>3, <1>4, <2>2 DEF PruneOK
    <3>. QED BY <3>1, <3>2 DEF DoomedInPrune
  <2>. QED BY <2>1, <2>2
<1>10. Fits'
  <2>1. \A k \in Staying' : /\ k \in Keys /\ content[<<k, Public>>] = WholePages
                            /\ <<k, Public>> \notin ToSet(Victims)
    <3>1. ASSUME NEW k \in Staying'
          PROVE  <<k, Public>> \notin ToSet(Victims)
      <4>1. CASE place = "idle"
        BY <1>4, <4>1, Empty
      <4>2. CASE place = "pruning"
        <5>1. doomed'[Pid(t)] = Victims
          BY <1>1, <1>3, <1>4, <4>2 DEF PruneOK
        <5>2. <<k, Public>> \notin ToSet(doomed'[Pid(t)])
          BY <1>1 DEF Staying
        <5>. QED BY <5>1, <5>2
      <4>. QED BY <4>1, <4>2
    <3>. QED BY <1>2, <1>3, <3>1 DEF Staying
  <2>2. Staying' \in SUBSET Keys
    BY DEF Staying
  <2>3. IsFiniteSet(Staying') /\ Cardinality(Staying') <= Limit
    BY <1>3, <2>1, <2>2, RestFits
  <2>. QED BY <2>3 DEF Fits
<1>. QED BY <1>6, <1>8, <1>9, <1>10 DEF Solo

LEMMA SoloDeleteSome ==
    ASSUME Base, Solo, NEW t \in Tasks, Alone(t), DeleteSome(t)
    PROVE  Solo'
<1>. DEFINE d == Victim(t)
            p == Pid(t)
<1>1. At(t, {"pruning"}) /\ At(t, {"pruning", "deleting"})
  BY DEF DeleteSome, At
<1>2. /\ p \in Pids /\ doomed[p] \in Seq(Dirs) /\ doomed[p] # <<>> /\ d \in Dirs
      /\ PruneOK /\ DiskOK
  BY <1>1, VictimFacts, BaseFacts
<1>3. /\ Goes(t, "deleting") /\ "deleting" \in Places
      /\ seen' = [seen EXCEPT ![p] = content[d]]
      /\ UNCHANGED doomed
  BY DeleteSomeStep DEF Places
<1>4. PICK kept \in SUBSET content[d] : Holding(d, kept)
  BY DeleteSomeStep
<1>5. /\ Same(t) /\ Pid(t)' = p /\ Victim(t)' = d /\ Made(t)'
      /\ At(t, {"deleting"})' /\ At(t, {"pruning", "deleting"})' /\ ~At(t, {"landed"})'
  <2>1. Same(t) /\ Pid(t)' = p /\ Made(t)'
    BY <1>3, GoesFacts, MadeGoes
  <2>. QED BY <1>3, <2>1 DEF Goes, At, Victim
<1>6. \A e \in Dirs : content'[e] \subseteq content[e]
  BY <1>4 DEF Holding
<1>7. Progress'
  BY <1>5, <1>6, ProgressKept DEF Solo
<1>8. ASSUME NEW u \in Tasks, u # t
      PROVE  ~At(u, {"deleting"})' /\ ~At(u, {"landed"})' /\ ~At(u, {"deleting"})
  BY <1>5, <1>8, AloneFacts, OthersSame
<1>9. Published'
  <2>1. ASSUME NEW k \in Keys, <<k, Public>> # d
        PROVE  content'[<<k, Public>>] \in {{}, WholePages}
    <3>1. ~UnderDeletion(<<k, Public>>)
      <4>1. ~At(t, {"deleting"})
        BY <1>1 DEF At
      <4>. QED BY <1>8, <4>1 DEF UnderDeletion
    <3>. QED BY <1>4, <2>1, <3>1 DEF Holding, Solo, Published, Dirs
  <2>2. ASSUME NEW k \in Keys, <<k, Public>> = d
        PROVE  UnderDeletion(<<k, Public>>)'
    <3>1. (At(t, {"deleting"}) /\ Head(doomed[Pid(t)]) = <<k, Public>>)'
      BY <1>5, <2>2 DEF Victim
    <3>. QED BY <3>1 DEF UnderDeletion
  <2>. QED BY <2>1, <2>2 DEF Published
<1>10. Deletions'
  <2>1. (content[Head(doomed[Pid(t)])] \subseteq seen[Pid(t)])'
    <3>1. content'[d] = kept /\ seen'[p] = content[d]
      BY <1>2, <1>3, <1>4 DEF Holding, PruneOK
    <3>. QED BY <1>5, <3>1 DEF Victim
  <2>. QED BY <1>8, <2>1 DEF Deletions
<1>11. DoomedInPrune'
  <2>1. ASSUME NEW q \in Pids, doomed[q] # <<>>
        PROVE  \E u \in Tasks : At(u, {"pruning", "deleting"})' /\ Pid(u)' = q
    <3>1. PICK u \in Tasks : At(u, {"pruning", "deleting"}) /\ Pid(u) = q
      BY <2>1 DEF Solo, DoomedInPrune
    <3>2. u = t
      BY <3>1, AloneFacts
    <3>. QED BY <1>5, <3>1, <3>2
  <2>. QED BY <1>3, <2>1 DEF DoomedInPrune
<1>12. Fits'
  <2>1. \A u \in Tasks : ~At(u, {"landed"})
    BY <1>1, AloneFacts DEF At
  <2>2. d \in ToSet(doomed[p])
    <3>1. 1 \in DOMAIN doomed[p] /\ doomed[p][1] = d
      BY <1>2, HeadTailProperties, LenProperties, EmptySeq DEF Victim
    <3>. QED BY <3>1 DEF ToSet
  <2>3. Staying' \in SUBSET Staying
    <3>1. ASSUME NEW k \in Staying'
          PROVE  k \in Staying
      <4>1. <<k, Public>> # d /\ <<k, Public>> \in Dirs
        BY <1>2, <1>3, <2>2 DEF Staying, Dirs
      <4>. QED BY <1>3, <1>4, <4>1 DEF Staying, Holding
    <3>. QED BY <3>1
  <2>4. IsFiniteSet(Staying) /\ Cardinality(Staying) <= Limit
    BY <2>1 DEF Solo, Fits
  <2>5. /\ IsFiniteSet(Staying') /\ Cardinality(Staying') <= Cardinality(Staying)
        /\ Cardinality(Staying') \in Nat /\ Cardinality(Staying) \in Nat
    BY <2>3, <2>4, FS_Subset, FS_CardinalityType
  <2>. QED BY <2>4, <2>5, LimitAssumption DEF Fits
<1>. QED BY <1>7, <1>9, <1>10, <1>11, <1>12 DEF Solo

LEMMA SoloDeleteRest ==
    ASSUME Base, Solo, NEW t \in Tasks, Alone(t), DeleteRest(t)
    PROVE  Solo'
<1>. DEFINE d == Victim(t)
            p == Pid(t)
            rest == Tail(doomed[p])
<1>1. At(t, {"deleting"}) /\ At(t, {"pruning", "deleting"})
  BY DEF DeleteRest, At
<1>2. /\ p \in Pids /\ doomed[p] \in Seq(Dirs) /\ doomed[p] # <<>> /\ d \in Dirs
      /\ PruneOK /\ DiskOK /\ d = Head(doomed[p])
  BY <1>1, VictimFacts, BaseFacts DEF Victim
<1>3. /\ Holding(d, content[d] \ seen[p])
      /\ doomed' = [doomed EXCEPT ![p] = rest]
      /\ IF rest = <<>> THEN Ends(t) ELSE Goes(t, "pruning")
  BY DeleteRestStep
<1>4. content[d] \subseteq seen[p]
  BY <1>1, <1>2 DEF Solo, Deletions
<1>5. content'[d] = {} /\ \A e \in Dirs \ {d} : content'[e] = content[e]
  BY <1>3, <1>4 DEF Holding
<1>6. doomed'[p] = rest /\ \A q \in Pids : q # p => doomed'[q] = doomed[q]
  BY <1>2, <1>3 DEF PruneOK
<1>7. ToSet(doomed[p]) \subseteq {d} \cup ToSet(rest)
  BY <1>2, TailProperties
<1>. HIDE DEF d
<1>8. /\ Same(t) /\ Made(t)' /\ ~At(t, {"deleting"})' /\ ~At(t, {"landed"})'
      /\ rest # <<>> => At(t, {"pruning", "deleting"})' /\ Pid(t)' = p
  <2>1. CASE rest = <<>>
    BY <1>3, <2>1, EndsFacts, MadeEnds DEF Places
  <2>2. CASE rest # <<>>
    <3>1. Goes(t, "pruning") /\ "pruning" \in Places
      BY <1>3, <2>2 DEF Places
    <3>. QED BY <3>1, GoesFacts, MadeGoes DEF Goes, At
  <2>. QED BY <2>1, <2>2
<1>. HIDE DEF rest
<1>9. Progress'
  <2>1. \A e \in Dirs : content'[e] \subseteq content[e]
    BY <1>5
  <2>. QED BY <1>8, <2>1, ProgressKept DEF Solo
<1>10. ASSUME NEW u \in Tasks
       PROVE  ~At(u, {"deleting"})' /\ ~At(u, {"landed"})' /\ (u # t => ~At(u, {"deleting"}))
  <2>1. CASE u = t
    BY <1>8, <2>1
  <2>2. CASE u # t
    BY <1>8, <2>2, AloneFacts, OthersSame
  <2>. QED BY <2>1, <2>2
<1>11. Published'
  <2>1. ASSUME NEW k \in Keys, <<k, Public>> # d
        PROVE  content'[<<k, Public>>] \in {{}, WholePages}
    <3>1. ~UnderDeletion(<<k, Public>>)
      BY <1>2, <1>10, <2>1 DEF UnderDeletion
    <3>. QED BY <1>5, <2>1, <3>1 DEF Solo, Published, Dirs
  <2>. QED BY <1>5, <2>1 DEF Published
<1>12. Deletions'
  BY <1>10 DEF Deletions
<1>13. DoomedInPrune'
  <2>1. ASSUME NEW q \in Pids, doomed'[q] # <<>>
        PROVE  \E u \in Tasks : At(u, {"pruning", "deleting"})' /\ Pid(u)' = q
    <3>1. CASE q = p
      BY <1>6, <1>8, <2>1, <3>1
    <3>2. CASE q # p
      <4>1. doomed[q] # <<>>
        BY <1>6, <2>1, <3>2
      <4>2. PICK u \in Tasks : At(u, {"pruning", "deleting"}) /\ Pid(u) = q
        BY <4>1 DEF Solo, DoomedInPrune
      <4>3. u = t
        BY <4>2, AloneFacts
      <4>. QED BY <3>2, <4>2, <4>3
    <3>. QED BY <3>1, <3>2
  <2>. QED BY <2>1 DEF DoomedInPrune
<1>14. Fits'
  <2>1. \A u \in Tasks : ~At(u, {"landed"})
    BY <1>1, AloneFacts DEF At
  <2>2. ASSUME NEW k \in Staying'
        PROVE  k \in Staying
    <3>1. <<k, Public>> \in Dirs /\ <<k, Public>> # d /\ content[<<k, Public>>] # {}
      BY <1>5 DEF Staying, Dirs
    <3>2. ASSUME NEW q \in Pids
          PROVE  <<k, Public>> \notin ToSet(doomed[q])
      <4>1. <<k, Public>> \notin ToSet(doomed'[q])
        BY DEF Staying
      <4>. QED BY <1>6, <1>7, <3>1, <4>1
    <3>. QED BY <3>1, <3>2 DEF Staying
  <2>3. Staying' \in SUBSET Staying
    BY <2>2
  <2>4. IsFiniteSet(Staying) /\ Cardinality(Staying) <= Limit
    BY <2>1 DEF Solo, Fits
  <2>5. /\ IsFiniteSet(Staying') /\ Cardinality(Staying') <= Cardinality(Staying)
        /\ Cardinality(Staying') \in Nat /\ Cardinality(Staying) \in Nat
    BY <2>3, <2>4, FS_Subset, FS_CardinalityType
  <2>. QED BY <2>4, <2>5, LimitAssumption DEF Fits
<1>. QED BY <1>9, <1>11, <1>12, <1>13, <1>14 DEF Solo

LEMMA SoloNext ==
    ASSUME Base, Solo, SoloAssumption, [Step]_vars
    PROVE  Solo'
<1>1. CASE Step
  <2>1. PICK t \in Tasks : \/ \E k \in Keys, p \in Pids : Open(t, k, p)
                           \/ ImagesFetched(t) \/ Proceed(t)
    BY <1>1 DEF Step
  <2>2. CASE \E k \in Keys, p \in Pids : Open(t, k, p)
    BY <2>2, SoloOpen
  <2>3. CASE ImagesFetched(t) \/ Proceed(t)
    <3>1. Alone(t)
      BY <2>3, ActsAlone
    <3>. QED BY <2>3, <3>1, SoloBuilding, SoloPublishing, SoloLand, SoloDeleteSome, SoloDeleteRest
         DEF Proceed
  <2>. QED BY <2>1, <2>2, <2>3
<1>2. CASE UNCHANGED vars
  BY <1>2 DEF vars, diskVars, pruneVars, Solo, Progress, Made, Published, UnderDeletion, Deletions,
     DoomedInPrune, Fits, Staying, At, Book, Pid, Build
<1>. QED BY <1>1, <1>2

LEMMA SoloInit == Init => Solo
<1>. SUFFICES ASSUME Init PROVE Solo
  OBVIOUS
<1>1. \A t \in Tasks, places \in SUBSET Places : ~At(t, places)
  BY DEF Init, At, Idle, Places
<1>2. Progress /\ Deletions
  BY <1>1 DEF Progress, Made, Deletions, Places
<1>3. Published /\ DoomedInPrune
  BY DEF Init, Published, DoomedInPrune, Dirs
<1>4. Staying = {}
  BY DEF Init, Staying, Dirs
<1>5. Fits
  BY <1>4, FS_EmptySet, LimitAssumption DEF Fits
<1>. QED BY <1>2, <1>3, <1>5 DEF Solo

LEMMA SoloQuiescent ==
    ASSUME Base, Solo, SoloAssumption
    PROVE  NoHalfBook /\ CacheFits
<1>. SUFFICES ASSUME Quiescent
              PROVE  /\ \A k \in Keys : Shelved(k) => "pages" \in content[<<k, Public>>]
                     /\ Cardinality({k \in Keys : content[<<k, Public>>] # {}}) <= Limit
  BY DEF NoHalfBook, CacheFits
<1>1. \A t \in Tasks : ~At(t, Running)
  BY RunningHolds DEF Quiescent
<1>2. \A t \in Tasks : ~At(t, {"pruning", "deleting"}) /\ ~At(t, {"deleting"}) /\ ~At(t, {"landed"})
  BY <1>1 DEF At, Running, Held
<1>3. \A p \in Pids : doomed[p] = <<>>
  BY <1>2 DEF Solo, DoomedInPrune
<1>4. \A k \in Keys : content[<<k, Public>>] \in {{}, WholePages}
  BY <1>2 DEF Solo, Published, UnderDeletion
<1>5. Staying = {k \in Keys : content[<<k, Public>>] # {}}
  BY <1>3, Empty DEF Staying
<1>6. Cardinality(Staying) <= Limit
  BY <1>2 DEF Solo, Fits
<1>. QED BY <1>4, <1>5, <1>6 DEF Shelved, WholePages

\* With one process and no comics, whenever a request can run a book with a manifest has its
\* chapters ("so a reader never sees a half-written book"): neither the build nor the pruning
\* is ever seen half-way.
THEOREM ReadersSeeWholeBooks == SoloAssumption => (SteadySpec => []NoHalfBook)
<1>. SUFFICES ASSUME SoloAssumption PROVE SteadySpec => []NoHalfBook
  OBVIOUS
<1>1. Base /\ Solo /\ [Step]_vars => Base' /\ Solo'
  BY BaseNext, SoloNext DEF Acts
<1>2. Base /\ Solo => NoHalfBook
  BY SoloQuiescent
<1>. QED BY <1>1, <1>2, BaseInit, SoloInit, PTL DEF SteadySpec

\* With one process and no comics, the published books fit the ceiling of prune_reader_cache
\* whenever a request can run, whatever was building, and counted, when the pruning looked.
THEOREM CacheStaysUnderCeiling == SoloAssumption => (SteadySpec => []CacheFits)
<1>. SUFFICES ASSUME SoloAssumption PROVE SteadySpec => []CacheFits
  OBVIOUS
<1>1. Base /\ Solo /\ [Step]_vars => Base' /\ Solo'
  BY BaseNext, SoloNext DEF Acts
<1>2. Base /\ Solo => CacheFits
  BY SoloQuiescent
<1>. QED BY <1>1, <1>2, BaseInit, SoloInit, PTL DEF SteadySpec

=============================================================================
