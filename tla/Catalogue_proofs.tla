-------------------------- MODULE Catalogue_proofs --------------------------
(***************************************************************************)
(* Proofs about browsing the libraries, for any number of pages, links,    *)
(* libraries and requests: the feed cache implements Mirror, the walk of   *)
(* /random misses no book, and a page shows what its entries offer, for    *)
(* any links and rows.                                                     *)
(*                                                                         *)
(* A copy is as good as the moment its fetch began: Had(p, e, t) says that *)
(* the library still had edition e of page p at t or later.  What the walk *)
(* has left behind is closed: pages that lead nowhere but to pages seen or *)
(* on the frontier.                                                        *)
(***************************************************************************)
EXTENDS Catalogue, FiniteSetTheorems, SequenceTheorems, WellFoundedInduction, TLAPS

Had(p, e, t) ==
    /\ e \in 0..edition[p]
    /\ e = edition[p] \/ replaced[p][e + 1] >= t

UpstreamTyped ==
    /\ now \in Nat
    /\ edition \in [Pages -> Nat]
    /\ replaced \in [Pages -> Seq(Nat)]
    /\ \A p \in Pages : Len(replaced[p]) = edition[p]

\* A copy of the cache.
Copied(k) ==
    /\ k \in Links
    /\ cache[k].at \in 0..now
    /\ Had(PageOf[k], cache[k].edition, cache[k].at - LongestFetch)

CacheKept ==
    /\ IsFiniteSet(DOMAIN cache) /\ Cardinality(DOMAIN cache) <= MaxEntries
    /\ \A k \in DOMAIN cache : Copied(k)

\* What a request can be doing.
Fetches == [kind : {"feed"}, link : Links, since : Nat, got : {NotYet} \cup Nat]
Bags(S) == UNION {[T -> Nat \ {0}] : T \in SUBSET S}
WalkTask ==
    [kind : {"walk"}, tried : BoundedSeq(Libraries, 2), budget : 0..Budget,
     frontier : Bags(Pages), visited : SUBSET Pages, page : Pages \cup {NoPage},
     whole : BOOLEAN]
Tasks == {Idle} \cup Fetches \cup GatherTask \cup WalkTask

TasksTyped ==
    /\ request \in [Requests -> Tasks]
    /\ templates \in [Libraries -> {Unasked, Absent, Known}]

Fetched(w) ==
    /\ w.since <= now /\ now <= w.since + LongestFetch
    /\ w.got # NotYet => Had(PageOf[w.link], w.got, w.since)

FetchesKept == \A r \in Requests : request[r] \in Fetches => Fetched(request[r])

\* Nothing that the walk has left behind has a book or leads anywhere new.
Behind(w) == w.visited \ {w.page}
Met(w) == w.visited \cup DOMAIN w.frontier
LeftNone(w) ==
    /\ \A l \in ToSet(w.tried) : Root[l] \in Met(w)
    /\ Behind(w) \cap WithBooks = {}
    /\ \A q \in Behind(w) : ToSet(Leads[q]) \subseteq Met(w)

WalksKept == \A r \in Requests : request[r] \in WalkTask /\ request[r].whole => LeftNone(request[r])

Inv == UpstreamTyped /\ TasksTyped /\ CacheKept /\ FetchesKept /\ WalksKept

----------------------------------------------------------------------------
LEMMA Constants ==
    /\ PageOf \in [Links -> Pages] /\ Root \in [Libraries -> Pages]
    /\ Leads \in [Pages -> Seq(Pages)] /\ WithBooks \subseteq Pages
    /\ Ttl \in Nat /\ LongestFetch \in Nat /\ MaxNow \in Nat
    /\ MaxEdition \in [Pages -> Nat]
    /\ MaxEntries \in Nat \ {0} /\ Budget \in Nat \ {0}
    /\ NoPage \notin Pages
BY CatalogueAssumption

LEMMA Kinds ==
    ASSUME NEW w \in Tasks
    PROVE  /\ w.kind = "feed" <=> w \in Fetches
           /\ w.kind \in {"search", "status"} <=> w \in GatherTask
           /\ w.kind = "walk" <=> w \in WalkTask
           /\ w = Idle \/ w.kind # "idle"
<1>1. CASE w = Idle
  BY <1>1 DEF Idle, Fetches, GatherTask, WalkTask
<1>2. CASE w \in Fetches
  BY <1>2 DEF Idle, Fetches, GatherTask, WalkTask
<1>3. CASE w \in GatherTask
  BY <1>3 DEF Idle, Fetches, GatherTask, WalkTask
<1>4. CASE w \in WalkTask
  BY <1>4 DEF Idle, Fetches, GatherTask, WalkTask
<1>. QED BY <1>1, <1>2, <1>3, <1>4 DEF Tasks

\* Of what a request does next.
LEMMA BecomeTyped ==
    ASSUME TasksTyped, NEW r \in Requests, NEW t \in Tasks,
           request' = [request EXCEPT ![r] = t]
    PROVE  /\ request' \in [Requests -> Tasks] /\ request'[r] = t
           /\ \A q \in Requests \ {r} : request'[q] = request[q]
BY DEF TasksTyped

\* Other requests are not disturbed while the libraries and the clock stand still.
LEMMA OthersKept ==
    ASSUME TasksTyped, FetchesKept, WalksKept, UNCHANGED upstream,
           NEW r \in Requests, NEW t \in Tasks, request' = [request EXCEPT ![r] = t],
           t \in Fetches => Fetched(t),
           t \in WalkTask /\ t.whole => LeftNone(t)
    PROVE  FetchesKept' /\ WalksKept'
<1>1. request'[r] = t /\ \A q \in Requests \ {r} : request'[q] = request[q]
  BY BecomeTyped
<1>2. FetchesKept'
  <2>. SUFFICES ASSUME NEW q \in Requests, request'[q] \in Fetches
                PROVE  Fetched(request[q])'
    BY DEF FetchesKept
  <2>1. Fetched(request'[q])
    BY <1>1 DEF FetchesKept
  <2>2. /\ request'[q].since <= now' /\ now' <= request'[q].since + LongestFetch
        /\ request'[q].got # NotYet => request'[q].got \in 0..edition'[PageOf[request'[q].link]]
    BY <2>1 DEF Fetched, Had, upstream
  <2>3. request'[q].got # NotYet =>
            \/ request'[q].got = edition'[PageOf[request'[q].link]]
            \/ replaced'[PageOf[request'[q].link]][request'[q].got + 1] >= request'[q].since
    BY <2>1 DEF Fetched, Had, upstream
  <2>. QED BY <2>2, <2>3 DEF Fetched, Had
<1>3. WalksKept'
  BY <1>1 DEF WalksKept, LeftNone, Met, Behind
<1>. QED BY <1>2, <1>3

LEMMA CacheUntouched ==
    ASSUME CacheKept, UNCHANGED <<upstream, cache>>
    PROVE  CacheKept'
BY DEF CacheKept, Copied, Had, upstream

LEMMA UpstreamUntouched ==
    ASSUME UpstreamTyped, UNCHANGED upstream
    PROVE  UpstreamTyped'
BY DEF UpstreamTyped, upstream

\* A step of a request that touches neither the libraries nor the cache.
LEMMA RequestStep ==
    ASSUME Inv, UNCHANGED <<upstream, cache>>, NEW r \in Requests, NEW t \in Tasks,
           request' = [request EXCEPT ![r] = t],
           t \in Fetches => Fetched(t),
           t \in WalkTask /\ t.whole => LeftNone(t),
           templates' \in [Libraries -> {Unasked, Absent, Known}]
    PROVE  Inv'
<1>1. TasksTyped'
  BY BecomeTyped DEF Inv, TasksTyped
<1>. QED BY <1>1, OthersKept, CacheUntouched, UpstreamUntouched DEF Inv

LEMMA Ending ==
    ASSUME Inv, UNCHANGED <<upstream, cache, templates>>, NEW r \in Requests, Done(r)
    PROVE  Inv'
<1>1. Idle \in Tasks /\ Idle \notin Fetches /\ Idle \notin WalkTask
  BY DEF Tasks, Idle, Fetches, WalkTask
<1>2. request' = [request EXCEPT ![r] = Idle]
  BY DEF Done, Become
<1>3. templates' \in [Libraries -> {Unasked, Absent, Known}]
  BY DEF Inv, TasksTyped
<1>. QED BY <1>1, <1>2, <1>3, RequestStep

----------------------------------------------------------------------------
(* The clock and the libraries.                                            *)

LEMMA TickStep ==
    ASSUME Inv, Tick
    PROVE  Inv' /\ Kept!Tick
<1>1. /\ now \in Nat /\ now' = now + 1
      /\ UNCHANGED <<edition, replaced, shown, cache, templates, request>>
  BY DEF Tick, Inv, UpstreamTyped
<1>2. UpstreamTyped' /\ TasksTyped' /\ WalksKept'
  BY <1>1 DEF Inv, UpstreamTyped, TasksTyped, WalksKept, LeftNone, Met, Behind
<1>3. CacheKept'
  BY <1>1 DEF Inv, CacheKept, Copied, Had
<1>4. FetchesKept'
  <2>. SUFFICES ASSUME NEW r \in Requests, request[r] \in Fetches
                PROVE  Fetched(request[r])'
    BY <1>1 DEF FetchesKept
  <2>1. request[r].since \in Nat /\ request[r].kind = "feed"
    BY DEF Fetches
  <2>2. now < request[r].since + LongestFetch
    BY <2>1 DEF Tick, Is
  <2>3. Fetched(request[r])
    BY DEF Inv, FetchesKept
  <2>. QED BY <1>1, <2>1, <2>2, <2>3, Constants DEF Fetched, Had
<1>5. Kept!Tick
  BY <1>1 DEF Kept!Tick
<1>. QED BY <1>2, <1>3, <1>4, <1>5 DEF Inv

\* What was current may now be replaced, but not before now.
LEMMA HadAfterPublish ==
    ASSUME UpstreamTyped, NEW p \in Pages, Publish(p), NEW q \in Pages, NEW e, NEW t \in Int,
           Had(q, e, t), t <= now
    PROVE  Had(q, e, t)'
<1>1. /\ edition' = [edition EXCEPT ![p] = @ + 1]
      /\ replaced' = [replaced EXCEPT ![p] = Append(@, now)]
      /\ now \in Nat /\ edition \in [Pages -> Nat] /\ replaced \in [Pages -> Seq(Nat)]
      /\ Len(replaced[p]) = edition[p]
  BY DEF Publish, UpstreamTyped
<1>2. e \in 0..edition[q] /\ edition[q] \in Nat
  BY <1>1 DEF Had
<1>3. CASE q # p
  BY <1>1, <1>3 DEF Had
<1>4. CASE q = p
  <2>1. /\ edition'[q] = edition[q] + 1
        /\ replaced'[q] = Append(replaced[q], now)
        /\ replaced[q] \in Seq(Nat)
    BY <1>1, <1>4
  <2>2. /\ \A i \in 1..edition[q] : replaced'[q][i] = replaced[q][i]
        /\ replaced'[q][edition[q] + 1] = now
    BY <1>1, <1>4, <2>1, AppendProperties
  <2>3. e \in 0..edition'[q]
    BY <1>2, <2>1
  <2>4. CASE e = edition[q]
    BY <1>1, <2>2, <2>3, <2>4 DEF Had
  <2>5. CASE e # edition[q]
    <3>1. e + 1 \in 1..edition[q]
      BY <1>2, <2>5
    <3>. QED BY <2>2, <2>3, <2>5, <3>1 DEF Had
  <2>. QED BY <2>4, <2>5
<1>. QED BY <1>3, <1>4

LEMMA PublishStep ==
    ASSUME Inv, NEW p \in Pages, Publish(p)
    PROVE  Inv' /\ Kept!Publish(p)
<1>1. /\ edition' = [edition EXCEPT ![p] = @ + 1]
      /\ replaced' = [replaced EXCEPT ![p] = Append(@, now)]
      /\ UNCHANGED <<now, shown, cache, templates, request>>
  BY DEF Publish
<1>2. UpstreamTyped'
  <2>1. /\ now \in Nat /\ edition \in [Pages -> Nat] /\ replaced \in [Pages -> Seq(Nat)]
        /\ \A q \in Pages : Len(replaced[q]) = edition[q]
    BY DEF Inv, UpstreamTyped
  <2>2. Append(replaced[p], now) \in Seq(Nat) /\ Len(Append(replaced[p], now)) = edition[p] + 1
    BY <2>1, AppendProperties
  <2>. QED BY <1>1, <2>1, <2>2 DEF UpstreamTyped
<1>3. TasksTyped' /\ WalksKept'
  BY <1>1 DEF Inv, TasksTyped, WalksKept, LeftNone, Met, Behind
<1>4. CacheKept'
  <2>. SUFFICES ASSUME NEW k \in DOMAIN cache
                PROVE  Copied(k)'
    BY <1>1 DEF Inv, CacheKept
  <2>1. Copied(k) /\ k \in Links /\ cache[k].at \in 0..now /\ now \in Nat
    BY DEF Inv, CacheKept, Copied, UpstreamTyped
  <2>2. PageOf[k] \in Pages /\ cache[k].at - LongestFetch \in Int
        /\ cache[k].at - LongestFetch <= now
    BY <2>1, Constants
  <2>3. Had(PageOf[k], cache[k].edition, cache[k].at - LongestFetch)'
    <3>1. Had(PageOf[k], cache[k].edition, cache[k].at - LongestFetch)
      BY <2>1 DEF Copied
    <3>2. \A q, e, t : cache' = cache => (Had(q, e, t)' <=> Had(q, e, t)')
      OBVIOUS
    <3>. QED BY <1>1, <2>2, <3>1, HadAfterPublish DEF Inv, Had
  <2>. QED BY <1>1, <2>1, <2>3 DEF Copied
<1>5. FetchesKept'
  <2>. SUFFICES ASSUME NEW r \in Requests, request[r] \in Fetches
                PROVE  Fetched(request[r])'
    BY <1>1 DEF FetchesKept
  <2>. DEFINE w == request[r]
  <2>1. /\ w.since \in Nat /\ PageOf[w.link] \in Pages /\ Fetched(w)
        /\ w' = w
    BY <1>1, Constants DEF Fetches, Inv, FetchesKept
  <2>2. w.got # NotYet =>
            /\ w.got \in 0..edition'[PageOf[w.link]]
            /\ \/ w.got = edition'[PageOf[w.link]]
               \/ replaced'[PageOf[w.link]][w.got + 1] >= w.since
    <3>. SUFFICES ASSUME w.got # NotYet
                  PROVE  Had(PageOf[w.link], w.got, w.since)'
      BY <2>1 DEF Had
    <3>1. Had(PageOf[w.link], w.got, w.since) /\ w.since <= now
      BY <2>1 DEF Fetched
    <3>. QED BY <2>1, <3>1, HadAfterPublish DEF Inv
  <2>. QED BY <1>1, <2>1, <2>2 DEF Fetched, Had
<1>6. Kept!Publish(p)
  BY <1>1 DEF Kept!Publish
<1>. QED BY <1>2, <1>3, <1>4, <1>5, <1>6 DEF Inv
----------------------------------------------------------------------------
(* Feed pages.                                                             *)

\* Of a copy that was the library's own at t.
LEMMA HadType ==
    ASSUME UpstreamTyped, NEW p \in Pages, NEW e, NEW t \in Int, Had(p, e, t)
    PROVE  /\ e \in 0..edition[p] /\ e \in Nat /\ edition[p] \in Nat
           /\ e = edition[p] \/ (replaced[p][e + 1] \in Nat /\ replaced[p][e + 1] >= t)
<1>1. edition[p] \in Nat /\ replaced[p] \in Seq(Nat) /\ Len(replaced[p]) = edition[p]
  BY DEF UpstreamTyped
<1>2. e \in 0..edition[p] /\ e \in Nat
  BY <1>1 DEF Had
<1>3. e # edition[p] => e + 1 \in 1..Len(replaced[p])
  BY <1>1, <1>2
<1>. QED BY <1>1, <1>2, <1>3, ElementOfSeq DEF Had

LEMMA HadEarlier ==
    ASSUME UpstreamTyped, NEW p \in Pages, NEW e, NEW t \in Int, NEW s \in Int,
           Had(p, e, t), s <= t
    PROVE  Had(p, e, s)
<1>1. e = edition[p] \/ (replaced[p][e + 1] \in Nat /\ replaced[p][e + 1] >= t)
  BY HadType
<1>2. e = edition[p] \/ replaced[p][e + 1] >= s
  BY <1>1
<1>. QED BY <1>2 DEF Had

LEMMA ShownInTime ==
    ASSUME UpstreamTyped, NEW p \in Pages, NEW e, NEW t \in Int, Had(p, e, t),
           now <= t + Ttl + LongestFetch, shown' = <<p, e, now>>, UNCHANGED upstream
    PROVE  Kept!Show(p, e) /\ e \in 0..edition[p]
<1>1. e \in 0..edition[p] /\ now \in Nat
  BY HadType DEF UpstreamTyped
<1>2. e = edition[p] \/ (replaced[p][e + 1] \in Nat /\ replaced[p][e + 1] >= t)
  BY HadType
<1>3. e = edition[p] \/ replaced[p][e + 1] + (Ttl + LongestFetch) >= now
  BY <1>1, <1>2, Constants
<1>. QED BY <1>1, <1>3 DEF Kept!Show, Kept!Recent, upstream

\* One copy more never makes the cache larger than it may be.
LEMMA PutKept ==
    ASSUME UpstreamTyped, CacheKept, UNCHANGED upstream, NEW k \in Links, NEW e,
           Had(PageOf[k], e, now - LongestFetch), Put(k, e)
    PROVE  CacheKept'
<1>1. CASE cache' = cache
  BY <1>1, CacheUntouched
<1>2. CASE \E rest \in Room : cache' = WithCopy(rest, k, [at |-> now, edition |-> e])
  <2>1. PICK rest \in Room : cache' = WithCopy(rest, k, [at |-> now, edition |-> e])
    BY <1>2
  <2>2. /\ DOMAIN rest \subseteq DOMAIN cache
        /\ \A j \in DOMAIN rest : rest[j] = cache[j]
        /\ IsFiniteSet(DOMAIN rest)
        /\ Cardinality(DOMAIN rest) + 1 <= MaxEntries
    <3>1. CASE Cardinality(DOMAIN cache) >= MaxEntries
      <4>1. PICK old \in DOMAIN cache : rest = Drop(old)
        BY <2>1, <3>1 DEF Room, Oldest
      <4>2. /\ DOMAIN rest = DOMAIN cache \ {old}
            /\ \A j \in DOMAIN rest : rest[j] = cache[j]
        BY <4>1 DEF Drop, Restrict
      <4>3. /\ IsFiniteSet(DOMAIN rest)
            /\ Cardinality(DOMAIN rest) = Cardinality(DOMAIN cache) - 1
        BY <4>2, FS_RemoveElement DEF CacheKept
      <4>4. Cardinality(DOMAIN cache) \in Nat /\ Cardinality(DOMAIN cache) <= MaxEntries
        BY FS_CardinalityType DEF CacheKept
      <4>. QED BY <4>2, <4>3, <4>4, Constants
    <3>2. CASE ~(Cardinality(DOMAIN cache) >= MaxEntries)
      <4>1. rest = cache
        BY <2>1, <3>2 DEF Room
      <4>2. Cardinality(DOMAIN cache) \in Nat /\ IsFiniteSet(DOMAIN cache)
        BY FS_CardinalityType DEF CacheKept
      <4>. QED BY <3>2, <4>1, <4>2, Constants
    <3>. QED BY <3>1, <3>2
  <2>3. /\ DOMAIN cache' = DOMAIN rest \cup {k}
        /\ cache'[k] = [at |-> now, edition |-> e]
        /\ \A j \in DOMAIN rest : j # k => cache'[j] = cache[j]
    BY <2>1, <2>2 DEF WithCopy
  <2>4. /\ IsFiniteSet(DOMAIN cache')
        /\ Cardinality(DOMAIN cache') <= MaxEntries
    <3>1. /\ IsFiniteSet(DOMAIN rest \cup {k})
          /\ \/ Cardinality(DOMAIN rest \cup {k}) = Cardinality(DOMAIN rest)
             \/ Cardinality(DOMAIN rest \cup {k}) = Cardinality(DOMAIN rest) + 1
      BY <2>2, FS_AddElement
    <3>2. Cardinality(DOMAIN rest) \in Nat
      BY <2>2, FS_CardinalityType
    <3>. QED BY <2>2, <2>3, <3>1, <3>2, Constants
  <2>5. ASSUME NEW j \in DOMAIN cache'
        PROVE  Copied(j)'
    <3>1. CASE j = k
      BY <2>3, <3>1 DEF Copied, Had, upstream, UpstreamTyped
    <3>2. CASE j # k
      <4>1. j \in DOMAIN cache /\ cache'[j] = cache[j]
        BY <2>2, <2>3, <3>2
      <4>2. Copied(j)
        BY <4>1 DEF CacheKept
      <4>. QED BY <4>1, <4>2 DEF Copied, Had, upstream
    <3>. QED BY <3>1, <3>2
  <2>. QED BY <2>4, <2>5 DEF CacheKept
<1>. QED BY <1>1, <1>2 DEF Put

LEMMA HitStep ==
    ASSUME Inv, NEW r \in Requests, NEW k \in Links, Hit(r, k)
    PROVE  Inv' /\ \E p \in Pages : \E e \in 0..edition[p] : Kept!Show(p, e)
<1>1. /\ k \in DOMAIN cache /\ ~Stale(k)
      /\ shown' = <<PageOf[k], cache[k].edition, now>>
      /\ UNCHANGED <<upstream, cache, templates, request>>
  BY DEF Hit
<1>2. /\ PageOf[k] \in Pages /\ cache[k].at \in Int
      /\ Had(PageOf[k], cache[k].edition, cache[k].at - LongestFetch)
      /\ UpstreamTyped /\ now \in Nat
  BY <1>1, Constants DEF Inv, CacheKept, Copied, UpstreamTyped
<1>3. now <= (cache[k].at - LongestFetch) + Ttl + LongestFetch
  BY <1>1, <1>2, Constants DEF Stale
<1>4. cache[k].at - LongestFetch \in Int
  BY <1>2, Constants
<1>5. Kept!Show(PageOf[k], cache[k].edition) /\ cache[k].edition \in 0..edition[PageOf[k]]
  BY <1>1, <1>2, <1>3, <1>4, ShownInTime
<1>6. Inv'
  <2>1. TasksTyped' /\ FetchesKept' /\ WalksKept'
    BY <1>1 DEF Inv, TasksTyped, FetchesKept, Fetched, Had, WalksKept, LeftNone, Met, Behind,
                upstream
  <2>. QED BY <1>1, <2>1, CacheUntouched, UpstreamUntouched DEF Inv
<1>. QED BY <1>2, <1>5, <1>6

LEMMA MissStep ==
    ASSUME Inv, NEW r \in Requests, NEW k \in Links, Miss(r, k)
    PROVE  Inv' /\ UNCHANGED <<upstream, shown>>
<1>. DEFINE t == [kind |-> "feed", link |-> k, since |-> now, got |-> NotYet]
<1>1. /\ cache' = Drop(k) /\ request' = [request EXCEPT ![r] = t]
      /\ UNCHANGED <<upstream, shown, templates>>
      /\ now \in Nat
  BY DEF Miss, Become, Inv, UpstreamTyped
<1>2. t \in Fetches /\ t \in Tasks /\ t \notin WalkTask
  BY <1>1 DEF Fetches, Tasks, WalkTask
<1>3. Fetched(t)
  BY <1>1, Constants DEF Fetched
<1>. HIDE DEF t
<1>4. TasksTyped' /\ FetchesKept' /\ WalksKept'
  BY <1>1, <1>2, <1>3, OthersKept, BecomeTyped DEF Inv, TasksTyped
<1>5. CacheKept'
  <2>1. /\ DOMAIN cache' = DOMAIN cache \ {k}
        /\ \A j \in DOMAIN cache' : cache'[j] = cache[j]
    BY <1>1 DEF Drop, Restrict
  <2>2. /\ IsFiniteSet(DOMAIN cache')
        /\ Cardinality(DOMAIN cache') <= MaxEntries
    <3>1. IsFiniteSet(DOMAIN cache) /\ Cardinality(DOMAIN cache) <= MaxEntries
      BY DEF Inv, CacheKept
    <3>2. /\ IsFiniteSet(DOMAIN cache')
          /\ Cardinality(DOMAIN cache') <= Cardinality(DOMAIN cache)
      BY <2>1, <3>1, FS_Subset
    <3>3. Cardinality(DOMAIN cache) \in Nat /\ Cardinality(DOMAIN cache') \in Nat
      BY <3>1, <3>2, FS_CardinalityType
    <3>. QED BY <3>1, <3>2, <3>3, Constants
  <2>3. \A j \in DOMAIN cache' : Copied(j)'
    BY <1>1, <2>1 DEF Inv, CacheKept, Copied, Had, upstream
  <2>. QED BY <2>2, <2>3 DEF CacheKept
<1>. QED BY <1>1, <1>4, <1>5, UpstreamUntouched DEF Inv

LEMMA SentStep ==
    ASSUME Inv, NEW r \in Requests, Sent(r)
    PROVE  Inv' /\ UNCHANGED <<upstream, shown>>
<1>. DEFINE w == request[r]
            e == edition[PageOf[w.link]]
            t == [w EXCEPT !.got = e]
<1>1. /\ request' = [request EXCEPT ![r] = t]
      /\ UNCHANGED <<upstream, shown, cache, templates>>
  BY DEF Sent, Become
<1>2. w \in Fetches /\ Fetched(w)
  BY Kinds DEF Inv, TasksTyped, FetchesKept, Sent, Is
<1>3. /\ PageOf[w.link] \in Pages /\ e \in Nat
      /\ w.since \in Nat
  BY <1>2, Constants DEF Fetches, Inv, UpstreamTyped
<1>4. /\ t \in Fetches /\ t.since = w.since /\ t.got = e /\ t.link = w.link
  BY <1>2, <1>3 DEF Fetches
<1>. HIDE DEF t
<1>5. t \in Tasks /\ t \notin WalkTask
  BY <1>4 DEF Fetches, Tasks, WalkTask
<1>6. Fetched(t)
  BY <1>2, <1>3, <1>4 DEF Fetched, Had
<1>7. templates' \in [Libraries -> {Unasked, Absent, Known}]
  BY <1>1 DEF Inv, TasksTyped
<1>. QED BY <1>1, <1>5, <1>6, <1>7, RequestStep

LEMMA ReceivedStep ==
    ASSUME Inv, NEW r \in Requests, Received(r)
    PROVE  /\ Inv'
           /\ \/ \E p \in Pages : \E e \in 0..edition[p] : Kept!Show(p, e)
              \/ UNCHANGED <<upstream, shown>>
<1>. DEFINE k == request[r].link
            e == request[r].got
<1>1. /\ Is(r, "feed") /\ e # NotYet
      /\ Put(k, e)
      /\ shown' = <<PageOf[k], e, now>> \/ UNCHANGED shown
      /\ Done(r)
      /\ UNCHANGED <<upstream, templates>>
  BY DEF Received
<1>2. request[r] \in Fetches /\ Fetched(request[r])
  BY <1>1, Kinds DEF Inv, TasksTyped, FetchesKept, Is
<1>3. /\ k \in Links /\ PageOf[k] \in Pages /\ request[r].since \in Nat /\ now \in Nat
      /\ UpstreamTyped
      /\ Had(PageOf[k], e, request[r].since) /\ now <= request[r].since + LongestFetch
  BY <1>1, <1>2, Constants DEF Fetches, Inv, UpstreamTyped, Fetched
<1>. HIDE DEF k, e
<1>4. Had(PageOf[k], e, now - LongestFetch)
  <2>1. now - LongestFetch \in Int /\ now - LongestFetch <= request[r].since
    BY <1>3, Constants
  <2>. QED BY <1>3, <2>1, HadEarlier
<1>5. CacheKept' /\ UpstreamTyped'
  BY <1>1, <1>3, <1>4, PutKept, UpstreamUntouched DEF Inv
<1>6. TasksTyped' /\ FetchesKept' /\ WalksKept'
  <2>1. Idle \in Tasks /\ Idle \notin Fetches /\ Idle \notin WalkTask
    BY DEF Tasks, Idle, Fetches, WalkTask
  <2>2. request' = [request EXCEPT ![r] = Idle]
    BY <1>1 DEF Done, Become
  <2>. QED BY <1>1, <2>1, <2>2, OthersKept, BecomeTyped DEF Inv, TasksTyped
<1>7. CASE shown' = <<PageOf[k], e, now>>
  <2>1. now <= request[r].since + Ttl + LongestFetch
    BY <1>3, Constants
  <2>2. Kept!Show(PageOf[k], e) /\ e \in 0..edition[PageOf[k]]
    BY <1>1, <1>3, <1>7, <2>1, ShownInTime
  <2>. QED BY <1>3, <1>5, <1>6, <2>2 DEF Inv
<1>8. CASE UNCHANGED shown
  BY <1>1, <1>5, <1>6, <1>8 DEF Inv
<1>. QED BY <1>1, <1>7, <1>8

LEMMA FeedFailsStep ==
    ASSUME Inv, NEW r \in Requests, FeedFails(r)
    PROVE  Inv' /\ UNCHANGED <<upstream, shown>>
BY Ending DEF FeedFails
----------------------------------------------------------------------------
(* Search and status.                                                      *)

LEMMA GotoStep ==
    ASSUME Inv, UNCHANGED <<upstream, cache>>, NEW r \in Requests, Gathers(r),
           NEW l \in DOMAIN request[r].at, NEW stage \in Stages, Goto(r, l, stage),
           templates' \in [Libraries -> {Unasked, Absent, Known}]
    PROVE  Inv'
<1>. DEFINE w == request[r]
            t == [w EXCEPT !.at[l] = stage]
<1>1. w \in GatherTask
  BY Kinds DEF Inv, TasksTyped, Gathers
<1>2. PICK libs \in SUBSET Libraries : w.at \in [libs -> Stages]
  BY <1>1 DEF GatherTask
<1>3. t = [w EXCEPT !.at = [w.at EXCEPT ![l] = stage]]
  BY <1>1 DEF GatherTask
<1>4. [w.at EXCEPT ![l] = stage] \in [libs -> Stages]
  BY <1>2
<1>5. t \in GatherTask
  BY <1>1, <1>3, <1>4 DEF GatherTask
<1>6. request' = [request EXCEPT ![r] = t]
  BY DEF Goto
<1>. HIDE DEF t
<1>7. t \in Tasks /\ t \notin Fetches /\ t \notin WalkTask
  BY <1>5 DEF Tasks, GatherTask, Fetches, WalkTask
<1>. QED BY <1>6, <1>7, RequestStep

LEMMA StartGather ==
    ASSUME Inv, UNCHANGED <<upstream, cache, templates>>, NEW r \in Requests,
           NEW kind \in {"search", "status"}, NEW libs \in SUBSET Libraries,
           NEW at \in [libs -> Stages], Become(r, [kind |-> kind, at |-> at])
    PROVE  Inv'
<1>. DEFINE t == [kind |-> kind, at |-> at]
<1>1. t \in GatherTask
  BY DEF GatherTask
<1>2. request' = [request EXCEPT ![r] = t]
  BY DEF Become
<1>. HIDE DEF t
<1>3. t \in Tasks /\ t \notin Fetches /\ t \notin WalkTask
  BY <1>1 DEF Tasks, GatherTask, Fetches, WalkTask
<1>4. templates' \in [Libraries -> {Unasked, Absent, Known}]
  BY DEF Inv, TasksTyped
<1>. QED BY <1>2, <1>3, <1>4, RequestStep

LEMMA SearchStep ==
    ASSUME Inv, NEW r \in Requests, Search(r)
    PROVE  Inv' /\ UNCHANGED <<upstream, shown>>
<1>1. ASSUME NEW libs \in SUBSET Libraries, StartSearch(r, libs)
      PROVE  Inv' /\ UNCHANGED <<upstream, shown>>
  <2>. DEFINE at == [l \in libs |-> IF templates[l] = Unasked THEN "root" ELSE "query"]
  <2>1. at \in [libs -> Stages]
    BY DEF Stages
  <2>2. /\ Become(r, [kind |-> "search", at |-> at])
        /\ UNCHANGED <<upstream, shown, cache, templates>>
    BY <1>1 DEF StartSearch
  <2>. HIDE DEF at
  <2>. QED BY <2>1, <2>2, StartGather
<1>2. CASE StartStatus(r)
  <2>. DEFINE at == [l \in Libraries |-> "query"]
  <2>1. at \in [Libraries -> Stages]
    BY DEF Stages
  <2>2. /\ Become(r, [kind |-> "status", at |-> at])
        /\ UNCHANGED <<upstream, shown, cache, templates>>
    BY <1>2 DEF StartStatus
  <2>. HIDE DEF at
  <2>. QED BY <2>1, <2>2, StartGather
<1>3. CASE Gathered(r)
  BY <1>3, Ending DEF Gathered
<1>4. ASSUME NEW l \in Libraries, Learn(r, l) \/ GiveUp(r, l)
      PROVE  Inv' /\ UNCHANGED <<upstream, shown>>
  <2>1. /\ Gathers(r) /\ l \in DOMAIN request[r].at
        /\ Goto(r, l, "query") /\ "query" \in Stages
        /\ UNCHANGED <<upstream, shown, cache>>
    BY <1>4 DEF Learn, GiveUp, At, Stages
  <2>2. templates' \in [Libraries -> {Unasked, Absent, Known}]
    BY <1>4 DEF Learn, GiveUp, Inv, TasksTyped
  <2>. QED BY <2>1, <2>2, GotoStep
<1>5. ASSUME NEW l \in Libraries, Answer(r, l) \/ Garbled(r, l)
      PROVE  Inv' /\ UNCHANGED <<upstream, shown>>
  <2>1. PICK stage \in Stages : Goto(r, l, stage)
    BY <1>5 DEF Answer, Garbled, Stages, Ended
  <2>2. /\ Gathers(r) /\ l \in DOMAIN request[r].at
        /\ UNCHANGED <<upstream, shown, cache, templates>>
    BY <1>5 DEF Answer, Garbled, At
  <2>3. templates' \in [Libraries -> {Unasked, Absent, Known}]
    BY <2>2 DEF Inv, TasksTyped
  <2>. QED BY <2>1, <2>2, <2>3, GotoStep
<1>. QED BY <1>1, <1>2, <1>3, <1>4, <1>5 DEF Search

----------------------------------------------------------------------------
(* The walk of /random.                                                    *)

LEMMA WalkGoesOn ==
    ASSUME Inv, UNCHANGED <<upstream, cache, templates>>, NEW r \in Requests,
           NEW t \in WalkTask, Become(r, t), t.whole => LeftNone(t)
    PROVE  Inv'
<1>1. t \in Tasks /\ t \notin Fetches
  BY DEF Tasks, WalkTask, Fetches
<1>2. templates' \in [Libraries -> {Unasked, Absent, Known}]
  BY DEF Inv, TasksTyped
<1>3. request' = [request EXCEPT ![r] = t]
  BY DEF Become
<1>. QED BY <1>1, <1>2, <1>3, RequestStep

\* The bags of the frontier.
LEMMA FrontierType ==
    ASSUME NEW l \in Libraries
    PROVE  Frontier(l) \in Bags(Pages) /\ DOMAIN Frontier(l) = {Root[l]}
<1>1. Root[l] \in Pages
  BY Constants
<1>2. Frontier(l) \in [{Root[l]} -> Nat \ {0}]
  BY DEF Frontier, SetToBag
<1>3. {Root[l]} \in SUBSET Pages
  BY <1>1
<1>. QED BY <1>2, <1>3 DEF Bags

LEMMA TakenFrom ==
    ASSUME NEW f \in Bags(Pages), NEW p \in Pages
    PROVE  /\ f (-) SetToBag({p}) \in Bags(Pages)
           /\ DOMAIN f \ {p} \subseteq DOMAIN (f (-) SetToBag({p}))
           /\ DOMAIN (f (-) SetToBag({p})) \subseteq DOMAIN f
<1>. DEFINE g == f (-) SetToBag({p})
            T == {d \in DOMAIN f : (IF d = p THEN f[d] - 1 ELSE f[d]) > 0}
<1>1. PICK S \in SUBSET Pages : f \in [S -> Nat \ {0}]
  BY DEF Bags
<1>2. g = [e \in T |-> IF e = p THEN f[e] - 1 ELSE f[e]]
  BY DEF (-), SetToBag
<1>3. g \in [T -> Nat \ {0}]
  <2>1. ASSUME NEW e \in T
        PROVE  (IF e = p THEN f[e] - 1 ELSE f[e]) \in Nat \ {0}
    BY <1>1
  <2>. HIDE DEF T
  <2>. QED BY <1>2, <2>1
<1>4. T \in SUBSET Pages /\ DOMAIN f \ {p} \subseteq T /\ T \subseteq DOMAIN f
  BY <1>1
<1>. QED BY <1>3, <1>4 DEF Bags

LEMMA BagOfSeq ==
    ASSUME NEW s \in Seq(Pages)
    PROVE  ToBag(s) \in [ToSet(s) -> Nat \ {0}] /\ ToSet(s) \in SUBSET Pages
<1>1. /\ DOMAIN s = 1..Len(s) /\ Len(s) \in Nat
      /\ \A i \in DOMAIN s : s[i] \in Pages
  OBVIOUS
<1>2. ASSUME NEW x \in ToSet(s)
      PROVE  Cardinality({i \in DOMAIN s : s[i] = x}) \in Nat \ {0}
  <2>1. IsFiniteSet({i \in DOMAIN s : s[i] = x})
    <3>1. IsFiniteSet(1..Len(s))
      BY <1>1, FS_Interval
    <3>. QED BY <1>1, <3>1, FS_Subset
  <2>2. {i \in DOMAIN s : s[i] = x} # {}
    BY DEF ToSet
  <2>. QED BY <2>1, <2>2, FS_CardinalityType, FS_EmptySet
<1>3. ToBag(s) = [x \in ToSet(s) |-> Cardinality({i \in DOMAIN s : s[i] = x})]
  BY DEF ToBag, ToSet, Range
<1>. QED BY <1>1, <1>2, <1>3 DEF ToSet

LEMMA AddedTo ==
    ASSUME NEW f \in Bags(Pages), NEW s \in Seq(Pages)
    PROVE  /\ f (+) ToBag(s) \in Bags(Pages)
           /\ DOMAIN (f (+) ToBag(s)) = DOMAIN f \cup ToSet(s)
<1>. DEFINE b == ToBag(s)
            g == f (+) b
<1>1. PICK S \in SUBSET Pages : f \in [S -> Nat \ {0}]
  BY DEF Bags
<1>2. b \in [ToSet(s) -> Nat \ {0}] /\ ToSet(s) \in SUBSET Pages
  BY BagOfSeq
<1>. HIDE DEF b
<1>3. g = [e \in S \cup ToSet(s) |->
            (IF e \in S THEN f[e] ELSE 0) + (IF e \in ToSet(s) THEN b[e] ELSE 0)]
  BY <1>1, <1>2 DEF (+)
<1>4. g \in [S \cup ToSet(s) -> Nat \ {0}]
  BY <1>1, <1>2, <1>3
<1>5. S \cup ToSet(s) \in SUBSET Pages
  BY <1>1, <1>2
<1>. QED BY <1>1, <1>4, <1>5 DEF Bags, b
\* Where nothing is awaited, all that was visited is behind.
LEMMA StartWalkStep ==
    ASSUME Inv, NEW r \in Requests, NEW l \in Libraries, StartWalk(r, l)
    PROVE  Inv' /\ UNCHANGED <<upstream, shown>>
<1>. DEFINE t == [kind |-> "walk", tried |-> <<l>>, frontier |-> Frontier(l), budget |-> Budget,
                  visited |-> {}, page |-> NoPage, whole |-> TRUE]
<1>1. Become(r, t) /\ UNCHANGED <<upstream, shown, cache, templates>>
  BY DEF StartWalk
<1>2. Frontier(l) \in Bags(Pages) /\ DOMAIN Frontier(l) = {Root[l]}
  BY FrontierType
<1>3. <<l>> \in BoundedSeq(Libraries, 2) /\ ToSet(<<l>>) = {l}
  <2>1. <<l>> \in [1..1 -> Libraries]
    OBVIOUS
  <2>2. ToSet(<<l>>) = {l}
    BY DEF ToSet
  <2>. QED BY <2>1, <2>2 DEF BoundedSeq, SeqOf
<1>4. t \in WalkTask
  BY <1>2, <1>3, Constants DEF WalkTask
<1>5. LeftNone(t)
  BY <1>2, <1>3 DEF LeftNone, Met, Behind
<1>. HIDE DEF t
<1>. QED BY <1>1, <1>4, <1>5, WalkGoesOn

LEMMA TurnStep ==
    ASSUME Inv, NEW r \in Requests, NEW p \in Pages, Turn(r, p)
    PROVE  Inv' /\ UNCHANGED <<upstream, shown>>
<1>. DEFINE w == request[r]
            f == w.frontier (-) SetToBag({p})
            v == w.visited \cup {p}
            n == w.budget - 1
            g == IF p \in w.visited THEN NoPage ELSE p
            t == [w EXCEPT !.budget = n, !.frontier = f, !.visited = v, !.page = g]
<1>1. /\ w \in WalkTask /\ w.page = NoPage
      /\ ~Exhausted(w) /\ BagIn(p, w.frontier)
      /\ w.whole => LeftNone(w)
  BY Kinds DEF Turn, Walks, Is, Inv, TasksTyped, WalksKept
<1>2. Become(r, t) /\ UNCHANGED <<upstream, shown, cache, templates>>
  BY DEF Turn
<1>3. n \in 0..Budget
  BY <1>1, Constants DEF Exhausted, WalkTask
<1>4. /\ f \in Bags(Pages)
      /\ DOMAIN w.frontier \ {p} \subseteq DOMAIN f
  BY <1>1, TakenFrom DEF WalkTask
<1>5. v \in SUBSET Pages /\ g \in Pages \cup {NoPage}
  BY <1>1 DEF WalkTask
<1>. HIDE DEF n, f
<1>6. /\ t \in WalkTask
      /\ t.tried = w.tried /\ t.frontier = f /\ t.visited = v /\ t.page = g /\ t.whole = w.whole
  BY <1>1, <1>3, <1>4, <1>5 DEF WalkTask
<1>. HIDE DEF t
<1>7. ASSUME w.whole
      PROVE  LeftNone(t)
  <2>1. LeftNone(w) /\ NoPage \notin Pages /\ w.visited \subseteq Pages
    BY <1>1, <1>7, Constants DEF WalkTask
  <2>2. Behind(w) = w.visited /\ Behind(t) = w.visited
    BY <1>1, <1>6, <2>1 DEF Behind
  <2>3. Met(w) \subseteq Met(t)
    BY <1>4, <1>6 DEF Met
  <2>. QED BY <1>6, <2>1, <2>2, <2>3 DEF LeftNone
<1>. QED BY <1>2, <1>6, <1>7, WalkGoesOn

LEMMA LookStep ==
    ASSUME Inv, NEW r \in Requests, Look(r)
    PROVE  Inv' /\ UNCHANGED <<upstream, shown>>
<1>. DEFINE w == request[r]
            f == Grown(w)
            t == [w EXCEPT !.frontier = f, !.page = NoPage]
<1>1. /\ w \in WalkTask /\ w.page # NoPage /\ w.page \in Pages
      /\ w.whole => LeftNone(w)
      /\ UNCHANGED <<upstream, shown, cache, templates>>
  BY Kinds DEF Look, Awaits, Is, Inv, TasksTyped, WalksKept, WalkTask
<1>2. CASE w.page \in WithBooks
  BY <1>1, <1>2, Ending DEF Look
<1>3. CASE w.page \notin WithBooks
  <2>1. Become(r, t)
    BY <1>3 DEF Look
  <2>2. f \in Bags(Pages) /\ DOMAIN f = DOMAIN w.frontier \cup ToSet(Leads[w.page])
    BY <1>1, Constants, AddedTo DEF Grown, WalkTask
  <2>. HIDE DEF f
  <2>3. /\ t \in WalkTask
        /\ t.tried = w.tried /\ t.frontier = f /\ t.visited = w.visited /\ t.page = NoPage
        /\ t.whole = w.whole
    BY <1>1, <2>2 DEF WalkTask
  <2>. HIDE DEF t
  <2>4. ASSUME w.whole
        PROVE  LeftNone(t)
    <3>1. LeftNone(w)
      BY <1>1, <2>4
    <3>2. Behind(t) \subseteq Behind(w) \cup {w.page}
      BY <2>3 DEF Behind
    <3>3. Met(t) = Met(w) \cup ToSet(Leads[w.page])
      BY <2>2, <2>3 DEF Met
    <3>. QED BY <1>3, <2>3, <3>1, <3>2, <3>3 DEF LeftNone
  <2>. QED BY <1>1, <2>1, <2>3, <2>4, WalkGoesOn
<1>. QED BY <1>2, <1>3

LEMMA DeadEndStep ==
    ASSUME Inv, NEW r \in Requests, DeadEnd(r)
    PROVE  Inv' /\ UNCHANGED <<upstream, shown>>
<1>. DEFINE w == request[r]
            t == [w EXCEPT !.page = NoPage, !.whole = FALSE]
<1>1. w \in WalkTask /\ Become(r, t) /\ UNCHANGED <<upstream, shown, cache, templates>>
  BY Kinds DEF DeadEnd, Awaits, Is, Inv, TasksTyped
<1>2. t \in WalkTask /\ ~t.whole
  BY <1>1 DEF WalkTask
<1>. HIDE DEF t
<1>. QED BY <1>1, <1>2, WalkGoesOn

LEMMA TriedOneMore ==
    ASSUME NEW s \in BoundedSeq(Libraries, 2), Len(s) < 2, NEW l \in Libraries
    PROVE  /\ Append(s, l) \in BoundedSeq(Libraries, 2)
           /\ ToSet(Append(s, l)) = ToSet(s) \cup {l}
<1>. DEFINE u == Append(s, l)
<1>1. PICK m \in 0..2 : s \in [1..m -> Libraries]
  BY DEF BoundedSeq, SeqOf
<1>2. s \in Seq(Libraries) /\ Len(s) = m /\ DOMAIN s = 1..m /\ m \in {0, 1}
  BY <1>1, LenProperties, SeqDef
<1>3. /\ u \in Seq(Libraries) /\ Len(u) = m + 1
      /\ \A i \in 1..m : u[i] = s[i]
      /\ u[m + 1] = l
  BY <1>2, AppendProperties
<1>. HIDE DEF u
<1>4. u \in [1..Len(u) -> Libraries] /\ DOMAIN u = 1..Len(u)
  BY <1>3, LenProperties
<1>5. u \in BoundedSeq(Libraries, 2)
  <2>1. m + 1 \in 0..2
    BY <1>2
  <2>. QED BY <1>3, <1>4, <2>1 DEF BoundedSeq, SeqOf
<1>6. ToSet(u) = ToSet(s) \cup {l}
  <2>1. DOMAIN u = (1..m) \cup {m + 1}
    BY <1>2, <1>3, <1>4
  <2>. QED BY <1>2, <1>3, <2>1 DEF ToSet
<1>. QED BY <1>5, <1>6 DEF u

\* The walk w in its next library.
NextWalk(w, s, f, whole) ==
    [w EXCEPT !.tried = s, !.frontier = f, !.budget = Budget, !.whole = whole]

LEMMA NextWalkType ==
    ASSUME NEW w \in WalkTask, NEW s \in BoundedSeq(Libraries, 2), NEW f \in Bags(Pages),
           NEW whole \in BOOLEAN
    PROVE  /\ NextWalk(w, s, f, whole) \in WalkTask
           /\ NextWalk(w, s, f, whole).tried = s
           /\ NextWalk(w, s, f, whole).frontier = f
           /\ NextWalk(w, s, f, whole).visited = w.visited
           /\ NextWalk(w, s, f, whole).page = w.page
           /\ NextWalk(w, s, f, whole).whole = whole
<1>1. Budget \in 0..Budget
  BY Constants
<1>. QED BY <1>1 DEF WalkTask, NextWalk

LEMMA NextLibraryStep ==
    ASSUME Inv, NEW r \in Requests, NEW l \in Libraries, NextLibrary(r, l)
    PROVE  Inv' /\ UNCHANGED <<upstream, shown>>
<1>. DEFINE w == request[r]
            s == Append(w.tried, l)
            f == Frontier(l)
            whole == w.whole /\ w.frontier = EmptyBag
            t == NextWalk(w, s, f, whole)
<1>1. /\ w \in WalkTask /\ w.page = NoPage /\ Len(w.tried) < 2
      /\ w.whole => LeftNone(w)
  BY Kinds DEF NextLibrary, Walks, Is, Inv, TasksTyped, WalksKept
<1>2. Become(r, t) /\ UNCHANGED <<upstream, shown, cache, templates>>
  BY DEF NextLibrary, NextWalk
<1>3. f \in Bags(Pages) /\ DOMAIN f = {Root[l]}
  BY FrontierType
<1>4. s \in BoundedSeq(Libraries, 2) /\ ToSet(s) = ToSet(w.tried) \cup {l}
  BY <1>1, TriedOneMore DEF WalkTask
<1>5. whole \in BOOLEAN
  OBVIOUS
<1>. HIDE DEF w, s, f, whole
<1>6. /\ t \in WalkTask
      /\ t.tried = s /\ t.frontier = f /\ t.visited = w.visited /\ t.page = w.page
      /\ t.whole = whole
  BY <1>1, <1>3, <1>4, <1>5, NextWalkType
<1>. HIDE DEF t
<1>7. ASSUME t.whole
      PROVE  LeftNone(t)
  <2>1. w.whole /\ w.frontier = EmptyBag /\ LeftNone(w)
    BY <1>1, <1>6, <1>7 DEF whole
  <2>2. Met(w) = w.visited
    BY <2>1 DEF Met, EmptyBag, SetToBag
  <2>3. Met(t) = w.visited \cup {Root[l]} /\ Behind(t) = Behind(w)
    BY <1>3, <1>6 DEF Met, Behind
  <2>. QED BY <1>4, <1>6, <2>1, <2>2, <2>3 DEF LeftNone
<1>. QED BY <1>2, <1>6, <1>7, WalkGoesOn

LEMMA WalkStep ==
    ASSUME Inv, NEW r \in Requests, Walk(r)
    PROVE  Inv' /\ UNCHANGED <<upstream, shown>>
<1>1. CASE WalkRaises(r) \/ NoLuck(r)
  BY <1>1, Ending DEF WalkRaises, NoLuck
<1>. QED BY <1>1, StartWalkStep, NextLibraryStep, TurnStep, LookStep, DeadEndStep DEF Walk
----------------------------------------------------------------------------
LEMMA Initially ==
    ASSUME Init
    PROVE  Inv /\ Kept!Init
<1>1. /\ now = 0 /\ edition = [p \in Pages |-> 0] /\ replaced = [p \in Pages |-> <<>>]
      /\ shown = <<>> /\ cache = <<>>
      /\ templates = [l \in Libraries |-> Unasked]
      /\ request = [r \in Requests |-> Idle]
  BY DEF Init
<1>2. UpstreamTyped
  BY <1>1 DEF UpstreamTyped
<1>3. Idle \in Tasks /\ Idle \notin Fetches /\ Idle \notin WalkTask
  BY DEF Tasks, Idle, Fetches, WalkTask
<1>4. TasksTyped /\ FetchesKept /\ WalksKept
  BY <1>1, <1>3 DEF TasksTyped, FetchesKept, WalksKept
<1>5. CacheKept
  <2>1. DOMAIN cache = {}
    BY <1>1
  <2>2. 0 <= MaxEntries
    BY Constants
  <2>. QED BY <2>1, <2>2, FS_EmptySet DEF CacheKept
<1>6. Kept!Init
  BY <1>1 DEF Kept!Init
<1>. QED BY <1>2, <1>4, <1>5, <1>6 DEF Inv

\* Every step keeps the invariant, and is one of Mirror or changes nothing there.
LEMMA EveryStep ==
    ASSUME Inv, [Next]_vars
    PROVE  Inv' /\ [Kept!Next]_(Kept!vars)
<1>1. CASE UNCHANGED vars
  <2>1. /\ UNCHANGED <<upstream, cache>> /\ UNCHANGED shown
        /\ UNCHANGED <<templates, request>>
    BY <1>1 DEF vars
  <2>2. TasksTyped' /\ FetchesKept' /\ WalksKept'
    BY <2>1 DEF Inv, TasksTyped, FetchesKept, Fetched, Had, WalksKept, LeftNone, Met, Behind,
                upstream
  <2>. QED BY <2>1, <2>2, CacheUntouched, UpstreamUntouched DEF Inv, Kept!vars, upstream
<1>2. CASE Tick
  BY <1>2, TickStep DEF Kept!Next
<1>3. ASSUME NEW p \in Pages, Publish(p)
      PROVE  Inv' /\ [Kept!Next]_(Kept!vars)
  BY <1>3, PublishStep DEF Kept!Next
<1>4. ASSUME NEW r \in Requests, Browse(r)
      PROVE  Inv' /\ [Kept!Next]_(Kept!vars)
  <2>1. /\ Inv'
        /\ \/ \E p \in Pages : \E e \in 0..edition[p] : Kept!Show(p, e)
           \/ UNCHANGED <<upstream, shown>>
    BY <1>4, HitStep, MissStep, SentStep, ReceivedStep, FeedFailsStep DEF Browse
  <2>. QED BY <2>1 DEF Kept!Next, Kept!vars, upstream
<1>5. ASSUME NEW r \in Requests, Search(r) \/ Walk(r)
      PROVE  Inv' /\ [Kept!Next]_(Kept!vars)
  BY <1>5, SearchStep, WalkStep DEF Kept!vars, upstream
<1>. QED BY <1>1, <1>2, <1>3, <1>4, <1>5 DEF Next

\* The invariant that the theorems rest on is one: what is in the cache, or on its way into
\* it, is a copy the library had when its fetch began (FeedCache.put, _load_feed), and a
\* walk has nothing behind it but pages without books whose shelves it has met (surprise_me).
THEOREM Invariance == Spec => []Inv
<1>1. Init => Inv
  BY Initially
<1>2. Inv /\ [Next]_vars => Inv'
  BY EveryStep
<1>. QED BY <1>1, <1>2, PTL DEF Spec

\* The feed cache implements Mirror: whatever is shown, from the cache or from a fetch, was
\* the library's own page no longer ago than one lifetime of the cache and one fetch, in
\* whatever order the fetches for a link end and however many links a page has (FeedCache,
\* _load_feed).
THEOREM FeedsMirrorLibraries == Spec => MirrorsLibraries
<1>1. Init => Kept!Init
  BY Initially
<1>2. Inv /\ [Next]_vars => [Kept!Next]_(Kept!vars)
  BY EveryStep
<1>. QED BY <1>1, <1>2, Invariance, PTL DEF Spec, MirrorsLibraries, Kept!Spec

\* The types, and the cache never has more entries than its maximum, although it makes room
\* before it knows whether the entry is a new one (FeedCache.put, max_entries).
THEOREM CacheStaysBounded == Spec => []TypeOK
<1>1. ASSUME Inv
      PROVE  TypeOK
  <2>1. /\ DOMAIN cache \subseteq Links /\ Cardinality(DOMAIN cache) <= MaxEntries
        /\ templates \in [Libraries -> {Unasked, Absent, Known}]
    BY <1>1 DEF Inv, CacheKept, Copied, TasksTyped
  <2>2. ASSUME NEW k \in DOMAIN cache
        PROVE  cache[k].at <= now /\ cache[k].edition <= edition[PageOf[k]]
    <3>1. Copied(k) /\ PageOf[k] \in Pages /\ now \in Nat /\ edition[PageOf[k]] \in Nat
      BY <1>1, <2>1, Constants DEF Inv, CacheKept, UpstreamTyped
    <3>. QED BY <3>1 DEF Copied, Had
  <2>3. ASSUME NEW r \in Requests
        PROVE  \/ request[r] = Idle
               \/ request[r] \in FeedTask
               \/ request[r] \in GatherTask
               \/ Is(r, "walk") /\ WalkTypeOK(request[r])
    <3>1. request[r] \in Tasks
      BY <1>1 DEF Inv, TasksTyped
    <3>2. CASE request[r] \in Fetches
      <4>1. Fetched(request[r]) /\ now \in Nat
        BY <1>1, <3>2 DEF Inv, FetchesKept, UpstreamTyped
      <4>. QED BY <3>2, <4>1 DEF Fetches, Fetched, FeedTask
    <3>3. CASE request[r] \in WalkTask
      <4>1. DOMAIN request[r].frontier \subseteq Pages
        BY <3>3 DEF WalkTask, Bags
      <4>. QED BY <3>3, <4>1 DEF WalkTask, Is, WalkTypeOK, BagToSet
    <3>. QED BY <3>1, <3>2, <3>3 DEF Tasks
  <2>. QED BY <2>1, <2>2, <2>3 DEF TypeOK
<1>. QED BY <1>1, Invariance, PTL

\* When /random has tried its libraries to the end, with no branch failed and no budget run
\* out, no page that they reach lists a book: what was visited is closed under the
\* navigation rows, so it holds all that can be reached, on a cycle or not (surprise_me).
THEOREM WalksMissNoBook == Spec => []NoBookMissed
<1>1. ASSUME Inv
      PROVE  NoBookMissed
  <2>. SUFFICES ASSUME NEW r \in Requests, Walks(r),
                       request[r].frontier = EmptyBag, request[r].whole,
                       NEW l \in ToSet(request[r].tried)
                PROVE  Reach(Root[l]) \cap WithBooks = {}
    BY DEF NoBookMissed
  <2>. DEFINE w == request[r]
  <2>1. w \in WalkTask /\ w.page = NoPage
    BY <1>1, Kinds DEF Walks, Is, Inv, TasksTyped
  <2>2. LeftNone(w)
    BY <1>1, <2>1 DEF Inv, WalksKept
  <2>3. w.visited \in SUBSET Pages /\ NoPage \notin Pages
    BY <2>1, Constants DEF WalkTask
  <2>4. Behind(w) = w.visited
    BY <2>1, <2>3 DEF Behind
  <2>5. Met(w) = w.visited
    BY DEF Met, EmptyBag, SetToBag
  <2>6. Root[l] \in w.visited /\ Closed(w.visited) /\ w.visited \cap WithBooks = {}
    BY <2>2, <2>4, <2>5 DEF LeftNone, Closed
  <2>7. Reach(Root[l]) \subseteq w.visited
    BY <2>3, <2>6 DEF Reach
  <2>. QED BY <2>6, <2>7
<1>. QED BY <1>1, Invariance, PTL

----------------------------------------------------------------------------
(* What the rows of a page show.                                           *)

LEMMA SmallestOf ==
    ASSUME NEW T \in SUBSET Nat, NEW t \in T
    PROVE  \E n \in T : \A k \in T : n <= k
<1>. DEFINE R == OpToRel(<, Nat)
<1>1. PICK n \in T : \A k \in T : ~(<<k, n>> \in R)
  <2>1. IsWellFoundedOn(R, Nat)
    BY NatLessThanWellFounded
  <2>2. T \subseteq Nat /\ T # {}
    OBVIOUS
  <2>. HIDE DEF R
  <2>. QED BY <2>1, <2>2, WFMin
<1>2. \A k \in T : ~(k < n)
  BY <1>1 DEF OpToRel
<1>. QED BY <1>2

LEMMA MinIn ==
    ASSUME NEW S \in SUBSET Nat, NEW x \in S
    PROVE  Min(S) \in S /\ \A y \in S : Min(S) <= y
<1>1. \E n \in S : \A k \in S : n <= k
  BY SmallestOf
<1>. QED BY <1>1 DEF Min

----------------------------------------------------------------------------
(* The loop over the links of an entry.                                    *)

ReadUpto(links, m, f) ==
    f = [i \in 0..m |-> IF i = 0 THEN NoEntry ELSE AfterLink(f[i - 1], links, i)]

LEMMA ReadsExist ==
    ASSUME NEW links, NEW m \in Nat
    PROVE  \E f : ReadUpto(links, m, f)
<1>. DEFINE T == {n \in Nat : ~ \E f : ReadUpto(links, n, f)}
<1>1. SUFFICES ASSUME m \in T PROVE FALSE
  OBVIOUS
<1>2. PICK n \in T : \A k \in T : n <= k
  <2>. HIDE DEF T
  <2>1. T \in SUBSET Nat
    BY DEF T
  <2>. QED BY <1>1, <2>1, SmallestOf
<1>3. n # 0
  <2>. DEFINE f == [i \in 0..0 |-> NoEntry]
  <2>1. \A i \in 0..0 : i = 0
    OBVIOUS
  <2>2. f = [i \in 0..0 |-> IF i = 0 THEN NoEntry ELSE AfterLink(f[i - 1], links, i)]
    BY <2>1
  <2>3. ReadUpto(links, 0, f)
    BY <2>2 DEF ReadUpto
  <2>. QED BY <2>3
<1>4. n - 1 \in Nat /\ n - 1 \notin T
  BY <1>2, <1>3
<1>5. PICK f : ReadUpto(links, n - 1, f)
  BY <1>4
<1>. DEFINE g == [i \in 0..n |-> IF i = n THEN AfterLink(f[n - 1], links, n) ELSE f[i]]
<1>6. \A i \in 0..n : g[i] = IF i = 0 THEN NoEntry ELSE AfterLink(g[i - 1], links, i)
  <2>. TAKE i \in 0..n
  <2>1. n \in Nat /\ n # 0
    BY <1>3
  <2>2. \A j \in 0..(n - 1) : f[j] = IF j = 0 THEN NoEntry ELSE AfterLink(f[j - 1], links, j)
    BY <1>5 DEF ReadUpto
  <2>3. CASE i = n
    <3>1. g[n] = AfterLink(f[n - 1], links, n) /\ g[n - 1] = f[n - 1]
      BY <2>1
    <3>. QED BY <2>1, <2>3, <3>1
  <2>4. CASE i # n
    <3>1. i \in 0..(n - 1) /\ g[i] = f[i] /\ (i # 0 => g[i - 1] = f[i - 1])
      BY <2>1, <2>4
    <3>. QED BY <2>2, <3>1
  <2>. QED BY <2>3, <2>4
<1>7. ReadUpto(links, n, g)
  <2>1. g = [i \in 0..n |-> g[i]]
    OBVIOUS
  <2>. HIDE DEF g
  <2>2. [i \in 0..n |-> g[i]] = [i \in 0..n |-> IF i = 0 THEN NoEntry ELSE AfterLink(g[i - 1], links, i)]
    BY <1>6
  <2>. QED BY <2>1, <2>2 DEF ReadUpto
<1>. QED BY <1>2, <1>7

\* What the loop has made of the links up to i.
SoFar(links, i, roles) == {k \in 1..i : links[k].href /\ links[k].role \in roles}

Ascending(S, s) ==
    /\ s \in Seq(Nat)
    /\ ToSet(s) = S
    /\ \A m, n \in DOMAIN s : m < n => s[m] < s[n]
CoverOf(covers, images, c) ==
    IF covers \cup images = {} THEN c = None
    ELSE IF covers = {} THEN IsFirst(c, images) ELSE IsLast(c, covers)
ShelfOf(others, n) == IF others = {} THEN n = None ELSE IsFirst(n, others)

ReadEntry(links, i, entry) ==
    /\ Ascending(SoFar(links, i, {"acquisition"}), entry.acquisitions)
    /\ CoverOf(SoFar(links, i, {"cover"}), SoFar(links, i, {"thumbnail", "image"}), entry.cover)
    /\ ShelfOf(SoFar(links, i, {"other"}), entry.nav)

EntryFields == [acquisitions : Seq(Nat), cover : Nat, nav : Nat]

LEMMA SoFarGrows ==
    ASSUME NEW links, NEW i \in Nat \ {0}, NEW roles
    PROVE  /\ SoFar(links, i, roles) =
                IF links[i].href /\ links[i].role \in roles THEN SoFar(links, i - 1, roles) \cup {i}
                ELSE SoFar(links, i - 1, roles)
           /\ SoFar(links, i - 1, roles) \subseteq 1..(i - 1)
<1>1. 1..i = 1..(i - 1) \cup {i}
  OBVIOUS
<1>. QED BY <1>1 DEF SoFar

LEMMA AscendingGrows ==
    ASSUME NEW i \in Nat \ {0}, NEW S \in SUBSET (1..(i - 1)), NEW s, Ascending(S, s)
    PROVE  Ascending(S \cup {i}, Append(s, i))
<1>. DEFINE t == Append(s, i)
<1>1. s \in Seq(Nat) /\ Len(s) \in Nat /\ DOMAIN s = 1..Len(s)
  BY LenProperties DEF Ascending
<1>2. t \in Seq(Nat) /\ Len(t) = Len(s) + 1 /\ t[Len(s) + 1] = i /\ \A k \in 1..Len(s) : t[k] = s[k]
  BY <1>1, AppendProperties
<1>3. DOMAIN t = 1..(Len(s) + 1)
  BY <1>2, LenProperties
<1>. HIDE DEF t
<1>4. \A k \in DOMAIN s : s[k] \in S /\ s[k] < i
  <2>1. \A k \in DOMAIN s : s[k] \in S
    BY DEF Ascending, ToSet
  <2>2. \A x \in S : x < i
    <3>1. \A x \in 1..(i - 1) : x < i
      OBVIOUS
    <3>. QED BY <3>1
  <2>. QED BY <2>1, <2>2
<1>5. ToSet(t) = S \cup {i}
  <2>1. ToSet(s) = S
    BY DEF Ascending
  <2>2. \A k \in DOMAIN t : t[k] \in S \cup {i}
    BY <1>1, <1>2, <1>3, <1>4
  <2>3. \A x \in S : \E k \in DOMAIN t : t[k] = x
    BY <1>1, <1>2, <1>3, <2>1 DEF ToSet
  <2>4. \E k \in DOMAIN t : t[k] = i
    BY <1>1, <1>2, <1>3
  <2>. QED BY <2>2, <2>3, <2>4 DEF ToSet
<1>6. ASSUME NEW m \in DOMAIN t, NEW n \in DOMAIN t, m < n PROVE t[m] < t[n]
  <2>1. m \in DOMAIN s /\ t[m] = s[m]
    BY <1>1, <1>2, <1>3, <1>6
  <2>2. CASE n = Len(s) + 1
    BY <1>2, <1>4, <2>1, <2>2
  <2>3. CASE n # Len(s) + 1
    <3>1. n \in DOMAIN s /\ t[n] = s[n]
      BY <1>1, <1>2, <1>3, <2>3
    <3>. QED BY <1>6, <2>1, <3>1 DEF Ascending
  <2>. QED BY <2>2, <2>3
<1>. QED BY <1>2, <1>5, <1>6 DEF Ascending, t

LEMMA ShelfGrows ==
    ASSUME NEW i \in Nat \ {0}, NEW S \in SUBSET (1..(i - 1)), NEW n, ShelfOf(S, n)
    PROVE  ShelfOf(S \cup {i}, OrElse(n, i))
<1>1. CASE S = {}
  BY <1>1 DEF ShelfOf, IsFirst, OrElse
<1>2. CASE S # {}
  <2>0. n \in S /\ \A k \in S : n <= k
    BY <1>2 DEF ShelfOf, IsFirst
  <2>1. n \in S /\ n # None /\ n \in 1..(i - 1) /\ \A k \in S : n <= k
    <3>1. n \in 1..(i - 1)
      BY <2>0
    <3>. QED BY <2>0, <3>1 DEF None
  <2>2. OrElse(n, i) = n
    BY <2>1 DEF OrElse
  <2>3. n <= i
    BY <2>1
  <2>. QED BY <1>2, <2>1, <2>2, <2>3 DEF ShelfOf, IsFirst
<1>. QED BY <1>1, <1>2

LEMMA ImageGrows ==
    ASSUME NEW i \in Nat \ {0}, NEW C \in SUBSET (1..(i - 1)), NEW I \in SUBSET (1..(i - 1)),
           NEW c, CoverOf(C, I, c)
    PROVE  CoverOf(C, I \cup {i}, OrElse(c, i))
<1>1. CASE C = {}
  <2>1. ShelfOf(I, c)
    BY <1>1 DEF CoverOf, ShelfOf
  <2>2. ShelfOf(I \cup {i}, OrElse(c, i))
    BY <2>1, ShelfGrows
  <2>. QED BY <1>1, <2>2 DEF CoverOf, ShelfOf
<1>2. CASE C # {}
  <2>1. IsLast(c, C)
    BY <1>2 DEF CoverOf
  <2>2. OrElse(c, i) = c
    BY <2>1 DEF IsLast, OrElse, None
  <2>. QED BY <1>2, <2>1, <2>2 DEF CoverOf
<1>. QED BY <1>1, <1>2

LEMMA CoverGrows ==
    ASSUME NEW i \in Nat \ {0}, NEW C \in SUBSET (1..(i - 1)), NEW I
    PROVE  CoverOf(C \cup {i}, I, i)
<1>1. \A k \in C \cup {i} : k <= i
  OBVIOUS
<1>. QED BY <1>1 DEF CoverOf, IsLast

LEMMA ReadOneMore ==
    ASSUME NEW links \in Seq(Link), NEW i \in 1..Len(links), NEW e \in EntryFields,
           ReadEntry(links, i - 1, e)
    PROVE  AfterLink(e, links, i) \in EntryFields /\ ReadEntry(links, i, AfterLink(e, links, i))
<1>. DEFINE new == AfterLink(e, links, i)
            acq == SoFar(links, i - 1, {"acquisition"})
            covers == SoFar(links, i - 1, {"cover"})
            images == SoFar(links, i - 1, {"thumbnail", "image"})
            others == SoFar(links, i - 1, {"other"})
            role == links[i].role
<1>1. i \in Nat \ {0} /\ links[i] \in Link
  BY LenProperties, ElementOfSeq
<1>2. role \in Roles /\ links[i].href \in BOOLEAN
  BY <1>1 DEF Link
<1>3. /\ acq \subseteq 1..(i - 1) /\ covers \subseteq 1..(i - 1)
      /\ images \subseteq 1..(i - 1) /\ others \subseteq 1..(i - 1)
  BY <1>1, SoFarGrows
<1>4. /\ SoFar(links, i, {"acquisition"}) =
            IF links[i].href /\ role = "acquisition" THEN acq \cup {i} ELSE acq
      /\ SoFar(links, i, {"cover"}) =
            IF links[i].href /\ role = "cover" THEN covers \cup {i} ELSE covers
      /\ SoFar(links, i, {"thumbnail", "image"}) =
            IF links[i].href /\ role \in {"thumbnail", "image"} THEN images \cup {i} ELSE images
      /\ SoFar(links, i, {"other"}) =
            IF links[i].href /\ role = "other" THEN others \cup {i} ELSE others
  <2>1. \A roles : SoFar(links, i, roles) =
                IF links[i].href /\ role \in roles THEN SoFar(links, i - 1, roles) \cup {i}
                ELSE SoFar(links, i - 1, roles)
    BY <1>1, SoFarGrows
  <2>. QED BY <2>1
<1>5. /\ Ascending(acq, e.acquisitions) /\ CoverOf(covers, images, e.cover) /\ ShelfOf(others, e.nav)
      /\ e.acquisitions \in Seq(Nat) /\ e.cover \in Nat /\ e.nav \in Nat
  BY DEF ReadEntry, EntryFields
<1>6. OrElse(e.cover, i) \in Nat /\ OrElse(e.nav, i) \in Nat
  BY <1>1, <1>5 DEF OrElse
<1>. HIDE DEF acq, covers, images, others
<1>7. CASE ~links[i].href
  <2>1. new = e
    BY <1>7 DEF AfterLink
  <2>. QED BY <1>4, <1>5, <1>7, <2>1 DEF ReadEntry
<1>8. CASE links[i].href /\ role = "acquisition"
  <2>1. new = [e EXCEPT !.acquisitions = Append(@, i)]
    BY <1>8 DEF AfterLink
  <2>2. Append(e.acquisitions, i) \in Seq(Nat)
    BY <1>1, <1>5, AppendProperties
  <2>3. /\ new \in EntryFields /\ new.acquisitions = Append(e.acquisitions, i)
        /\ new.cover = e.cover /\ new.nav = e.nav
    BY <2>1, <2>2 DEF EntryFields
  <2>4. Ascending(acq \cup {i}, new.acquisitions)
    BY <1>1, <1>3, <1>5, <2>3, AscendingGrows
  <2>. QED BY <1>4, <1>5, <1>8, <2>3, <2>4 DEF ReadEntry
<1>9. CASE links[i].href /\ role \in {"thumbnail", "image"}
  <2>1. new = [e EXCEPT !.cover = OrElse(@, i)]
    BY <1>9 DEF AfterLink
  <2>2. /\ new \in EntryFields /\ new.acquisitions = e.acquisitions
        /\ new.cover = OrElse(e.cover, i) /\ new.nav = e.nav
    BY <1>6, <2>1 DEF EntryFields
  <2>3. CoverOf(covers, images \cup {i}, new.cover)
    BY <1>1, <1>3, <1>5, <2>2, ImageGrows
  <2>. QED BY <1>4, <1>5, <1>9, <2>2, <2>3 DEF ReadEntry
<1>10. CASE links[i].href /\ role = "cover"
  <2>1. new = [e EXCEPT !.cover = i]
    BY <1>10 DEF AfterLink
  <2>2. /\ new \in EntryFields /\ new.acquisitions = e.acquisitions
        /\ new.cover = i /\ new.nav = e.nav
    BY <1>1, <2>1 DEF EntryFields
  <2>3. CoverOf(covers \cup {i}, images, new.cover)
    BY <1>1, <1>3, <2>2, CoverGrows
  <2>. QED BY <1>4, <1>5, <1>10, <2>2, <2>3 DEF ReadEntry
<1>11. CASE links[i].href /\ role = "other"
  <2>1. new = [e EXCEPT !.nav = OrElse(@, i)]
    BY <1>11 DEF AfterLink
  <2>2. /\ new \in EntryFields /\ new.acquisitions = e.acquisitions
        /\ new.cover = e.cover /\ new.nav = OrElse(e.nav, i)
    BY <1>6, <2>1 DEF EntryFields
  <2>3. ShelfOf(others \cup {i}, new.nav)
    BY <1>1, <1>3, <1>5, <2>2, ShelfGrows
  <2>. QED BY <1>4, <1>5, <1>11, <2>2, <2>3 DEF ReadEntry
<1>. QED BY <1>2, <1>7, <1>8, <1>9, <1>10, <1>11 DEF Roles
Cut(links) == IF Len(links) < MaxLinks THEN Len(links) ELSE MaxLinks

LEMMA LoopEnds ==
    ASSUME NEW links \in Seq(Link)
    PROVE  \E e \in EntryFields :
                /\ ReadEntry(links, Cut(links), e)
                /\ ParseEntry(links) = IF e.acquisitions = <<>> THEN e ELSE [e EXCEPT !.nav = None]
<1>. DEFINE n == Cut(links)
            h == CHOOSE f : ReadUpto(links, n, f)
<1>1. n \in Nat /\ n <= Len(links) /\ Len(links) \in Nat
  BY OpdsAssumption, LenProperties DEF Cut
<1>. HIDE DEF n
<1>2. ReadUpto(links, n, h)
  BY <1>1, ReadsExist, Zenon
<1>3. ParseEntry(links) = IF h[n].acquisitions = <<>> THEN h[n] ELSE [h[n] EXCEPT !.nav = None]
  BY Zenon DEF ParseEntry, ReadUpto, Cut, n
<1>. HIDE DEF h
<1>4. \A i \in 0..n : h[i] = IF i = 0 THEN NoEntry ELSE AfterLink(h[i - 1], links, i)
  BY <1>2 DEF ReadUpto
<1>. DEFINE Good(i) == h[i] \in EntryFields /\ ReadEntry(links, i, h[i])
            Bad == {i \in 0..n : ~Good(i)}
<1>5. Good(0)
  <2>1. h[0] = [acquisitions |-> <<>>, cover |-> 0, nav |-> 0]
    BY <1>1, <1>4 DEF NoEntry, None
  <2>2. h[0] \in EntryFields
    <3>1. <<>> \in Seq(Nat)
      BY EmptySeq
    <3>. QED BY <2>1, <3>1 DEF EntryFields
  <2>3. \A roles : SoFar(links, 0, roles) = {}
    BY DEF SoFar
  <2>4. Ascending({}, <<>>)
    BY EmptySeq DEF Ascending, ToSet
  <2>5. CoverOf({}, {}, 0) /\ ShelfOf({}, 0)
    BY DEF CoverOf, ShelfOf, None
  <2>6. h[0].acquisitions = <<>> /\ h[0].cover = 0 /\ h[0].nav = 0
    BY <2>1
  <2>7. ReadEntry(links, 0, h[0])
    BY <2>3, <2>4, <2>5, <2>6 DEF ReadEntry
  <2>. QED BY <2>2, <2>7
<1>6. ASSUME NEW i \in 1..n, Good(i - 1) PROVE Good(i)
  <2>1. i \in 0..n /\ i # 0 /\ i \in 1..Len(links)
    BY <1>1
  <2>2. h[i] = AfterLink(h[i - 1], links, i)
    BY <1>4, <2>1
  <2>. QED BY <1>6, <2>1, <2>2, ReadOneMore
<1>. HIDE DEF Good
<1>7. Bad = {}
  <2>. SUFFICES ASSUME NEW b \in Bad PROVE FALSE
    OBVIOUS
  <2>1. Bad \in SUBSET Nat
    OBVIOUS
  <2>. HIDE DEF Bad
  <2>2. PICK m \in Bad : \A k \in Bad : m <= k
    BY <2>1, SmallestOf
  <2>. USE DEF Bad
  <2>3. m # 0 /\ m \in 1..n /\ m - 1 \in 0..n /\ ~(m <= m - 1)
    BY <1>1, <1>5, <2>2
  <2>4. Good(m - 1)
    BY <2>2, <2>3
  <2>. QED BY <1>6, <2>2, <2>3, <2>4
<1>8. Good(n)
  BY <1>1, <1>7
<1>. QED BY <1>3, <1>8 DEF Good, n

LEMMA WithSoFar ==
    ASSUME NEW links \in Seq(Link), NEW roles
    PROVE  With(links, roles) = SoFar(links, Cut(links), roles)
<1>1. DOMAIN links = 1..Len(links) /\ Len(links) \in Nat /\ MaxLinks \in Nat
  BY LenProperties, OpdsAssumption
<1>2. {i \in 1..Len(links) : i <= MaxLinks} = 1..Cut(links)
  BY <1>1 DEF Cut
<1>. QED BY <1>1, <1>2 DEF With, Within, SoFar

\* An entry reads the same however its links are ordered among other roles, and whatever is
\* beyond the limit of links: all its acquisitions in order, the last cover before the first
\* thumbnail, a shelf only where there is nothing to acquire (_parse_entry).
THEOREM EntriesReadAsAdvertised ==
    ASSUME NEW links \in Seq(Link)
    PROVE  ReadsAsAdvertised(links)
<1>. DEFINE entry == ParseEntry(links)
            acq == With(links, {"acquisition"})
            covers == With(links, {"cover"})
            images == With(links, {"thumbnail", "image"})
            others == With(links, {"other"})
<1>1. PICK e \in EntryFields :
        /\ ReadEntry(links, Cut(links), e)
        /\ entry = IF e.acquisitions = <<>> THEN e ELSE [e EXCEPT !.nav = None]
  BY LoopEnds
<1>2. /\ Ascending(acq, e.acquisitions) /\ CoverOf(covers, images, e.cover)
      /\ ShelfOf(others, e.nav)
  BY <1>1, WithSoFar DEF ReadEntry
<1>. HIDE DEF entry, acq, covers, images, others
<1>3. /\ entry.acquisitions = e.acquisitions /\ entry.cover = e.cover
      /\ entry.nav = IF e.acquisitions = <<>> THEN e.nav ELSE None
  BY <1>1 DEF EntryFields
<1>4. /\ ToSet(entry.acquisitions) = acq
      /\ \A m, n \in DOMAIN entry.acquisitions :
            m < n => entry.acquisitions[m] < entry.acquisitions[n]
  BY <1>2, <1>3 DEF Ascending
<1>5. IF covers \cup images = {} THEN entry.cover = None
      ELSE IF covers = {} THEN IsFirst(entry.cover, images) ELSE IsLast(entry.cover, covers)
  BY <1>2, <1>3 DEF CoverOf
<1>6. IF entry.acquisitions # <<>> \/ others = {} THEN entry.nav = None
      ELSE IsFirst(entry.nav, others)
  BY <1>2, <1>3 DEF ShelfOf
<1>. QED BY <1>4, <1>5, <1>6 DEF ReadsAsAdvertised, entry, acq, covers, images, others
LEMMA WhatIsOffered ==
    ASSUME NEW links \in Seq(Link)
    PROVE  LET entry == ParseEntry(links)
               acq == With(links, {"acquisition"}) IN
           /\ entry.acquisitions \in Seq(Nat) /\ ToSet(entry.acquisitions) = acq
           /\ entry.acquisitions = <<>> <=> acq = {}
           /\ entry.nav # None => acq = {} /\ entry.nav \in With(links, {"other"})
           /\ entry.cover # None => entry.cover \in Within(links)
           /\ acq \subseteq Within(links) /\ Within(links) \subseteq Nat \ {0}
<1>. DEFINE entry == ParseEntry(links)
            acq == With(links, {"acquisition"})
            covers == With(links, {"cover"})
            images == With(links, {"thumbnail", "image"})
            others == With(links, {"other"})
<1>1. entry.acquisitions \in Seq(Nat)
  <2>1. PICK e \in EntryFields :
          entry = IF e.acquisitions = <<>> THEN e ELSE [e EXCEPT !.nav = None]
    BY LoopEnds
  <2>. HIDE DEF entry
  <2>. QED BY <2>1 DEF EntryFields
<1>2. DOMAIN links = 1..Len(links)
  BY LenProperties
<1>3. Within(links) \subseteq Nat \ {0} /\ \A roles : With(links, roles) \subseteq Within(links)
  BY <1>2 DEF Within, With
<1>4. /\ ToSet(entry.acquisitions) = acq
      /\ IF covers \cup images = {} THEN entry.cover = None
         ELSE IF covers = {} THEN IsFirst(entry.cover, images) ELSE IsLast(entry.cover, covers)
      /\ IF entry.acquisitions # <<>> \/ others = {} THEN entry.nav = None
         ELSE IsFirst(entry.nav, others)
  BY EntriesReadAsAdvertised DEF ReadsAsAdvertised
<1>5. acq \subseteq Within(links) /\ covers \subseteq Within(links) /\ images \subseteq Within(links)
  BY <1>3
<1>. HIDE DEF entry, acq, covers, images, others
<1>6. entry.acquisitions = <<>> <=> acq = {}
  <2>1. Len(entry.acquisitions) \in Nat /\ DOMAIN entry.acquisitions = 1..Len(entry.acquisitions)
    BY <1>1, LenProperties
  <2>2. ASSUME entry.acquisitions # <<>> PROVE acq # {}
    <3>1. Len(entry.acquisitions) # 0
      BY <1>1, <2>2, EmptySeq
    <3>2. 1 \in DOMAIN entry.acquisitions
      BY <2>1, <3>1
    <3>. QED BY <1>4, <3>2 DEF ToSet
  <2>3. ASSUME entry.acquisitions = <<>> PROVE acq = {}
    BY <1>4, <2>3 DEF ToSet
  <2>. QED BY <2>2, <2>3
<1>7. entry.nav # None => acq = {} /\ entry.nav \in others
  BY <1>4, <1>6 DEF IsFirst
<1>8. entry.cover # None => entry.cover \in Within(links)
  BY <1>4, <1>5 DEF IsFirst, IsLast
<1>. QED BY <1>1, <1>3, <1>4, <1>5, <1>6, <1>7, <1>8 DEF entry, acq, covers, images, others

\* The first acquisition of a format is one, and is found if there is one.
LEMMA FirstFound ==
    ASSUME NEW links \in Seq(Link), NEW format
    PROVE  LET found == FirstOf(ParseEntry(links), links, format) IN
           /\ found # None =>
                found \in With(links, {"acquisition"}) /\ links[found].format = format
           /\ Offered(links, format) => found # None
<1>. DEFINE entry == ParseEntry(links)
            acq == With(links, {"acquisition"})
            a == entry.acquisitions
            hits == {n \in DOMAIN a : links[a[n]].format = format}
            found == FirstOf(entry, links, format)
<1>1. /\ a \in Seq(Nat) /\ ToSet(a) = acq /\ acq \subseteq Nat \ {0}
  BY WhatIsOffered
<1>2. found = IF hits = {} THEN None ELSE a[Min(hits)]
  BY DEF FirstOf
<1>3. hits # {} => Min(hits) \in hits
  <2>1. hits \in SUBSET Nat
    BY <1>1, LenProperties
  <2>. HIDE DEF hits
  <2>. QED BY <2>1, MinIn
<1>4. Offered(links, format) => hits # {}
  BY <1>1 DEF Offered, ToSet
<1>5. \A n \in hits : a[n] \in acq /\ a[n] # None /\ links[a[n]].format = format
  <2>1. \A n \in hits : a[n] \in acq /\ links[a[n]].format = format
    BY <1>1 DEF ToSet
  <2>. QED BY <1>1, <2>1 DEF None
<1>. HIDE DEF hits, found, acq, a
<1>6. /\ found # None => found \in acq /\ links[found].format = format
      /\ Offered(links, format) => found # None
  BY <1>2, <1>3, <1>4, <1>5
<1>. QED BY <1>6 DEF found, acq

\* By format first: what is offered as EPUB, or else as PDF, is what the book is opened with.
LEMMA SupportedFormat ==
    ASSUME NEW links \in Seq(Link), Supported(ParseEntry(links), links) # None
    PROVE  LET entry == ParseEntry(links)
               opened == Supported(entry, links) IN
           /\ opened \in With(links, {"acquisition"})
           /\ links[opened].format \in {"epub", "pdf", "html", "text", "cbz"}
           /\ opened = FirstOf(entry, links, links[opened].format)
           /\ Offered(links, "epub") => links[opened].format = "epub"
           /\ Offered(links, "pdf") => links[opened].format \in {"epub", "pdf"}
<1>. DEFINE entry == ParseEntry(links)
            formats == <<"epub", "pdf", "html", "text", "cbz">>
            first(f) == FirstOf(entry, links, f)
            found == {n \in DOMAIN formats : first(formats[n]) # None}
            opened == Supported(entry, links)
            best == Min(found)
<1>1. opened = IF found = {} THEN None ELSE first(formats[best])
  BY DEF Supported, FirstAmong
<1>2. /\ DOMAIN formats = 1..5 /\ formats[1] = "epub" /\ formats[2] = "pdf"
      /\ formats[3] = "html" /\ formats[4] = "text" /\ formats[5] = "cbz"
  OBVIOUS
<1>3. \A f : /\ first(f) # None => first(f) \in With(links, {"acquisition"}) /\ links[first(f)].format = f
             /\ Offered(links, f) => first(f) # None
  BY FirstFound
<1>0. opened # None
  OBVIOUS
<1>. HIDE DEF formats, first, entry
<1>4. found \in SUBSET (1..5) /\ found # {}
  <2>1. found # {}
    <3>. HIDE DEF found, opened
    <3>. QED BY <1>0, <1>1
  <2>. QED BY <1>2, <2>1
<1>5. best \in found /\ \A n \in found : best <= n
  <2>1. found \in SUBSET Nat
    BY <1>4
  <2>. HIDE DEF found
  <2>. QED BY <1>4, <2>1, MinIn
<1>6. opened = first(formats[best]) /\ first(formats[best]) # None
  BY <1>1, <1>4, <1>5
<1>7. links[opened].format = formats[best] /\ opened \in With(links, {"acquisition"})
  BY <1>3, <1>6
<1>8. Offered(links, "epub") => 1 \in found
  BY <1>2, <1>3
<1>9. Offered(links, "pdf") => 2 \in found
  BY <1>2, <1>3
<1>. HIDE DEF found, best, opened
<1>10. best \in 1..5 /\ (Offered(links, "epub") => best = 1) /\ (Offered(links, "pdf") => best \in 1..2)
  BY <1>4, <1>5, <1>8, <1>9
<1>11. /\ Offered(links, "epub") => links[opened].format = "epub"
       /\ Offered(links, "pdf") => links[opened].format \in {"epub", "pdf"}
       /\ links[opened].format \in {"epub", "pdf", "html", "text", "cbz"}
  BY <1>2, <1>7, <1>10
<1>12. opened = first(links[opened].format)
  BY <1>6, <1>7
<1>. QED BY <1>7, <1>11, <1>12 DEF opened, first, entry

\* A row leads nowhere the guard refuses, a book is opened in the best of its formats, which
\* can be imported into iBooks if any of them can, and what can neither be imported nor read
\* has no row (_to_view_model, supported_acquisition).
THEOREM RowsOpenWhatTheyOffer ==
    ASSUME NEW links \in Seq(Link)
    PROVE  OpensWhatItOffers(links)
<1>. DEFINE entry == ParseEntry(links)
            acq == With(links, {"acquisition"})
            nav == IsNavigation(entry)
            opened == IF nav THEN entry.nav ELSE Supported(entry, links)
            row == Row(links)
<1>1. /\ entry.acquisitions = <<>> <=> acq = {}
      /\ entry.nav # None => acq = {} /\ entry.nav \in With(links, {"other"})
      /\ entry.cover # None => entry.cover \in Within(links)
      /\ acq \subseteq Within(links)
  BY WhatIsOffered
<1>2. \A f : FirstOf(entry, links, f) # None => FirstOf(entry, links, f) \in acq
  BY FirstFound
<1>3. With(links, {"other"}) \subseteq Within(links)
  BY DEF With
<1>4. ~nav /\ opened # None =>
        /\ opened \in acq /\ links[opened].format # "mobi"
        /\ opened = FirstOf(entry, links, links[opened].format)
        /\ Offered(links, "epub") => links[opened].format = "epub"
        /\ Offered(links, "pdf") => links[opened].format \in {"epub", "pdf"}
  <2>1. \A f \in {"epub", "pdf", "html", "text", "cbz"} : f # "mobi"
    OBVIOUS
  <2>. QED BY <2>1, SupportedFormat
<1>5. row = IF ~Passes(links, opened) THEN NoRow
            ELSE IF nav THEN [NoRow EXCEPT !.nav = TRUE, !.link = opened]
            ELSE [nav |-> FALSE, link |-> opened,
                  cover |-> IF ShowCovers /\ Passes(links, entry.cover) THEN entry.cover ELSE None,
                  downloads |-> Downloads(entry, links)]
  BY DEF Row
<1>6. nav => entry.nav # None
  BY DEF IsNavigation
<1>7. \A i \in acq : links[i].role = "acquisition"
  BY DEF With
<1>8. \A i \in Downloads(entry, links) : i \in acq /\ links[i].allowed
  BY <1>2 DEF Downloads, Passes
<1>. HIDE DEF entry, acq, nav, opened, row
<1>10. CASE ~Passes(links, opened)
  <2>1. row.nav = FALSE /\ row.link = None /\ row.cover = None /\ row.downloads = {}
    BY <1>5, <1>10 DEF NoRow
  <2>. QED BY <2>1 DEF OpensWhatItOffers, row
<1>11. CASE Passes(links, opened) /\ nav
  <2>1. row.nav = TRUE /\ row.link = opened /\ row.cover = None /\ row.downloads = {}
    BY <1>5, <1>11 DEF NoRow
  <2>2. opened = entry.nav
    BY <1>11 DEF opened
  <2>3. opened \in With(links, {"other"}) /\ acq = {} /\ links[opened].allowed
    BY <1>1, <1>6, <1>11, <2>2 DEF Passes
  <2>. QED BY <1>3, <2>1, <2>3 DEF OpensWhatItOffers, row, acq
<1>12. CASE Passes(links, opened) /\ ~nav
  <2>1. /\ row.nav = FALSE /\ row.link = opened /\ row.downloads = Downloads(entry, links)
        /\ row.cover # None => row.cover = entry.cover /\ Passes(links, entry.cover)
    BY <1>5, <1>12
  <2>2. opened # None /\ links[opened].allowed
    BY <1>12 DEF Passes
  <2>3. \A i \in ({row.link, row.cover} \ {None}) \cup row.downloads :
            i \in Within(links) /\ links[i].allowed
    BY <1>1, <1>4, <1>8, <1>12, <2>1, <2>2 DEF Passes
  <2>4. /\ links[row.link].role = "acquisition" /\ links[row.link].format # "mobi"
        /\ \A format \in {"epub", "pdf"} :
             Offered(links, format) => links[row.link].format \in {"epub", format}
    BY <1>4, <1>7, <1>12, <2>1, <2>2
  <2>5. links[row.link].format \in {"epub", "pdf"} => row.link \in row.downloads
    BY <1>4, <1>12, <2>1, <2>2 DEF Downloads
  <2>. QED BY <2>1, <2>3, <2>4, <2>5 DEF OpensWhatItOffers, row
<1>. QED BY <1>10, <1>11, <1>12
----------------------------------------------------------------------------
(* Sorting the rows of a page.                                             *)

Orders(S, R) ==
    /\ \A x \in S : <<x, x>> \notin R
    /\ \A x, y, z \in S : <<x, y>> \in R /\ <<y, z>> \in R => <<x, z>> \in R
    /\ \A x, y \in S : x = y \/ <<x, y>> \in R \/ <<y, x>> \in R

Rank(S, R, x) == Cardinality({y \in S : <<y, x>> \in R})

LEMMA RankGrows ==
    ASSUME NEW S, NEW R, IsFiniteSet(S), Orders(S, R), NEW x \in S, NEW z \in S, <<x, z>> \in R
    PROVE  Rank(S, R, x) < Rank(S, R, z)
<1>. DEFINE below == {y \in S : <<y, x>> \in R}
            under == {y \in S : <<y, z>> \in R}
<1>1. IsFiniteSet(below) /\ IsFiniteSet(under)
  BY FS_Subset
<1>2. x \notin below /\ below \cup {x} \subseteq under
  BY DEF Orders
<1>. HIDE DEF below, under
<1>3. Cardinality(below \cup {x}) = Cardinality(below) + 1
  BY <1>1, <1>2, FS_AddElement
<1>4. Cardinality(below \cup {x}) <= Cardinality(under)
  BY <1>1, <1>2, FS_Subset
<1>5. Cardinality(below) \in Nat /\ Cardinality(under) \in Nat
  BY <1>1, FS_CardinalityType
<1>6. Cardinality(below) < Cardinality(under)
  BY <1>3, <1>4, <1>5
<1>. QED BY <1>6 DEF Rank, below, under

LEMMA RankBounds ==
    ASSUME NEW S, NEW R, IsFiniteSet(S), Orders(S, R), NEW x \in S
    PROVE  Rank(S, R, x) \in 0..(Cardinality(S) - 1)
<1>. DEFINE below == {y \in S : <<y, x>> \in R}
<1>1. below \subseteq S \ {x}
  BY DEF Orders
<1>2. IsFiniteSet(S \ {x}) /\ Cardinality(S \ {x}) = Cardinality(S) - 1
  BY FS_RemoveElement
<1>. HIDE DEF below
<1>3. IsFiniteSet(below) /\ Cardinality(below) <= Cardinality(S \ {x})
  BY <1>1, <1>2, FS_Subset
<1>4. Cardinality(below) \in Nat /\ Cardinality(S) \in Nat
  BY <1>3, FS_CardinalityType
<1>. QED BY <1>2, <1>3, <1>4 DEF Rank, below

\* A finite set is enumerated once, in its order.
LEMMA RankedLists ==
    ASSUME NEW S, NEW R, IsFiniteSet(S), Orders(S, R)
    PROVE  /\ Cardinality(S) \in Nat
           /\ Ranked(S, R) \in [1..Cardinality(S) -> S]
           /\ \A i, j \in 1..Cardinality(S) : i < j => <<Ranked(S, R)[i], Ranked(S, R)[j]>> \in R
           /\ \A x \in S : \E i \in 1..Cardinality(S) : Ranked(S, R)[i] = x
<1>. DEFINE n == Cardinality(S)
            rank == [x \in S |-> Rank(S, R, x)]
            s == Ranked(S, R)
<1>0. n \in Nat
  BY FS_CardinalityType
<1>. HIDE DEF n
<1>1. \A x, z \in S : Rank(S, R, x) = Rank(S, R, z) => x = z
  <2>1. \A x, z \in S : <<x, z>> \in R => Rank(S, R, x) < Rank(S, R, z)
    BY RankGrows
  <2>2. \A x \in S : Rank(S, R, x) \in Int
    BY RankBounds
  <2>. SUFFICES ASSUME NEW x \in S, NEW z \in S, Rank(S, R, x) = Rank(S, R, z) PROVE x = z
    OBVIOUS
  <2>3. ~(Rank(S, R, x) < Rank(S, R, z)) /\ ~(Rank(S, R, z) < Rank(S, R, x))
    BY <2>2
  <2>. QED BY <2>1, <2>3 DEF Orders
<1>2. rank \in Injection(S, 0..(n - 1))
  <2>1. rank \in [S -> 0..(n - 1)]
    BY RankBounds DEF n
  <2>. QED BY <1>1, <2>1 DEF Injection, IsInjective
<1>3. IsFiniteSet(0..(n - 1)) /\ Cardinality(0..(n - 1)) = n
  <2>1. IsFiniteSet(0..(n - 1)) /\ Cardinality(0..(n - 1)) = IF 0 > n - 1 THEN 0 ELSE n - 1 - 0 + 1
    BY <1>0, FS_Interval
  <2>. QED BY <1>0, <2>1
<1>4. rank \in Surjection(S, 0..(n - 1))
  BY <1>2, <1>3, FS_Injection DEF n
<1>5. \A k \in 1..n : \E x \in S : Rank(S, R, x) = k - 1
  <2>. SUFFICES ASSUME NEW k \in 1..n PROVE \E x \in S : Rank(S, R, x) = k - 1
    OBVIOUS
  <2>1. k - 1 \in 0..(n - 1)
    BY <1>0
  <2>2. PICK x \in S : rank[x] = k - 1
    BY <1>4, <2>1 DEF Surjection
  <2>. QED BY <2>2
<1>6. \A k \in 1..n : s[k] \in S /\ Rank(S, R, s[k]) = k - 1
  <2>1. s = [k \in 1..n |-> CHOOSE x \in S : Rank(S, R, x) = k - 1]
    BY DEF Ranked, Rank, n
  <2>. HIDE DEF s
  <2>. QED BY <1>5, <2>1
<1>7. s \in [1..n -> S]
  <2>1. s = [k \in 1..n |-> CHOOSE x \in S : Rank(S, R, x) = k - 1]
    BY DEF Ranked, Rank, n
  <2>. HIDE DEF s
  <2>. QED BY <1>6, <2>1
<1>. HIDE DEF s
<1>8. ASSUME NEW i \in 1..n, NEW j \in 1..n, i < j PROVE <<s[i], s[j]>> \in R
  <2>1. s[i] \in S /\ s[j] \in S /\ Rank(S, R, s[i]) = i - 1 /\ Rank(S, R, s[j]) = j - 1
    BY <1>6
  <2>2. <<s[j], s[i]>> \in R => Rank(S, R, s[j]) < Rank(S, R, s[i])
    BY <2>1, RankGrows
  <2>3. s[i] # s[j] /\ <<s[j], s[i]>> \notin R
    BY <1>0, <1>8, <2>1, <2>2
  <2>. QED BY <2>1, <2>3 DEF Orders
<1>9. ASSUME NEW x \in S PROVE \E i \in 1..n : s[i] = x
  <2>1. Rank(S, R, x) \in 0..(n - 1)
    BY RankBounds DEF n
  <2>2. Rank(S, R, x) + 1 \in 1..n /\ (Rank(S, R, x) + 1) - 1 = Rank(S, R, x)
    BY <1>0, <2>1
  <2>3. s[Rank(S, R, x) + 1] \in S /\ Rank(S, R, s[Rank(S, R, x) + 1]) = Rank(S, R, x)
    BY <1>6, <2>2
  <2>. QED BY <1>1, <2>2, <2>3
<1>. QED BY <1>0, <1>7, <1>8, <1>9 DEF n, s

\* Keys compare like pairs of numbers.
LEMMA KeysArePairs ==
    ASSUME NEW row \in SortedRow, NEW sort \in SortKeys
    PROVE  \E a, b \in Nat : SortKey(row, sort) = <<a, b>>
<1>1. row.title \in Nat /\ row.author \in Nat /\ row.rank \in Nat
  BY DEF SortedRow
<1>2. CASE sort = "title"
  BY <1>1, <1>2 DEF SortKey
<1>3. CASE sort = "author"
  BY <1>1, <1>3 DEF SortKey
<1>4. CASE sort = "format"
  BY <1>1, <1>4 DEF SortKey
<1>. QED BY <1>2, <1>3, <1>4 DEF SortKeys

LEMMA BeforeOrders ==
    ASSUME NEW x, NEW y, NEW z,
           \E a, b \in Nat : x = <<a, b>>, \E a, b \in Nat : y = <<a, b>>, \E a, b \in Nat : z = <<a, b>>
    PROVE  /\ ~Before(x, x)
           /\ Before(x, y) => ~Before(y, x)
           /\ Before(x, y) /\ Before(y, z) => Before(x, z)
           /\ x = y \/ Before(x, y) \/ Before(y, x)
  BY DEF Before

LEMMA RowsOrdered ==
    ASSUME NEW rows \in Seq(SortedRow), NEW S \in SUBSET (DOMAIN rows), NEW sort
    PROVE  /\ Orders(S, AsListed(rows))
           /\ sort \in SortKeys => Orders(S, StableOrder(rows, sort))
<1>0. DOMAIN rows = 1..Len(rows) /\ Len(rows) \in Nat /\ \A i \in DOMAIN rows : rows[i] \in SortedRow
  BY LenProperties, ElementOfSeq
<1>1. \A i, j \in S : <<i, j>> \in AsListed(rows) <=> i < j
  BY DEF AsListed
<1>2. S \subseteq Nat
  BY <1>0
<1>3. Orders(S, AsListed(rows))
  BY <1>1, <1>2 DEF Orders
<1>4. ASSUME sort \in SortKeys PROVE Orders(S, StableOrder(rows, sort))
  <2>. DEFINE key(i) == SortKey(rows[i], sort)
  <2>1. \A i, j \in S : <<i, j>> \in StableOrder(rows, sort)
                            <=> Before(key(i), key(j)) \/ (key(i) = key(j) /\ i < j)
    BY DEF StableOrder
  <2>2. \A i \in S : \E a, b \in Nat : key(i) = <<a, b>>
    BY <1>0, <1>4, KeysArePairs
  <2>. HIDE DEF key
  <2>3. \A i, j, k \in S :
            /\ ~Before(key(i), key(i))
            /\ Before(key(i), key(j)) /\ Before(key(j), key(k)) => Before(key(i), key(k))
            /\ key(i) = key(j) \/ Before(key(i), key(j)) \/ Before(key(j), key(i))
    BY <2>2, BeforeOrders
  <2>4. \A i, j \in S : ~(i < i) /\ (i = j \/ i < j \/ j < i)
    BY <1>2
  <2>5. \A i, j, k \in S : i < j /\ j < k => i < k
    BY <1>2
  <2>6. \A i \in S : <<i, i>> \notin StableOrder(rows, sort)
    BY <2>1, <2>3, <2>4
  <2>7. \A i, j, k \in S : /\ <<i, j>> \in StableOrder(rows, sort)
                           /\ <<j, k>> \in StableOrder(rows, sort)
                           => <<i, k>> \in StableOrder(rows, sort)
    <3>. TAKE i, j, k \in S
    <3>. HAVE <<i, j>> \in StableOrder(rows, sort) /\ <<j, k>> \in StableOrder(rows, sort)
    <3>1. Before(key(i), key(j)) \/ (key(i) = key(j) /\ i < j)
      BY <2>1
    <3>2. Before(key(j), key(k)) \/ (key(j) = key(k) /\ j < k)
      BY <2>1
    <3>3. Before(key(i), key(k)) \/ (key(i) = key(k) /\ i < k)
      BY <2>3, <2>5, <3>1, <3>2
    <3>. QED BY <2>1, <3>3
  <2>8. \A i, j \in S : i = j \/ <<i, j>> \in StableOrder(rows, sort)
                              \/ <<j, i>> \in StableOrder(rows, sort)
    BY <2>1, <2>3, <2>4
  <2>. QED BY <2>6, <2>7, <2>8 DEF Orders
<1>. QED BY <1>3, <1>4
\* Where the rows of a sorted page come from.
LEMMA SortedPlaces ==
    ASSUME NEW rows \in Seq(SortedRow), NEW sort \in SortKeys
    PROVE  LET n == Len(rows)
               page == SortedPage(rows, sort) IN
           \E from \in [1..n -> DOMAIN rows], p \in 0..n :
            /\ page = [i \in 1..n |-> rows[from[i]]]
            /\ \A x \in DOMAIN rows : \E i \in 1..n : from[i] = x
            /\ \A i \in 1..n : rows[from[i]].nav <=> i <= p
            /\ \A i, j \in 1..n : i < j /\ j <= p => from[i] < from[j]
            /\ \A i, j \in 1..n : i < j /\ p < i => <<from[i], from[j]>> \in StableOrder(rows, sort)
<1>. DEFINE n == Len(rows)
            page == SortedPage(rows, sort)
            navs == {i \in DOMAIN rows : rows[i].nav}
            books == (DOMAIN rows) \ navs
            listed == AsListed(rows)
            stable == StableOrder(rows, sort)
            a == Ranked(navs, listed)
            b == Ranked(books, stable)
            p == Cardinality(navs)
            q == Cardinality(books)
            places == a \o b
<1>0. DOMAIN rows = 1..n /\ n \in Nat
  BY LenProperties
<1>1. IsFiniteSet(DOMAIN rows) /\ Cardinality(DOMAIN rows) = n
  <2>1. IsFiniteSet(1..n) /\ Cardinality(1..n) = IF 1 > n THEN 0 ELSE n - 1 + 1
    BY <1>0, FS_Interval
  <2>. QED BY <1>0, <2>1
<1>2. Orders(navs, listed) /\ Orders(books, stable)
  <2>1. navs \in SUBSET (DOMAIN rows) /\ books \in SUBSET (DOMAIN rows)
    OBVIOUS
  <2>. HIDE DEF navs, books
  <2>. QED BY <2>1, RowsOrdered
<1>3. IsFiniteSet(navs) /\ IsFiniteSet(books) /\ n = p + q
  <2>1. IsFiniteSet(navs) /\ IsFiniteSet(books)
    BY <1>1, FS_Subset
  <2>2. navs \cap books = {} /\ navs \cup books = DOMAIN rows
    OBVIOUS
  <2>. HIDE DEF navs, books
  <2>3. Cardinality({}) = 0
    BY FS_EmptySet
  <2>4. Cardinality(navs \cup books) = Cardinality(navs) + Cardinality(books) - Cardinality(navs \cap books)
    BY <2>1, FS_Union
  <2>5. p \in Nat /\ q \in Nat
    BY <2>1, FS_CardinalityType
  <2>6. n = p + q - 0
    BY <1>1, <2>2, <2>3, <2>4
  <2>. HIDE DEF p, q, n
  <2>. QED BY <2>1, <2>5, <2>6
<1>4. page = [i \in DOMAIN places |-> rows[places[i]]]
  BY DEF SortedPage
<1>5. \A i \in DOMAIN rows : (i \in navs <=> rows[i].nav) /\ (i \in books <=> ~rows[i].nav)
  OBVIOUS
<1>6. navs \subseteq DOMAIN rows /\ books \subseteq DOMAIN rows /\ DOMAIN rows \subseteq navs \cup books
  OBVIOUS
<1>. HIDE DEF n, page, navs, books, listed, stable
<1>7. /\ p \in Nat /\ a \in [1..p -> navs]
      /\ \A i, j \in 1..p : i < j => <<a[i], a[j]>> \in listed
      /\ \A x \in navs : \E i \in 1..p : a[i] = x
  BY <1>2, <1>3, RankedLists
<1>8. /\ q \in Nat /\ b \in [1..q -> books]
      /\ \A i, j \in 1..q : i < j => <<b[i], b[j]>> \in stable
      /\ \A x \in books : \E i \in 1..q : b[i] = x
  BY <1>2, <1>3, RankedLists
<1>. HIDE DEF a, b, p, q
<1>9. /\ a \in Seq(DOMAIN rows) /\ Len(a) = p /\ b \in Seq(DOMAIN rows) /\ Len(b) = q
  <2>1. a \in [1..p -> DOMAIN rows] /\ b \in [1..q -> DOMAIN rows]
    BY <1>6, <1>7, <1>8
  <2>. QED BY <1>7, <1>8, <2>1, IsASeq
<1>10. /\ places \in Seq(DOMAIN rows) /\ Len(places) = n
       /\ \A i \in 1..n : places[i] = IF i <= p THEN a[i] ELSE b[i - p]
  <2>1. /\ Len(places) = Len(a) + Len(b)
        /\ \A i \in 1..(Len(a) + Len(b)) : places[i] = IF i <= Len(a) THEN a[i] ELSE b[i - Len(a)]
    BY <1>9, ConcatProperties
  <2>2. places \in Seq(DOMAIN rows)
    BY <1>9, ConcatProperties
  <2>. HIDE DEF places
  <2>. QED BY <1>3, <1>9, <2>1, <2>2
<1>11. DOMAIN places = 1..n
  BY <1>10, LenProperties
<1>. HIDE DEF places
<1>12. places \in [1..n -> DOMAIN rows] /\ p \in 0..n
  <2>1. \A i \in 1..n : places[i] \in DOMAIN rows
    BY <1>10, <1>11, ElementOfSeq
  <2>2. places = [i \in 1..n |-> places[i]]
    BY <1>10, <1>11
  <2>. QED BY <1>0, <1>3, <1>7, <1>8, <2>1, <2>2
<1>13. \A i \in 1..n : rows[places[i]].nav <=> i <= p
  <2>. TAKE i \in 1..n
  <2>1. CASE i <= p
    <3>1. i \in 1..p /\ places[i] = a[i]
      BY <1>0, <1>7, <1>10, <2>1
    <3>. QED BY <1>5, <1>6, <1>7, <2>1, <3>1
  <2>2. CASE ~(i <= p)
    <3>1. i - p \in 1..q /\ places[i] = b[i - p]
      BY <1>0, <1>3, <1>7, <1>8, <1>10, <2>2
    <3>. QED BY <1>5, <1>6, <1>8, <2>2, <3>1
  <2>. QED BY <2>1, <2>2
<1>14. \A x \in DOMAIN rows : \E i \in 1..n : places[i] = x
  <2>. TAKE x \in DOMAIN rows
  <2>1. CASE x \in navs
    <3>1. PICK i \in 1..p : a[i] = x
      BY <1>7, <2>1
    <3>2. i \in 1..n /\ i <= p
      BY <1>0, <1>3, <1>7, <1>8
    <3>. QED BY <1>10, <3>1, <3>2
  <2>2. CASE x \in books
    <3>1. PICK i \in 1..q : b[i] = x
      BY <1>8, <2>2
    <3>2. i + p \in 1..n /\ ~(i + p <= p) /\ (i + p) - p = i
      BY <1>0, <1>3, <1>7, <1>8
    <3>3. places[i + p] = x
      BY <1>10, <3>1, <3>2
    <3>. QED BY <3>2, <3>3
  <2>. QED BY <1>6, <2>1, <2>2
<1>15. ASSUME NEW i \in 1..n, NEW j \in 1..n, i < j, j <= p PROVE places[i] < places[j]
  <2>1. i \in 1..p /\ j \in 1..p /\ i <= p
    BY <1>0, <1>7, <1>15
  <2>2. places[i] = a[i] /\ places[j] = a[j] /\ <<a[i], a[j]>> \in listed
    BY <1>7, <1>10, <1>15, <2>1
  <2>. QED BY <2>2 DEF AsListed, listed
<1>16. ASSUME NEW i \in 1..n, NEW j \in 1..n, i < j, p < i PROVE <<places[i], places[j]>> \in stable
  <2>1. i - p \in 1..q /\ j - p \in 1..q /\ i - p < j - p /\ ~(i <= p) /\ ~(j <= p)
    BY <1>0, <1>3, <1>7, <1>8, <1>16
  <2>2. places[i] = b[i - p] /\ places[j] = b[j - p]
    BY <1>10, <2>1
  <2>. QED BY <1>8, <2>1, <2>2
<1>17. page = [i \in 1..n |-> rows[places[i]]]
  BY <1>4, <1>11
<1>. QED BY <1>12, <1>13, <1>14, <1>15, <1>16, <1>17 DEF n, page, stable

\* Sorting a page neither drops nor repeats a row, keeps the shelves in front in the order of
\* the library, and the rows that the key does not tell apart in that order (_sorted_page:
\* "The sort is stable, so it never drops or duplicates rows").
THEOREM SortingKeepsRows ==
    ASSUME NEW rows \in Seq(SortedRow), IsInjective(rows), NEW sort
    PROVE  SortKeepsRows(rows, sort)
<1>. DEFINE n == Len(rows)
            page == SortedPage(rows, sort)
            at(row) == CHOOSE i \in DOMAIN rows : rows[i] = row
            key(i) == SortKey(page[i], sort)
<1>0. DOMAIN rows = 1..n /\ n \in Nat /\ \A i \in DOMAIN rows : rows[i] \in SortedRow
  BY LenProperties, ElementOfSeq
<1>1. CASE sort \notin SortKeys
  <2>1. page = rows
    BY <1>1 DEF SortedPage
  <2>. QED BY <1>1, <2>1 DEF SortKeepsRows
<1>2. CASE sort \in SortKeys
  <2>. HIDE DEF n, page
  <2>0. PICK from \in [1..n -> DOMAIN rows] : \E p \in 0..n :
            /\ page = [i \in 1..n |-> rows[from[i]]]
            /\ \A x \in DOMAIN rows : \E i \in 1..n : from[i] = x
            /\ \A i \in 1..n : rows[from[i]].nav <=> i <= p
            /\ \A i, j \in 1..n : i < j /\ j <= p => from[i] < from[j]
            /\ \A i, j \in 1..n : i < j /\ p < i => <<from[i], from[j]>> \in StableOrder(rows, sort)
    BY <1>2, SortedPlaces DEF n, page
  <2>1. PICK p \in 0..n :
            /\ page = [i \in 1..n |-> rows[from[i]]]
            /\ \A x \in DOMAIN rows : \E i \in 1..n : from[i] = x
            /\ \A i \in 1..n : rows[from[i]].nav <=> i <= p
            /\ \A i, j \in 1..n : i < j /\ j <= p => from[i] < from[j]
            /\ \A i, j \in 1..n : i < j /\ p < i => <<from[i], from[j]>> \in StableOrder(rows, sort)
    BY <2>0
  <2>2. DOMAIN page = 1..n /\ \A i \in 1..n : page[i] = rows[from[i]] /\ from[i] \in DOMAIN rows
    BY <2>1
  <2>3. Len(page) = n
    <3>1. page \in [1..n -> SortedRow]
      BY <1>0, <2>1
    <3>. QED BY <1>0, <3>1, IsASeq
  <2>4. ToSet(page) = ToSet(rows)
    <3>1. \A i \in DOMAIN page : \E x \in DOMAIN rows : rows[x] = page[i]
      BY <2>2
    <3>2. \A x \in DOMAIN rows : \E i \in DOMAIN page : page[i] = rows[x]
      BY <2>1, <2>2
    <3>. QED BY <3>1, <3>2 DEF ToSet
  <2>5. \A x \in DOMAIN rows : at(rows[x]) = x
    BY DEF IsInjective
  <2>. HIDE DEF at
  <2>6. ASSUME NEW i \in 1..n, NEW j \in 1..n, i < j
        PROVE  /\ page[j].nav => page[i].nav
               /\ page[i].nav = page[j].nav =>
                    IF page[i].nav \/ key(i) = key(j) THEN at(page[i]) < at(page[j])
                    ELSE Before(key(i), key(j))
    <3>1. /\ at(page[i]) = from[i] /\ at(page[j]) = from[j]
          /\ page[i].nav <=> i <= p
          /\ page[j].nav <=> j <= p
      BY <2>1, <2>2, <2>5
    <3>2. j <= p => i <= p
      BY <1>0, <2>6
    <3>3. CASE page[i].nav /\ page[j].nav
      <4>1. from[i] < from[j]
        BY <2>1, <2>6, <3>1, <3>3
      <4>. QED BY <3>1, <3>3, <4>1
    <3>4. CASE ~page[i].nav /\ ~page[j].nav
      <4>0. ~(i <= p)
        BY <3>1, <3>4
      <4>1. p < i
        <5>1. i \in Int /\ p \in Int
          BY <1>0
        <5>. HIDE DEF n
        <5>. QED BY <4>0, <5>1
      <4>2. <<from[i], from[j]>> \in StableOrder(rows, sort)
        BY <2>1, <2>6, <4>1
      <4>3. Before(key(i), key(j)) \/ (key(i) = key(j) /\ from[i] < from[j])
        BY <2>2, <4>2 DEF StableOrder
      <4>4. \E a, b \in Nat : key(i) = <<a, b>>
        BY <1>0, <1>2, <2>2, KeysArePairs
      <4>. HIDE DEF key
      <4>5. ~Before(key(i), key(i))
        BY <4>4, BeforeOrders
      <4>. QED BY <3>1, <3>4, <4>3, <4>5
    <3>5. CASE ~(page[i].nav <=> page[j].nav)
      BY <3>1, <3>2, <3>5
    <3>. QED BY <3>3, <3>4, <3>5
  <2>. QED BY <1>2, <2>2, <2>3, <2>4, <2>6, Zenon DEF SortKeepsRows, n, page, at, key
<1>. QED BY <1>1, <1>2

\* Together: of any links of an entry and any rows of a page (_parse_entry, _to_view_model,
\* _sorted_page).
THEOREM PagesShowWhatIsOffered == Spec => []PageShows
<1>1. ASSUME NEW links \in LinkLists PROVE ReadsAsAdvertised(links) /\ OpensWhatItOffers(links)
  <2>1. links \in Seq(Link)
    BY ListsAssumption
  <2>. QED BY <2>1, EntriesReadAsAdvertised, RowsOpenWhatTheyOffer
<1>2. ASSUME NEW rows \in RowLists, NEW sort \in SortKeys \cup {""}
      PROVE  SortKeepsRows(rows, sort)
  <2>1. rows \in Seq(SortedRow) /\ IsInjective(rows)
    BY ListsAssumption
  <2>. QED BY <2>1, SortingKeepsRows
<1>3. EntriesShow
  BY <1>1, <1>2, Zenon DEF EntriesShow
<1>4. PageShows
  BY <1>3 DEF PageShows
<1>. QED BY <1>4, PTL

=============================================================================
