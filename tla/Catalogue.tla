------------------------------ MODULE Catalogue ------------------------------
(***************************************************************************)
(* Browsing the libraries: the feed pages with the feed cache of           *)
(* app/main.py (FeedCache, _load_feed), the search of one or of all        *)
(* libraries with its templates, the status page, and /random, the walk    *)
(* that looks for some book.                                               *)
(*                                                                         *)
(* A request is atomic between two awaits, and what it awaits here are     *)
(* fetches of the upstream client.  A fetch ends with the document, with a *)
(* document that is no feed (opds.parse raises OpdsParseError, which is no *)
(* RetroShelfError), or with an error of the client (which is one).        *)
(*                                                                         *)
(* The cache is keyed by the bridge id of a page, and every page rendered  *)
(* mints new ids (a fresh nonce each): several links lead to one page.     *)
(* A document is its edition; what it lists matters to the walk only.      *)
(***************************************************************************)
EXTENDS Opds

CONSTANTS
    Requests,       \* slots for requests in progress
    Pages,          \* feed documents
    Links,          \* bridge ids of feed pages
    PageOf,         \* what each of them decodes to
    Libraries,      \* the configured feeds
    Root,           \* the root feed of each
    Leads,          \* Leads[p]: where the navigation rows of p lead, in order
    WithBooks,      \* pages that list a book
    Advertising,    \* libraries whose root feed has a search template
    Ttl,            \* CACHE_FEEDS_SECONDS, in ticks
    MaxEntries,     \* of the cache
    Budget,         \* fetches of /random for one library
    LongestFetch,   \* bound: ticks a feed fetch may take
    MaxNow,         \* bound: the clock stops there
    MaxEdition      \* bound: MaxEdition[p], editions of page p

NoPage == <<>>

ASSUME CatalogueAssumption ==
    /\ NoPage \notin Pages
    /\ PageOf \in [Links -> Pages]
    /\ Root \in [Libraries -> Pages]
    /\ Leads \in [Pages -> Seq(Pages)]
    /\ WithBooks \subseteq Pages
    /\ Advertising \subseteq Libraries
    /\ {Ttl, LongestFetch, MaxNow} \subseteq Nat
    /\ MaxEdition \in [Pages -> Nat]
    /\ {MaxEntries, Budget} \subseteq Nat \ {0}

VARIABLES
    now,            \* time.monotonic()
    edition, replaced,  \* the libraries' pages, and when editions were replaced
    shown,          \* the feed page shown last
    cache,          \* FeedCache._data: link to time and edition
    templates,      \* app.state.search_templates
    request         \* the requests in progress

upstream == <<now, edition, replaced>>
vars == <<upstream, shown, cache, templates, request>>

\* The values of templates: not asked yet, asked in vain, and the advertised one.
Unasked == "unasked"
Absent == "absent"
Known == "known"

Idle == [kind |-> "idle"]
NotYet == -1

Is(r, kind) == request[r].kind = kind
Become(r, record) == request' = [request EXCEPT ![r] = record]
Done(r) == Become(r, Idle)

----------------------------------------------------------------------------
Init ==
    /\ now = 0
    /\ edition = [p \in Pages |-> 0]
    /\ replaced = [p \in Pages |-> <<>>]
    /\ shown = <<>>
    /\ cache = <<>>
    /\ templates = [l \in Libraries |-> Unasked]
    /\ request = [r \in Requests |-> Idle]

\* A fetch takes no longer than LongestFetch.
Tick ==
    /\ now < MaxNow
    /\ \A r \in Requests : Is(r, "feed") => now < request[r].since + LongestFetch
    /\ now' = now + 1
    /\ UNCHANGED <<edition, replaced, shown, cache, templates, request>>

Publish(p) ==
    /\ edition[p] < MaxEdition[p]
    /\ edition' = [edition EXCEPT ![p] = @ + 1]
    /\ replaced' = [replaced EXCEPT ![p] = Append(@, now)]
    /\ UNCHANGED <<now, shown, cache, templates, request>>

----------------------------------------------------------------------------
\* FeedCache.
Drop(k) == Restrict(cache, DOMAIN cache \ {k})

Stale(k) == now - cache[k].at > Ttl

Oldest == {k \in DOMAIN cache : \A j \in DOMAIN cache : cache[k].at <= cache[j].at}

\* Mutant: the cache holds one entry too many.
RoomLate ==
    IF Cardinality(DOMAIN cache) > MaxEntries THEN {Drop(k) : k \in Oldest} ELSE {cache}

\* The cache with room for one more entry, even when that one only replaces another.
Room ==
    IF Cardinality(DOMAIN cache) >= MaxEntries THEN {Drop(k) : k \in Oldest} ELSE {cache}

WithCopy(rest, k, copy) ==
    [j \in DOMAIN rest \cup {k} |-> IF j = k THEN copy ELSE rest[j]]

Put(k, e) ==
    IF Ttl <= 0 THEN UNCHANGED cache
    ELSE \E rest \in Room : cache' = WithCopy(rest, k, [at |-> now, edition |-> e])

\* Mutant: a hit extends the lifetime of its entry.
HitSliding(r, k) ==
    /\ request[r] = Idle
    /\ k \in DOMAIN cache /\ ~Stale(k)
    /\ shown' = <<PageOf[k], cache[k].edition, now>>
    /\ cache' = [cache EXCEPT ![k].at = now]
    /\ UNCHANGED <<upstream, templates, request>>

\* GET /feed/{fid}, with a copy in the cache.
Hit(r, k) ==
    /\ request[r] = Idle
    /\ k \in DOMAIN cache /\ ~Stale(k)
    /\ shown' = <<PageOf[k], cache[k].edition, now>>
    /\ UNCHANGED <<upstream, cache, templates, request>>

\* GET /feed/{fid}, without one: what is stale goes, and a fetch is awaited.
Miss(r, k) ==
    /\ request[r] = Idle
    /\ k \in DOMAIN cache => Stale(k)
    /\ cache' = Drop(k)
    /\ Become(r, [kind |-> "feed", link |-> k, since |-> now, got |-> NotYet])
    /\ UNCHANGED <<upstream, shown, templates>>

\* The library sends the edition it has; the rest of the fetch takes its time.
Sent(r) ==
    /\ Is(r, "feed") /\ request[r].got = NotYet
    /\ Become(r, [request[r] EXCEPT !.got = edition[PageOf[request[r].link]]])
    /\ UNCHANGED <<upstream, shown, cache, templates>>

\* The document is there: parse, store, show.  A link to the next or previous page that the
\* guard refuses turns the page into an error, once it is stored.
Received(r) ==
    LET k == request[r].link
        e == request[r].got
    IN
    /\ Is(r, "feed") /\ e # NotYet
    /\ Put(k, e)
    /\ shown' = <<PageOf[k], e, now>> \/ UNCHANGED shown
    /\ Done(r)
    /\ UNCHANGED <<upstream, templates>>

\* KavitaError or SsrfError (502, 400), or OpdsParseError (500): nothing is stored.
FeedFails(r) ==
    /\ Is(r, "feed")
    /\ Done(r)
    /\ UNCHANGED <<upstream, shown, cache, templates>>

----------------------------------------------------------------------------
\* Search and status: one task for each library, gathered.  A task that raises ends its
\* request with a 500 at once, while the other tasks go on.
Ended == {"answered", "raised"}

StartSearch(r, libs) ==
    /\ request[r] = Idle
    /\ Become(r, [kind |-> "search",
                  at |-> [l \in libs |-> IF templates[l] = Unasked THEN "root" ELSE "query"]])
    /\ UNCHANGED <<upstream, shown, cache, templates>>

StartStatus(r) ==
    /\ request[r] = Idle
    /\ Become(r, [kind |-> "status", at |-> [l \in Libraries |-> "query"]])
    /\ UNCHANGED <<upstream, shown, cache, templates>>

Gathers(r) == request[r].kind \in {"search", "status"}
At(r, l, stage) == Gathers(r) /\ l \in DOMAIN request[r].at /\ request[r].at[l] = stage

Goto(r, l, stage) == request' = [request EXCEPT ![r].at[l] = stage]

\* The root feed is there, with a template or without: either is remembered for good.
Learn(r, l) ==
    /\ At(r, l, "root")
    /\ templates' = [templates EXCEPT ![l] = IF l \in Advertising THEN Known ELSE Absent]
    /\ Goto(r, l, "query")
    /\ UNCHANGED <<upstream, shown, cache>>

\* The root feed could not be fetched: remembered as absent, whatever is known by now.
GiveUp(r, l) ==
    /\ At(r, l, "root")
    /\ templates' = [templates EXCEPT ![l] = Absent]
    /\ Goto(r, l, "query")
    /\ UNCHANGED <<upstream, shown, cache>>

\* The results, or the error group that an error of the client becomes; the status page
\* says online or offline, and takes any document.
Answer(r, l) ==
    /\ At(r, l, "query")
    /\ Goto(r, l, "answered")
    /\ UNCHANGED <<upstream, shown, cache, templates>>

\* A document that is no feed, for the template or for the results.
Garbled(r, l) ==
    /\ Is(r, "search")
    /\ At(r, l, "root") \/ At(r, l, "query")
    /\ Goto(r, l, "raised")
    /\ UNCHANGED <<upstream, shown, cache, templates>>

\* The page is rendered once every task has ended.
Gathered(r) ==
    /\ Gathers(r)
    /\ \A l \in DOMAIN request[r].at : request[r].at[l] \in Ended
    /\ Done(r)
    /\ UNCHANGED <<upstream, shown, cache, templates>>

----------------------------------------------------------------------------
\* GET /random: up to two libraries in a random order, Budget turns of the loop for each.
\* The frontier is a bag, for a page may be on it several times.
Frontier(l) == SetToBag({Root[l]})

StartWalk(r, l) ==
    /\ request[r] = Idle
    /\ Become(r, [kind |-> "walk", tried |-> <<l>>, frontier |-> Frontier(l), budget |-> Budget,
                  visited |-> {}, page |-> NoPage, whole |-> TRUE])
    /\ UNCHANGED <<upstream, shown, cache, templates>>

Walks(r) == Is(r, "walk") /\ request[r].page = NoPage
Awaits(r) == Is(r, "walk") /\ request[r].page # NoPage
Exhausted(w) == w.frontier = EmptyBag \/ w.budget = 0

\* One turn: some page of the frontier, which is fetched unless it was before.
Turn(r, p) ==
    LET w == request[r] IN
    /\ Walks(r) /\ ~Exhausted(w)
    /\ BagIn(p, w.frontier)
    /\ Become(r, [w EXCEPT !.budget = @ - 1, !.frontier = @ (-) SetToBag({p}),
                           !.visited = @ \cup {p},
                           !.page = IF p \in w.visited THEN NoPage ELSE p])
    /\ UNCHANGED <<upstream, shown, cache, templates>>

\* Mutant: the walk goes on along the first navigation row only.
GrownByFirst(w) ==
    IF Leads[w.page] = <<>> THEN w.frontier ELSE w.frontier (+) SetToBag({Leads[w.page][1]})

Grown(w) == w.frontier (+) ToBag(Leads[w.page])

\* A page without books leads on, one with books ends the walk with one of them.
Look(r) ==
    LET w == request[r] IN
    /\ Awaits(r)
    /\ IF w.page \in WithBooks
       THEN Done(r)
       ELSE Become(r, [w EXCEPT !.frontier = Grown(w), !.page = NoPage])
    /\ UNCHANGED <<upstream, shown, cache, templates>>

\* An error of the client: try another branch.
DeadEnd(r) ==
    /\ Awaits(r)
    /\ Become(r, [request[r] EXCEPT !.page = NoPage, !.whole = FALSE])
    /\ UNCHANGED <<upstream, shown, cache, templates>>

\* A page that is no feed ends the walk with a 500.
WalkRaises(r) ==
    /\ Awaits(r)
    /\ Done(r)
    /\ UNCHANGED <<upstream, shown, cache, templates>>

NextLibrary(r, l) ==
    LET w == request[r] IN
    /\ Walks(r) /\ Exhausted(w)
    /\ Len(w.tried) < 2 /\ l \notin ToSet(w.tried)
    /\ Become(r, [w EXCEPT !.tried = Append(@, l), !.frontier = Frontier(l),
                           !.budget = Budget,
                           !.whole = @ /\ w.frontier = EmptyBag])
    /\ UNCHANGED <<upstream, shown, cache, templates>>

\* "Could not pick a random book just now."
NoLuck(r) ==
    LET w == request[r] IN
    /\ Walks(r) /\ Exhausted(w)
    /\ Len(w.tried) = 2 \/ ToSet(w.tried) = Libraries
    /\ Done(r)
    /\ UNCHANGED <<upstream, shown, cache, templates>>

----------------------------------------------------------------------------
Browse(r) ==
    \/ \E k \in Links : Hit(r, k) \/ Miss(r, k)
    \/ Sent(r) \/ Received(r) \/ FeedFails(r)

Search(r) ==
    \/ StartSearch(r, Libraries) \/ StartStatus(r) \/ Gathered(r)
    \/ \E l \in Libraries :
        \/ StartSearch(r, {l})
        \/ Learn(r, l) \/ GiveUp(r, l) \/ Answer(r, l) \/ Garbled(r, l)

Walk(r) ==
    \/ \E l \in Libraries : StartWalk(r, l) \/ NextLibrary(r, l)
    \/ \E p \in Pages : Turn(r, p)
    \/ Look(r) \/ DeadEnd(r) \/ WalkRaises(r) \/ NoLuck(r)

Next ==
    \/ Tick
    \/ \E p \in Pages : Publish(p)
    \/ \E r \in Requests : Browse(r) \/ Search(r) \/ Walk(r)

Spec == Init /\ [][Next]_vars

----------------------------------------------------------------------------
Stages == {"root", "query"} \cup Ended

FeedTask == [kind : {"feed"}, link : Links, since : 0..now, got : {NotYet} \cup Nat]
GatherTask ==
    [kind : {"search", "status"}, at : UNION {[libs -> Stages] : libs \in SUBSET Libraries}]
WalkTypeOK(w) ==
    /\ w.tried \in BoundedSeq(Libraries, 2) /\ w.budget \in 0..Budget
    /\ BagToSet(w.frontier) \cup w.visited \subseteq Pages
    /\ w.page \in Pages \cup {NoPage} /\ w.whole \in BOOLEAN

\* The types; the cache never has more entries than its maximum, however the fetches that
\* fill it overlap, and no entry is from the future.
TypeOK ==
    /\ DOMAIN cache \subseteq Links
    /\ Cardinality(DOMAIN cache) <= MaxEntries
    /\ \A k \in DOMAIN cache : cache[k].at <= now /\ cache[k].edition <= edition[PageOf[k]]
    /\ templates \in [Libraries -> {Unasked, Absent, Known}]
    /\ \A r \in Requests :
        \/ request[r] = Idle
        \/ request[r] \in FeedTask
        \/ request[r] \in GatherTask
        \/ Is(r, "walk") /\ WalkTypeOK(request[r])

\* What a feed page shows was the library's own at most one lifetime of the cache and one
\* fetch ago, although a fetch that started earlier may be stored later, and give an
\* older copy a whole lifetime, and although each link has a copy of its own ("Entries
\* older than ttl_seconds are considered stale").  Catalogue implements Mirror.
Kept == INSTANCE Mirror WITH Horizon <- Ttl + LongestFetch
MirrorsLibraries == Kept!Spec

\* The pages that page p leads to, at once or by way of others.
Closed(ps) == \A q \in ps : ToSet(Leads[q]) \subseteq ps
Reach(p) == {q \in Pages : \A ps \in SUBSET Pages : p \in ps /\ Closed(ps) => q \in ps}

\* When /random has tried its libraries to the end, i.e. no branch failed and no budget ran
\* out with pages left, there was no book to be found in them ("Tolerant of
\* dead-ends/404s"): cycles, pages on the frontier several times and pages that the first
\* library has visited for the second do not make it miss one.
NoBookMissed ==
    \A r \in Requests : Walks(r) =>
        LET w == request[r] IN
        w.frontier = EmptyBag /\ w.whole =>
            \A l \in ToSet(w.tried) : Reach(Root[l]) \cap WithBooks = {}

\* What a catalogue page shows.  An entry reads the same however its links are ordered among
\* other roles; a row leads nowhere the guard refuses, a book keeps its import into iBooks
\* whenever it has one, and what can neither be imported nor read is no book ("the bridge
\* never surfaces a format it can neither import nor read"); and sorting neither drops nor
\* repeats a row, nor reorders rows that the key does not tell apart ("The sort is stable,
\* so it never drops or duplicates rows").  No state is needed, the first one will do.
PageShows == Init => EntriesShow

=============================================================================
