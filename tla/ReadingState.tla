---------------------------- MODULE ReadingState ----------------------------
(***************************************************************************)
(* One profile's reading state in app/store.py: the Reading List, the      *)
(* reading positions, the download history, the bookmarks and the shelves, *)
(* with their caps, and the state file that every change rewrites whole.   *)
(*                                                                         *)
(* Every method holds the store's lock and awaits nothing: one step.  The  *)
(* file is replaced atomically, so a crash inside a save is a save that    *)
(* failed followed by a restart.  A save that fails is only logged.        *)
(*                                                                         *)
(* A mapping from books to records is a function to the time of the        *)
(* record, 0 where there is none: the time tells one record from another,  *)
(* and it is what the caps go by.  The order of a Python dict matters only *)
(* when a file over its caps is loaded, and is left open there.            *)
(***************************************************************************)
EXTENDS Naturals, Sequences, FiniteSets

CONSTANTS
    Books, Spots, ShelfIds,
    MaxFavorites, MaxReading, MaxHistory,
    MaxBookmarkBooks, MaxBookmarksPerBook,
    MaxShelves, MaxShelfItems,
    MaxClock        \* bound: the clock stops there

ASSUME SetsAssumption == IsFiniteSet(Books) /\ IsFiniteSet(Spots) /\ IsFiniteSet(ShelfIds)
ASSUME CapsAssumption ==
    \A cap \in {MaxFavorites, MaxReading, MaxHistory, MaxBookmarkBooks,
                MaxBookmarksPerBook, MaxShelves, MaxShelfItems} : cap \in Nat \ {0}
ASSUME ClockAssumption == MaxClock \in Nat

VARIABLES
    clock,          \* time.time() at the last record written
    mem,            \* the profile's state in memory
    file,           \* what the state file holds
    asked           \* what the last request wanted kept, for the page it leads to

vars == <<clock, mem, file, asked>>

Nothing == <<>>
NoRecords == [b \in Books |-> 0]
NoMarks == [x \in Spots |-> 0]

\* _empty_state(); a missing file is read as one.
EmptyState ==
    [favorites |-> NoRecords, reading |-> NoRecords, history |-> <<>>,
     bookmarks |-> [b \in Books |-> NoMarks],
     shelves |-> {}, items |-> [s \in ShelfIds |-> NoRecords]]

----------------------------------------------------------------------------
Present(f) == {k \in DOMAIN f : f[k] # 0}
Only(f, keep) == [k \in DOMAIN f |-> IF k \in keep THEN f[k] ELSE 0]
Least(m, n) == IF m < n THEN m ELSE n

\* Mutant: a section over its cap is cut to one less than its cap.
NewestButOne(f, cap) ==
    {keep \in SUBSET Present(f) :
        /\ Cardinality(keep) =
            IF Cardinality(Present(f)) <= cap THEN Cardinality(Present(f)) ELSE cap - 1
        /\ \A k \in keep, j \in Present(f) \ keep : f[k] >= f[j]}

\* What _trim_mapping may keep: everything, or the cap's worth of the newest.
NewestOf(f, cap) ==
    {keep \in SUBSET Present(f) :
        /\ Cardinality(keep) = Least(cap, Cardinality(Present(f)))
        /\ \A k \in keep, j \in Present(f) \ keep : f[k] >= f[j]}

\* Mutant: nothing is trimmed.
PutUntrimmed(f, k, cap) == {[f EXCEPT ![k] = clock + 1]}

\* The mapping with a record of this moment for k, trimmed to its cap.
Put(f, k, cap) ==
    LET g == [f EXCEPT ![k] = clock + 1] IN {Only(g, keep) : keep \in NewestOf(g, cap)}

\* The keys of a download history are distinct, so at most one entry goes.
Without(s, b) ==
    LET at == CHOOSE i \in 1..Len(s) : s[i] = b
    IN  IF \E i \in 1..Len(s) : s[i] = b
        THEN SubSeq(s, 1, at - 1) \o SubSeq(s, at + 1, Len(s)) ELSE s

Upto(s, cap) == SubSeq(s, 1, Least(cap, Len(s)))

Marked(marks) == {b \in Books : Present(marks[b]) # {}}

\* Book b's newest bookmark is no newer than book c's.
NoNewer(marks, b, c) ==
    \A x \in Present(marks[b]) : \E y \in Present(marks[c]) : marks[b][x] <= marks[c][y]

\* Mutant: one book more than the cap.
EvictedLate(marks, b) ==
    IF Cardinality(Marked(marks)) <= MaxBookmarkBooks + 1 THEN {marks}
    ELSE {IF c = b THEN marks ELSE [marks EXCEPT ![c] = NoMarks] :
            c \in {c \in Marked(marks) : \A d \in Marked(marks) : NoNewer(marks, c, d)}}

\* Too many books with bookmarks: the one whose newest bookmark is oldest loses them,
\* unless it is b itself, the one just marked.
Evicted(marks, b) ==
    IF Cardinality(Marked(marks)) <= MaxBookmarkBooks THEN {marks}
    ELSE {IF c = b THEN marks ELSE [marks EXCEPT ![c] = NoMarks] :
            c \in {c \in Marked(marks) : \A d \in Marked(marks) : NoNewer(marks, c, d)}}

----------------------------------------------------------------------------
\* _clean_state of a file: every section is cut to its cap, wherever it is over.
Clips(f, cap) ==
    {Only(f, keep) : keep \in
        {S \in SUBSET Present(f) : Cardinality(S) = Least(cap, Cardinality(Present(f)))}}

ClippedMarks(marks) ==
    LET books == {S \in SUBSET Marked(marks) :
                    Cardinality(S) = Least(MaxBookmarkBooks, Cardinality(Marked(marks)))}
    IN  {m \in [Books -> UNION {Clips(marks[b], MaxBookmarksPerBook) : b \in Books} \cup {NoMarks}] :
            \E S \in books : \A b \in Books :
                m[b] \in IF b \in S THEN Clips(marks[b], MaxBookmarksPerBook) ELSE {NoMarks}}

ClippedItems(items, shelves) ==
    {i \in [ShelfIds -> UNION {Clips(items[s], MaxShelfItems) : s \in ShelfIds} \cup {NoRecords}] :
        \A s \in ShelfIds :
            i[s] \in IF s \in shelves THEN Clips(items[s], MaxShelfItems) ELSE {NoRecords}}

ClippedShelves(shelves) ==
    {S \in SUBSET shelves : Cardinality(S) = Least(MaxShelves, Cardinality(shelves))}

\* What loading the state d may yield.
Loads(d) ==
    {[favorites |-> f, reading |-> r, history |-> Upto(d.history, MaxHistory),
      bookmarks |-> m, shelves |-> si[1], items |-> si[2]] :
        f \in Clips(d.favorites, MaxFavorites), r \in Clips(d.reading, MaxReading),
        m \in ClippedMarks(d.bookmarks),
        si \in UNION {{<<s, i>> : i \in ClippedItems(d.items, s)} : s \in ClippedShelves(d.shelves)}}

----------------------------------------------------------------------------
Init ==
    /\ clock = 0
    /\ mem = EmptyState
    /\ file = EmptyState
    /\ asked = Nothing

\* _save: the file is the new state, or, when anything failed, still the old one.
Save(d) ==
    /\ mem' = d
    /\ file' \in {file, d}

Times(d) ==
    LET of(f) == {f[k] : k \in DOMAIN f}
    IN  of(d.favorites) \cup of(d.reading)
        \cup UNION {of(d.bookmarks[b]) : b \in Books} \cup UNION {of(d.items[s]) : s \in ShelfIds}

\* No two records have the same time: a save syncs the file, and takes longer than the
\* grain of the clock.
Stamp ==
    /\ clock < MaxClock
    /\ clock + 1 \notin Times(mem)
    /\ clock' = clock + 1

AddFavorite(b) ==
    /\ Stamp
    /\ \E f \in Put(mem.favorites, b, MaxFavorites) : Save([mem EXCEPT !.favorites = f])
    /\ asked' = <<"favorites", b>>

RemoveFavorite(b) ==
    /\ b \in Present(mem.favorites)
    /\ Save([mem EXCEPT !.favorites[b] = 0])
    /\ asked' = Nothing
    /\ UNCHANGED clock

SetPosition(b) ==
    /\ Stamp
    /\ \E r \in Put(mem.reading, b, MaxReading) : Save([mem EXCEPT !.reading = r])
    /\ asked' = <<"reading", b>>

\* A download moves its book to the front of the history.
RecordDownload(b) ==
    /\ Save([mem EXCEPT !.history = Upto(<<b>> \o Without(@, b), MaxHistory)])
    /\ asked' = <<"history", b>>
    /\ UNCHANGED clock

CreateShelf(s) ==
    /\ s \notin mem.shelves
    /\ Cardinality(mem.shelves) < MaxShelves
    /\ Save([mem EXCEPT !.shelves = @ \cup {s}])
    /\ asked' = <<"shelf", s>>
    /\ UNCHANGED clock

\* The name is not modelled; what an earlier save could not write is written now.
RenameShelf(s) ==
    /\ s \in mem.shelves
    /\ Save(mem)
    /\ asked' = Nothing
    /\ UNCHANGED clock

DeleteShelf(s) ==
    /\ s \in mem.shelves
    /\ Save([mem EXCEPT !.shelves = @ \ {s}, !.items[s] = NoRecords])
    /\ asked' = Nothing
    /\ UNCHANGED clock

AddToShelf(s, b) ==
    /\ s \in mem.shelves
    /\ Stamp
    /\ \E i \in Put(mem.items[s], b, MaxShelfItems) : Save([mem EXCEPT !.items[s] = i])
    /\ asked' = <<"items", s, b>>

RemoveFromShelf(s, b) ==
    /\ s \in mem.shelves
    /\ b \in Present(mem.items[s])
    /\ Save([mem EXCEPT !.items[s][b] = 0])
    /\ asked' = Nothing
    /\ UNCHANGED clock

\* Mutant: a full book's list is cut without being sorted by time, at the wrong end.
AddBookmarkUnsorted(b, x) ==
    /\ Stamp
    /\ \E p \in IF x \in Present(mem.bookmarks[b]) \/ Cardinality(Present(mem.bookmarks[b])) < MaxBookmarksPerBook
               THEN Put(mem.bookmarks[b], x, MaxBookmarksPerBook) ELSE {mem.bookmarks[b]} :
        \E m \in Evicted([mem.bookmarks EXCEPT ![b] = p], b) :
            Save([mem EXCEPT !.bookmarks = m])
    /\ asked' = <<"bookmarks", b, x>>

\* A bookmark at the same spot is replaced; then the two caps, one after the other.
AddBookmark(b, x) ==
    /\ Stamp
    /\ \E p \in Put(mem.bookmarks[b], x, MaxBookmarksPerBook) :
        \E m \in Evicted([mem.bookmarks EXCEPT ![b] = p], b) :
            Save([mem EXCEPT !.bookmarks = m])
    /\ asked' = <<"bookmarks", b, x>>

RemoveBookmark(b, x) ==
    /\ x \in Present(mem.bookmarks[b])
    /\ Save([mem EXCEPT !.bookmarks[b][x] = 0])
    /\ asked' = Nothing
    /\ UNCHANGED clock

\* The process dies and starts again, and the file is read.
Restart ==
    /\ mem' \in Loads(file)
    /\ asked' = Nothing
    /\ UNCHANGED <<clock, file>>

\* As before, but the file is damaged (it is moved aside, where that works) or cannot
\* be read (it stays): the process starts with nothing.
RestartEmpty ==
    /\ mem' = EmptyState
    /\ file' \in {file, EmptyState}
    /\ asked' = Nothing
    /\ UNCHANGED clock

Next ==
    \/ \E b \in Books :
        \/ AddFavorite(b) \/ RemoveFavorite(b) \/ SetPosition(b) \/ RecordDownload(b)
        \/ \E x \in Spots : AddBookmark(b, x) \/ RemoveBookmark(b, x)
        \/ \E s \in ShelfIds : AddToShelf(s, b) \/ RemoveFromShelf(s, b)
    \/ \E s \in ShelfIds : CreateShelf(s) \/ RenameShelf(s) \/ DeleteShelf(s)
    \/ Restart \/ RestartEmpty

SteadySpec == Init /\ [][Next]_vars

----------------------------------------------------------------------------
States ==
    [favorites : [Books -> Nat], reading : [Books -> Nat], history : Seq(Books),
     bookmarks : [Books -> [Spots -> Nat]],
     shelves : SUBSET ShelfIds, items : [ShelfIds -> [Books -> Nat]]]

AtMost(f, cap) == Cardinality(Present(f)) <= cap
Distinct(s) == \A i, j \in 1..Len(s) : s[i] = s[j] => i = j

\* Every section within its caps, each book once in the history, no items off a shelf.
Bounded(d) ==
    /\ AtMost(d.favorites, MaxFavorites)
    /\ AtMost(d.reading, MaxReading)
    /\ Len(d.history) <= MaxHistory /\ Distinct(d.history)
    /\ Cardinality(Marked(d.bookmarks)) <= MaxBookmarkBooks
    /\ \A b \in Books : AtMost(d.bookmarks[b], MaxBookmarksPerBook)
    /\ Cardinality(d.shelves) <= MaxShelves
    /\ \A s \in ShelfIds : AtMost(d.items[s], MaxShelfItems)
    /\ \A s \in ShelfIds \ d.shelves : d.items[s] = NoRecords

\* Types and caps ("Ceilings so a runaway ... client cannot grow" the file; add_bookmark:
\* "Per-book and total counts are bounded"), in memory and in the file.
TypeOK ==
    /\ clock \in Nat
    /\ mem \in States /\ Bounded(mem)
    /\ file \in States /\ Bounded(file)

\* A restart brings back exactly what was saved last: the caps applied on loading
\* (_clean_state) are those applied on writing, so they never cut a file the program
\* wrote itself, whatever it was asked to do before.
LoadIsLossless == Loads(file) = {file}

\* The page that follows a request shows what the request asked to be kept, with the time
\* of the request: the caps drop older records, and an evicted book is another one.
ReadYourWrites ==
    \/ asked = Nothing
    \/ \E b \in Books :
        \/ asked = <<"favorites", b>> /\ mem.favorites[b] = clock
        \/ asked = <<"reading", b>> /\ mem.reading[b] = clock
        \/ asked = <<"history", b>> /\ mem.history[1] = b
        \/ \E x \in Spots : asked = <<"bookmarks", b, x>> /\ mem.bookmarks[b][x] = clock
        \/ \E s \in ShelfIds : asked = <<"items", s, b>> /\ mem.items[s][b] = clock
    \/ \E s \in ShelfIds : asked = <<"shelf", s>> /\ s \in mem.shelves

\* Going from f to g dropped only what had to go, and only the oldest.
OnlyOldest(f, g, cap) ==
    \A k \in Present(f) \ Present(g) :
        /\ Cardinality(Present(g)) = cap
        /\ \A j \in Present(g) : f[k] < g[j]

\* The newest bookmark of each book.
Latest(marks) ==
    [b \in Books |-> IF marks[b] = NoMarks THEN 0
                     ELSE CHOOSE t \in {marks[b][x] : x \in Spots} : \A x \in Spots : marks[b][x] <= t]

\* "Oldest entries are dropped first": a write that adds a record drops another one only
\* from a full section, and then the oldest one there (the books with bookmarks go by
\* their newest bookmark).
OldestFirst ==
    [][clock' > clock =>
        /\ OnlyOldest(mem.favorites, mem'.favorites, MaxFavorites)
        /\ OnlyOldest(mem.reading, mem'.reading, MaxReading)
        /\ \A s \in ShelfIds : OnlyOldest(mem.items[s], mem'.items[s], MaxShelfItems)
        /\ OnlyOldest(Latest(mem.bookmarks), Latest(mem'.bookmarks), MaxBookmarkBooks)
        /\ \A b \in Marked(mem'.bookmarks) :
            OnlyOldest(mem.bookmarks[b], mem'.bookmarks[b], MaxBookmarksPerBook)]_vars

=============================================================================
