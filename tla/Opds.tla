-------------------------------- MODULE Opds --------------------------------
(***************************************************************************)
(* What a catalogue page shows: an Atom entry as app/opds.py parses it     *)
(* (_parse_entry, Entry), the row app/main.py makes of it (_to_view_model) *)
(* and the order of the rows (_sorted_page).                               *)
(*                                                                         *)
(* A link is what the program tells apart of an atom:link: its role, i.e.  *)
(* the branch its rel and type select, the format of an acquisition,       *)
(* whether it has an href at all, and whether resolve_url() lets that href *)
(* pass.  An entry refers to its links by their position, None being 0.    *)
(* Texts and their cuts are left out.                                      *)
(***************************************************************************)
EXTENDS Integers, FiniteSets, SequencesExt

CONSTANTS
    MaxLinks,       \* MAX_LINKS_PER_ENTRY
    ShowCovers,     \* cfg.show_covers
    LinkLists,      \* the links of entries that occur
    RowLists        \* the rows of pages that occur

ASSUME OpdsAssumption == MaxLinks \in Nat /\ ShowCovers \in BOOLEAN

Roles == {"acquisition", "thumbnail", "cover", "image", "other"}
Formats == {"epub", "pdf", "html", "text", "cbz", "mobi"}
Link == [role : Roles, format : Formats, href : BOOLEAN, allowed : BOOLEAN]

\* A row as it is sorted: title and author as casefolded ranks, no author being 0; no row is
\* the same object as another.
SortedRow == [id : Nat, nav : BOOLEAN, title : Nat, author : Nat, rank : Nat]

ASSUME ListsAssumption ==
    /\ LinkLists \subseteq Seq(Link)
    /\ RowLists \subseteq {rows \in Seq(SortedRow) : IsInjective(rows)}

None == 0
OrElse(first, second) == IF first # None THEN first ELSE second

----------------------------------------------------------------------------
\* Mutant: a later cover does not replace what an earlier thumbnail gave.
AfterLinkFirstCover(entry, links, i) ==
    LET role == links[i].role IN
    IF ~links[i].href THEN entry
    ELSE CASE role = "acquisition" -> [entry EXCEPT !.acquisitions = Append(@, i)]
           [] role \in {"thumbnail", "image", "cover"} -> [entry EXCEPT !.cover = OrElse(@, i)]
           [] OTHER -> [entry EXCEPT !.nav = OrElse(@, i)]

\* One turn of the loop of _parse_entry().
AfterLink(entry, links, i) ==
    LET role == links[i].role IN
    IF ~links[i].href THEN entry
    ELSE CASE role = "acquisition" -> [entry EXCEPT !.acquisitions = Append(@, i)]
           [] role \in {"thumbnail", "image"} -> [entry EXCEPT !.cover = OrElse(@, i)]
           [] role = "cover" -> [entry EXCEPT !.cover = i]
           [] OTHER -> [entry EXCEPT !.nav = OrElse(@, i)]

NoEntry == [acquisitions |-> <<>>, cover |-> None, nav |-> None]

ParseEntry(links) ==
    LET n == IF Len(links) < MaxLinks THEN Len(links) ELSE MaxLinks
        after[i \in 0..n] == IF i = 0 THEN NoEntry ELSE AfterLink(after[i - 1], links, i)
    IN  IF after[n].acquisitions = <<>> THEN after[n] ELSE [after[n] EXCEPT !.nav = None]

IsNavigation(entry) == entry.acquisitions = <<>> /\ entry.nav # None

\* next((a for a in acquisitions if ...), None)
FirstOf(entry, links, format) ==
    LET hits == {n \in DOMAIN entry.acquisitions : links[entry.acquisitions[n]].format = format}
    IN  IF hits = {} THEN None ELSE entry.acquisitions[Min(hits)]

FirstAmong(entry, links, formats) ==
    LET found == {n \in DOMAIN formats : FirstOf(entry, links, formats[n]) # None}
    IN  IF found = {} THEN None ELSE FirstOf(entry, links, formats[Min(found)])

\* Entry.supported_acquisition: by format, not by the order of the links.
Supported(entry, links) ==
    FirstAmong(entry, links, <<"epub", "pdf", "html", "text", "cbz">>)

Passes(links, i) == i # None /\ links[i].allowed

\* The downloads of the book page: the first EPUB and the first PDF that pass the guard.
Downloads(entry, links) ==
    {i \in {FirstOf(entry, links, "epub"), FirstOf(entry, links, "pdf")} : Passes(links, i)}

\* The row of an entry, None when the entry is left out.  A book is left out when the
\* guard refuses the one acquisition it would be opened with, whatever else it offers.
NoRow == [nav |-> FALSE, link |-> None, cover |-> None, downloads |-> {}]

Row(links) ==
    LET entry == ParseEntry(links)
        shown == IF IsNavigation(entry) THEN entry.nav ELSE Supported(entry, links)
    IN  IF ~Passes(links, shown) THEN NoRow
        ELSE IF IsNavigation(entry) THEN [NoRow EXCEPT !.nav = TRUE, !.link = shown]
        ELSE [nav |-> FALSE, link |-> shown,
              cover |-> IF ShowCovers /\ Passes(links, entry.cover) THEN entry.cover ELSE None,
              downloads |-> Downloads(entry, links)]

----------------------------------------------------------------------------
SortKeys == {"title", "author", "format"}

Before(x, y) == x[1] < y[1] \/ (x[1] = y[1] /\ x[2] < y[2])

\* The key Python's sorted() compares; tuples compare by their first difference.
SortKey(row, sort) ==
    CASE sort = "title" -> <<row.title, 0>>
      [] sort = "author" -> <<IF row.author = 0 THEN 1 ELSE 0, row.author>>
      [] sort = "format" -> <<row.rank, row.title>>

AsListed(rows) == {p \in (DOMAIN rows) \X (DOMAIN rows) : p[1] < p[2]}

StableOrder(rows, sort) ==
    {p \in (DOMAIN rows) \X (DOMAIN rows) :
        LET x == SortKey(rows[p[1]], sort)
            y == SortKey(rows[p[2]], sort)
        IN  Before(x, y) \/ (x = y /\ p[1] < p[2])}

\* The members of S as a sequence; each is preceded by those that the order puts before it.
Ranked(S, order) ==
    [n \in 1..Cardinality(S) |->
        CHOOSE x \in S : Cardinality({y \in S : <<y, x>> \in order}) = n - 1]

\* _sorted_page(): shelves first, then the books, stably.
SortedPage(rows, sort) ==
    LET navs == {i \in DOMAIN rows : rows[i].nav}
        books == (DOMAIN rows) \ navs
        places == Ranked(navs, AsListed(rows)) \o Ranked(books, StableOrder(rows, sort))
    IN  IF sort \notin SortKeys THEN rows ELSE [n \in DOMAIN places |-> rows[places[n]]]

----------------------------------------------------------------------------
Within(links) == {i \in DOMAIN links : i <= MaxLinks /\ links[i].href}
With(links, roles) == {i \in Within(links) : links[i].role \in roles}
IsFirst(i, S) == i \in S /\ \A j \in S : i <= j
IsLast(i, S) == i \in S /\ \A j \in S : j <= i
Offered(links, format) == \E i \in With(links, {"acquisition"}) : links[i].format = format

\* An entry reads the same however its links are ordered among other roles: all the
\* acquisitions in order, the last cover before the first thumbnail, and a shelf to
\* enter only where there is nothing to acquire (_parse_entry, checked against this).
ReadsAsAdvertised(links) ==
    LET entry == ParseEntry(links)
        covers == With(links, {"cover"})
        images == With(links, {"thumbnail", "image"})
        others == With(links, {"other"})
    IN
    /\ ToSet(entry.acquisitions) = With(links, {"acquisition"})
    /\ \A m, n \in DOMAIN entry.acquisitions :
        m < n => entry.acquisitions[m] < entry.acquisitions[n]
    /\ IF covers \cup images = {} THEN entry.cover = None
       ELSE IF covers = {} THEN IsFirst(entry.cover, images) ELSE IsLast(entry.cover, covers)
    /\ IF entry.acquisitions # <<>> \/ others = {} THEN entry.nav = None
       ELSE IsFirst(entry.nav, others)

\* A row leads nowhere the guard refuses, a book keeps its import into iBooks whenever it
\* has one, and what can neither be imported nor read is no book at all
\* (supported_acquisition: "the bridge never surfaces a format it can neither import nor
\* read").
OpensWhatItOffers(links) ==
    LET row == Row(links) IN
    /\ \A i \in ({row.link, row.cover} \ {None}) \cup row.downloads :
        i \in Within(links) /\ links[i].allowed
    /\ row.nav => With(links, {"acquisition"}) = {} /\ row.link \in With(links, {"other"})
    /\ row.link # None /\ ~row.nav
        => /\ links[row.link].role = "acquisition"
           /\ links[row.link].format # "mobi"
           /\ \A format \in {"epub", "pdf"} :
                Offered(links, format) => links[row.link].format \in {"epub", format}
           /\ links[row.link].format \in {"epub", "pdf"} => row.link \in row.downloads

\* Sorting a page neither drops nor repeats a row, keeps the shelves in front in their
\* order, and rows the key does not tell apart in the library's order ("The sort is
\* stable, so it never drops or duplicates rows").
SortKeepsRows(rows, sort) ==
    LET page == SortedPage(rows, sort)
        at(row) == CHOOSE i \in DOMAIN rows : rows[i] = row
    IN
    /\ Len(page) = Len(rows) /\ ToSet(page) = ToSet(rows)
    /\ sort \in SortKeys => \A i, j \in DOMAIN page : i < j =>
        /\ page[j].nav => page[i].nav
        /\ page[i].nav = page[j].nav =>
            LET x == SortKey(page[i], sort)
                y == SortKey(page[j], sort)
            IN  IF page[i].nav \/ x = y THEN at(page[i]) < at(page[j]) ELSE Before(x, y)

\* Of all the links of an entry and all the rows of a page that occur.
EntriesShow ==
    /\ \A links \in LinkLists : ReadsAsAdvertised(links) /\ OpensWhatItOffers(links)
    /\ \A rows \in RowLists, sort \in SortKeys \cup {""} : SortKeepsRows(rows, sort)

=============================================================================
