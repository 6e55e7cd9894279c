------------------------------ MODULE Contents ------------------------------
(***************************************************************************)
(* The table of contents of a shelved book, and the chapters of a PDF, as  *)
(* app/reader.py derives them: the outline of a PDF (_flatten_pdf_outline, *)
(* _pdf_chapter_ranges), the nav or NCX of an EPUB (_toc_entries_from_nav, *)
(* _toc_entries_from_ncx, _build_toc).                                     *)
(*                                                                         *)
(* An outline is a tree, here the sequence of its items in reading order   *)
(* with the depth of each; to is where an item leads, a page of the PDF or *)
(* a file of the EPUB as a number.  Titles are left out.                   *)
(***************************************************************************)
EXTENDS Integers, FiniteSetsExt, SequencesExt

CONSTANTS
    MaxTocDepth,    \* _MAX_TOC_DEPTH
    MaxWalk,        \* _MAX_TOC_WALK_DEPTH
    MaxEntries,     \* MAX_TOC_ENTRIES
    RunLength,      \* PDF_PAGES_PER_CHAPTER
    MaxChapters,    \* MAX_PDF_CHAPTERS
    MaxPages,       \* MAX_PDF_PAGES
    PdfOutlines,    \* outlines of PDFs that occur
    Navs,           \* navs and NCXs of EPUBs that occur
    ChapterOf       \* the chapter of each file that became one

\* The constants of the source meet the last with nothing to spare: 5000, 10 and 500.
ASSUME ContentsAssumption ==
    /\ {MaxTocDepth, MaxWalk} \subseteq Nat
    /\ {MaxEntries, RunLength, MaxChapters, MaxPages} \subseteq Nat \ {0}
    /\ MaxPages <= RunLength * MaxChapters

\* Where an item leads that has a link which cannot be resolved, and one without a link.
Broken == -1
Group == -2
Items == [depth : Nat, to : {Broken, Group} \cup Nat]

ASSUME OutlinesAssumption ==
    /\ PdfOutlines \cup Navs \subseteq Seq(Items)
    /\ DOMAIN ChapterOf \subseteq Nat

UpTo(n, s) == SubSeq(s, 1, Min({n, Len(s)}))

\* A set of numbers as a sequence, the smallest first.
Sorted(S) == [n \in 1..Cardinality(S) |-> CHOOSE x \in S : Cardinality({y \in S : y < x}) = n - 1]

\* The items of s that stand at the positions in S.
Picked(s, S) ==
    LET order == Sorted(S)
    IN  [n \in 1..Cardinality(S) |-> s[order[n]]]

----------------------------------------------------------------------------
\* Entries without a place, or too deep, are skipped, what is below them is not.  The cap
\* keeps the first entries in reading order.
Flattened(outline) ==
    LET kept == {i \in DOMAIN outline : outline[i].to >= 0 /\ outline[i].depth <= MaxWalk}
        listed == Picked(outline, kept)
    IN  [i \in DOMAIN UpTo(MaxEntries, listed) |->
            [listed[i] EXCEPT !.depth = Min({@, MaxTocDepth})]]

Below(outline, i) ==
    {j \in DOMAIN outline : j > i /\ \A k \in (i + 1)..j : outline[k].depth > outline[i].depth}

\* In a nav, an item without a link of its own takes the first one below it.
Linked(outline) ==
    [i \in DOMAIN outline |->
        LET links == {j \in Below(outline, i) : outline[j].to # Group} IN
        IF outline[i].to # Group \/ links = {} THEN outline[i]
        ELSE [outline[i] EXCEPT !.to = outline[Min(links)].to]]

\* The entries that lead to a chapter, the shallowest of them at depth 0.
Toc(entries, chapterOf) ==
    LET known == Picked(entries, {i \in DOMAIN entries : entries[i].to \in DOMAIN chapterOf})
        base == Min({known[i].depth : i \in DOMAIN known})
    IN  [i \in DOMAIN known |->
            [depth |-> known[i].depth - base, chapter |-> chapterOf[known[i].to]]]

\* nav_toc or ncx_toc: the NCX counts only where the nav lists nothing at all.
BookToc(nav, ncx) ==
    LET listed == Flattened(Linked(nav))
    IN  Toc(IF listed # <<>> THEN listed ELSE Flattened(ncx), ChapterOf)

----------------------------------------------------------------------------
\* The bookmarks that lead to a page of the document.
Valid(outline, pages) ==
    LET listed == Flattened(outline)
    IN  Picked(listed, {i \in DOMAIN listed : listed[i].to < pages})

\* Chapters begin where a bookmark leads, and at the first page.
Starts(valid) ==
    UpTo(MaxChapters, Sorted({0} \cup {valid[i].to : i \in DOMAIN valid}))

\* A chapter is <<first page, page after its last>>.
Ranges(starts, pages) ==
    [i \in DOMAIN starts |-> <<starts[i], IF i < Len(starts) THEN starts[i + 1] ELSE pages>>]

\* Mutant: the last run is not cut at the last page.
RunsUncut(pages) ==
    LET whole == (pages + RunLength - 1) \div RunLength
    IN  [i \in 1..Min({MaxChapters, whole}) |-> <<(i - 1) * RunLength, i * RunLength>>]

\* Without bookmarks, pages are grouped in runs.
Runs(pages) ==
    LET whole == (pages + RunLength - 1) \div RunLength
    IN  [i \in 1..Min({MaxChapters, whole}) |->
            <<(i - 1) * RunLength, Min({i * RunLength, pages})>>]

PdfChapters(outline, pages) ==
    LET valid == Valid(outline, pages)
    IN  IF valid = <<>> THEN Runs(pages) ELSE Ranges(Starts(valid), pages)

PdfToc(outline, pages) ==
    LET valid == Valid(outline, pages)
        starts == Starts(valid)
    IN  IF valid = <<>> THEN [i \in DOMAIN Runs(pages) |-> [depth |-> 0, chapter |-> i]]
        ELSE Toc(valid, [p \in ToSet(starts) |-> CHOOSE i \in DOMAIN starts : starts[i] = p])

----------------------------------------------------------------------------
\* Every page of a PDF is in one chapter, in order, however its outline is broken, nested,
\* unordered or cut off, and at the very limit of pages.
PagesInOrder(outline, pages) ==
    LET chapters == PdfChapters(outline, pages) IN
    /\ chapters[1][1] = 0 /\ Last(chapters)[2] = pages
    /\ \A i \in DOMAIN chapters :
        /\ chapters[i][1] < chapters[i][2]
        /\ i < Len(chapters) => chapters[i + 1][1] = chapters[i][2]

\* An entry opens the chapter that begins on the page it names, and every bookmark has its
\* entry unless its page begins no chapter any more.
EntriesLand(outline, pages) ==
    LET chapters == PdfChapters(outline, pages)
        valid == Valid(outline, pages)
        begins == {chapters[i][1] : i \in DOMAIN chapters}
        opened == Picked(valid, {i \in DOMAIN valid : valid[i].to \in begins})
        toc == PdfToc(outline, pages)
    IN  valid # <<>> =>
            /\ Len(toc) = Len(opened)
            /\ \A i \in DOMAIN toc : chapters[toc[i].chapter][1] = opened[i].to

\* A table of contents starts at the left margin and keeps the nesting of its items, as far
\* as they are not deeper than is recorded.
Indented(toc) ==
    toc # <<>> => /\ \E i \in DOMAIN toc : toc[i].depth = 0
                  /\ \A i \in DOMAIN toc : toc[i].depth \in 0..MaxTocDepth

\* A chapter that the nav links to can be reached from the contents, unless the cap on
\* entries or on the depth of the walk has cut it off.
NavReaches(nav, ncx) ==
    LET toc == BookToc(nav, ncx)
        fits == Len(nav) <= MaxEntries
    IN  \A i \in DOMAIN nav :
            fits /\ nav[i].to \in DOMAIN ChapterOf /\ nav[i].depth <= MaxWalk
                => \E j \in DOMAIN toc : toc[j].chapter = ChapterOf[nav[i].to]

\* Of every outline of a PDF and every nav and NCX that occur.
OutlinesLead ==
    /\ \A outline \in PdfOutlines, pages \in 1..MaxPages :
        /\ PagesInOrder(outline, pages)
        /\ EntriesLand(outline, pages)
        /\ Indented(PdfToc(outline, pages))
    /\ \A nav, ncx \in Navs : NavReaches(nav, ncx) /\ Indented(BookToc(nav, ncx))

=============================================================================
