------------------------------- MODULE Paging -------------------------------
(***************************************************************************)
(* Reading a book page by page: parts_for, part_containing and percent_of  *)
(* in app/reader.py, and the reader routes of app/main.py that use them.   *)
(*                                                                         *)
(* A book is a sequence of chapters, a chapter a sequence of blocks, and a *)
(* block only its length in characters.  Chapters and blocks are counted   *)
(* from 0, parts from 1, as in the code.  Devices have each their own part *)
(* size (the rs_split cookie) and share the stored position.               *)
(*                                                                         *)
(* A page is one request, and so is a click on one of its links.  Opening  *)
(* the book is two: /read/{bid} redirects, and the position may move       *)
(* before the browser follows.  The book stays shelved as it is.           *)
(***************************************************************************)
EXTENDS Integers, Sequences

CONSTANTS
    Devices,
    Books,          \* the books that may be read
    Sizes,          \* the targets of SPLIT_TARGETS, in characters
    Whole,          \* the target None: one part per chapter
    Closed, Missing, None

\* No book is shelved without a chapter ("This book has no readable content"), though all of
\* its chapters may be without blocks.
ASSUME BooksAssumption == Books \subseteq Seq(Seq(Nat \ {0})) \ {<<>>}
ASSUME SizesAssumption == Sizes \ {Whole} \subseteq Nat \ {0}

VARIABLES
    book,           \* the book
    size,           \* each device's part size
    page,           \* the page each device shows: <<chapter, part>>, Closed, or the 404 page
    going,          \* the redirect each device is about to follow
    pos,            \* the stored reading position
    told            \* history: the first so many blocks were shown, or jumped over on purpose

vars == <<book, size, page, going, pos, told>>

ChapterIds == 0..(Len(book) - 1)

----------------------------------------------------------------------------
\* The greedy loop of parts_for up to its i-th block: the parts so far, the start of the
\* open part and the characters in it.
Grouped(lengths, target) ==
    LET after[i \in 0..Len(lengths)] ==
            IF i = 0 THEN [parts |-> <<>>, start |-> 0, running |-> 0]
            ELSE LET s == after[i - 1]
                     running == s.running + lengths[i]
                 IN  IF running >= target
                     THEN [parts |-> Append(s.parts, <<s.start, i>>), start |-> i, running |-> 0]
                     ELSE [s EXCEPT !.running = running]
    IN  after[Len(lengths)]

\* Mutant: the blocks after the last full part are forgotten.
PartsForWithoutRest(lengths, target) ==
    IF target = Whole THEN <<<<0, Len(lengths)>>>> ELSE Grouped(lengths, target).parts

\* The parts of a chapter, as pairs of first block and first block beyond.
PartsFor(lengths, target) ==
    LET n == Len(lengths)
        g == Grouped(lengths, target)
    IN  CASE n = 0                     -> <<>>
          [] n # 0 /\ target = Whole   -> <<<<0, n>>>>
          [] OTHER                     -> IF g.start < n THEN Append(g.parts, <<g.start, n>>) ELSE g.parts

PartsOf(c, s) == PartsFor(book[c + 1], s)

Holds(part, b) == part[1] <= b /\ b < part[2]

\* The number of the part with block b; the nearest one when there is none.
PartContaining(b, parts) ==
    CASE parts = <<>>                           -> 1
      [] \E i \in DOMAIN parts : Holds(parts[i], b) -> CHOOSE i \in DOMAIN parts : Holds(parts[i], b)
      [] OTHER                                  -> IF b < parts[1][1] THEN 1 ELSE Len(parts)

\* The sum of the first n numbers.
SumTo(numbers, n) ==
    LET sum[i \in 0..Len(numbers)] == IF i = 0 THEN 0 ELSE sum[i - 1] + numbers[i]
    IN  sum[n]

Total(numbers) == SumTo(numbers, Len(numbers))
BlocksBefore(c) == SumTo([i \in 1..Len(book) |-> Len(book[i])], c)
CharsBefore(c) == SumTo([i \in 1..Len(book) |-> Total(book[i])], c)

\* Mutant: the last block of any chapter is taken for the end of the book.
PercentOfAnyEnd(c, b) ==
    IF b >= Len(book[c + 1]) - 1 THEN 100
    ELSE (100 * CharsBefore(c)) \div CharsBefore(Len(book))

\* The progress at block b of chapter c, both of which exist: within a chapter the blocks
\* count as equally long.  (The code computes with floats, which may come out one lower.)
PercentOf(c, b) ==
    LET n == Len(book[c + 1])
    IN  IF c = Len(book) - 1 /\ b >= n - 1 THEN 100
        ELSE (100 * (CharsBefore(c) * n + Total(book[c + 1]) * b)) \div (n * CharsBefore(Len(book)))

----------------------------------------------------------------------------
\* The nearest chapters with any block.
Following(c) ==
    {n \in ChapterIds : /\ n > c /\ book[n + 1] # <<>>
                        /\ \A k \in (c + 1)..(n - 1) : book[k + 1] = <<>>}
Preceding(c) ==
    {n \in ChapterIds : /\ n < c /\ book[n + 1] # <<>>
                        /\ \A k \in (n + 1)..(c - 1) : book[k + 1] = <<>>}

\* Where Next and Prev of a page lead, if they are there.
NextOf(a, s) ==
    IF a[2] < Len(PartsOf(a[1], s)) THEN {<<a[1], a[2] + 1>>}
    ELSE {<<n, 1>> : n \in Following(a[1])}

\* Mutant: Prev leads to the first page of the chapter before.
PrevOfToItsStart(a, s) ==
    IF a[2] > 1 THEN {<<a[1], a[2] - 1>>} ELSE {<<n, 1>> : n \in Preceding(a[1])}

PrevOf(a, s) ==
    IF a[2] > 1 THEN {<<a[1], a[2] - 1>>}
    ELSE {<<n, Len(PartsOf(n, s))>> : n \in Preceding(a[1])}

\* The first chapter with content, or chapter 0.
FirstChapter ==
    IF Following(-1) = {} THEN 0 ELSE CHOOSE n \in Following(-1) : TRUE

\* Mutant: the part is looked up among those of the smallest size.
ResumeAtSmallest(s) ==
    IF pos = None THEN <<FirstChapter, 1>>
    ELSE LET least == CHOOSE t \in Sizes \ {Whole} : \A u \in Sizes \ {Whole} : t <= u
         IN  <<pos.chapter, PartContaining(pos.block, PartsOf(pos.chapter, least))>>

\* Where /read/{bid} redirects to.
Resume(s) ==
    IF pos = None THEN <<FirstChapter, 1>>
    ELSE <<pos.chapter, PartContaining(pos.block, PartsOf(pos.chapter, s))>>

Found(a, s) == a[1] \in ChapterIds /\ a[2] \in 1..Len(PartsOf(a[1], s))

\* Mutant: the end of the page is recorded.
TopAtItsEnd(a, s) == PartsOf(a[1], s)[a[2]][2]

\* The first block of a page.
Top(a, s) == PartsOf(a[1], s)[a[2]][1]

Later(m, n) == IF m < n THEN n ELSE m

\* read_part: page a for device d at size s, reached by turning pages or on purpose.
View(d, a, s, onPurpose) ==
    IF Found(a, s)
    THEN LET first == BlocksBefore(a[1]) + PartsOf(a[1], s)[a[2]][1]
             beyond == BlocksBefore(a[1]) + PartsOf(a[1], s)[a[2]][2]
         IN  /\ page' = [page EXCEPT ![d] = a]
             /\ pos' = [chapter |-> a[1], block |-> Top(a, s), percent |-> PercentOf(a[1], Top(a, s))]
             /\ told' = IF onPurpose \/ first <= told THEN Later(told, beyond) ELSE told
    ELSE page' = [page EXCEPT ![d] = Missing] /\ UNCHANGED <<pos, told>>

----------------------------------------------------------------------------
Init ==
    /\ book \in Books
    /\ size \in [Devices -> Sizes]
    /\ page = [d \in Devices |-> Closed]
    /\ going = [d \in Devices |-> None]
    /\ pos = None
    /\ told = 0

Shows(d) == page[d] \notin {Closed, Missing}

\* GET /read/{bid}: the redirect is on its way.
Open(d) ==
    /\ going[d] = None
    /\ going' = [going EXCEPT ![d] = Resume(size[d])]
    /\ page' = [page EXCEPT ![d] = Closed]
    /\ UNCHANGED <<book, size, pos, told>>

Follow(d) ==
    /\ going[d] # None
    /\ View(d, going[d], size[d], FALSE)
    /\ going' = [going EXCEPT ![d] = None]
    /\ UNCHANGED <<book, size>>

Turn(d) ==
    /\ Shows(d)
    /\ \E a \in NextOf(page[d], size[d]) : View(d, a, size[d], FALSE)
    /\ UNCHANGED <<book, size, going>>

TurnBack(d) ==
    /\ Shows(d)
    /\ \E a \in PrevOf(page[d], size[d]) : View(d, a, size[d], FALSE)
    /\ UNCHANGED <<book, size, going>>

\* Back from a bookmark or a display preference, to the same address.
Reload(d) ==
    /\ Shows(d)
    /\ View(d, page[d], size[d], FALSE)
    /\ UNCHANGED <<book, size, going>>

\* A search hit, a bookmark or a footnote: the page that holds the block.
Jump(d, c, b) ==
    /\ going[d] = None
    /\ b < Len(book[c + 1])
    /\ View(d, <<c, PartContaining(b, PartsOf(c, size[d]))>>, size[d], TRUE)
    /\ UNCHANGED <<book, size, going>>

\* A line of the table of contents, or a link between chapters: the first page.
OpenChapter(d, c) ==
    /\ going[d] = None
    /\ View(d, <<c, 1>>, size[d], TRUE)
    /\ UNCHANGED <<book, size, going>>

Leave(d) ==
    /\ page[d] # Closed
    /\ page' = [page EXCEPT ![d] = Closed]
    /\ UNCHANGED <<book, size, going, pos, told>>

\* The part size is switched in another book.
SwitchElsewhere(d, s) ==
    /\ page[d] = Closed /\ going[d] = None
    /\ size' = [size EXCEPT ![d] = s]
    /\ UNCHANGED <<book, page, going, pos, told>>

Step(d) ==
    \/ Open(d) \/ Follow(d) \/ Turn(d) \/ TurnBack(d) \/ Reload(d) \/ Leave(d)
    \/ \E c \in ChapterIds :
        \/ OpenChapter(d, c)
        \/ \E b \in 0..(Len(book[c + 1]) - 1) : Jump(d, c, b)
    \/ \E s \in Sizes : SwitchElsewhere(d, s)

Next == \E d \in Devices : Step(d)

SteadySpec == Init /\ [][Next]_vars

----------------------------------------------------------------------------
Addresses == ChapterIds \X (Nat \ {0})

TypeOK ==
    /\ book \in Books
    /\ size \in [Devices -> Sizes]
    /\ \A d \in Devices :
        /\ Shows(d) => page[d] \in Addresses /\ Found(page[d], size[d])
        /\ going[d] # None => going[d] \in Addresses
    /\ \/ pos = None
       \/ /\ pos.chapter \in ChapterIds
          /\ pos.block \in 0..(Len(book[pos.chapter + 1]) - 1)
          /\ pos.percent \in 0..100
    /\ told \in 0..BlocksBefore(Len(book))

\* "every block in block_lengths appears in exactly one returned range" (parts_for), and
\* part_containing finds that one, at every size, so a place stored at one size has its
\* page at any other.
EveryBlockHasItsPage ==
    \A c \in ChapterIds, s \in Sizes : \A b \in 0..(Len(book[c + 1]) - 1) :
        LET parts == PartsOf(c, s)
        IN  {i \in DOMAIN parts : Holds(parts[i], b)} = {PartContaining(b, parts)}

\* "page turns never dead-end" (read_part): Next of the page shown leads to a page that is
\* there and whose Prev leads back, likewise Prev, and Next is wanting only at the end of
\* the text; across chapters without blocks too.
LinksMeet ==
    \A d \in Devices : Shows(d) =>
        LET a == page[d]
            s == size[d]
        IN  /\ \A n \in NextOf(a, s) : Found(n, s) /\ PrevOf(n, s) = {a}
            /\ \A p \in PrevOf(a, s) : Found(p, s) /\ NextOf(p, s) = {a}
            /\ NextOf(a, s) = {} =>
                BlocksBefore(a[1]) + PartsOf(a[1], s)[a[2]][2] = BlocksBefore(Len(book))

\* "resume lands where reading stopped": whatever devices and sizes the book is read with,
\* the stored position has no text before it that the reader neither saw nor jumped over.
NothingSkipped == pos = None \/ BlocksBefore(pos.chapter) + pos.block <= told

\* "percent_of is monotonic over reading order": progress does not go back when the stored
\* position moves on.
ProgressOnward ==
    [][ (pos # None /\ BlocksBefore(pos'.chapter) + pos'.block >= BlocksBefore(pos.chapter) + pos.block)
        => pos'.percent >= pos.percent ]_vars

=============================================================================
