------------------------------- MODULE Chapter -------------------------------
(***************************************************************************)
(* How app/reader.py makes the blocks of a book out of an HTML document:   *)
(* _XHTMLNormalizer turns tag soup into a well-nested body, one handler    *)
(* per token of the parser; the chapters are split at the headings, and    *)
(* sanitize_chapter() renders the blocks of each and finds the anchors.    *)
(*                                                                         *)
(* The document is what the actions below read, tag by tag.  The body that *)
(* is built is a sequence of events <<"open", t>>, <<"close", t>>,         *)
(* <<"void", t>> and <<"text">>; an event is known by its position, which  *)
(* stands for the text itself and, for an element, for its id.  Blank text *)
(* between elements is left out.  Of the attributes only their names       *)
(* matter here: a start tag that has one twice is no XML, and a body with  *)
(* such a tag is refused with the whole book.                              *)
(***************************************************************************)
EXTENDS Contents

CONSTANTS
    Tags,           \* element names that occur
    AttrLists,      \* attributes of start tags that occur, in their order
    MaxDepth,       \* _MAX_HTML_DEPTH
    MaxElements,    \* MAX_HTML_ELEMENTS
    MaxFlatten,     \* _MAX_FLATTEN_DEPTH
    MaxEvents,      \* bound: events of the body that is built
    MaxSkip         \* bound: <head> inside <head>

ASSUME ChapterAssumption ==
    /\ {MaxDepth, MaxElements} \subseteq Nat \ {0}
    /\ {MaxFlatten, MaxEvents, MaxSkip} \subseteq Nat
    /\ AttrLists \subseteq Seq([name : STRING, valued : BOOLEAN])

VARIABLES
    out,            \* what has been emitted
    stack,          \* names of the open elements, the innermost last
    skip,           \* >0 inside a <head>
    elements,       \* elements counted against the cap
    repeated        \* some element of out has an attribute twice

vars == <<out, stack, skip, elements, repeated>>

Voids == {"br", "hr", "img"}
Folded == {"html", "body"}
ClosesP == {"p", "div", "section", "h1", "h2", "ul", "li", "blockquote", "hr", "tr"}
Dropped == {"script", "style", "form"}
Unwrapped == {"font", "main"}
Flow == {"section", "div", "article", "main"}
Headings == {"h1", "h2"}
KeptAttrs == {"src", "alt", "href", "colspan", "rowspan", "id"}

----------------------------------------------------------------------------
Init ==
    /\ out = <<>>
    /\ stack = <<>>
    /\ skip = 0
    /\ elements = 0
    /\ repeated = FALSE

\* An open top whose end tag may be left out before tag begins.
OmitsEnd(top, tag) ==
    \/ top = "p" /\ tag \in ClosesP
    \/ top = "li" /\ tag = "li"
    \/ top \in {"td", "th"} /\ tag \in {"td", "th", "tr"}
    \/ top = "tr" /\ tag = "tr"
    \/ top \in {"dt", "dd"} /\ tag \in {"dt", "dd"}

Inner(n) == stack[Len(stack) - n + 1]

\* _implicit_close(): how many open elements end where tag begins.
Implied(tag) ==
    CHOOSE n \in 0..Len(stack) :
        /\ \A i \in 1..n : OmitsEnd(Inner(i), tag)
        /\ n < Len(stack) => ~OmitsEnd(Inner(n + 1), tag)

\* Mutant: an element that ends is taken from the stack, its end tag only emitted when it
\* is the only one.
ClosingFirst(n) == IF n = 0 THEN <<>> ELSE <<<<"close", Inner(1)>>>>

\* The end tags of the n innermost elements.
Closing(n) == [i \in 1..n |-> <<"close", Inner(i)>>]

Left(n) == SubSeq(stack, 1, Len(stack) - n)

\* _emit_attrs(): the name of an old anchor becomes an id, an attribute without a value is
\* dropped, and every other one that is kept is written.
AttrName(tag, attrs, i) ==
    IF /\ tag = "a" /\ attrs[i].name = "name"
       /\ \A j \in DOMAIN attrs : attrs[j].name # "id"
    THEN "id" ELSE attrs[i].name

Written(tag, attrs) ==
    {i \in DOMAIN attrs : attrs[i].valued /\ AttrName(tag, attrs, i) \in KeptAttrs}

Repeats(tag, attrs) == ~IsInjective([i \in Written(tag, attrs) |-> AttrName(tag, attrs, i)])

Emit(events) ==
    /\ Len(out) + Len(events) <= MaxEvents
    /\ out' = out \o events

\* While a script is open the parser reports its text and its end only.
InScript == stack # <<>> /\ Last(stack) \in {"script", "style"}

StartHead ==
    /\ ~InScript
    /\ skip < MaxSkip
    /\ skip' = skip + 1
    /\ UNCHANGED <<out, stack, elements, repeated>>

\* Anything else is left alone inside a <head>, as are html and body, and what comes after
\* the cap on elements.
Counted(tag) == ~InScript /\ skip = 0 /\ tag \notin Folded /\ elements < MaxElements

\* An element too deep is left out, with its attributes.
StartTag(tag, attrs) ==
    LET n == Implied(tag) IN
    /\ Counted(tag)
    /\ tag \notin Voids
    /\ elements' = elements + 1
    /\ IF Len(stack) - n >= MaxDepth
       THEN Emit(Closing(n)) /\ stack' = Left(n) /\ UNCHANGED repeated
       ELSE /\ Emit(Append(Closing(n), <<"open", tag>>)) /\ stack' = Append(Left(n), tag)
            /\ repeated' = (repeated \/ Repeats(tag, attrs))
    /\ UNCHANGED skip

\* A void element, or one that is written as <tag/>.
StartEndTag(tag, attrs) ==
    LET n == Implied(tag) IN
    /\ Counted(tag)
    /\ elements' = elements + 1
    /\ Emit(Append(Closing(n), <<"void", tag>>))
    /\ stack' = Left(n)
    /\ repeated' = (repeated \/ Repeats(tag, attrs))
    /\ UNCHANGED skip

EndHead ==
    /\ skip > 0
    /\ skip' = skip - 1
    /\ UNCHANGED <<out, stack, elements, repeated>>

\* Everything above the match ends with it; an end tag without a start is left alone.
EndTag(tag) ==
    /\ skip = 0
    /\ InScript => tag = Last(stack)
    /\ \E n \in 1..Len(stack) :
        /\ Inner(n) = tag /\ \A i \in 1..(n - 1) : Inner(i) # tag
        /\ Emit(Closing(n))
        /\ stack' = Left(n)
    /\ UNCHANGED <<skip, elements, repeated>>

\* Text right under the body becomes a paragraph.
Data ==
    /\ skip = 0
    /\ Emit(IF stack = <<>> THEN <<<<"open", "p">>, <<"text">>, <<"close", "p">>>> ELSE <<<<"text">>>>)
    /\ UNCHANGED <<stack, skip, elements, repeated>>

Next ==
    \/ StartHead \/ EndHead \/ Data
    \/ \E tag \in Tags :
        \/ \E attrs \in AttrLists : StartTag(tag, attrs) \/ StartEndTag(tag, attrs)
        \/ EndTag(tag)

Spec == Init /\ [][Next]_vars

----------------------------------------------------------------------------
\* result(): the document may end anywhere.
Document == out \o Closing(Len(stack))

\* The open elements after each event, by position.
Paths(doc) ==
    LET path[k \in 0..Len(doc)] ==
            IF k = 0 THEN <<>>
            ELSE LET open == path[k - 1] IN
                 IF doc[k][1] = "open" THEN Append(open, k)
                 ELSE IF doc[k][1] = "close" /\ open # <<>> THEN Front(open)
                 ELSE open
    IN  path

Elements(doc) == {k \in DOMAIN doc : doc[k][1] \in {"open", "void"}}
Texts(doc) == {k \in DOMAIN doc : doc[k] = <<"text">>}

\* Event k is element i or inside it.
Within(path, k, i) == k = i \/ i \in ToSet(path[k])

\* The elements between i and k, both included, that contain k.
Between(path, k, i) == {j \in ToSet(path[k]) \cup {k} : j >= i}

\* A wrapper that _top_level_block_elements() descends into: it begins with an element.
Wraps(doc, i) ==
    doc[i][1] = "open" /\ doc[i][2] \in Flow /\ doc[i + 1][1] \in {"open", "void"}

\* Mutant: a wrapper is descended into whatever it begins with.
TransparentAnyway(doc, i, depth) ==
    doc[i][1] = "open" /\ doc[i][2] \in Flow /\ depth < MaxFlatten

Transparent(doc, i, depth) == Wraps(doc, i) /\ depth < MaxFlatten

\* The blocks that element i, which is at the top level, comes apart into.
Surface(doc, path, i) ==
    LET depth(j) == Len(path[j - 1]) - Len(path[i - 1]) IN
    {k \in Elements(doc) :
        /\ Within(path, k, i)
        /\ \A j \in Between(path, k, i) \ {k} : Transparent(doc, j, depth(j))
        /\ ~Transparent(doc, k, depth(k))}

Roots(doc, path) == {i \in Elements(doc) : path[i - 1] = <<>>}

TopLevel(doc, path) == UNION {Surface(doc, path, i) : i \in Roots(doc, path)}

\* What _render_element() makes of block i: the texts that it shows, and whether it is
\* more than the empty string.
Kept(doc, path, k, i) ==
    Within(path, k, i)
        /\ \A j \in Between(path, k, i) \cap Elements(doc) : doc[j][2] \notin Dropped

Shown(doc, path, i) == {k \in Texts(doc) : Kept(doc, path, k, i)}

Renders(doc, path, i) ==
    \E k \in Texts(doc) \cup {j \in Elements(doc) : doc[j][2] \notin Unwrapped \cup {"img"}} :
        Kept(doc, path, k, i)

\* _split_html_chapters(): a chapter is a group of consecutive top-level blocks, from a
\* heading, or the first block, up to the next heading.
Chapters(doc, path) ==
    LET top == TopLevel(doc, path)
        starts == {i \in top : doc[i][2] \in Headings \/ \A j \in top : i <= j}
    IN  {{i \in top : s <= i /\ \A u \in starts : u <= i => u <= s} : s \in starts}

\* sanitize_chapter() of such a group, in a body of its own.
Candidates(doc, path, group) == UNION {Surface(doc, path, i) : i \in group}

Blocks(doc, path, group) == {i \in Candidates(doc, path, group) : Renders(doc, path, i)}

\* Blocks are numbered in the order of the document.
InOrder(S) == SetToSortSeq(S, LAMBDA i, j : i < j)

\* Mutant: blocks that come out empty are counted.
AnchorsCounted(doc, path, group) ==
    LET all == InOrder(Candidates(doc, path, group))
        hits(k) == {n \in DOMAIN all : Renders(doc, path, all[n]) /\ Within(path, k, all[n])}
    IN  [k \in {e \in Elements(doc) : hits(e) # {}} |-> CHOOSE n \in hits(k) : TRUE]

\* The number of the block that the id of an element is recorded for, if it is in one.
Anchors(doc, path, group) ==
    LET blocks == InOrder(Blocks(doc, path, group))
        hits(k) == {n \in DOMAIN blocks : Within(path, k, blocks[n])}
    IN  [k \in {e \in Elements(doc) : hits(e) # {}} |-> CHOOSE n \in hits(k) : TRUE]

----------------------------------------------------------------------------
\* The elements of the body are nested wherever the document ends, each closed by its own
\* end tag, and no deeper than the renderer goes ("everything the normalizer keeps nested
\* stays within the sanitizer's render reach").
WellNested ==
    LET doc == Document
        path == Paths(doc)
    IN
    /\ \A k \in DOMAIN doc :
        /\ Len(path[k]) <= MaxDepth
        /\ doc[k][1] = "close" => path[k - 1] # <<>> /\ doc[Last(path[k - 1])][2] = doc[k][2]
    /\ path[Len(doc)] = <<>>
    /\ elements \in 0..MaxElements /\ skip \in 0..MaxSkip /\ repeated \in BOOLEAN

\* Text that stands right in wrappers, after an element.  Wrappers are descended into twice,
\* when the document is split into chapters and when a chapter is sanitized.
BetweenBlocks(doc, path, k) ==
    /\ path[k] # <<>>
    /\ \A j \in ToSet(path[k]) : Wraps(doc, j) /\ Len(path[j - 1]) < 2 * MaxFlatten

Hidden(doc, path, k) == \E j \in ToSet(path[k]) : doc[j][2] \in Dropped

\* How often text k is shown, and where.
Places(doc, path, k) ==
    {p \in UNION {{group} \X Blocks(doc, path, group) : group \in Chapters(doc, path)} :
        k \in Shown(doc, path, p[2])}

\* Of a body that can be parsed, every text that is not in a dropped element is shown in one block, and those
\* that are come in none: neither optional end tags, misnested ones, the caps, wrappers,
\* nor the split into chapters lose it or show it twice - but for text between the blocks
\* of a wrapper.
TextKept ==
    ~repeated =>
    LET doc == Document
        path == Paths(doc)
    IN  \A k \in Texts(doc) :
            Cardinality(Places(doc, path, k))
                = IF Hidden(doc, path, k) \/ BetweenBlocks(doc, path, k) THEN 0 ELSE 1

\* In a body that can be parsed, a link to an id leads to the block that shows the texts of the element with that id
\* ("the part containing their target").
AnchorsHit ==
    ~repeated =>
    LET doc == Document
        path == Paths(doc)
    IN  \A group \in Chapters(doc, path) :
            LET anchors == Anchors(doc, path, group)
                blocks == InOrder(Blocks(doc, path, group))
            IN  \A k \in DOMAIN anchors :
                    /\ anchors[k] \in DOMAIN blocks
                    /\ \A t \in Texts(doc) : Within(path, t, k) /\ ~Hidden(doc, path, t)
                            => t \in Shown(doc, path, blocks[anchors[k]])

\* Each page of a PDF is in one chapter and in order, whatever its outline and up to the
\* limit of pages; each entry opens the chapter that begins at its page, each chapter the
\* nav of an EPUB links to is listed ("every outline entry maps to the chapter it opens";
\* "its shallowest entries sit at depth 0").  No state is needed, the first one will do.
ContentsLead == Init => OutlinesLead

\* "Order is preserved; content is never dropped": text is lost only with the elements that
\* are dropped on purpose, of a body that can be parsed.
ContentKept ==
    ~repeated =>
    LET doc == Document
        path == Paths(doc)
    IN  \A k \in Texts(doc) : Hidden(doc, path, k) \/ Places(doc, path, k) # {}

\* "Re-serialize tag-soup HTML into one well-formed XHTML <body> string": nested, and no
\* element has an attribute twice.
WellFormed == WellNested /\ ~repeated

=============================================================================
