----------------------------- MODULE MCCatalogue -----------------------------
(***************************************************************************)
(* Catalogue on a small instance: two libraries, four pages of which two   *)
(* form a cycle, three links of which two lead to the same page.  The pure *)
(* parts of Opds are checked on every short list of links and of rows.     *)
(***************************************************************************)
EXTENDS Catalogue

CONSTANTS a, b, c, d,       \* pages
          a1, a2, b1,       \* links
          first, second     \* libraries

MCPageOf == a1 :> a @@ a2 :> a @@ b1 :> b
MCMaxEdition == [p \in Pages |-> IF p = a THEN 1 ELSE 0]
MCRoot == first :> a @@ second :> d

\* The first library is a cycle without books; the second leads to the cycle, too, and in
\* its second row to the only page with books.
MCLeads == a :> <<b, a>> @@ b :> <<a>> @@ c :> <<>> @@ d :> <<b, c>>

\* Feed pages, searches and walks share no state: each kind is explored with what the
\* others use left at its first value, and a walk alone.
NoFeedYet == now = 0 /\ shown = <<>> /\ cache = <<>> /\ replaced = [p \in Pages |-> <<>>]
NoSearchYet == templates = [l \in Libraries |-> Unasked]

Separately ==
    \A r \in Requests :
        /\ Is(r, "feed") => NoSearchYet /\ \A q \in Requests : request[q].kind \in {"idle", "feed"}
        /\ Gathers(r) => NoFeedYet /\ \A q \in Requests : request[q] = Idle \/ Gathers(q)
        /\ Is(r, "walk") => /\ NoFeedYet /\ NoSearchYet
                            /\ \A q \in Requests \ {r} : request[q] = Idle

\* HTML stands for what can be read but not imported, a thumbnail for generic images too.
SomeLinks ==
    [role : {"acquisition"}, format : {"epub", "pdf", "html", "mobi"}, href : {TRUE}, allowed : BOOLEAN]
    \cup [role : {"thumbnail", "cover", "other"}, format : {"html"}, href : {TRUE}, allowed : BOOLEAN]
    \cup [role : {"other"}, format : {"html"}, href : {FALSE}, allowed : {TRUE}]

MCLinkLists == BoundedSeq(SomeLinks, 4)

SomeRows == [nav : {FALSE}, title : 1..2, author : 0..2, rank : 0..1]
            \cup [nav : {TRUE}, title : {1}, author : {0}, rank : {0}]
Numbered(rows) == [i \in DOMAIN rows |-> [id |-> i] @@ rows[i]]

MCRowLists == {Numbered(rows) : rows \in BoundedSeq(SomeRows, 3)}

=============================================================================
