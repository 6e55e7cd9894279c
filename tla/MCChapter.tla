----------------------------- MODULE MCChapter -----------------------------
(***************************************************************************)
(* Chapter on small documents: a wrapper, two blocks that end a paragraph  *)
(* of which one opens a chapter, an element that is dropped and one that   *)
(* is unwrapped; no more than two levels deep, wrappers are flattened      *)
(* once, and start tags have no attributes or an id twice.  Every short    *)
(* list of attributes, on anchors too, is for a run of its own.  Contents, *)
(* which has no state, is checked on every short outline.                  *)
(***************************************************************************)
EXTENDS Chapter

Attr(name, valued) == [name |-> name, valued |-> valued]
MCAttrLists == {<<>>, <<Attr("id", TRUE), Attr("id", TRUE)>>}

MCAnchorTags == {"p", "a"}
MCAnchorAttrLists == BoundedSeq([name : {"id", "name", "class"}, valued : BOOLEAN], 2)

MCTags == {"div", "p", "h1", "script", "font"}

Outlines(pages, n) == BoundedSeq([depth : 0..(MaxWalk + 1), to : Group..pages], n)

MCPdfOutlines == Outlines(MaxPages, 3)
MCNavs == Outlines(2, 2)
MCChapterOf == [file \in {0, 2} |-> file + 1]

=============================================================================
