------------------------------ MODULE MCPaging ------------------------------
(***************************************************************************)
(* Paging on small books: chapters without blocks at either end and in the *)
(* middle, blocks that fill a part alone, and blocks that share one.       *)
(***************************************************************************)
EXTENDS Paging, TLC

SmallBooks ==
    { << <<>>, <<1, 1, 2>>, <<>>, <<1, 5>>, <<>> >>,
      << <<3, 1>>, <<1, 1, 1, 1>> >>,
      << <<2>>, <<1, 2, 1>>, <<>>, <<1>> >>,
      << <<1>>, <<>>, <<>>, <<1, 1>>, <<2, 1>> >>,
      << <<2, 1, 1, 2, 2, 2>> >> }

Symmetry == Permutations(Devices)

=============================================================================
