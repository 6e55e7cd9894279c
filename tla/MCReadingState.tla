--------------------------- MODULE MCReadingState ---------------------------
(***************************************************************************)
(* ReadingState on a small instance: one more book, spot and shelf than    *)
(* the caps allow.                                                         *)
(***************************************************************************)
EXTENDS ReadingState, TLC

Symmetry == Permutations(Books) \cup Permutations(Spots) \cup Permutations(ShelfIds)

=============================================================================
