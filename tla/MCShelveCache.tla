---------------------------- MODULE MCShelveCache ----------------------------
(***************************************************************************)
(* ShelveCache on small instances.  Model values name tasks, books and     *)
(* processes; no symmetry where a liveness property is checked.            *)
(***************************************************************************)
EXTENDS ShelveCache, TLC

Symmetry == Permutations(Tasks)

=============================================================================
