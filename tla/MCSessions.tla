----------------------------- MODULE MCSessions -----------------------------
(***************************************************************************)
(* Sessions on small instances: model values for browsers, requests, names *)
(* and ids, all interchangeable.                                           *)
(***************************************************************************)
EXTENDS Sessions, TLC

Symmetry ==
    Permutations(Browsers) \cup Permutations(Requests) \cup Permutations(Users)
        \cup Permutations(AccountIds) \cup Permutations(ProfileIds)

=============================================================================
