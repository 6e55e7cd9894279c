------------------------------ MODULE MCCovers ------------------------------
(***************************************************************************)
(* Covers on a small instance: a process with two requests and a pool of   *)
(* one connection, a second process with one, a cover that fits into the   *)
(* directory but not beside a copy being saved, and an address that the    *)
(* guard refuses.                                                          *)
(***************************************************************************)
EXTENDS Covers

CONSTANTS one, two,         \* processes
          r1, r2, r3        \* requests

MCProcessOf == [r \in Requests |-> IF r = r3 THEN two ELSE one]
MCTakes == r1 :> {"feed"} @@ r2 :> {"download", "cover"} @@ r3 :> {"cover"}

=============================================================================
