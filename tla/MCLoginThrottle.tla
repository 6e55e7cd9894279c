-------------------------- MODULE MCLoginThrottle --------------------------
(***************************************************************************)
(* LoginThrottleHistory on a small instance.  Model values name the two    *)
(* addresses and the two usernames; the limits are small enough that the   *)
(* lock trips, the ramp saturates, the sample cap cuts and the sweep runs. *)
(***************************************************************************)
EXTENDS LoginThrottleHistory, TLC

Symmetry == Permutations(Ips) \cup Permutations(Users)

=============================================================================
