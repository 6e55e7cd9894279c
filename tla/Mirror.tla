------------------------------- MODULE Mirror -------------------------------
(***************************************************************************)
(* What a reader may rely on when the bridge shows a feed: abstractly, a   *)
(* copy of a page that was the library's own no longer ago than Horizon.   *)
(* There is neither a cache nor a fetch here, only what was published when *)
(* and what is shown.  Catalogue implements this, see Shows there.         *)
(***************************************************************************)
EXTENDS Integers, Sequences

CONSTANTS
    Pages,          \* feed documents of the libraries
    Horizon         \* how long a copy may have been out of date

VARIABLES
    now,            \* the clock
    edition,        \* the edition of each page that the library has now
    replaced,       \* replaced[p][e]: when edition e of p was replaced
    shown           \* what was shown last: which page, which edition, when

vars == <<now, edition, replaced, shown>>

Init ==
    /\ now = 0
    /\ edition = [p \in Pages |-> 0]
    /\ replaced = [p \in Pages |-> <<>>]
    /\ shown = <<>>

Tick == now' = now + 1 /\ UNCHANGED <<edition, replaced, shown>>

\* Editions are counted, so the list of the times has an entry for each old one.
Publish(p) ==
    /\ edition' = [edition EXCEPT ![p] = @ + 1]
    /\ replaced' = [replaced EXCEPT ![p] = Append(@, now)]
    /\ UNCHANGED <<now, shown>>

Recent(p, e) == e = edition[p] \/ replaced[p][e + 1] + Horizon >= now

Show(p, e) ==
    /\ e \in 0..edition[p]
    /\ Recent(p, e)
    /\ shown' = <<p, e, now>>
    /\ UNCHANGED <<now, edition, replaced>>

Next ==
    \/ Tick
    \/ \E p \in Pages : Publish(p) \/ \E e \in 0..edition[p] : Show(p, e)

Spec == Init /\ [][Next]_vars

=============================================================================
