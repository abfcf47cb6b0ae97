------------------------------ MODULE Placement ------------------------------
(***************************************************************************)
(* What the organizer promises about placement: every VM is on one PM, no  *)
(* PM holds more than PM_CAPACITY of them, and one step moves one VM, to a *)
(* PM that had a free slot.                                                *)
(***************************************************************************)
EXTENDS Cluster, FiniteSets

VARIABLE place     \* the PM of each VM

On(p) == {v \in VM : place[v] = p}

Init == place = [v \in VM |-> LaunchHost(v)]

Move(v, p) ==
    /\ Cardinality(On(p)) < PM_CAPACITY
    /\ place' = [place EXCEPT ![v] = p]

Next == \E v \in VM, p \in PM : Move(v, p)

Spec == Init /\ [][Next]_place
==============================================================================
