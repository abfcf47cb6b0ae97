------------------------------ MODULE MCTeleport ------------------------------
(* Teleport with two or three hosts and one or two VMs. *)
EXTENDS Teleport, TLC

CONSTANTS n1, n2, n3, a, b, home, none

Hosts2 == {n1, n2}
Hosts3 == {n1, n2, n3}
OneVM == {a}
TwoVMs == {a, b}
NoVMs == {}

(* Hosts are interchangeable, and VMs are: no definition singles one out.   *)
Symmetry2 == Permutations(Hosts2) \cup Permutations(TwoVMs)
Symmetry3 == Permutations(Hosts3)
Symmetry32 == Permutations(Hosts3) \cup Permutations(TwoVMs)
===============================================================================
