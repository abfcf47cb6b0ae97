------------------------------- MODULE Journeys -------------------------------
(***************************************************************************)
(* What the executers promise users who type one command at a time: a      *)
(* machine runs on one host, a teleport moves it there in one step, and    *)
(* what is recorded of it is the way it really went since it was started,  *)
(* host by host.                                                           *)
(***************************************************************************)
EXTENDS Sequences

CONSTANTS Node, VM

VARIABLE journey     \* the hosts each machine has run on, the present one last

Init == journey = [v \in VM |-> <<>>]

Start(v, n) ==
    /\ journey[v] = <<>>
    /\ journey' = [journey EXCEPT ![v] = <<n>>]

Move(v, n) ==
    /\ journey[v] # <<>>
    /\ n # journey[v][Len(journey[v])]
    /\ journey' = [journey EXCEPT ![v] = Append(@, n)]

Next == \E v \in VM, n \in Node : Start(v, n) \/ Move(v, n)

Spec == Init /\ [][Next]_journey
===============================================================================
