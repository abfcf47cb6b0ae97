------------------------------ MODULE MCMonitor ------------------------------
(* Monitor for model checking.                                             *)
EXTENDS Monitor

CONSTANTS n1, n2, a, b, p

Hosts == {n1, n2}
Machines == {a, b}
Clients == {p}
==============================================================================
