----------------------------- MODULE MCSimulation -----------------------------
(* Simulation for model checking.                                          *)
EXTENDS Simulation
==============================================================================
