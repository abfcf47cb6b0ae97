------------------------------- MODULE MCLaunch -------------------------------
(* Launch with small settings.                                             *)
EXTENDS Launch

(* main divides by argv[3] / 50, so that 50 VMs are the fewest it takes.   *)
MCSettings == (50 .. 60) \X (12 .. 17)
==============================================================================
