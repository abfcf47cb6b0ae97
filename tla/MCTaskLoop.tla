------------------------------ MODULE MCTaskLoop ------------------------------
(* TaskLoop with settings of the program's arguments, for model checking.  *)
EXTENDS TaskLoop

Percents == {0, 10, 20, 30, 40, 50, 60, 70}

(* The settings with at least one computation per task, or none wanted,    *)
(* and no more computations than rounds of a computation and a message.    *)
MCSettings ==
    {s \in (2 .. 30) \X Percents :
        /\ Iterations(s[1]) > 0
        /\ s[2] = 0 \/ CompSize(s[1], s[2]) > 0
        /\ 2 * CompSize(s[1], s[2]) <= Iterations(s[1]) + 1}

(* Few VMs at the default ratio.                                           *)
MCFewVMs == {<<8, 20>>}
==============================================================================
