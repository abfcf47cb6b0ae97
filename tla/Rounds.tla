-------------------------------- MODULE Rounds --------------------------------
(***************************************************************************)
(* What the host load balancer of simgrid/simgrid-project/hpvc.c and the   *)
(* end of get_finalize promise each other: rounds and the setting of       *)
(* finish exclude each other through finish_sem, every round ends, unless  *)
(* it aborts the program, and no round begins once finish is set.          *)
(***************************************************************************)

VARIABLES
    policy,     \* where policy_func_inhab_mig is
    finalizer,  \* where the end of get_finalize is
    finish_sem, \* the semaphore: 1 when free and promised to nobody
    finish

roundsVars == <<policy, finalizer, finish_sem, finish>>

RoundsTypeOK ==
    /\ policy \in {"sleeping", "busy", "exited", "aborted"}
    /\ finalizer \in {"working", "queued", "granted", "done"}
    /\ finish_sem \in {0, 1}
    /\ finish \in BOOLEAN

(* Under the policies NONE and MIN_COMM, and with any other number, the    *)
(* process host_load_balance returns at once.                              *)
RoundsInit ==
    /\ policy \in {"sleeping", "exited"}
    /\ finalizer = "working"
    /\ finish_sem = 1
    /\ finish = FALSE

-----------------------------------------------------------------------------
(* get_finalize                                                            *)

(* MSG_sem_acquire: finish is set at once, or when the round ends.         *)
RequestFinish ==
    /\ finalizer = "working" /\ policy # "aborted"
    /\ IF finish_sem = 1
       THEN finalizer' = "done" /\ finish' = TRUE
       ELSE finalizer' = "queued" /\ UNCHANGED finish
    /\ UNCHANGED <<policy, finish_sem>>

SetFinish ==
    /\ finalizer = "granted"
    /\ finalizer' = "done"
    /\ finish' = TRUE
    /\ finish_sem' = 1
    /\ UNCHANGED policy

-----------------------------------------------------------------------------
(* policy_func_inhab_mig                                                   *)

(* Its sleep ends: a round begins, or with finish set it returns.          *)
BeginRound ==
    /\ policy = "sleeping" /\ finish_sem = 1
    /\ IF finish
       THEN policy' = "exited" /\ UNCHANGED finish_sem
       ELSE policy' = "busy" /\ finish_sem' = 0
    /\ UNCHANGED <<finalizer, finish>>

EndRound_KeepSemaphore ==
    /\ policy = "busy"
    /\ policy' = "sleeping"
    /\ UNCHANGED <<finalizer, finish_sem, finish>>

(* The round is over, whatever it migrated: the semaphore goes to          *)
(* get_finalize if that waits for it.                                      *)
EndRound ==
    /\ policy = "busy"
    /\ policy' = "sleeping"
    /\ IF finalizer = "queued"
       THEN finalizer' = "granted" /\ UNCHANGED finish_sem
       ELSE finish_sem' = 1 /\ UNCHANGED finalizer
    /\ UNCHANGED finish

(* A round that comes upon a number that is no VM's ends the program.      *)
Abort ==
    /\ policy = "busy"
    /\ policy' = "aborted"
    /\ UNCHANGED <<finalizer, finish_sem, finish>>

-----------------------------------------------------------------------------
RoundsNext == RequestFinish \/ SetFinish \/ BeginRound \/ EndRound \/ Abort

RoundsSpec == RoundsInit /\ [][RoundsNext]_roundsVars

(* A round always ends, and a process that can run does.  When             *)
(* get_finalize asks is left to its caller.                                *)
RoundsFairness ==
    /\ WF_roundsVars(SetFinish)
    /\ WF_roundsVars(BeginRound)
    /\ WF_roundsVars(EndRound \/ Abort)

RoundsFairSpec == RoundsSpec /\ RoundsFairness
==============================================================================
