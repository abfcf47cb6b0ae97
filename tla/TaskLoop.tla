------------------------------- MODULE TaskLoop -------------------------------
(***************************************************************************)
(* The iterations of one process_task of simgrid/organizer/hpvc.c, with    *)
(* the sizes main computes for them from the program's arguments: how many *)
(* computations and messages a task makes, and whether it ever gets        *)
(* through.                                                                *)
(***************************************************************************)
EXTENDS Integers

CONSTANTS
    Settings,  \* <<NUMBER_OF_VMS, COMP_PER_COMM>> pairs, the latter in percent
    Sequences  \* values of process_sequence

ASSUME SettingAssumption ==
    /\ Settings \subseteq (Nat \ {0}) \X (0 .. 99)
    /\ Sequences \subseteq Nat

-----------------------------------------------------------------------------
(* The sizes main computes: products and a difference of floats, truncated *)

(* NUMBER_OF_VMS * ITERATION_PER_PROCESS_RATIO                             *)
Iterations(vms) == (vms * 6) \div 10

(* COMP_PER_COMM * ITERATION_PER_PROCESS                                   *)
CompSize(vms, ratio) == (ratio * Iterations(vms)) \div 100

CommSize_Complement(vms, ratio) == ((100 - ratio) * Iterations(vms)) \div 100

(* ITERATION_PER_PROCESS - COMP_PER_COMM, a ratio below 1 taken from a     *)
(* whole number and truncated towards 0: one less unless the ratio is 0.   *)
CommSize(vms, ratio) ==
    IF ratio = 0 \/ Iterations(vms) = 0 THEN Iterations(vms)
                                        ELSE Iterations(vms) - 1

-----------------------------------------------------------------------------
VARIABLES
    vms, ratio,       \* the arguments of the run
    process_sequence, \* number of the task
    target_mailbox,   \* VM it addresses
    i, n, p,          \* iterations, messages and computations made
    pc                \* "loop": at the loop test; "comm": behind the
                      \* computation of this round; "done": behind the loop

loopVars == <<vms, ratio, process_sequence, target_mailbox, i, n, p, pc>>

ITERATION_PER_PROCESS == Iterations(vms)
COMP_TASK_SIZE == CompSize(vms, ratio)
COMM_TASK_SIZE == CommSize(vms, ratio)

LoopTypeOK ==
    /\ <<vms, ratio>> \in Settings
    /\ process_sequence \in Sequences
    /\ target_mailbox \in 0 .. vms - 1
    /\ i \in 0 .. ITERATION_PER_PROCESS
    /\ n \in 0 .. COMM_TASK_SIZE
    /\ p \in 0 .. COMP_TASK_SIZE
    /\ pc \in {"loop", "comm", "done"}

LoopInit ==
    /\ \E setting \in Settings : vms = setting[1] /\ ratio = setting[2]
    /\ process_sequence \in Sequences
    /\ target_mailbox \in {0, vms - 1}
    /\ i = 0 /\ n = 0 /\ p = 0
    /\ pc = "loop"

Unchanging == <<vms, ratio, process_sequence>>

Compute_Unbounded ==
    /\ pc = "loop" /\ i < ITERATION_PER_PROCESS
    /\ p <= COMP_TASK_SIZE
    /\ p' = p + 1 /\ i' = i + 1
    /\ pc' = "comm"
    /\ UNCHANGED <<Unchanging, target_mailbox, n>>

(* A computation, while the task has any left.                             *)
Compute ==
    /\ pc = "loop" /\ i < ITERATION_PER_PROCESS
    /\ p < COMP_TASK_SIZE
    /\ p' = p + 1 /\ i' = i + 1
    /\ pc' = "comm"
    /\ UNCHANGED <<Unchanging, target_mailbox, n>>

GetNextTargetMailBox(mailBoxID, ProcessSequenceNumber, nu_vm) ==
    (mailBoxID + ProcessSequenceNumber) % nu_vm

(* Behind the computation of the round, if there was one.                  *)
BehindCompute ==
    \/ pc = "comm"
    \/ pc = "loop" /\ i < ITERATION_PER_PROCESS /\ p >= COMP_TASK_SIZE

(* A message, while the task has any left: to the same VM on odd rounds,   *)
(* to another on even ones.                                                *)
Communicate ==
    /\ BehindCompute
    /\ n < COMM_TASK_SIZE /\ i < ITERATION_PER_PROCESS
    /\ target_mailbox' =
          IF i % 2 = 1 THEN target_mailbox
          ELSE GetNextTargetMailBox(target_mailbox, process_sequence * n, vms)
    /\ n' = n + 1 /\ i' = i + 1
    /\ pc' = "loop"
    /\ UNCHANGED <<Unchanging, p>>

(* A computation without a message.                                        *)
SkipCommunication ==
    /\ pc = "comm"
    /\ ~(n < COMM_TASK_SIZE /\ i < ITERATION_PER_PROCESS)
    /\ pc' = "loop"
    /\ UNCHANGED <<Unchanging, target_mailbox, i, n, p>>

(* The loop ends.  Where neither a computation nor a message is left and i *)
(* is still short, no action is possible: the code repeats a loop that     *)
(* neither changes anything nor blocks.                                    *)
LeaveLoop ==
    /\ pc = "loop" /\ i >= ITERATION_PER_PROCESS
    /\ pc' = "done"
    /\ UNCHANGED <<Unchanging, target_mailbox, i, n, p>>

LoopNext == Compute \/ Communicate \/ SkipCommunication \/ LeaveLoop

(* The task runs whenever it can.                                          *)
LoopSpec == LoopInit /\ [][LoopNext]_loopVars /\ WF_loopVars(LoopNext)

-----------------------------------------------------------------------------
(* Properties                                                              *)

(* Every task gets through its loop.  The comment at hpvc.c:1363 says the  *)
(* size of COMM_TASK_SIZE is chosen "to avoid infinite loop".  That the    *)
(* sizes suffice is not obvious: they are truncated separately, and the    *)
(* loop counts up only while one of them is not used up.                   *)
TaskTerminates == <>(pc = "done")

(* The loop never repeats without a computation or a message left while i  *)
(* is short of the iterations, where it would neither change anything nor  *)
(* block (hpvc.c:189-222).                                                 *)
NeverSpins ==
    pc = "loop" /\ i < ITERATION_PER_PROCESS =>
        p < COMP_TASK_SIZE \/ n < COMM_TASK_SIZE

(* A task makes COMP_TASK_SIZE computations, and messages for the rest of  *)
(* its iterations, as the comments at hpvc.c:39-40 say.                    *)
SharesAsConfigured ==
    pc = "done" => /\ p = COMP_TASK_SIZE
                   /\ n = ITERATION_PER_PROCESS - COMP_TASK_SIZE
==============================================================================
