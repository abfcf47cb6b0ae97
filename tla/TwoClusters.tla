----------------------------- MODULE TwoClusters -----------------------------
(***************************************************************************)
(* The whole older simulation, simgrid/simgrid-project/hpvc.c.  It runs    *)
(* every task twice, once in each of two clusters with the same VMs, to    *)
(* compare them: in cluster 0 the guest load balancer chooses its VM and   *)
(* the host load balancer migrates VMs, in cluster 1 VMs take turns        *)
(* (i % number_of_vms) and stay.  One get_finalize ends both.              *)
(*                                                                         *)
(* create_tasks, the guest load balancer and the VMs of cluster 0 are      *)
(* those of GuestLoadBalance; of the host load balancer this module needs  *)
(* no more than Rounds, with the rounds that abort the program.  Which VM  *)
(* of cluster 1 a task runs on changes nothing here, and VMs that migrate  *)
(* go on running.                                                          *)
(***************************************************************************)
EXTENDS GuestLoadBalance, Rounds

VARIABLES
    target,        \* target_mailbox of each task, the same in both clusters
    activity,      \* what the processes of each task are at
    other_mailbox, \* the mailbox processes of cluster 1
    shutdown,      \* where get_finalize is, up to its last sleep
    fins,          \* its loop counter i: fin messages received
    closed         \* its loop counter i: "finish" messages sent to a cluster

taskVars == <<target, activity>>
shutdownVars == <<other_mailbox, shutdown, fins, closed>>
vars == <<balanceVars, roundsVars, taskVars, shutdownVars>>

Cluster == {0, 1}

(* process_task runs for every task in every cluster.                      *)
Process == Cluster \X Task

TypeOK ==
    /\ BalanceTypeOK
    /\ RoundsTypeOK
    /\ target \in [Task -> VM]
    /\ activity \in
          [Process -> {"absent", "computing", "sending", "reporting", "over"}]
    /\ other_mailbox \in [VM -> {"absent", "listening", "exited"}]
    /\ shutdown \in
          {"collecting", "settling", "closing", "closing other", "lingering", "over"}
    /\ fins \in 0 .. 2 * NUMBER_OF_PROCESS
    /\ closed \in 0 .. NUMBER_OF_VMS

Init ==
    /\ BalanceInit
    /\ RoundsInit
    /\ target = [t \in Task |-> 0]
    /\ activity = [p \in Process |-> "absent"]
    /\ other_mailbox = [v \in VM |-> "absent"]
    /\ shutdown = "collecting"
    /\ fins = 0
    /\ closed = 0

-----------------------------------------------------------------------------
(* create_tasks and the guest load balancer                                *)

CreateAllMailboxes ==
    /\ CreateMailboxes
    /\ other_mailbox' = [v \in VM |-> "listening"]
    /\ UNCHANGED <<roundsVars, taskVars, shutdown, fins, closed>>

(* The draws of a task: its needs and the VM it will send to.              *)
Draw(n, v) ==
    /\ Arrive(n)
    /\ target' = [target EXCEPT ![created] = v]
    /\ UNCHANGED <<roundsVars, activity, shutdownVars>>

Balance(v) ==
    /\ Decide(v)
    /\ UNCHANGED <<roundsVars, taskVars, shutdownVars>>

(* The task is created in both clusters, with its draws printed as strings *)
(* of six decimals; only cluster 0 is charged, and with the draws as drawn.*)
CreateTasks ==
    /\ CreateTask
    /\ activity' = [activity EXCEPT ![<<0, created>>] = "computing",
                                    ![<<1, created>>] = "computing"]
    /\ UNCHANGED <<roundsVars, target, shutdownVars>>

-----------------------------------------------------------------------------
(* process_task                                                            *)

Listening(c, v) ==
    IF c = 0 THEN mailbox[v] = "listening" ELSE other_mailbox[v] = "listening"

(* The computation ends: the one message of the task is posted.            *)
Post(p) ==
    /\ activity[p] = "computing"
    /\ activity' = [activity EXCEPT ![p] = "sending"]
    /\ UNCHANGED <<balanceVars, roundsVars, target, shutdownVars>>

(* process_mailbox of the target takes it; finish_times and slow_down are  *)
(* recorded, and the fin message is posted.                                *)
Deliver(c, t) ==
    /\ activity[<<c, t>>] = "sending"
    /\ Listening(c, target[t])
    /\ activity' = [activity EXCEPT ![<<c, t>>] = "reporting"]
    /\ UNCHANGED <<balanceVars, roundsVars, target, shutdownVars>>

(* get_finalize takes it.  In cluster 0 the process still has its use of   *)
(* the VM to give back; in cluster 1 it returns.                           *)
TakeFin(c, t) ==
    /\ activity[<<c, t>>] = "reporting"
    /\ shutdown = "collecting" /\ fins < 2 * NUMBER_OF_PROCESS
    /\ fins' = fins + 1
    /\ activity' = [activity EXCEPT ![<<c, t>>] = "over"]
    /\ IF c = 0 THEN ReportFin(t) ELSE UNCHANGED balanceVars
    /\ UNCHANGED <<roundsVars, target, other_mailbox, shutdown, closed>>

(* The process of cluster 0 gives back needs computed from these strings.  *)
Return(t) ==
    /\ Leave(t)
    /\ UNCHANGED <<roundsVars, taskVars, shutdownVars>>

-----------------------------------------------------------------------------
(* get_finalize                                                            *)

(* Simulated time passes only when no process can run at the present time. *)
NobodyRunnable ==
    /\ creator # "boot"
    /\ \A t \in Task : task[t] # "leaving"

AllFinsTaken_OneCluster ==
    /\ shutdown = "collecting"
    /\ fins = NUMBER_OF_PROCESS
    /\ shutdown' = "settling"
    /\ UNCHANGED <<balanceVars, roundsVars, taskVars, other_mailbox, fins, closed>>

(* The fins of both clusters are counted together.                         *)
AllFinsTaken ==
    /\ shutdown = "collecting"
    /\ fins = 2 * NUMBER_OF_PROCESS
    /\ shutdown' = "settling"
    /\ UNCHANGED <<balanceVars, roundsVars, taskVars, other_mailbox, fins, closed>>

Settled_NoSleep ==
    /\ shutdown = "settling"
    /\ shutdown' = "closing"
    /\ UNCHANGED <<balanceVars, roundsVars, taskVars, other_mailbox, fins, closed>>

(* MSG_process_sleep(10), so that the last tasks can give back.            *)
Settled ==
    /\ shutdown = "settling"
    /\ NobodyRunnable
    /\ shutdown' = "closing"
    /\ UNCHANGED <<balanceVars, roundsVars, taskVars, other_mailbox, fins, closed>>

(* "finish" to the mailboxes of cluster 0, in order.                       *)
FinishMailbox ==
    /\ shutdown = "closing" /\ closed < NUMBER_OF_VMS
    /\ CloseMailbox(closed)
    /\ closed' = closed + 1
    /\ UNCHANGED <<roundsVars, taskVars, other_mailbox, shutdown, fins>>

(* Request 2 to its guest load balancer.                                   *)
FinishBalancer ==
    /\ shutdown = "closing" /\ closed = NUMBER_OF_VMS
    /\ StopBalancer
    /\ shutdown' = "closing other" /\ closed' = 0
    /\ UNCHANGED <<roundsVars, taskVars, other_mailbox, fins>>

(* "finish" to the mailboxes of cluster 1, and MSG_process_sleep(10).      *)
FinishOtherMailbox ==
    /\ shutdown = "closing other"
    /\ other_mailbox[closed] = "listening"
    /\ other_mailbox' = [other_mailbox EXCEPT ![closed] = "exited"]
    /\ closed' = closed + 1
    /\ shutdown' = IF closed' = NUMBER_OF_VMS THEN "lingering" ELSE shutdown
    /\ UNCHANGED <<balanceVars, roundsVars, taskVars, fins>>

Finish_AfterSettling ==
    /\ shutdown \in {"closing", "lingering"}
    /\ NobodyRunnable
    /\ RequestFinish
    /\ shutdown' = IF shutdown = "lingering" THEN "over" ELSE shutdown
    /\ UNCHANGED <<balanceVars, taskVars, other_mailbox, fins, closed>>

(* MSG_sem_acquire(finish_sem), behind the sleep.                          *)
Finish ==
    /\ shutdown = "lingering"
    /\ NobodyRunnable
    /\ RequestFinish
    /\ shutdown' = "over"
    /\ UNCHANGED <<balanceVars, taskVars, other_mailbox, fins, closed>>

(* The host load balancer, and get_finalize when it is granted finish_sem. *)
HostBalancing ==
    /\ SetFinish \/ BeginRound \/ EndRound \/ Abort
    /\ UNCHANGED <<balanceVars, taskVars, shutdownVars>>

-----------------------------------------------------------------------------
(* A round that aborts the program ends all its processes.                 *)
Running == policy # "aborted"

Next ==
    /\ Running
    /\ \/ CreateAllMailboxes
       \/ \E n \in Need, v \in VM : Draw(n, v)
       \/ \E v \in VM : Balance(v)
       \/ CreateTasks
       \/ \E p \in Process : Post(p)
       \/ \E c \in Cluster, t \in Task : Deliver(c, t) \/ TakeFin(c, t)
       \/ \E t \in Task : Return(t)
       \/ AllFinsTaken
       \/ Settled
       \/ FinishMailbox
       \/ FinishBalancer
       \/ FinishOtherMailbox
       \/ Finish
       \/ HostBalancing

Spec == Init /\ [][Next]_vars

(* SimGrid runs every process that can run, and computations, sleeps and   *)
(* transfers get through; rounds are as fair as Rounds says.               *)
Fairness ==
    /\ WF_vars(Running /\ CreateAllMailboxes)
    /\ WF_vars(Running /\ \E n \in Need, v \in VM : Draw(n, v))
    /\ WF_vars(Running /\ \E v \in VM : Balance(v))
    /\ WF_vars(Running /\ CreateTasks)
    /\ \A c \in Cluster, t \in Task :
          /\ WF_vars(Running /\ Post(<<c, t>>))
          /\ WF_vars(Running /\ Deliver(c, t))
          /\ WF_vars(Running /\ TakeFin(c, t))
    /\ \A t \in Task : WF_vars(Running /\ Return(t))
    /\ WF_vars(Running /\ AllFinsTaken)
    /\ WF_vars(Running /\ Settled)
    /\ WF_vars(Running /\ FinishMailbox)
    /\ WF_vars(Running /\ FinishBalancer)
    /\ WF_vars(Running /\ FinishOtherMailbox)
    /\ WF_vars(Running /\ Finish)
    /\ RoundsFairness

FairSpec == Spec /\ Fairness

-----------------------------------------------------------------------------
(* Properties                                                              *)

(* get_finalize ends the mailbox processes of both clusters one after the  *)
(* other, having counted the fins of both together: no task of either is   *)
(* ever left sending to a mailbox that is closed.                          *)
NoTaskSendsToClosedMailbox ==
    \A c \in Cluster, t \in Task :
        activity[<<c, t>>] \in {"computing", "sending"} =>
            (IF c = 0 THEN mailbox ELSE other_mailbox)[target[t]] # "exited"

(* When get_finalize starts to close, the VMs of cluster 0 have got back   *)
(* all memory and network use, which tasks give back only after their fin  *)
(* message, but for what rounding left of each; and both processes of      *)
(* every task have recorded the times that destroy_master then compares.   *)
OnlyRoundingHeldAtShutdown ==
    shutdown \notin {"collecting", "settling"} =>
        /\ \A v \in VM : /\ mem[v] \in -Residue(v) .. Residue(v)
                         /\ net[v] \in -Residue(v) .. Residue(v)
                         /\ JobsOn(v) = {}
        /\ \A p \in Process : activity[p] = "over"

(* The host load balancer outlives everything it balances: finish, which   *)
(* also a waiting get_finalize may set much later, finds no task, mailbox  *)
(* or guest load balancer.                                                 *)
FinishComesLast ==
    finish => /\ \A p \in Process : activity[p] = "over"
              /\ \A v \in VM : mailbox[v] = "exited" /\ other_mailbox[v] = "exited"
              /\ balancer = "exited"

(* Cluster 0 behaves as GuestLoadBalance says: its mailboxes and balancer  *)
(* are stopped only after all its tasks reported, whatever cluster 1 does. *)
ImplementsBalance == BalanceSpec

(* The simulation ends: every process of both clusters returns, unless a   *)
(* round of the host load balancer aborts the program.                     *)
Ended ==
    /\ creator = "done" /\ balancer = "exited"
    /\ \A v \in VM : mailbox[v] = "exited" /\ other_mailbox[v] = "exited"
    /\ \A t \in Task : task[t] = "gone"
    /\ \A p \in Process : activity[p] = "over"
    /\ policy = "exited" /\ finalizer = "done"

SimulationEnds == <>[](Ended \/ ~Running)
==============================================================================
