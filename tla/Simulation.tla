------------------------------ MODULE Simulation ------------------------------
(***************************************************************************)
(* The whole simulation of simgrid/organizer/hpvc.c: create_tasks, the     *)
(* guest load balancer, the tasks and their messages, the mailbox process  *)
(* of every VM, the organizer, and get_finalize, which ends it all.        *)
(*                                                                         *)
(* MSG_task_send and MSG_task_receive are a rendezvous: one action, taken  *)
(* when both sides are there.  A send to a mailbox nobody will receive     *)
(* from again blocks for ever, unless the sender is killed.  Tasks are     *)
(* passed their draws as integers, from which nothing is lost.             *)
(***************************************************************************)
EXTENDS Organizer, GuestLoadBalance

CONSTANT COMM_TASK_SIZE  \* messages each task sends

ASSUME MessageAssumption == COMM_TASK_SIZE \in Nat

ASSUME IntegerDraws == Rounding = 0

VARIABLES
    activity,  \* what a running task is at
    sent,      \* n of process_task: messages it has sent
    dest,      \* target_mailbox of the message a task is sending
    finalizer, \* where get_finalize is
    fins,      \* its loop counter i: fin messages received
    closed     \* its loop counter i: "finish" messages sent

finalizeVars == <<finalizer, fins, closed>>
messageVars == <<activity, sent, dest>>
vars == <<organizerVars, balanceVars, messageVars, finalizeVars>>

TypeOK ==
    /\ OrganizerTypeOK
    /\ BalanceTypeOK
    /\ activity \in [Task -> {"computing", "sending", "reporting"}]
    /\ sent \in [Task -> 0 .. COMM_TASK_SIZE]
    /\ dest \in [Task -> VM]
    /\ finalizer \in {"collecting", "settling", "closing", "lingering", "done"}
    /\ fins \in 0 .. NUMBER_OF_PROCESS
    /\ closed \in 0 .. NUMBER_OF_VMS

Init ==
    /\ OrganizerInit
    /\ BalanceInit
    /\ activity = [t \in Task |-> "computing"]
    /\ sent = [t \in Task |-> 0]
    /\ dest = [t \in Task |-> 0]
    /\ finalizer = "collecting"
    /\ fins = 0
    /\ closed = 0

-----------------------------------------------------------------------------
(* create_tasks, the balancer, and the organizer between its messages      *)

Balancing ==
    /\ \/ CreateMailboxes
       \/ \E n \in Need : Arrive(n)
       \/ \E v \in VM : Decide(v)
       \/ CreateTask
    /\ UNCHANGED <<organizerVars, messageVars, finalizeVars>>

Organizing ==
    /\ \/ Start
       \/ \E v \in VM, p \in PM : BeginMigration(v, p)
       \/ VmMigrated
    /\ UNCHANGED <<balanceVars, messageVars, finalizeVars>>

(* The mailbox process of the migrated VM takes the memory image.          *)
DeliverImage ==
    /\ mailbox[candidate] = "listening"
    /\ ImageSent
    /\ UNCHANGED <<balanceVars, messageVars, finalizeVars>>

-----------------------------------------------------------------------------
(* process_task                                                            *)

(* A task posts its next message, to any VM.                               *)
Post(t, v) ==
    /\ task[t] = "running" /\ activity[t] = "computing"
    /\ sent[t] < COMM_TASK_SIZE
    /\ activity' = [activity EXCEPT ![t] = "sending"]
    /\ dest' = [dest EXCEPT ![t] = v]
    /\ UNCHANGED <<organizerVars, balanceVars, finalizeVars, sent>>

Deliver(t) ==
    /\ activity[t] = "sending"
    /\ mailbox[dest[t]] = "listening"
    /\ activity' = [activity EXCEPT ![t] = "computing"]
    /\ sent' = [sent EXCEPT ![t] = @ + 1]
    /\ UNCHANGED <<organizerVars, balanceVars, finalizeVars, dest>>

(* After the last message the task posts its fin message.                  *)
PostFin(t) ==
    /\ task[t] = "running" /\ activity[t] = "computing"
    /\ sent[t] = COMM_TASK_SIZE
    /\ activity' = [activity EXCEPT ![t] = "reporting"]
    /\ UNCHANGED <<organizerVars, balanceVars, finalizeVars, sent, dest>>

(* get_finalize takes it.                                                  *)
TakeFin(t) ==
    /\ activity[t] = "reporting"
    /\ finalizer = "collecting" /\ fins < NUMBER_OF_PROCESS
    /\ ReportFin(t)
    /\ fins' = fins + 1
    /\ UNCHANGED <<organizerVars, messageVars, finalizer, closed>>

Return(t) ==
    /\ Leave(t)
    /\ UNCHANGED <<organizerVars, messageVars, finalizeVars>>

-----------------------------------------------------------------------------
(* get_finalize                                                            *)

(* Simulated time passes, and so a sleep ends, only when no process is     *)
(* able to run at the present time.                                        *)
NobodyRunnable ==
    /\ phase # "created"
    /\ creator # "boot"
    /\ \A t \in Task : task[t] # "leaving"

AllFinsTaken_OneShort ==
    /\ finalizer = "collecting"
    /\ fins = NUMBER_OF_PROCESS - 1
    /\ finalizer' = "settling"
    /\ UNCHANGED <<organizerVars, balanceVars, messageVars, fins, closed>>

(* The fin of every process was received: MSG_process_sleep(10).           *)
AllFinsTaken ==
    /\ finalizer = "collecting"
    /\ fins = NUMBER_OF_PROCESS
    /\ finalizer' = "settling"
    /\ UNCHANGED <<organizerVars, balanceVars, messageVars, fins, closed>>

Settled_NoSleep ==
    /\ finalizer = "settling"
    /\ finalizer' = "closing"
    /\ UNCHANGED <<organizerVars, balanceVars, messageVars, fins, closed>>

Settled ==
    /\ finalizer = "settling"
    /\ NobodyRunnable
    /\ finalizer' = "closing"
    /\ UNCHANGED <<organizerVars, balanceVars, messageVars, fins, closed>>

(* "finish" to the mailboxes of the VMs, in order.                         *)
FinishMailbox ==
    /\ finalizer = "closing"
    /\ closed < NUMBER_OF_VMS
    /\ CloseMailbox(closed)
    /\ closed' = closed + 1
    /\ UNCHANGED <<organizerVars, messageVars, finalizer, fins>>

(* Request 2 to the load balancer, and MSG_process_sleep(10).              *)
FinishBalancer ==
    /\ finalizer = "closing"
    /\ closed = NUMBER_OF_VMS
    /\ StopBalancer
    /\ finalizer' = "lingering"
    /\ UNCHANGED <<organizerVars, messageVars, fins, closed>>

Finish_KeepOrganizer ==
    /\ finalizer = "lingering"
    /\ NobodyRunnable
    /\ finalizer' = "done"
    /\ UNCHANGED <<organizerVars, balanceVars, messageVars, fins, closed>>

(* The organizer, if there is one, is killed; get_finalize returns.        *)
Finish ==
    /\ finalizer = "lingering"
    /\ NobodyRunnable
    /\ IF is_organizer_running THEN KillOrganizer ELSE UNCHANGED organizerVars
    /\ finalizer' = "done"
    /\ UNCHANGED <<balanceVars, messageVars, fins, closed>>

-----------------------------------------------------------------------------
Next ==
    \/ Balancing
    \/ Organizing
    \/ DeliverImage
    \/ \E t \in Task :
          \/ \E v \in VM : Post(t, v)
          \/ Deliver(t)
          \/ PostFin(t)
          \/ TakeFin(t)
          \/ Return(t)
    \/ AllFinsTaken
    \/ Settled
    \/ FinishMailbox
    \/ FinishBalancer
    \/ Finish

(* SimGrid runs every process that can run, and computations, sleeps and   *)
(* transfers get through.  Of the organizer only its start is assumed: the *)
(* others must end whatever it does, or fails to do, afterwards.           *)
Fairness ==
    /\ WF_vars(Balancing)
    /\ WF_vars(Start /\ UNCHANGED <<balanceVars, messageVars, finalizeVars>>)
    /\ \A t \in Task :
          /\ WF_vars(\E v \in VM : Post(t, v))
          /\ WF_vars(Deliver(t))
          /\ WF_vars(PostFin(t))
          /\ WF_vars(TakeFin(t))
          /\ WF_vars(Return(t))
    /\ WF_vars(AllFinsTaken)
    /\ WF_vars(Settled)
    /\ WF_vars(FinishMailbox)
    /\ WF_vars(FinishBalancer)
    /\ WF_vars(Finish)

Spec == Init /\ [][Next]_vars

FairSpec == Spec /\ Fairness

-----------------------------------------------------------------------------
(* Properties                                                              *)

(* No task is ever left sending to a mailbox process that has returned:    *)
(* get_finalize closes a mailbox only when no task can address it again.   *)
(* Only the organizer may be caught in such a send.                        *)
NoTaskSendsToClosedMailbox ==
    \A v \in VM : mailbox[v] = "exited" =>
        \A t \in Task : ~(task[t] = "running" /\ activity[t] = "sending" /\ dest[t] = v)

(* When get_finalize starts to close, every VM has got its memory and      *)
(* network use back, although tasks give theirs back only after their fin  *)
(* message: the ten seconds of sleep are what makes it so.                 *)
NothingHeldAtShutdown ==
    finalizer \in {"closing", "lingering", "done"} =>
        \A v \in VM : mem[v] = 0 /\ net[v] = 0 /\ JobsOn(v) = {}

(* The balancer and the mailboxes of the simulation behave as the module   *)
(* GuestLoadBalance says, whose assumption on get_finalize is thus met:    *)
(* it stops them only after the end of every task.                         *)
ImplementsBalance == BalanceSpec

(* The simulation ends: every process returns or is killed, though the     *)
(* organizer may block for ever on the mailbox of a VM that is closed.     *)
Ended ==
    /\ creator = "done" /\ balancer = "exited" /\ finalizer = "done"
    /\ \A v \in VM : mailbox[v] = "exited"
    /\ \A t \in Task : task[t] = "gone"
    /\ phase \in {"off", "killed"}

SimulationEnds == <>[]Ended
==============================================================================
