-------------------------- MODULE GuestLoadBalance --------------------------
(***************************************************************************)
(* create_tasks and guest_load_balance of simgrid/organizer/hpvc.c: the    *)
(* process that creates the tasks one by one, and the load balancer it     *)
(* asks for the VM of each.  The older simulation has the same two for its *)
(* cluster 0, whose draws lose digits on their way to a task.              *)
(*                                                                         *)
(* The two exchange a request and a response over rendezvous mailboxes;    *)
(* tasks already created end meanwhile, also between the balancer's        *)
(* decision and the creation of the task it decided on.                    *)
(***************************************************************************)
EXTENDS VirtualMachines, FiniteSets, Functions

CONSTANTS
    NUMBER_OF_PROCESS, \* argv[4]: tasks to create
    MemoryNeeds,       \* values resource_need.memory takes
    NetNeeds,          \* values resource_need.net takes
    Rounding           \* most by which a need computed again may differ

ASSUME TaskAssumption ==
    /\ NUMBER_OF_PROCESS \in Nat \ {0}
    /\ MemoryNeeds \subseteq Nat \ {0}
    /\ NetNeeds \subseteq Nat \ {0}
    /\ Rounding \in Nat

Task == 0 .. NUMBER_OF_PROCESS - 1

Need == [memory : MemoryNeeds, net : NetNeeds]

NoNeed == [memory |-> 0, net |-> 0]

VARIABLES
    creator,            \* where create_tasks is
    created,            \* its loop counter i: tasks created so far
    balancer,           \* where guest_load_balance is
    selected_vm_number, \* the VM of its last decision, kept across requests
    max_guest_job,      \* its estimate of the most processes a VM runs
    mailbox,            \* the mailbox process of each VM
    task,               \* the process_task processes
    home,               \* home_vm of each task
    need,               \* resource_need of each task
    mem, net            \* the properties "mem" and "net" of each VM

balanceVars == <<creator, created, balancer, selected_vm_number, max_guest_job,
                 mailbox, task, home, need, mem, net>>

BalanceTypeOK ==
    /\ creator \in {"boot", "arriving", "asking", "waiting", "done"}
    /\ created \in 0 .. NUMBER_OF_PROCESS
    /\ balancer \in {"receiving", "responding", "exited"}
    /\ selected_vm_number \in VM
    /\ max_guest_job \in Nat \ {0}
    /\ mailbox \in [VM -> {"absent", "listening", "exited"}]
    /\ task \in [Task -> {"none", "running", "leaving", "gone"}]
    /\ home \in [Task -> VM]
    /\ need \in [Task -> Need \cup {NoNeed}]
    /\ mem \in [VM -> Int]
    /\ net \in [VM -> Int]

BalanceInit ==
    /\ creator = "boot"
    /\ created = 0
    /\ balancer = "receiving"
    /\ selected_vm_number = 0
    /\ max_guest_job = 1
    /\ mailbox = [v \in VM |-> "absent"]
    /\ task = [t \in Task |-> "none"]
    /\ home = [t \in Task |-> 0]
    /\ need = [t \in Task |-> NoNeed]
    /\ mem = [v \in VM |-> 0]
    /\ net = [v \in VM |-> 0]

-----------------------------------------------------------------------------
(* The processes of a VM: its tasks and its mailbox process.               *)

JobsOn(v) == {t \in Task : task[t] \in {"running", "leaving"} /\ home[t] = v}

vm_load(v) ==
    Cardinality(JobsOn(v)) + (IF mailbox[v] = "listening" THEN 1 ELSE 0)

-----------------------------------------------------------------------------
(* The decision of the balancer                                            *)

(* The scan starts behind the last decision and goes round all VMs once.   *)
VisitOrder(v) == (v - selected_vm_number - 1) % NUMBER_OF_VMS

(* marginal_cost is a sum of differences N^(x + d) - N^x in the load, the  *)
(* memory and the network use of the VM: it grows with each of the three   *)
(* and depends on nothing else.  Equal costs go to the VM visited first    *)
(* (the test is <).  A VM that is nowhere worse, and better or earlier, is *)
(* preferred; how costs trade one use against another is left open.        *)
Preferred(w, v) ==
    /\ vm_load(w) <= vm_load(v) /\ mem[w] <= mem[v] /\ net[w] <= net[v]
    /\ \/ vm_load(w) < vm_load(v) \/ mem[w] < mem[v] \/ net[w] < net[v]
       \/ VisitOrder(w) < VisitOrder(v)

IsSelection_LastStays(v) ==
    \/ v = selected_vm_number
    \/ \A w \in VM \ {v} : ~Preferred(w, v)

IsSelection(v) == \A w \in VM \ {v} : ~Preferred(w, v)

NextMaximum_Late(new_load) ==
    IF new_load > max_guest_job + 1 THEN 2 * max_guest_job ELSE max_guest_job

NextMaximum(new_load) ==
    IF new_load >= max_guest_job THEN 2 * max_guest_job ELSE max_guest_job

-----------------------------------------------------------------------------
(* create_tasks and guest_load_balance                                     *)

(* create_mailbox_processes, before the first task.                        *)
CreateMailboxes ==
    /\ creator = "boot"
    /\ creator' = "arriving"
    /\ mailbox' = [v \in VM |-> "listening"]
    /\ UNCHANGED <<created, balancer, selected_vm_number, max_guest_job, task,
                   home, need, mem, net>>

(* The inter-arrival sleep ends; the needs of the next task are drawn and  *)
(* create_tasks blocks sending the request.                                *)
Arrive(n) ==
    /\ creator = "arriving"
    /\ creator' = "asking"
    /\ need' = [need EXCEPT ![created] = n]
    /\ UNCHANGED <<created, balancer, selected_vm_number, max_guest_job,
                   mailbox, task, home, mem, net>>

(* The balancer receives the request, decides for VM v, and blocks sending *)
(* the response.                                                           *)
Decide(v) ==
    /\ creator = "asking"
    /\ balancer = "receiving"
    /\ IsSelection(v)
    /\ creator' = "waiting"
    /\ balancer' = "responding"
    /\ selected_vm_number' = v
    /\ max_guest_job' = NextMaximum(vm_load(v) + 1)
    /\ UNCHANGED <<created, mailbox, task, home, need, mem, net>>

CreateTask_Uncharged ==
    /\ creator = "waiting"
    /\ balancer = "responding"
    /\ balancer' = "receiving"
    /\ created' = created + 1
    /\ creator' = IF created' < NUMBER_OF_PROCESS THEN "arriving" ELSE "done"
    /\ task' = [task EXCEPT ![created] = "running"]
    /\ home' = [home EXCEPT ![created] = selected_vm_number]
    /\ mem' = [mem EXCEPT ![selected_vm_number] = @ + need[created].memory]
    /\ UNCHANGED <<selected_vm_number, max_guest_job, mailbox, need, net>>

(* create_tasks receives the response, creates the process on the VM, adds *)
(* its needs to the properties of the VM, and sleeps until the next one.   *)
CreateTask ==
    /\ creator = "waiting"
    /\ balancer = "responding"
    /\ balancer' = "receiving"
    /\ created' = created + 1
    /\ creator' = IF created' < NUMBER_OF_PROCESS THEN "arriving" ELSE "done"
    /\ task' = [task EXCEPT ![created] = "running"]
    /\ home' = [home EXCEPT ![created] = selected_vm_number]
    /\ mem' = [mem EXCEPT ![selected_vm_number] = @ + need[created].memory]
    /\ net' = [net EXCEPT ![selected_vm_number] = @ + need[created].net]
    /\ UNCHANGED <<selected_vm_number, max_guest_job, mailbox, need>>

-----------------------------------------------------------------------------
(* The end of a task, and of the balancer                                  *)

(* process_task gets through its iterations and its fin message is taken.  *)
ReportFin(t) ==
    /\ task[t] = "running"
    /\ task' = [task EXCEPT ![t] = "leaving"]
    /\ UNCHANGED <<creator, created, balancer, selected_vm_number,
                   max_guest_job, mailbox, home, need, mem, net>>

(* A task computes its needs from draws that create_tasks printed.  The    *)
(* organizer's are integers, which arrive as they are; the older program's *)
(* are fractions, printed with six decimals.                               *)
Recomputed(n) ==
    [memory : n.memory - Rounding .. n.memory + Rounding,
     net : n.net - Rounding .. n.net + Rounding]

(* Only then does it give back what it takes its needs for, and return.    *)
Leave(t) ==
    /\ task[t] = "leaving"
    /\ task' = [task EXCEPT ![t] = "gone"]
    /\ \E n \in Recomputed(need[t]) :
          /\ mem' = [mem EXCEPT ![home[t]] = @ - n.memory]
          /\ net' = [net EXCEPT ![home[t]] = @ - n.net]
    /\ UNCHANGED <<creator, created, balancer, selected_vm_number,
                   max_guest_job, mailbox, home, need>>

(* The mailbox process of VM v receives "finish" and returns.              *)
CloseMailbox(v) ==
    /\ mailbox[v] = "listening"
    /\ mailbox' = [mailbox EXCEPT ![v] = "exited"]
    /\ UNCHANGED <<creator, created, balancer, selected_vm_number,
                   max_guest_job, task, home, need, mem, net>>

(* The balancer receives request 2 and returns.                            *)
StopBalancer ==
    /\ balancer = "receiving"
    /\ balancer' = "exited"
    /\ UNCHANGED <<creator, created, selected_vm_number, max_guest_job,
                   mailbox, task, home, need, mem, net>>

-----------------------------------------------------------------------------
(* get_finalize, which sends "finish" and request 2, is not part of this   *)
(* module: it is assumed to wait for the end of every task.                *)
AllReported == \A t \in Task : task[t] \in {"leaving", "gone"}

BalanceNext ==
    \/ CreateMailboxes
    \/ \E n \in Need : Arrive(n)
    \/ \E v \in VM : Decide(v)
    \/ CreateTask
    \/ \E t \in Task : ReportFin(t) \/ Leave(t)
    \/ /\ AllReported
       /\ StopBalancer \/ \E v \in VM : CloseMailbox(v)

BalanceSpec == BalanceInit /\ [][BalanceNext]_balanceVars

-----------------------------------------------------------------------------
(* Properties                                                              *)

(* The task decided on but not created yet counts as a job of its VM.      *)
Pending(v) == IF balancer = "responding" /\ selected_vm_number = v THEN 1 ELSE 0

(* max_guest_job bounds the processes of every VM, the one about to be     *)
(* created included: load / max_guest_job, the exponent of the marginal    *)
(* cost, stays within 0 .. 1.  It only looks at the VM of the decision,    *)
(* once, with the load of that moment.                                     *)
JobsWithinMaximum == \A v \in VM : vm_load(v) + Pending(v) <= max_guest_job

(* The maximum doubles only as jobs are created: it never exceeds twice    *)
(* the processes a single VM could have been given so far.                 *)
MaximumFollowsJobs ==
    max_guest_job <= 2 * (1 + created + (IF balancer = "responding" THEN 1 ELSE 0))

GoneFrom(v) == {t \in Task : task[t] = "gone" /\ home[t] = v}

(* What rounding may have left on VM v, or taken from it.                  *)
Residue(v) == Rounding * Cardinality(GoneFrom(v))

(* The properties "mem" and "net" of a VM are the needs of the tasks on    *)
(* it, up to the residue of those that have left: create_tasks charges by  *)
(* home_vm what it drew, process_task gives back by MSG_process_get_host   *)
(* what it computes from the draw it was passed.                           *)
UseIsAccounted ==
    \A v \in VM :
        /\ mem[v] - SumFunctionOnSet([t \in Task |-> need[t].memory], JobsOn(v))
              \in -Residue(v) .. Residue(v)
        /\ net[v] - SumFunctionOnSet([t \in Task |-> need[t].net], JobsOn(v))
              \in -Residue(v) .. Residue(v)

(* While no task has ended and all need the same, the balancer deals them  *)
(* out evenly: no VM has two jobs more than another.                       *)
EvenlyDealt ==
    (/\ \A t \in Task : task[t] \in {"none", "running"}
     /\ \A t, u \in Task : task[t] = "running" /\ task[u] = "running"
                             => need[t] = need[u])
    => \A v, w \in VM : Cardinality(JobsOn(v)) <= Cardinality(JobsOn(w)) + 1
==============================================================================
