-------------------------------- MODULE Launch --------------------------------
(***************************************************************************)
(* The loop of launch_master of simgrid/simgrid-project/hpvc.c that        *)
(* creates the VMs of cluster 0 on its PMs.                                *)
(***************************************************************************)
EXTENDS Layout, Sequences

CONSTANTS
    Settings  \* <<no_vm, hosts>> pairs: argv[3] and number_of_involved_host

ASSUME SettingAssumption == Settings \subseteq (Nat \ {0}) \X (Nat \ {0})

VARIABLES
    no_vm, number_of_involved_host, \* the arguments of the run
    j,                              \* the PM being filled
    i,                              \* VMs created so far
    threshold,                      \* i must stay below it on this PM
    vms_index,                      \* host_vm_info of each PM
    pc                              \* "host", "vm", "done"

launchVars ==
    <<no_vm, number_of_involved_host, j, i, threshold, vms_index, pc>>

Arguments == <<no_vm, number_of_involved_host>>

Hosts == 0 .. number_of_involved_host - 1

LaunchTypeOK ==
    /\ Arguments \in Settings
    /\ j \in 0 .. number_of_involved_host
    /\ i \in 0 .. no_vm
    /\ threshold \in Nat
    /\ vms_index \in [Hosts -> Seq(0 .. no_vm - 1)]
    /\ pc \in {"host", "vm", "done"}

LaunchInit ==
    /\ \E setting \in Settings :
          no_vm = setting[1] /\ number_of_involved_host = setting[2]
    /\ j = 0 /\ i = 0 /\ threshold = 0
    /\ vms_index = [h \in Hosts |-> <<>>]
    /\ pc = "host"

(* The next PM: its threshold is computed from the VMs created so far.     *)
NextHost_Equal ==
    /\ pc = "host" /\ j < number_of_involved_host
    /\ threshold' = i + vm_to_host(no_vm, number_of_involved_host)
    /\ pc' = "vm"
    /\ UNCHANGED <<Arguments, j, i, vms_index>>

NextHost ==
    /\ pc = "host" /\ j < number_of_involved_host
    /\ threshold' = i + Share(no_vm, number_of_involved_host, j)
    /\ pc' = "vm"
    /\ UNCHANGED <<Arguments, j, i, vms_index>>

CreateVm ==
    /\ pc = "vm" /\ i < threshold /\ i < no_vm
    /\ vms_index' = [vms_index EXCEPT ![j] = Append(@, i)]
    /\ i' = i + 1
    /\ UNCHANGED <<Arguments, j, threshold, pc>>

HostFilled ==
    /\ pc = "vm" /\ (i >= threshold \/ i >= no_vm)
    /\ j' = j + 1
    /\ pc' = "host"
    /\ UNCHANGED <<Arguments, i, threshold, vms_index>>

LaunchDone ==
    /\ pc = "host" /\ j = number_of_involved_host
    /\ pc' = "done"
    /\ UNCHANGED <<Arguments, j, i, threshold, vms_index>>

LaunchNext == NextHost \/ CreateVm \/ HostFilled \/ LaunchDone

LaunchSpec == LaunchInit /\ [][LaunchNext]_launchVars

-----------------------------------------------------------------------------
(* Properties                                                              *)

(* The loop fills the PMs as the closed form of module Layout says, which  *)
(* the host load balancer's module starts from.                            *)
FollowsLayout ==
    pc = "done" =>
        \A h \in Hosts :
            /\ {vms_index[h][k] : k \in DOMAIN vms_index[h]}
                 = LaunchedOn(no_vm, number_of_involved_host, h)
            /\ \A k \in 1 .. Len(vms_index[h]) - 1 :
                  vms_index[h][k + 1] = vms_index[h][k] + 1

(* Every VM is created as long as what the division leaves over fits on    *)
(* the odd PMs, else some are left out: 30 of the 480 of the README's      *)
(* command, on the 300 PMs cluster.xml gives.  The rest of the program     *)
(* indexes vm_list up to no_vm.                                            *)
AccommodatedAreLaunched ==
    pc = "done" /\ Accommodates(no_vm, number_of_involved_host) => i = no_vm
==============================================================================
