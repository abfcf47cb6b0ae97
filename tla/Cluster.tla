------------------------------- MODULE Cluster -------------------------------
(***************************************************************************)
(* The simulated machine of simgrid/organizer/hpvc.c: the virtual machines *)
(* (VMs) of cluster 0, the physical machines (PMs) they are launched on,   *)
(* and the contiguous layout launch_master gives them.                     *)
(***************************************************************************)
EXTENDS VirtualMachines

CONSTANTS
    NUMBER_OF_INVOLVED_HOST, \* PMs that may host a VM (all hosts but the master)
    PM_CAPACITY              \* slots of DATA_OF_PM.VMs (structures.h)

PM == 0 .. NUMBER_OF_INVOLVED_HOST - 1

(* numberOfVM_perHost of launch_master: an integer division.               *)
VMsPerHost == NUMBER_OF_VMS \div NUMBER_OF_INVOLVED_HOST

(***************************************************************************)
(* The arguments launch_master survives.  With a remainder its host index  *)
(* leaves dataOfPMs, which xbt_dynar aborts on; with more than PM_CAPACITY *)
(* VMs per host it writes past DATA_OF_PM.VMs.  Neither is checked there.  *)
(***************************************************************************)
ASSUME ClusterAssumption ==
    /\ NUMBER_OF_INVOLVED_HOST \in Nat \ {0}
    /\ PM_CAPACITY \in Nat \ {0}
    /\ VMsPerHost \in 1 .. PM_CAPACITY
    /\ NUMBER_OF_VMS = NUMBER_OF_INVOLVED_HOST * VMsPerHost

(* The host launch_master creates VM v on: it moves to the next host after *)
(* every VMsPerHost VMs.                                                   *)
LaunchHost(v) == v \div VMsPerHost

LaunchList_OneBased(p) == [k \in 1 .. VMsPerHost |-> p * VMsPerHost + k]

(* DATA_OF_PM.VMs[0 .. numberOfVMs-1] of PM p when launch_master returns.  *)
LaunchList(p) == [k \in 1 .. VMsPerHost |-> p * VMsPerHost + k - 1]
==============================================================================
