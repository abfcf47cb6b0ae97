--------------------------- MODULE VirtualMachines ---------------------------
(***************************************************************************)
(* The virtual machines of one cluster, as both simulations number them:   *)
(* an index into vm_list[cluster_id].                                      *)
(***************************************************************************)
EXTENDS Integers

CONSTANT NUMBER_OF_VMS  \* argv[3]: VMs of the cluster

ASSUME VmAssumption == NUMBER_OF_VMS \in Nat \ {0}

VM == 0 .. NUMBER_OF_VMS - 1
==============================================================================
