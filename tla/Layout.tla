-------------------------------- MODULE Layout --------------------------------
(***************************************************************************)
(* The layout launch_master of simgrid/simgrid-project/hpvc.c gives the    *)
(* no_vm VMs of cluster 0 on its hosts PMs: consecutive VMs, and when the  *)
(* division leaves a remainder one VM more on every PM of odd number.      *)
(***************************************************************************)
EXTENDS Integers

vm_to_host(no_vm, hosts) == no_vm \div hosts

vm_placement_method(no_vm, hosts) == IF no_vm % hosts = 0 THEN 0 ELSE 1

(* The most VMs PM j is given.                                             *)
Share(no_vm, hosts, j) ==
    vm_to_host(no_vm, hosts) + vm_placement_method(no_vm, hosts) * (j % 2)

(* The number of the first VM of PM j: there are j \div 2 odd PMs below j. *)
FirstVm(no_vm, hosts, j) ==
    j * vm_to_host(no_vm, hosts) + vm_placement_method(no_vm, hosts) * (j \div 2)

(* The VMs of PM j.                                                        *)
LaunchedOn(no_vm, hosts, j) ==
    {i \in 0 .. no_vm - 1 :
        /\ FirstVm(no_vm, hosts, j) <= i
        /\ i < FirstVm(no_vm, hosts, j) + Share(no_vm, hosts, j)}

(* Every VM finds a place: what is left over fits on the odd PMs.          *)
Accommodates(no_vm, hosts) == no_vm % hosts <= hosts \div 2
==============================================================================
