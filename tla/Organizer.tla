------------------------------ MODULE Organizer ------------------------------
(***************************************************************************)
(* organization_manager and migrate_vm of simgrid/organizer/hpvc.c: the    *)
(* process that wakes up every period, scores the VMs and the PMs, and     *)
(* migrates at most one VM.                                                *)
(*                                                                         *)
(* SimGrid processes are cooperative: code runs alone between two blocking *)
(* calls, so one action stands for the code from one blocking call to the  *)
(* next.  The organizer blocks in MSG_process_sleep, in MSG_vm_migrate and *)
(* in MSG_task_send; get_finalize may kill it in any of the three.         *)
(***************************************************************************)
EXTENDS Cluster, Sequences, FiniteSets

CONSTANTS
    Scores,  \* values the scores H and nextH take (seconds, rounded)
    GAIN     \* least improvement that pays for a migration (5.5 in the code)

ASSUME ScoreAssumption == Scores \subseteq Nat /\ GAIN \in Nat

VARIABLES
    pms,       \* dataOfPMs: the VMs recorded on each PM, in order
    loc,       \* MSG_vm_get_pm: the PM each VM really runs on
    phase,     \* where the organizer process is
    candidate, \* VM_Index of the migration in hand
    target,    \* targetPM_Index of the migration in hand
    lastCandidateVMIndex

organizerVars == <<pms, loc, phase, candidate, target, lastCandidateVMIndex>>

Phases == {"created", "off", "asleep", "migrating", "sending", "killed"}

OrganizerTypeOK ==
    /\ pms \in [PM -> Seq(VM)]
    /\ loc \in [VM -> PM]
    /\ phase \in Phases
    /\ candidate \in VM
    /\ target \in PM
    /\ lastCandidateVMIndex \in VM \cup {-1}

-----------------------------------------------------------------------------
(* launch_master and the start of the process                              *)

OrganizerInit ==
    /\ pms = [p \in PM |-> LaunchList(p)]
    /\ loc = [v \in VM |-> LaunchHost(v)]
    /\ phase = "created"
    /\ candidate = 0
    /\ target = 0
    /\ lastCandidateVMIndex = -1

(* A negative SLEEP_TIME (deploymentOff.xml) makes the process return.     *)
Start ==
    /\ phase = "created"
    /\ phase' \in {"off", "asleep"}
    /\ UNCHANGED <<pms, loc, candidate, target, lastCandidateVMIndex>>

-----------------------------------------------------------------------------
(* The choice of a period, from the scores H of the VMs and nextH of the   *)
(* PMs                                                                     *)

Eligible(H) == {v \in VM : v # lastCandidateVMIndex /\ H[v] > 0}

(* The VM with the greatest positive score, the first of equals, the last  *)
(* one migrated left out; VM 0 with score 0 when there is none.            *)
IsCandidate(H, v) ==
    \/ Eligible(H) = {} /\ v = 0
    \/ /\ v \in Eligible(H)
       /\ \A w \in Eligible(H) : H[w] < H[v] \/ (H[w] = H[v] /\ v <= w)

CurrentH(H, v) == IF Eligible(H) = {} THEN 0 ELSE H[v]

HasRoom_OffByOne(p) == Len(pms[p]) <= PM_CAPACITY

HasRoom(p) == Len(pms[p]) < PM_CAPACITY

(* The bubble sort of sortetIndexNextH is stable.                          *)
SortedBefore(nextH, p, q) ==
    nextH[p] < nextH[q] \/ (nextH[p] = nextH[q] /\ p < q)

(* The first PM of the sorted order with a free slot and enough gain.  The *)
(* gain falls along the order, so no earlier PM with a slot lacks it.      *)
IsTarget(currentH, nextH, p) ==
    /\ HasRoom(p)
    /\ currentH - nextH[p] > GAIN
    /\ \A q \in PM \ {p} : HasRoom(q) => SortedBefore(nextH, p, q)

-----------------------------------------------------------------------------
(* migrate_vm                                                              *)

RemoveItemFromArray_OffByOne(index, array) ==
    [k \in 1 .. Len(array) - 1 |-> IF k <= index THEN array[k] ELSE array[k + 1]]

RemoveItemFromArray(index, array) ==
    [k \in 1 .. Len(array) - 1 |-> IF k < index THEN array[k] ELSE array[k + 1]]

FirstIndexOf(v, array) ==
    CHOOSE j \in DOMAIN array :
        array[j] = v /\ \A k \in 1 .. j - 1 : array[k] # v

Without(v, array) ==
    IF \E j \in DOMAIN array : array[j] = v
    THEN RemoveItemFromArray(FirstIndexOf(v, array), array)
    ELSE array

(* The record after VM v left the list of the PM it runs on.               *)
RecordRemoved(v) == [pms EXCEPT ![loc[v]] = Without(v, @)]

(* A period that moves VM v to PM p: the record changes first, then the    *)
(* organizer blocks in MSG_vm_migrate.  p may be the PM v is on.  A period *)
(* that finds no target changes nothing the model keeps.                   *)
BeginMigration(v, p) ==
    /\ phase = "asleep"
    /\ \E H \in [VM -> Scores], nextH \in [PM -> Scores] :
          IsCandidate(H, v) /\ IsTarget(CurrentH(H, v), nextH, p)
    /\ lastCandidateVMIndex' = v
    /\ candidate' = v
    /\ target' = p
    /\ pms' = LET removed == RecordRemoved(v)
              IN  [removed EXCEPT ![p] = Append(@, v)]
    /\ phase' = "migrating"
    /\ UNCHANGED loc

VmMigrated_Fails ==
    /\ phase = "migrating"
    /\ phase' = "sending"
    /\ UNCHANGED <<pms, loc, candidate, target, lastCandidateVMIndex>>

(* MSG_vm_migrate returns; the organizer blocks sending the memory image   *)
(* to the mailbox of the VM.                                               *)
VmMigrated ==
    /\ phase = "migrating"
    /\ loc' = [loc EXCEPT ![candidate] = target]
    /\ phase' = "sending"
    /\ UNCHANGED <<pms, candidate, target, lastCandidateVMIndex>>

(* The mailbox process of the VM took the image; the next period begins.   *)
ImageSent ==
    /\ phase = "sending"
    /\ phase' = "asleep"
    /\ UNCHANGED <<pms, loc, candidate, target, lastCandidateVMIndex>>

(* get_finalize kills the organizer where it blocks.  A migration under    *)
(* way may or may not still complete.                                      *)
KillOrganizer ==
    /\ phase \in {"asleep", "migrating", "sending"}
    /\ phase' = "killed"
    /\ loc' \in {loc} \cup (IF phase = "migrating"
                            THEN {[loc EXCEPT ![candidate] = target]} ELSE {})
    /\ UNCHANGED <<pms, candidate, target, lastCandidateVMIndex>>

is_organizer_running == phase \in {"asleep", "migrating", "sending", "killed"}

-----------------------------------------------------------------------------
OrganizerNext ==
    \/ Start
    \/ \E v \in VM, p \in PM : BeginMigration(v, p)
    \/ VmMigrated
    \/ ImageSent
    \/ KillOrganizer

OrganizerSpec == OrganizerInit /\ [][OrganizerNext]_organizerVars

-----------------------------------------------------------------------------
(* Properties                                                              *)

(* The record never holds a VM twice, on one PM or on two: migrate_vm      *)
(* appends to the target's list without looking for the VM, so this rests  *)
(* on its having found it on the list of the PM the VM runs on.            *)
RecordedAtMostOnce ==
    \A p, q \in PM : \A i \in DOMAIN pms[p], j \in DOMAIN pms[q] :
        pms[p][i] = pms[q][j] => p = q /\ i = j

(* Nor does it ever lose one: every VM launch_master recorded stays on     *)
(* some list, whatever migrations are made, interrupted or killed.         *)
RecordedAtLeastOnce ==
    \A v \in VM : \E p \in PM : \E i \in DOMAIN pms[p] : pms[p][i] = v

(* Every VM is on exactly one list of dataOfPMs, once.                     *)
RecordedOnce == RecordedAtMostOnce /\ RecordedAtLeastOnce

(* numberOfVMs never exceeds the slots of DATA_OF_PM.VMs: migrate_vm       *)
(* itself writes VMs[numberOfVMs] unchecked.                               *)
RecordWithinCapacity == \A p \in PM : Len(pms[p]) <= PM_CAPACITY

(* When the organizer plans a period the record and the hypervisor agree:  *)
(* each VM is listed where it runs.  The record is written before          *)
(* MSG_vm_migrate blocks, so a VM in flight is already listed at its       *)
(* target.                                                                 *)
RecordIsActual ==
    phase # "killed" =>
        \A p \in PM : \A i \in DOMAIN pms[p] :
            p = IF phase = "migrating" /\ pms[p][i] = candidate
                THEN target ELSE loc[pms[p][i]]

(* The PMs themselves are never over capacity, migrations in flight and    *)
(* killed ones included, though capacity is only checked on the record.    *)
HostsWithinCapacity ==
    \A p \in PM : Cardinality({v \in VM : loc[v] = p}) <= PM_CAPACITY

(* No two migrations in a row move the same VM: the candidate search       *)
(* skips lastCandidateVMIndex, and its default, VM 0 with score 0, never   *)
(* reaches the gain.                                                       *)
NeverTwiceInARow ==
    [][phase = "asleep" /\ phase' = "migrating"
         => lastCandidateVMIndex' # lastCandidateVMIndex]_organizerVars

(* The record implements the abstract placement.                           *)
RecordedPlace ==
    [v \in VM |-> CHOOSE p \in PM : \E i \in DOMAIN pms[p] : pms[p][i] = v]

Abstract == INSTANCE Placement WITH place <- RecordedPlace

(* Each period of the organizer is at most one legal move of the abstract  *)
(* placement, from the layout launch_master made.                          *)
ImplementsPlacement == Abstract!Spec
==============================================================================
