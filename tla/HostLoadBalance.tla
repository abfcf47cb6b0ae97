---------------------------- MODULE HostLoadBalance ----------------------------
(***************************************************************************)
(* host_load_balance of simgrid/simgrid-project/hpvc.c with its policy     *)
(* policy_func_inhab_mig, and the end of get_finalize.                     *)
(*                                                                         *)
(* Every 180 seconds the balancer makes a round over the PMs of cluster 0, *)
(* starting at a random one, and migrates at most one VM away from each.   *)
(* It holds finish_sem for the whole round, in which MSG_vm_migrate blocks *)
(* it; get_finalize takes the same semaphore to set finish.                *)
(*                                                                         *)
(* place_vm lists a PM's number as a VM's and moves too few bytes when it  *)
(* removes one.  A round that meets a number which is no VM's reads past   *)
(* the end of vm_list, whose bound check aborts the program.               *)
(***************************************************************************)
EXTENDS Layout, Sequences, FiniteSets

CONSTANTS
    no_vm,                   \* VMs of the cluster
    number_of_involved_host, \* PMs of the cluster
    MAX_VM_TO_PM,            \* slots of host_vm_info.vms_index
    Byte,                    \* values of a byte
    IntSize,                 \* bytes of an int
    MaximumBound             \* bound on max_pm_vm where freed memory is read

PM == 0 .. number_of_involved_host - 1

Launched(p) == LaunchedOn(no_vm, number_of_involved_host, p)

(* The VMs there are: some of the no_vm may have found no place.           *)
VM == UNION {Launched(p) : p \in PM}

(***************************************************************************)
(* What launch_master needs and does not check: a slot for every VM it     *)
(* launches.                                                               *)
(***************************************************************************)
ASSUME HostAssumption ==
    /\ no_vm \in Nat \ {0}
    /\ number_of_involved_host \in Nat \ {0}
    /\ MAX_VM_TO_PM \in Nat \ {0}
    /\ \A p \in PM : Cardinality(Launched(p)) <= MAX_VM_TO_PM
    /\ MaximumBound \in Nat

(* The numbers of VMs are ints.  What is said of the powers of Byte holds  *)
(* for any number; proofs need to be told.                                 *)
ASSUME ByteAssumption ==
    /\ Byte \in Nat \ {0}
    /\ IntSize \in Nat \ {0}
    /\ no_vm <= Byte ^ IntSize
    /\ Byte ^ 0 = 1
    /\ \A r \in 1 .. IntSize : Byte ^ r \in Nat /\ Byte <= Byte ^ r

VARIABLES
    hvi,        \* host_vm_info: vms_index[0 .. number_of_vms - 1] of each PM
    loc,        \* MSG_vm_get_pm: the PM each VM runs on
    max_pm_vm,  \* estimate of the most VMs a PM runs
    policy,     \* where policy_func_inhab_mig is
    m,          \* its loop variable: the PM to look at
    z,          \* its loop counter: PMs looked at in this round
    placement,  \* the migration in hand: placement.vm, placement.target_pm
    finalizer,  \* where get_finalize is
    finish_sem, \* the semaphore: 1 when free and promised to nobody
    finish,
    visits      \* history: how often each PM was looked at in this round

recordVars == <<hvi, loc, max_pm_vm>>
roundVars == <<m, z, placement, visits>>
endVars == <<finalizer, finish_sem, finish>>
vars == <<recordVars, policy, roundVars, endVars>>

On(p) == {v \in VM : loc[v] = p}

Migration == [vm : VM, target_pm : PM]

NoMigration == [vm |-> -1, target_pm |-> -1]

TypeOK ==
    /\ hvi \in [PM -> Seq(Int)]
    /\ loc \in [VM -> PM]
    /\ max_pm_vm \in Nat \ {0}
    /\ policy \in {"sleeping", "round", "migrating", "exited", "aborted"}
    /\ m \in 0 .. number_of_involved_host
    /\ z \in 0 .. number_of_involved_host
    /\ placement \in Migration \cup {NoMigration}
    /\ finalizer \in {"working", "queued", "granted", "done"}
    /\ finish_sem \in {0, 1}
    /\ finish \in BOOLEAN
    /\ visits \in [PM -> Nat]

(* host_load_balance returns at once under the policies NONE and MIN_COMM. *)
Init ==
    /\ loc \in [VM -> PM]
    /\ \A p \in PM : On(p) = Launched(p)
    /\ hvi = [p \in PM |->
                [k \in 1 .. Cardinality(On(p)) |->
                    FirstVm(no_vm, number_of_involved_host, p) + k - 1]]
    /\ max_pm_vm = vm_to_host(no_vm, number_of_involved_host) + 1
    /\ policy \in {"sleeping", "exited"}
    /\ m = 0 /\ z = 0
    /\ placement = NoMigration
    /\ finalizer = "working"
    /\ finish_sem = 1
    /\ finish = FALSE
    /\ visits = [p \in PM |-> 0]

-----------------------------------------------------------------------------
(* finish_sem                                                              *)

(* MSG_sem_release hands the semaphore to get_finalize if that waits.      *)
Release ==
    IF finalizer = "queued"
    THEN finalizer' = "granted" /\ UNCHANGED finish_sem
    ELSE finish_sem' = 1 /\ UNCHANGED finalizer

(* get_finalize, behind its last sleep: finish is set at once if the       *)
(* semaphore is free.                                                      *)
RequestFinish_Unlocked ==
    /\ finalizer = "working"
    /\ finalizer' = "done" /\ finish' = TRUE
    /\ UNCHANGED <<recordVars, policy, roundVars, finish_sem>>

RequestFinish ==
    /\ finalizer = "working" /\ policy # "aborted"
    /\ IF finish_sem = 1
       THEN finalizer' = "done" /\ finish' = TRUE
       ELSE finalizer' = "queued" /\ UNCHANGED finish
    /\ UNCHANGED <<recordVars, policy, roundVars, finish_sem>>

SetFinish ==
    /\ finalizer = "granted"
    /\ finalizer' = "done"
    /\ finish' = TRUE
    /\ finish_sem' = 1
    /\ UNCHANGED <<recordVars, policy, roundVars>>

-----------------------------------------------------------------------------
(* policy_func_inhab_mig                                                   *)

(* A sleep ends with finish set: the policy returns.                       *)
SeeFinish ==
    /\ policy = "sleeping" /\ finish_sem = 1
    /\ finish
    /\ policy' = "exited"
    /\ UNCHANGED <<recordVars, roundVars, endVars>>

(* Or a round begins, at the PM of number rand().                          *)
BeginRound(x) ==
    /\ policy = "sleeping" /\ finish_sem = 1
    /\ ~finish
    /\ finish_sem' = 0
    /\ policy' = "round"
    /\ m' = x /\ z' = 0
    /\ visits' = [p \in PM |-> 0]
    /\ UNCHANGED <<recordVars, placement, finalizer, finish>>

Current_WrapsToOne ==
    IF m = number_of_involved_host THEN 1 % number_of_involved_host ELSE m

(* The PM this step of the round looks at.                                 *)
Current == IF m = number_of_involved_host THEN 0 ELSE m

(* Every number listed for PM p is an index of vm_list.                    *)
Readable(p) == \A k \in DOMAIN hvi[p] : hvi[p][k] \in VM

(* A look reads the VMs of the current PM and, if it has any, those of all *)
(* others.                                                                 *)
AllReadable ==
    /\ Readable(Current)
    /\ hvi[Current] # <<>> => \A p \in PM : Readable(p)

Looking ==
    /\ policy = "round" /\ z < number_of_involved_host
    /\ AllReadable
    /\ visits' = [visits EXCEPT ![Current] = @ + 1]

Abort ==
    /\ policy = "round" /\ z < number_of_involved_host
    /\ ~AllReadable
    /\ policy' = "aborted"
    /\ UNCHANGED <<recordVars, roundVars, endVars>>

(* No VM of the current PM pays for a migration, or place_vm finds that    *)
(* the PM chosen has no slot left.  Which is the case depends on the loads *)
(* and is left open; without VMs, or other PMs, there is none to choose.   *)
Stay ==
    /\ Looking
    /\ m' = Current + 1 /\ z' = z + 1
    /\ UNCHANGED <<recordVars, policy, placement, endVars>>

HasSlot_OffByOne(p) == Len(hvi[p]) <= MAX_VM_TO_PM

HasSlot(p) == Len(hvi[p]) < MAX_VM_TO_PM

(* A VM listed for the current PM goes to another: MSG_vm_migrate blocks.  *)
(* Loads decide which.  The list place_vm keeps of the target meanwhile,   *)
(* pre_hvi, is hvi[k]: nobody else changes it.                             *)
BeginMigration(i, k) ==
    /\ Looking
    /\ i \in DOMAIN hvi[Current]
    /\ k # Current
    /\ HasSlot(k)
    /\ placement' = [vm |-> hvi[Current][i], target_pm |-> k]
    /\ policy' = "migrating"
    /\ m' = Current
    /\ UNCHANGED <<recordVars, z, endVars>>

(* The list of the target with place_vm's new entry: the number of the     *)
(* target itself.                                                          *)
Appended == Append(hvi[placement.target_pm], placement.target_pm)

(* The slot place_vm removes VM v from, counted from 0: the number of      *)
(* entries it goes past, which is all of them if none is v.                *)
IndexOf(v, list) ==
    Cardinality({k \in DOMAIN list : \A j \in 1 .. k : list[j] # v})

(* x with its n lowest bytes, none or all if n is no number of bytes,      *)
(* replaced by those of y.                                                 *)
Overwritten(x, y, n) ==
    LET unit == Byte ^ (IF n < 0 THEN 0 ELSE IF n > IntSize THEN IntSize ELSE n)
    IN  (x - (x % unit)) + (y % unit)

(* memmove moves the entries behind the index down by one, but is given    *)
(* number_of_vms - index as its length, in bytes.                          *)
Removed_IfFound(v, list) ==
    LET index == IndexOf(v, list)
    IN  [k \in 1 .. Len(list) - (IF index = Len(list) THEN 0 ELSE 1) |->
            IF k <= index THEN list[k]
            ELSE Overwritten(list[k], list[k + 1],
                             Len(list) - index - IntSize * (k - 1 - index))]

Removed(v, list) ==
    LET index == IndexOf(v, list)
    IN  [k \in 1 .. Len(list) - 1 |->
            IF k <= index THEN list[k]
            ELSE Overwritten(list[k], list[k + 1],
                             Len(list) - index - IntSize * (k - 1 - index))]

NextMaximum(n) == IF n >= max_pm_vm THEN 2 * max_pm_vm ELSE max_pm_vm

(* MSG_vm_migrate returns: the list of the target, then that of the PM the *)
(* VM came from.  When that is the target, whose list does not say so, the *)
(* second update frees new_hvi, which place_vm then reads.                 *)
VmMigrated ==
    /\ policy = "migrating"
    /\ LET origin == loc[placement.vm]
           target == placement.target_pm
           added == [hvi EXCEPT ![target] = Appended]
       IN  /\ hvi' = [added EXCEPT ![origin] = Removed(placement.vm, @)]
           /\ loc' = [loc EXCEPT ![placement.vm] = target]
           /\ \/ max_pm_vm' = NextMaximum(Len(Appended))
              \/ /\ origin = target
                 /\ max_pm_vm' \in {max_pm_vm, 2 * max_pm_vm}
                 /\ max_pm_vm' <= MaximumBound
    /\ policy' = "round"
    /\ m' = m + 1 /\ z' = z + 1
    /\ placement' = NoMigration
    /\ UNCHANGED <<visits, endVars>>

EndRound_Keep ==
    /\ policy = "round" /\ z = number_of_involved_host
    /\ policy' = "sleeping"
    /\ UNCHANGED <<recordVars, roundVars, endVars>>

(* The round is over: the semaphore is released and the policy sleeps.     *)
EndRound ==
    /\ policy = "round" /\ z = number_of_involved_host
    /\ Release
    /\ policy' = "sleeping"
    /\ UNCHANGED <<recordVars, roundVars, finish>>

-----------------------------------------------------------------------------
Next ==
    \/ RequestFinish
    \/ SetFinish
    \/ SeeFinish
    \/ \E x \in PM : BeginRound(x)
    \/ Stay
    \/ \E i \in 1 .. MAX_VM_TO_PM, k \in PM : BeginMigration(i, k)
    \/ Abort
    \/ VmMigrated
    \/ EndRound

Spec == Init /\ [][Next]_vars

(* get_finalize gets to its end, sleeps and migrations end, and a process  *)
(* that can run runs.                                                      *)
Fairness ==
    /\ WF_vars(RequestFinish)
    /\ WF_vars(SetFinish)
    /\ WF_vars(SeeFinish \/ \E x \in PM : BeginRound(x))
    /\ WF_vars(\/ Stay
               \/ \E i \in 1 .. MAX_VM_TO_PM, k \in PM : BeginMigration(i, k)
               \/ Abort)
    /\ WF_vars(VmMigrated)
    /\ WF_vars(EndRound)

FairSpec == Spec /\ Fairness

-----------------------------------------------------------------------------
(* Properties                                                              *)

(* number_of_vms of every PM is the number of VMs it really runs.  The     *)
(* lists go wrong with the first migration, VMs are then migrated that the *)
(* list does not hold and back to where they are; yet each update adds one *)
(* entry where a VM arrives and drops one where it came from.              *)
CountIsActual == \A p \in PM : Len(hvi[p]) = Cardinality(On(p))

(* So no PM is ever given more VMs than vms_index has slots, though        *)
(* place_vm tests before MSG_vm_migrate blocks and writes afterwards.      *)
SlotsSuffice ==
    \A p \in PM : Len(hvi[p]) <= MAX_VM_TO_PM /\ Cardinality(On(p)) <= MAX_VM_TO_PM

(* max_pm_vm, the divisor of the exponents of the costs, is never below    *)
(* the VMs listed for any PM, though it only looks at the latest target.   *)
ListsWithinMaximum == \A p \in PM : Len(hvi[p]) <= max_pm_vm

(* A round looks at every PM once, from whichever PM it starts, and though *)
(* m wraps around while z counts.                                          *)
RoundVisitsEachOnce ==
    policy = "round" /\ z = number_of_involved_host => \A p \in PM : visits[p] = 1

(* The end is never declared in the middle of a round: finish is set       *)
(* between rounds, also when get_finalize asks while a VM migrates.        *)
NoFinishInRound == policy \in {"round", "migrating"} => ~finish

(* Once get_finalize gets there the balancer ends, and get_finalize is not *)
(* kept waiting for ever by rounds that follow one another; unless a wrong *)
(* number in a list aborts the program.                                    *)
BalancerEnds ==
    <>[](\/ policy = "exited" /\ finalizer = "done"
         \/ policy = "aborted")

(* To the rest of the program the policy is a process that is busy and     *)
(* sleeps in turns: every migration is hidden in a round, each round ends, *)
(* if only by aborting the program, and finish_sem is passed on as module  *)
(* Rounds says.                                                            *)
AbstractRounds ==
    INSTANCE Rounds WITH
        policy <- IF policy \in {"round", "migrating"} THEN "busy" ELSE policy

ImplementsRounds == AbstractRounds!RoundsFairSpec

(* The list of every PM holds the VMs it runs: the comment above place_vm  *)
(* says it does "Place a VM and update the host_vm_info of the target pm". *)
ListsNameTheVms ==
    \A p \in PM : {hvi[p][k] : k \in DOMAIN hvi[p]} = On(p)
==============================================================================
