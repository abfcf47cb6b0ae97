------------------------- MODULE HostLoadBalanceProofs -------------------------
(***************************************************************************)
(* Proofs, for every number of VMs, PMs and slots, about the host load     *)
(* balancer: its counts stay right although its lists do not, its rounds   *)
(* are complete, and none is cut short by get_finalize.                    *)
(***************************************************************************)
EXTENDS HostLoadBalance, FiniteSetTheorems, TLAPS

(* The PMs looked at when the round has come to PM a - 1 after b looks: b  *)
(* consecutive ones, that may go round the end.                            *)
Visited(p, a, b) ==
    IF a >= b THEN a - b <= p /\ p < a
              ELSE p < a \/ p >= number_of_involved_host + a - b

(* A round that aborts the program never ends.                             *)
InRound == policy \in {"round", "migrating", "aborted"}

(* The semaphore is taken exactly during a round and while it is handed to *)
(* get_finalize, which is served only between rounds.                      *)
SemaphoreKept ==
    /\ InRound => finish_sem = 0 /\ ~finish /\ finalizer \in {"working", "queued"}
    /\ finalizer = "queued" => InRound
    /\ finish_sem = 0 => InRound \/ finalizer = "granted"
    /\ finalizer = "granted" => finish_sem = 0
    /\ finish <=> finalizer = "done"

(* In the middle of a round the history agrees with m and z.               *)
RoundKept ==
    /\ policy = "round" =>
          \A p \in PM : visits[p] = IF Visited(p, m, z) THEN 1 ELSE 0
    /\ policy = "migrating" =>
          /\ m < number_of_involved_host /\ z < number_of_involved_host
          /\ \A p \in PM : visits[p] = IF Visited(p, m + 1, z + 1) THEN 1 ELSE 0

(* The migration in hand is one of a VM, and the test place_vm made before *)
(* it blocked still holds.                                                 *)
SlotKept ==
    policy = "migrating" => placement \in Migration /\ HasSlot(placement.target_pm)

ListsWithinSlots == \A p \in PM : Len(hvi[p]) <= MAX_VM_TO_PM

(* A count of a PM after a VM arrived there, or left, or both.             *)
Shifted(new, old, arrived, left) ==
    /\ arrived /\ ~left => new = old + 1
    /\ ~arrived /\ left => new = old - 1
    /\ (arrived <=> left) => new = old

(* The inductive invariant.                                                *)
HostInv ==
    /\ TypeOK
    /\ CountIsActual
    /\ ListsWithinSlots
    /\ ListsWithinMaximum
    /\ SemaphoreKept
    /\ RoundKept
    /\ SlotKept

-----------------------------------------------------------------------------
(* The lists                                                               *)

(* place_vm stops its search within the list or behind its end.            *)
LEMMA IndexType ==
    ASSUME NEW T, NEW list \in Seq(T), NEW v
    PROVE  IndexOf(v, list) \in Nat
<1>. DEFINE S == {k \in DOMAIN list : \A j \in 1 .. k : list[j] # v}
<1>1. Len(list) \in Nat /\ S \subseteq 1 .. Len(list)
  OBVIOUS
<1>2. IsFiniteSet(1 .. Len(list))
  BY <1>1, FS_Interval
<1>. HIDE DEF S
<1>3. Cardinality(S) \in Nat
  BY <1>1, <1>2, FS_Subset, FS_CardinalityType
<1>. QED  BY <1>3 DEF IndexOf, S

(* A number of bytes has a positive number of values.                      *)
LEMMA UnitType == \A r \in 0 .. IntSize : Byte ^ r \in Nat \ {0}
<1>. SUFFICES ASSUME NEW r \in 0 .. IntSize PROVE Byte ^ r \in Nat \ {0}
  OBVIOUS
<1>1. CASE r = 0
  BY <1>1, ByteAssumption
<1>2. CASE r # 0
  <2>1. r \in 1 .. IntSize
    BY <1>2, ByteAssumption
  <2>2. Byte ^ r \in Nat /\ Byte <= Byte ^ r /\ Byte \in Nat \ {0}
    BY <2>1, ByteAssumption
  <2>. QED  BY <2>2
<1>. QED  BY <1>1, <1>2

(* Whichever of its bytes are replaced, an entry is a number.              *)
LEMMA OverwrittenType ==
    ASSUME NEW x \in Int, NEW y \in Int, NEW n \in Int
    PROVE  Overwritten(x, y, n) \in Int
<1>. DEFINE r == IF n < 0 THEN 0 ELSE IF n > IntSize THEN IntSize ELSE n
            unit == Byte ^ r
<1>1. r \in 0 .. IntSize
  BY ByteAssumption
<1>. HIDE DEF r
<1>2. unit \in Nat \ {0}
  BY <1>1, UnitType
<1>. HIDE DEF unit
<1>3. x % unit \in Int /\ y % unit \in Int
  BY <1>2
<1>4. Overwritten(x, y, n) = (x - (x % unit)) + (y % unit)
  BY DEF Overwritten, unit, r
<1>. QED  BY <1>3, <1>4

(* Whatever place_vm removes, or fails to find, the list is one entry      *)
(* shorter and still of numbers, though not always of VMs.                 *)
LEMMA RemovedShrinks ==
    ASSUME NEW list \in Seq(Int), Len(list) > 0, NEW v
    PROVE  Removed(v, list) \in Seq(Int) /\ Len(Removed(v, list)) = Len(list) - 1
<1>. DEFINE index == IndexOf(v, list)
            bytes(k) == Len(list) - index - IntSize * (k - 1 - index)
            e(k) == IF k <= index THEN list[k]
                    ELSE Overwritten(list[k], list[k + 1], bytes(k))
<1>1. Removed(v, list) = [k \in 1 .. Len(list) - 1 |-> e(k)]
  BY DEF Removed
<1>2. \A k \in 1 .. Len(list) - 1 : e(k) \in Int
  <2>1. \A k \in 1 .. Len(list) - 1 : list[k + 1] \in Int /\ list[k] \in Int
    OBVIOUS
  <2>2. \A k \in 1 .. Len(list) - 1 : bytes(k) \in Int
    <3>1. index \in Int /\ Len(list) \in Int /\ IntSize \in Int
      BY IndexType, ByteAssumption
    <3>. HIDE DEF index
    <3>. QED  BY <3>1
  <2>. HIDE DEF index, bytes
  <2>. QED  BY <2>1, <2>2, OverwrittenType
<1>. HIDE DEF e
<1>3. Len(list) - 1 \in Nat
  OBVIOUS
<1>. QED  BY <1>1, <1>2, <1>3

(* The PMs and VMs are what the numbers of the command line say.           *)
LEMMA HostTypes ==
    /\ no_vm \in Nat \ {0}
    /\ number_of_involved_host \in Nat \ {0}
    /\ MAX_VM_TO_PM \in Nat \ {0}
    /\ PM \subseteq Int
    /\ VM \subseteq Int
    /\ IsFiniteSet(VM)
<1>1. no_vm \in Nat \ {0} /\ number_of_involved_host \in Nat \ {0}
  BY HostAssumption
<1>2. VM \subseteq 0 .. no_vm - 1
  BY DEF VM, Launched, LaunchedOn
<1>3. IsFiniteSet(VM)
  <2>1. IsFiniteSet(0 .. no_vm - 1)
    BY <1>1, FS_Interval
  <2>. QED  BY <1>2, <2>1, FS_Subset
<1>4. VM \subseteq Int
  BY <1>1, <1>2
<1>. QED  BY <1>1, <1>3, <1>4, HostAssumption DEF PM

(* The VMs of a PM are finitely many.                                      *)
LEMMA OnIsFinite ==
    ASSUME NEW p \in PM
    PROVE  IsFiniteSet(On(p)) /\ Cardinality(On(p)) \in Nat
<1>1. On(p) \subseteq VM
  BY DEF On
<1>2. IsFiniteSet(On(p))
  BY <1>1, HostTypes, FS_Subset
<1>. QED  BY <1>2, FS_CardinalityType

-----------------------------------------------------------------------------
(* The layout of launch_master                                             *)

(* The VMs launched on a PM are consecutive, and no more than its share.   *)
LEMMA LaunchedInterval ==
    ASSUME NEW p \in PM
    PROVE  LET first == FirstVm(no_vm, number_of_involved_host, p)
               n == Cardinality(Launched(p))
           IN  /\ first \in Nat /\ n \in Nat
               /\ n <= Share(no_vm, number_of_involved_host, p)
               /\ \A k \in 1 .. n : first + k - 1 \in Launched(p)
<1>. DEFINE N == number_of_involved_host
            q == vm_to_host(no_vm, N)
            d == vm_placement_method(no_vm, N)
            first == FirstVm(no_vm, N, p)
            share == Share(no_vm, N, p)
            last == IF first + share <= no_vm THEN first + share ELSE no_vm
            S == Launched(p)
<1>1. /\ p \in Nat /\ p % 2 \in Nat /\ p \div 2 \in Nat
      /\ no_vm \in Nat /\ N \in Nat \ {0}
  BY HostTypes DEF PM
<1>2. q \in Nat /\ d \in {0, 1}
  BY <1>1 DEF vm_to_host, vm_placement_method
<1>3. first \in Nat
  <2>1. first = p * q + d * (p \div 2)
    BY DEF FirstVm
  <2>2. p * q \in Nat /\ d * (p \div 2) \in Nat
    <3>. HIDE DEF q, d
    <3>. QED  BY <1>1, <1>2
  <2>. HIDE DEF first, q, d
  <2>. QED  BY <2>1, <2>2
<1>4. share \in Nat
  <2>1. share = q + d * (p % 2)
    BY DEF Share
  <2>2. d * (p % 2) \in Nat
    <3>. HIDE DEF q, d
    <3>. QED  BY <1>1, <1>2
  <2>. HIDE DEF share, q, d
  <2>. QED  BY <2>1, <2>2, <1>2
<1>5. S = first .. last - 1
  <2>1. S = {i \in 0 .. no_vm - 1 : first <= i /\ i < first + share}
    BY DEF Launched, LaunchedOn
  <2>. HIDE DEF S, first, share
  <2>. QED  BY <2>1, <1>1, <1>3, <1>4
<1>6. last \in Nat
  <2>. HIDE DEF first, share
  <2>. QED  BY <1>1, <1>3, <1>4
<1>. HIDE DEF S, first, share, last
<1>7. Cardinality(S) = IF first > last - 1 THEN 0 ELSE last - 1 - first + 1
  BY <1>3, <1>5, <1>6, FS_Interval
<1>8. Cardinality(S) \in Nat /\ Cardinality(S) <= share
  BY <1>1, <1>3, <1>4, <1>6, <1>7 DEF last
<1>9. \A k \in 1 .. Cardinality(S) : first + k - 1 \in S
  BY <1>3, <1>5, <1>6, <1>7
<1>. QED  BY <1>3, <1>8, <1>9 DEF S, first, share

(* The invariant holds when launch_master returns.                         *)
LEMMA HostInitially == Init => HostInv
<1>. SUFFICES ASSUME Init PROVE HostInv
  OBVIOUS
<1>. DEFINE N == number_of_involved_host
            n(p) == Cardinality(On(p))
            first(p) == FirstVm(no_vm, N, p)
<1>1. \A p \in PM : /\ n(p) \in Nat /\ first(p) \in Nat
                    /\ n(p) <= Share(no_vm, N, p)
                    /\ n(p) <= MAX_VM_TO_PM
                    /\ \A k \in 1 .. n(p) : first(p) + k - 1 \in VM
  <2>. SUFFICES ASSUME NEW p \in PM
                PROVE  /\ n(p) \in Nat /\ first(p) \in Nat
                       /\ n(p) <= Share(no_vm, N, p)
                       /\ n(p) <= MAX_VM_TO_PM
                       /\ \A k \in 1 .. n(p) : first(p) + k - 1 \in VM
    OBVIOUS
  <2>1. n(p) = Cardinality(Launched(p)) /\ Launched(p) \subseteq VM
    BY DEF Init, VM
  <2>2. n(p) <= MAX_VM_TO_PM
    BY <2>1, HostAssumption
  <2>3. /\ n(p) \in Nat /\ first(p) \in Nat
        /\ n(p) <= Share(no_vm, N, p)
        /\ \A k \in 1 .. n(p) : first(p) + k - 1 \in Launched(p)
    <3>. HIDE DEF n
    <3>. QED  BY <2>1, LaunchedInterval
  <2>. HIDE DEF n, first
  <2>. QED  BY <2>1, <2>2, <2>3
<1>2. \A p \in PM : hvi[p] = [k \in 1 .. n(p) |-> first(p) + k - 1]
  BY DEF Init
<1>3. \A p \in PM : hvi[p] \in Seq(Int) /\ Len(hvi[p]) = n(p)
  <2>. SUFFICES ASSUME NEW p \in PM PROVE hvi[p] \in Seq(Int) /\ Len(hvi[p]) = n(p)
    OBVIOUS
  <2>. HIDE DEF n, first
  <2>1. \A k \in 1 .. n(p) : first(p) + k - 1 \in Int
    BY <1>1
  <2>2. hvi[p] = [k \in 1 .. n(p) |-> first(p) + k - 1] /\ n(p) \in Nat
    BY <1>1, <1>2
  <2>3. hvi[p] \in [1 .. n(p) -> Int]
    BY <2>1, <2>2
  <2>. QED  BY <2>2, <2>3
<1>4. vm_to_host(no_vm, N) \in Nat
      /\ \A p \in PM : Share(no_vm, N, p) <= vm_to_host(no_vm, N) + 1
  <2>1. no_vm \in Nat /\ N \in Nat \ {0}
    BY HostTypes
  <2>2. vm_to_host(no_vm, N) \in Nat /\ vm_placement_method(no_vm, N) \in {0, 1}
    BY <2>1 DEF vm_to_host, vm_placement_method
  <2>. SUFFICES ASSUME NEW p \in PM
                PROVE  Share(no_vm, N, p) <= vm_to_host(no_vm, N) + 1
    BY <2>2
  <2>3. p % 2 \in {0, 1}
    BY DEF PM
  <2>. DEFINE d == vm_placement_method(no_vm, N)
              r == p % 2
  <2>4. d * r <= 1 /\ d * r \in Int
    <3>1. d \in {0, 1} /\ r \in {0, 1}
      BY <2>2, <2>3
    <3>. HIDE DEF d, r
    <3>. QED  BY <3>1
  <2>5. Share(no_vm, N, p) = vm_to_host(no_vm, N) + d * r
    BY DEF Share
  <2>. HIDE DEF d, r
  <2>. QED  BY <2>2, <2>4, <2>5
<1>5. \A p \in PM : Share(no_vm, N, p) \in Int
  <2>. SUFFICES ASSUME NEW p \in PM PROVE Share(no_vm, N, p) \in Int
    OBVIOUS
  <2>. DEFINE d == vm_placement_method(no_vm, N)
              r == p % 2
              q == vm_to_host(no_vm, N)
  <2>1. d \in Int /\ r \in Int /\ q \in Int
    BY <1>4, HostTypes DEF PM, vm_placement_method
  <2>2. Share(no_vm, N, p) = q + d * r
    BY DEF Share
  <2>. HIDE DEF d, r, q
  <2>. QED  BY <2>1, <2>2
<1>6. ListsWithinSlots
  <2>. HIDE DEF n, first
  <2>. QED  BY <1>1, <1>3 DEF ListsWithinSlots
<1>7. ListsWithinMaximum /\ max_pm_vm \in Nat \ {0}
  <2>1. max_pm_vm = vm_to_host(no_vm, N) + 1
    BY DEF Init
  <2>. HIDE DEF n, first
  <2>. QED  BY <1>1, <1>3, <1>4, <1>5, <2>1 DEF ListsWithinMaximum
<1>8. TypeOK
  <2>1. hvi \in [PM -> Seq(Int)]
    BY <1>3 DEF Init
  <2>2. 0 \in 0 .. number_of_involved_host
    BY HostTypes
  <2>. QED  BY <1>7, <2>1, <2>2 DEF Init, TypeOK
<1>9. CountIsActual
  BY <1>3 DEF CountIsActual
<1>10. SemaphoreKept /\ RoundKept /\ SlotKept
  BY DEF Init, SemaphoreKept, InRound, RoundKept, SlotKept
<1>. QED  BY <1>6, <1>7, <1>8, <1>9, <1>10 DEF HostInv

-----------------------------------------------------------------------------
(* The steps                                                               *)

(* A step that leaves the record alone keeps what is said about it.        *)
LEMMA RecordUntouched ==
    ASSUME HostInv, UNCHANGED recordVars
    PROVE  CountIsActual' /\ ListsWithinSlots' /\ ListsWithinMaximum'
  BY DEF HostInv, recordVars, CountIsActual, ListsWithinSlots,
     ListsWithinMaximum, On

(* get_finalize, and a policy that sees finish or aborts, touch only the   *)
(* semaphore and finish.                                                   *)
LEMMA FinishKeepsInv ==
    ASSUME HostInv, RequestFinish \/ SetFinish \/ SeeFinish \/ Abort
    PROVE  HostInv'
<1>1. TypeOK'
  BY DEF HostInv, TypeOK, RequestFinish, SetFinish, SeeFinish, Abort,
     recordVars, roundVars, endVars
<1>2. SemaphoreKept'
  BY DEF HostInv, TypeOK, SemaphoreKept, InRound, RequestFinish, SetFinish,
     SeeFinish, Abort, endVars
<1>3. RoundKept' /\ SlotKept'
  BY DEF HostInv, RoundKept, SlotKept, HasSlot, Visited, RequestFinish,
     SetFinish, SeeFinish, Abort, recordVars, roundVars
<1>4. UNCHANGED recordVars
  BY DEF RequestFinish, SetFinish, SeeFinish, Abort
<1>. QED  BY <1>1, <1>2, <1>3, <1>4, RecordUntouched DEF HostInv

(* A round begins with the semaphore taken and no PM looked at.            *)
LEMMA BeginRoundKeepsInv ==
    ASSUME HostInv, NEW x \in PM, BeginRound(x)
    PROVE  HostInv'
<1>. USE DEF BeginRound
<1>1. TypeOK'
  <2>1. x \in 0 .. number_of_involved_host /\ 0 \in 0 .. number_of_involved_host
    BY HostTypes DEF PM
  <2>. QED  BY <2>1 DEF HostInv, TypeOK, recordVars
<1>2. SemaphoreKept'
  BY DEF HostInv, TypeOK, SemaphoreKept, InRound
<1>3. RoundKept' /\ SlotKept'
  BY HostTypes DEF RoundKept, SlotKept, Visited, PM
<1>. QED  BY <1>1, <1>2, <1>3, RecordUntouched DEF HostInv

(* A round ends by handing the semaphore over, or releasing it.            *)
LEMMA EndRoundKeepsInv ==
    ASSUME HostInv, EndRound
    PROVE  HostInv'
<1>. USE DEF EndRound, Release
<1>1. TypeOK'
  BY DEF HostInv, TypeOK, recordVars, roundVars
<1>2. SemaphoreKept'
  BY DEF HostInv, TypeOK, SemaphoreKept, InRound
<1>3. RoundKept' /\ SlotKept'
  BY DEF RoundKept, SlotKept
<1>. QED  BY <1>1, <1>2, <1>3, RecordUntouched DEF HostInv

(* A look at the next PM extends the PMs visited by that one.              *)
LEMMA LookVisits ==
    ASSUME HostInv, Looking
    PROVE  /\ Current \in PM /\ z < number_of_involved_host
           /\ visits' \in [PM -> Nat]
           /\ \A p \in PM :
                 visits'[p] = IF Visited(p, Current + 1, z + 1) THEN 1 ELSE 0
<1>1. /\ policy = "round" /\ z < number_of_involved_host
      /\ visits' = [visits EXCEPT ![Current] = @ + 1]
      /\ visits \in [PM -> Nat]
      /\ m \in 0 .. number_of_involved_host
      /\ z \in 0 .. number_of_involved_host
  BY DEF HostInv, TypeOK, Looking
<1>2. Current \in PM
  BY <1>1, HostTypes DEF Current, PM
<1>3. \A p \in PM : visits[p] = IF Visited(p, m, z) THEN 1 ELSE 0
  BY <1>1 DEF HostInv, RoundKept
<1>4. ASSUME NEW p \in PM
      PROVE  visits'[p] = IF Visited(p, Current + 1, z + 1) THEN 1 ELSE 0
  <2>1. CASE p = Current
    <3>1. ~Visited(p, m, z) /\ Visited(p, Current + 1, z + 1)
      BY <1>1, <2>1, HostTypes DEF Visited, Current, PM
    <3>. QED  BY <1>1, <1>3, <2>1, <3>1
  <2>2. CASE p # Current
    <3>1. Visited(p, m, z) <=> Visited(p, Current + 1, z + 1)
      BY <1>1, <2>2, HostTypes DEF Visited, Current, PM
    <3>. QED  BY <1>1, <1>3, <2>2, <3>1
  <2>. QED  BY <2>1, <2>2
<1>5. visits' \in [PM -> Nat]
  BY <1>1, <1>2
<1>. QED  BY <1>1, <1>2, <1>4, <1>5

(* A look without a migration extends the PMs visited and touches no list. *)
LEMMA StayKeepsInv ==
    ASSUME HostInv, Stay
    PROVE  HostInv'
<1>1. Looking /\ m' = Current + 1 /\ z' = z + 1 /\ policy = "round"
      /\ UNCHANGED <<recordVars, policy, placement, endVars>>
  BY DEF Stay, Looking
<1>2. TypeOK'
  <2>1. /\ Current + 1 \in 0 .. number_of_involved_host
        /\ z + 1 \in 0 .. number_of_involved_host
    <3>1. Current \in PM /\ z < number_of_involved_host
      BY <1>1, LookVisits
    <3>2. z \in Nat /\ number_of_involved_host \in Nat
      BY HostTypes DEF HostInv, TypeOK
    <3>. QED  BY <3>1, <3>2 DEF PM
  <2>. QED  BY <1>1, <2>1, LookVisits DEF HostInv, TypeOK, recordVars, endVars
<1>3. SemaphoreKept'
  BY <1>1 DEF HostInv, SemaphoreKept, InRound, endVars
<1>4. RoundKept' /\ SlotKept'
  BY <1>1, LookVisits DEF RoundKept, SlotKept, Visited
<1>. QED  BY <1>1, <1>2, <1>3, <1>4, RecordUntouched DEF HostInv

(* A migration begins only where the target has a slot, which SlotKept     *)
(* records.                                                                *)
LEMMA BeginMigrationKeepsInv ==
    ASSUME HostInv, NEW i \in 1 .. MAX_VM_TO_PM, NEW k \in PM,
           BeginMigration(i, k)
    PROVE  HostInv'
<1>1. /\ Looking /\ m' = Current /\ z' = z /\ policy = "round"
      /\ policy' = "migrating"
      /\ i \in DOMAIN hvi[Current]
      /\ placement' = [vm |-> hvi[Current][i], target_pm |-> k]
      /\ HasSlot(k)
      /\ UNCHANGED <<recordVars, endVars>>
  BY DEF BeginMigration, Looking
<1>2. [vm |-> hvi[Current][i], target_pm |-> k] \in Migration
  BY <1>1 DEF Looking, AllReadable, Readable, Migration
<1>3. TypeOK'
  <2>1. Current \in 0 .. number_of_involved_host
    BY <1>1, LookVisits, HostTypes DEF PM
  <2>. QED  BY <1>1, <1>2, <2>1, LookVisits
            DEF HostInv, TypeOK, recordVars, endVars
<1>4. SemaphoreKept'
  BY <1>1 DEF HostInv, SemaphoreKept, InRound, endVars
<1>5. RoundKept'
  BY <1>1, LookVisits, HostTypes DEF RoundKept, Visited, PM
<1>6. SlotKept'
  BY <1>1, <1>2 DEF SlotKept, HasSlot, recordVars
<1>. QED  BY <1>1, <1>3, <1>4, <1>5, <1>6, RecordUntouched DEF HostInv

(* The moved VM arrives at its target and leaves the PM it came from, or   *)
(* does neither.                                                           *)
LEMMA MovedCount ==
    ASSUME TypeOK, NEW v \in VM, NEW target \in PM,
           loc' = [loc EXCEPT ![v] = target], NEW p \in PM
    PROVE  Shifted(Cardinality(On(p)'), Cardinality(On(p)),
                   p = target, p = loc[v])
<1>1. loc \in [VM -> PM]
  BY DEF TypeOK
<1>2. IsFiniteSet(On(p)) /\ Cardinality(On(p)) \in Nat
  BY OnIsFinite
<1>3. CASE target = loc[v]
  <2>1. loc' = loc
    BY <1>1, <1>3
  <2>2. On(p)' = On(p)
    BY <2>1 DEF On
  <2>. QED  BY <1>2, <1>3, <2>2 DEF Shifted
<1>4. CASE target # loc[v] /\ p = target
  <2>1. On(p)' = On(p) \cup {v} /\ v \notin On(p)
    BY <1>1, <1>4 DEF On
  <2>. QED  BY <1>2, <1>4, <2>1, FS_AddElement DEF Shifted
<1>5. CASE target # loc[v] /\ p = loc[v]
  <2>1. On(p)' = On(p) \ {v} /\ v \in On(p)
    BY <1>1, <1>5 DEF On
  <2>2. Cardinality(On(p)') = Cardinality(On(p)) - 1
    BY <1>2, <2>1, FS_RemoveElement
  <2>. QED  BY <1>2, <1>5, <2>2 DEF Shifted
<1>6. CASE target # loc[v] /\ p # target /\ p # loc[v]
  <2>1. On(p)' = On(p)
    BY <1>1, <1>6 DEF On
  <2>. QED  BY <1>2, <1>6, <2>1 DEF Shifted
<1>. QED  BY <1>3, <1>4, <1>5, <1>6

(* The end of a migration: one entry more where the VM arrived, one less   *)
(* where it came from, and the maximum grows with the longest list.        *)
LEMMA VmMigratedKeepsInv ==
    ASSUME HostInv, VmMigrated
    PROVE  HostInv'
<1>. DEFINE v == placement.vm
            target == placement.target_pm
            origin == loc[v]
            added == [hvi EXCEPT ![target] = Appended]
<1>1. /\ policy = "migrating" /\ policy' = "round"
      /\ hvi' = [added EXCEPT ![origin] = Removed(v, @)]
      /\ loc' = [loc EXCEPT ![v] = target]
      /\ m' = m + 1 /\ z' = z + 1
      /\ placement' = NoMigration
      /\ UNCHANGED <<visits, endVars>>
  BY DEF VmMigrated
<1>2. /\ v \in VM /\ target \in PM /\ origin \in PM /\ target \in Int
      /\ hvi \in [PM -> Seq(Int)] /\ loc \in [VM -> PM]
      /\ max_pm_vm \in Nat \ {0}
  <2>1. /\ hvi \in [PM -> Seq(Int)] /\ loc \in [VM -> PM]
        /\ max_pm_vm \in Nat \ {0}
    BY DEF HostInv, TypeOK
  <2>2. placement \in Migration
    BY <1>1 DEF HostInv, SlotKept
  <2>3. v \in VM /\ target \in PM
    BY <2>2 DEF Migration
  <2>. HIDE DEF v, target
  <2>. QED  BY <2>1, <2>3, HostTypes
<1>3. Appended \in Seq(Int) /\ Len(Appended) = Len(hvi[target]) + 1
  BY <1>2 DEF Appended
<1>4. /\ added \in [PM -> Seq(Int)]
      /\ \A p \in PM : /\ p = target => Len(added[p]) = Len(hvi[p]) + 1
                       /\ p # target => Len(added[p]) = Len(hvi[p])
  <2>1. \A p \in PM : Len(hvi[p]) \in Nat
    BY <1>2
  <2>. HIDE DEF target
  <2>. QED  BY <1>2, <1>3, <2>1
<1>5. Len(hvi[origin]) > 0
  <2>1. v \in On(origin)
    BY <1>2 DEF On
  <2>2. IsFiniteSet(On(origin)) /\ Cardinality(On(origin)) \in Nat
    BY <1>2, OnIsFinite
  <2>3. Cardinality(On(origin)) # 0
    BY <2>1, <2>2, FS_EmptySet
  <2>4. Len(hvi[origin]) = Cardinality(On(origin))
    BY <1>2 DEF HostInv, CountIsActual
  <2>. HIDE DEF origin
  <2>. QED  BY <2>2, <2>3, <2>4
<1>6. Len(added[origin]) > 0 /\ added[origin] \in Seq(Int)
  <2>1. Len(hvi[origin]) \in Nat /\ origin \in PM
    BY <1>2
  <2>2. \/ Len(added[origin]) = Len(hvi[origin]) + 1
        \/ Len(added[origin]) = Len(hvi[origin])
    BY <1>4, <2>1, Zenon
  <2>3. added[origin] \in Seq(Int)
    BY <1>4, <2>1
  <2>. HIDE DEF added, origin, target
  <2>. QED  BY <1>5, <2>1, <2>2, <2>3
<1>7. /\ Removed(v, added[origin]) \in Seq(Int)
      /\ Len(Removed(v, added[origin])) = Len(added[origin]) - 1
  <2>. HIDE DEF added, origin, v
  <2>. QED  BY <1>6, RemovedShrinks
<1>8. /\ hvi' \in [PM -> Seq(Int)]
      /\ \A p \in PM : Shifted(Len(hvi'[p]), Len(hvi[p]), p = target, p = origin)
  <2>. DEFINE removed == Removed(v, added[origin])
  <2>1. hvi' = [added EXCEPT ![origin] = removed]
    BY <1>1
  <2>. HIDE DEF added, origin, target, v, removed
  <2>2. hvi' \in [PM -> Seq(Int)]
    BY <1>2, <1>4, <1>7, <2>1 DEF removed
  <2>. SUFFICES ASSUME NEW p \in PM
                PROVE  Shifted(Len(hvi'[p]), Len(hvi[p]), p = target, p = origin)
    BY <2>2, Zenon
  <2>3. /\ Len(hvi[p]) \in Nat
        /\ p = target => Len(added[p]) = Len(hvi[p]) + 1
        /\ p # target => Len(added[p]) = Len(hvi[p])
    <3>1. Len(hvi[p]) \in Nat
      BY <1>2
    <3>2. /\ p = target => Len(added[p]) = Len(hvi[p]) + 1
          /\ p # target => Len(added[p]) = Len(hvi[p])
      BY <1>4, Zenon
    <3>. QED  BY <3>1, <3>2
  <2>4. CASE p = origin
    <3>1. Len(hvi'[p]) = Len(added[p]) - 1
      BY <1>2, <1>4, <1>7, <2>1, <2>4 DEF removed
    <3>. QED  BY <2>3, <2>4, <3>1 DEF Shifted
  <2>5. CASE p # origin
    <3>1. hvi'[p] = added[p]
      BY <1>4, <2>1, <2>5
    <3>. QED  BY <2>3, <2>5, <3>1 DEF Shifted
  <2>. QED  BY <2>4, <2>5
<1>9. CountIsActual'
  <2>. SUFFICES ASSUME NEW p \in PM PROVE Len(hvi'[p]) = Cardinality(On(p)')
    BY DEF CountIsActual
  <2>1. Shifted(Cardinality(On(p)'), Cardinality(On(p)), p = target, p = origin)
    <3>1. TypeOK
      BY DEF HostInv
    <3>. HIDE DEF v, target
    <3>. QED  BY <1>1, <1>2, <3>1, MovedCount
  <2>2. Len(hvi[p]) = Cardinality(On(p))
    BY DEF HostInv, CountIsActual
  <2>. HIDE DEF origin, target, v
  <2>3. Shifted(Len(hvi'[p]), Len(hvi[p]), p = target, p = origin)
    BY <1>8
  <2>. QED  BY <2>1, <2>2, <2>3 DEF Shifted
<1>10. ListsWithinSlots'
  <2>. SUFFICES ASSUME NEW p \in PM PROVE Len(hvi'[p]) <= MAX_VM_TO_PM
    BY DEF ListsWithinSlots
  <2>1. Len(hvi[p]) <= MAX_VM_TO_PM /\ (p = target => Len(hvi[p]) < MAX_VM_TO_PM)
    BY <1>1 DEF HostInv, ListsWithinSlots, SlotKept, HasSlot
  <2>2. Len(hvi[p]) \in Nat /\ MAX_VM_TO_PM \in Nat
    BY <1>2, HostTypes
  <2>3. Shifted(Len(hvi'[p]), Len(hvi[p]), p = target, p = origin)
    BY <1>8
  <2>. HIDE DEF origin, target
  <2>. QED  BY <2>1, <2>2, <2>3 DEF Shifted
<1>11. max_pm_vm' \in Nat \ {0} /\ ListsWithinMaximum'
  <2>1. \/ max_pm_vm' = NextMaximum(Len(Appended))
        \/ origin = target /\ max_pm_vm' \in {max_pm_vm, 2 * max_pm_vm}
    BY DEF VmMigrated
  <2>2. \A p \in PM : Len(hvi[p]) \in Nat /\ Len(hvi[p]) <= max_pm_vm
    BY <1>2 DEF HostInv, ListsWithinMaximum
  <2>3. max_pm_vm' \in {max_pm_vm, 2 * max_pm_vm}
    BY <2>1 DEF NextMaximum
  <2>4. max_pm_vm' \in Nat \ {0} /\ max_pm_vm' >= max_pm_vm
    BY <1>2, <2>3
  <2>5. origin = target \/ Len(hvi[target]) + 1 <= max_pm_vm'
    BY <1>2, <1>3, <2>1, <2>2 DEF NextMaximum
  <2>. SUFFICES ASSUME NEW p \in PM PROVE Len(hvi'[p]) <= max_pm_vm'
    BY <2>4 DEF ListsWithinMaximum
  <2>6. Shifted(Len(hvi'[p]), Len(hvi[p]), p = target, p = origin)
    BY <1>8
  <2>7. Len(hvi[p]) \in Nat /\ Len(hvi[p]) <= max_pm_vm
    BY <2>2
  <2>. HIDE DEF origin, target
  <2>. QED  BY <1>2, <2>4, <2>5, <2>6, <2>7 DEF Shifted
<1>12. m < number_of_involved_host /\ z < number_of_involved_host
       /\ m \in Nat /\ z \in Nat
  BY <1>1 DEF HostInv, RoundKept, TypeOK
<1>13. TypeOK'
  <2>1. loc' \in [VM -> PM]
    BY <1>1, <1>2
  <2>2. m' \in 0 .. number_of_involved_host /\ z' \in 0 .. number_of_involved_host
    BY <1>1, <1>12, HostTypes
  <2>. QED  BY <1>1, <1>8, <1>11, <2>1, <2>2 DEF HostInv, TypeOK, endVars
<1>14. SemaphoreKept'
  BY <1>1 DEF HostInv, SemaphoreKept, InRound, endVars
<1>15. RoundKept' /\ SlotKept'
  BY <1>1 DEF HostInv, RoundKept, SlotKept, Visited
<1>. QED  BY <1>9, <1>10, <1>11, <1>13, <1>14, <1>15 DEF HostInv

(* So every step of the policy and of get_finalize keeps the invariant.    *)
LEMMA HostInvInductive == HostInv /\ [Next]_vars => HostInv'
<1>. SUFFICES ASSUME HostInv, [Next]_vars PROVE HostInv'
  OBVIOUS
<1>1. CASE RequestFinish \/ SetFinish \/ SeeFinish \/ Abort
  BY <1>1, FinishKeepsInv
<1>2. CASE \E x \in PM : BeginRound(x)
  BY <1>2, BeginRoundKeepsInv
<1>3. CASE Stay
  BY <1>3, StayKeepsInv
<1>4. CASE \E i \in 1 .. MAX_VM_TO_PM, k \in PM : BeginMigration(i, k)
  BY <1>4, BeginMigrationKeepsInv
<1>5. CASE VmMigrated
  BY <1>5, VmMigratedKeepsInv
<1>6. CASE EndRound
  BY <1>6, EndRoundKeepsInv
<1>7. CASE UNCHANGED vars
  <2>1. UNCHANGED recordVars
    BY <1>7 DEF vars
  <2>. QED  BY <1>7, <2>1, RecordUntouched
            DEF vars, HostInv, TypeOK, SemaphoreKept, InRound, RoundKept, SlotKept,
                Visited, HasSlot, recordVars, roundVars, endVars
<1>. QED  BY <1>1, <1>2, <1>3, <1>4, <1>5, <1>6, <1>7 DEF Next

-----------------------------------------------------------------------------
(* The theorems                                                            *)

(* The inductive invariant holds in every run.                             *)
THEOREM HostInvariant == Spec => []HostInv
  BY HostInitially, HostInvInductive, PTL DEF Spec

(* Every variable keeps its type: above all, a migration is only ever one  *)
(* of a VM to a PM, whatever numbers the lists hold.                       *)
THEOREM HostTypeCorrect == Spec => []TypeOK
<1>1. HostInv => TypeOK
  BY DEF HostInv
<1>. QED  BY <1>1, HostInvariant, PTL

(* number_of_vms is the number of VMs a PM runs, wrong lists or not.       *)
THEOREM CountIsActualAlways == Spec => []CountIsActual
<1>1. HostInv => CountIsActual
  BY DEF HostInv
<1>. QED  BY <1>1, HostInvariant, PTL

(* No PM runs more VMs than host_vm_info has slots.                        *)
THEOREM SlotsSufficeAlways == Spec => []SlotsSuffice
<1>1. HostInv => SlotsSuffice
  BY DEF HostInv, CountIsActual, ListsWithinSlots, SlotsSuffice
<1>. QED  BY <1>1, HostInvariant, PTL

(* max_pm_vm is never below the number of VMs of a PM.                     *)
THEOREM ListsWithinMaximumAlways == Spec => []ListsWithinMaximum
<1>1. HostInv => ListsWithinMaximum
  BY DEF HostInv
<1>. QED  BY <1>1, HostInvariant, PTL

(* A finished round has looked at every PM once.                           *)
THEOREM RoundVisitsEachOnceAlways == Spec => []RoundVisitsEachOnce
<1>1. HostInv => RoundVisitsEachOnce
  <2>. SUFFICES ASSUME HostInv, policy = "round", z = number_of_involved_host,
                       NEW p \in PM
                PROVE  visits[p] = 1
    BY DEF RoundVisitsEachOnce
  <2>1. m \in 0 .. number_of_involved_host
    BY DEF HostInv, TypeOK
  <2>2. Visited(p, m, z)
    BY <2>1, HostTypes DEF Visited, PM
  <2>. QED  BY <2>2 DEF HostInv, RoundKept
<1>. QED  BY <1>1, HostInvariant, PTL

(* get_finalize never sets finish during a round.                          *)
THEOREM NoFinishInRoundAlways == Spec => []NoFinishInRound
<1>1. HostInv => NoFinishInRound
  BY DEF HostInv, SemaphoreKept, InRound, NoFinishInRound
<1>. QED  BY <1>1, HostInvariant, PTL

(* To the rest of the program the policy is busy and asleep in turns, and  *)
(* passes finish_sem on as Rounds says: the safety part of                 *)
(* ImplementsRounds.                                                       *)
THEOREM BalancerImplementsRounds == Spec => AbstractRounds!RoundsSpec
<1>. USE DEF AbstractRounds!roundsVars
<1>1. Init => AbstractRounds!RoundsInit
  BY DEF Init, AbstractRounds!RoundsInit
<1>2. [Next]_vars => [AbstractRounds!RoundsNext]_AbstractRounds!roundsVars
  <2>. SUFFICES ASSUME [Next]_vars
                PROVE  [AbstractRounds!RoundsNext]_AbstractRounds!roundsVars
    OBVIOUS
  <2>. USE DEF AbstractRounds!RoundsNext
  <2>1. CASE RequestFinish
    BY <2>1 DEF RequestFinish, AbstractRounds!RequestFinish
  <2>2. CASE SetFinish
    BY <2>2 DEF SetFinish, AbstractRounds!SetFinish
  <2>3. CASE SeeFinish
    BY <2>3 DEF SeeFinish, AbstractRounds!BeginRound, endVars
  <2>4. ASSUME NEW x \in PM, BeginRound(x) PROVE AbstractRounds!BeginRound
    BY <2>4 DEF BeginRound, AbstractRounds!BeginRound
  <2>5. CASE EndRound
    BY <2>5 DEF EndRound, Release, AbstractRounds!EndRound
  <2>6. CASE Stay
    BY <2>6 DEF Stay, endVars
  <2>7. ASSUME NEW i \in 1 .. MAX_VM_TO_PM, NEW k \in PM, BeginMigration(i, k)
        PROVE  UNCHANGED AbstractRounds!roundsVars
    BY <2>7 DEF BeginMigration, Looking, endVars
  <2>8. CASE VmMigrated
    BY <2>8 DEF VmMigrated, endVars
  <2>9. CASE Abort
    BY <2>9 DEF Abort, AbstractRounds!Abort, endVars
  <2>10. CASE UNCHANGED vars
    BY <2>10 DEF vars, endVars
  <2>. QED  BY <2>1, <2>2, <2>3, <2>4, <2>5, <2>6, <2>7, <2>8, <2>9, <2>10 DEF Next
<1>. QED  BY <1>1, <1>2, PTL DEF Spec, AbstractRounds!RoundsSpec
-----------------------------------------------------------------------------
(* Few VMs                                                                 *)

(* Every number of a VM fits in a byte, and every PM has the number of one.*)
NumbersFit == no_vm <= Byte /\ PM \subseteq VM

(* What then follows: the lists, wrong as they are, hold VMs.              *)
VmsListed == policy # "aborted" /\ \A p \in PM : hvi[p] \in Seq(VM)

(* The bytes of a number are then one byte that counts and zeros: an entry *)
(* is replaced as a whole or not at all.                                   *)
LEMMA OverwrittenWhole ==
    ASSUME NumbersFit, NEW x \in VM, NEW y \in VM, NEW n \in Int
    PROVE  Overwritten(x, y, n) \in VM
<1>. DEFINE r == IF n < 0 THEN 0 ELSE IF n > IntSize THEN IntSize ELSE n
            unit == Byte ^ r
<1>1. r \in 0 .. IntSize /\ IntSize \in Nat
  BY ByteAssumption
<1>. HIDE DEF r
<1>2. x \in 0 .. Byte - 1 /\ y \in 0 .. Byte - 1 /\ Byte \in Nat
  <2>1. VM \subseteq 0 .. no_vm - 1
    BY DEF VM, Launched, LaunchedOn
  <2>. QED  BY <2>1, HostTypes, ByteAssumption DEF NumbersFit
<1>3. Overwritten(x, y, n) = (x - (x % unit)) + (y % unit)
  BY DEF Overwritten, r
<1>4. CASE r = 0
  <2>1. unit = 1
    BY <1>4, ByteAssumption
  <2>. HIDE DEF unit
  <2>2. x % unit = 0 /\ y % unit = 0
    BY <1>2, <2>1
  <2>. QED  BY <1>2, <1>3, <2>2
<1>5. CASE r # 0
  <2>1. unit \in Nat /\ Byte <= unit
    BY <1>1, <1>5, ByteAssumption
  <2>. HIDE DEF unit
  <2>2. x % unit = x /\ y % unit = y
    BY <1>2, <2>1
  <2>. QED  BY <1>2, <1>3, <2>2
<1>. QED  BY <1>4, <1>5

(* So a list that loses an entry still holds VMs.                          *)
LEMMA RemovedWhole ==
    ASSUME NumbersFit, NEW list \in Seq(VM), Len(list) > 0, NEW v
    PROVE  Removed(v, list) \in Seq(VM)
<1>. DEFINE index == IndexOf(v, list)
            bytes(k) == Len(list) - index - IntSize * (k - 1 - index)
            e(k) == IF k <= index THEN list[k]
                    ELSE Overwritten(list[k], list[k + 1], bytes(k))
<1>1. Removed(v, list) = [k \in 1 .. Len(list) - 1 |-> e(k)]
  BY DEF Removed
<1>2. \A k \in 1 .. Len(list) - 1 : e(k) \in VM
  <2>1. \A k \in 1 .. Len(list) - 1 : list[k + 1] \in VM /\ list[k] \in VM
    OBVIOUS
  <2>2. \A k \in 1 .. Len(list) - 1 : bytes(k) \in Int
    <3>1. index \in Int /\ Len(list) \in Int /\ IntSize \in Int
      BY IndexType, ByteAssumption
    <3>. HIDE DEF index
    <3>. QED  BY <3>1
  <2>. HIDE DEF index, bytes
  <2>. QED  BY <2>1, <2>2, OverwrittenWhole
<1>. HIDE DEF e
<1>3. Len(list) - 1 \in Nat
  OBVIOUS
<1>. QED  BY <1>1, <1>2, <1>3

(* launch_master lists the VMs of each PM ...                              *)
LEMMA VmsListedInitially ==
    ASSUME Init PROVE VmsListed
<1>1. policy # "aborted"
  BY DEF Init
<1>. SUFFICES ASSUME NEW p \in PM PROVE hvi[p] \in Seq(VM)
  BY <1>1 DEF VmsListed
<1>. DEFINE n == Cardinality(Launched(p))
            first == FirstVm(no_vm, number_of_involved_host, p)
<1>2. hvi[p] = [k \in 1 .. n |-> first + k - 1]
  BY DEF Init
<1>3. n \in Nat /\ \A k \in 1 .. n : first + k - 1 \in VM
  <2>1. n \in Nat /\ \A k \in 1 .. n : first + k - 1 \in Launched(p)
    BY LaunchedInterval
  <2>. QED  BY <2>1 DEF VM
<1>. HIDE DEF n, first
<1>. QED  BY <1>2, <1>3

(* ... a migration adds the number of a PM to one and shortens another ... *)
LEMMA VmsListedAfterMigration ==
    ASSUME NumbersFit, HostInv, VmsListed, VmMigrated
    PROVE  VmsListed'
<1>. DEFINE v == placement.vm
            target == placement.target_pm
            origin == loc[v]
            added == [hvi EXCEPT ![target] = Appended]
            removed == Removed(v, added[origin])
<1>1. policy' = "round" /\ hvi' = [added EXCEPT ![origin] = removed]
  BY DEF VmMigrated
<1>2. /\ hvi \in [PM -> Seq(VM)]
      /\ v \in VM /\ target \in PM /\ origin \in PM /\ target \in VM
  <2>1. hvi \in [PM -> Seq(Int)] /\ loc \in [VM -> PM]
    BY DEF HostInv, TypeOK
  <2>2. placement \in Migration
    BY DEF HostInv, SlotKept, VmMigrated
  <2>3. v \in VM /\ target \in PM
    BY <2>2 DEF Migration
  <2>4. hvi \in [PM -> Seq(VM)]
    BY <2>1 DEF VmsListed
  <2>. HIDE DEF v, target
  <2>. QED  BY <2>1, <2>3, <2>4 DEF NumbersFit
<1>3. Appended \in Seq(VM) /\ Len(Appended) > 0
  BY <1>2 DEF Appended
<1>4. added \in [PM -> Seq(VM)]
  <2>. HIDE DEF target
  <2>. QED  BY <1>2, <1>3
<1>5. Len(added[origin]) > 0
  <2>1. CASE origin = target
    <3>1. added[origin] = Appended
      BY <1>2, <2>1
    <3>. HIDE DEF added
    <3>. QED  BY <1>3, <3>1
  <2>2. CASE origin # target
    <3>1. added[origin] = hvi[origin]
      BY <1>2, <2>2
    <3>2. v \in On(origin)
      BY <1>2 DEF On
    <3>3. IsFiniteSet(On(origin)) /\ Cardinality(On(origin)) \in Nat
      BY <1>2, OnIsFinite
    <3>4. Cardinality(On(origin)) # 0
      BY <3>2, <3>3, FS_EmptySet
    <3>5. Len(hvi[origin]) = Cardinality(On(origin))
      BY <1>2 DEF HostInv, CountIsActual
    <3>. HIDE DEF origin, added
    <3>. QED  BY <3>1, <3>3, <3>4, <3>5
  <2>. QED  BY <2>1, <2>2
<1>6. removed \in Seq(VM)
  <2>1. added[origin] \in Seq(VM)
    <3>. HIDE DEF added, origin
    <3>. QED  BY <1>2, <1>4
  <2>. HIDE DEF added, origin, v
  <2>. QED  BY <1>5, <2>1, RemovedWhole
<1>. HIDE DEF added, origin, removed
<1>7. hvi' \in [PM -> Seq(VM)]
  BY <1>1, <1>2, <1>4, <1>6
<1>. QED  BY <1>1, <1>7 DEF VmsListed

(* ... and no other step touches the lists, or aborts while they are of    *)
(* VMs.                                                                    *)
LEMMA VmsListedStep ==
    ASSUME NumbersFit, HostInv, VmsListed, [Next]_vars
    PROVE  VmsListed'
<1>1. CASE VmMigrated
  BY <1>1, VmsListedAfterMigration
<1>2. CASE Abort
  <2>1. Current \in PM
    BY <1>2, HostTypes DEF Abort, Current, PM, HostInv, TypeOK
  <2>2. \A p \in PM : Readable(p)
    BY DEF VmsListed, Readable
  <2>. QED  BY <1>2, <2>1, <2>2 DEF Abort, AllReadable
<1>3. CASE UNCHANGED hvi /\ (policy' # "aborted" \/ UNCHANGED policy)
  BY <1>3 DEF VmsListed
<1>. QED  BY <1>1, <1>2, <1>3 DEF Next, RequestFinish, SetFinish, SeeFinish,
          BeginRound, Stay, BeginMigration, EndRound, recordVars, vars

(* When the number of every VM fits in a byte, and every PM's is a VM's,   *)
(* the lists hold VMs, and no round ever aborts the program.               *)
THEOREM NeverAbortsWithinByte ==
    ASSUME NumbersFit PROVE Spec => [](policy # "aborted")
<1>1. Init => VmsListed
  BY VmsListedInitially
<1>2. HostInv /\ VmsListed /\ [Next]_vars => VmsListed'
  BY VmsListedStep
<1>3. VmsListed => policy # "aborted"
  BY DEF VmsListed
<1>. QED  BY <1>1, <1>2, <1>3, HostInvariant, PTL DEF Spec
=============================================================================
