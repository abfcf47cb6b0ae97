----------------------------- MODULE LaunchProofs -----------------------------
(***************************************************************************)
(* Proofs, for every number of VMs and PMs, that the loop of launch_master *)
(* fills the PMs as the closed form of module Layout says, and leaves no   *)
(* VM out when the odd PMs can take what the division leaves over.         *)
(***************************************************************************)
EXTENDS Launch, TLAPS

(* The first VM of PM h by the closed form, for the arguments of the run.  *)
First(h) == FirstVm(no_vm, number_of_involved_host, h)

Upto(n) == IF n <= no_vm THEN n ELSE no_vm

(* The VMs a PM has been given when the loop is where it is.               *)
Placed(h) ==
    IF h < j THEN Upto(First(h + 1)) - Upto(First(h))
    ELSE IF h = j /\ pc = "vm" THEN i - Upto(First(h)) ELSE 0

(* The VMs created so far are those of the PMs that are filled, and of the *)
(* one that is being filled.                                               *)
LoopKept ==
    /\ pc # "vm" => i = Upto(First(j))
    /\ pc = "vm" => /\ j < number_of_involved_host
                    /\ Upto(First(j)) <= i /\ i <= Upto(First(j + 1))
                    /\ threshold = First(j + 1) \/ i = no_vm
    /\ pc = "done" => j = number_of_involved_host

(* Every list holds consecutive VMs from the first one of the closed form. *)
ListsKept ==
    \A h \in Hosts :
        /\ Len(vms_index[h]) = Placed(h)
        /\ \A k \in 1 .. Len(vms_index[h]) : vms_index[h][k] = First(h) + k - 1

(* The inductive invariant.                                                *)
LaunchInv == LaunchTypeOK /\ LoopKept /\ ListsKept

-----------------------------------------------------------------------------
(* The closed form                                                         *)

(* What one PM has over all before it is its share.                        *)
LEMMA FirstGrows ==
    ASSUME NEW n \in Nat, NEW hosts \in Nat \ {0}, NEW h \in Nat
    PROVE  /\ FirstVm(n, hosts, 0) = 0
           /\ FirstVm(n, hosts, h) \in Nat /\ Share(n, hosts, h) \in Nat
           /\ FirstVm(n, hosts, h + 1) = FirstVm(n, hosts, h) + Share(n, hosts, h)
<1>. DEFINE q == vm_to_host(n, hosts)
            d == vm_placement_method(n, hosts)
<1>1. q \in Nat /\ d \in {0, 1}
  BY DEF vm_to_host, vm_placement_method
<1>2. /\ h \div 2 \in Nat /\ h % 2 \in Nat
      /\ (h + 1) \div 2 = (h \div 2) + (h % 2) /\ 0 \div 2 = 0
  <2>1. h \div 2 \in Nat /\ h % 2 \in {0, 1} /\ h = 2 * (h \div 2) + (h % 2)
    <3>1. h \div 2 \in Nat
      OBVIOUS
    <3>2. h % 2 \in 0 .. 1
      OBVIOUS
    <3>3. h % 2 = h - (h \div 2) * 2
      BY Z3
    <3>. QED  BY <3>1, <3>2, <3>3
  <2>2. (h + 1) \div 2 = (h \div 2) + (h % 2)
    BY <2>1
  <2>3. 0 \div 2 = 0
    OBVIOUS
  <2>. QED  BY <2>1, <2>2, <2>3
<1>3. /\ \A k : FirstVm(n, hosts, k) = k * q + d * (k \div 2)
      /\ Share(n, hosts, h) = q + d * (h % 2)
  BY DEF FirstVm, Share
<1>. HIDE DEF q, d
<1>4. (h + 1) * q = h * q + q /\ h * q \in Nat /\ 0 * q = 0
  BY <1>1
<1>5. /\ d * (0 \div 2) = 0 /\ d * (h \div 2) \in Nat /\ d * (h % 2) \in Nat
      /\ d * ((h + 1) \div 2) = d * (h \div 2) + d * (h % 2)
  <2>1. CASE d = 0
    BY <1>2, <2>1
  <2>2. CASE d = 1
    BY <1>2, <2>2
  <2>. QED  BY <1>1, <2>1, <2>2
<1>6. FirstVm(n, hosts, 0) = 0
  BY <1>3, <1>4, <1>5
<1>7. FirstVm(n, hosts, h) = h * q + d * (h \div 2)
  BY <1>3
<1>8. FirstVm(n, hosts, h + 1) = (h * q + q) + (d * (h \div 2) + d * (h % 2))
  BY <1>3, <1>4, <1>5
<1>9. FirstVm(n, hosts, h) \in Nat /\ Share(n, hosts, h) \in Nat
  BY <1>1, <1>3, <1>4, <1>5, <1>7
<1>. QED  BY <1>1, <1>3, <1>4, <1>5, <1>6, <1>7, <1>8, <1>9

(* The arguments of a run.                                                 *)
LEMMA ArgumentTypes ==
    ASSUME LaunchTypeOK
    PROVE  no_vm \in Nat \ {0} /\ number_of_involved_host \in Nat \ {0}
<1>1. Arguments \in (Nat \ {0}) \X (Nat \ {0})
  BY SettingAssumption DEF LaunchTypeOK
<1>. QED  BY <1>1 DEF Arguments

(* The closed form for the arguments of the run.                           *)
LEMMA FirstTypes ==
    ASSUME LaunchTypeOK, NEW h \in Nat
    PROVE  /\ First(0) = 0 /\ First(h) \in Nat /\ First(h + 1) \in Nat
           /\ Share(no_vm, number_of_involved_host, h) \in Nat
           /\ First(h + 1) = First(h) + Share(no_vm, number_of_involved_host, h)
<1>1. no_vm \in Nat /\ number_of_involved_host \in Nat \ {0}
  BY ArgumentTypes
<1>. QED  BY <1>1, FirstGrows DEF First

-----------------------------------------------------------------------------
(* The invariant                                                           *)

(* It holds before the first VM.                                           *)
LEMMA LaunchInitially == LaunchInit => LaunchInv
<1>. SUFFICES ASSUME LaunchInit PROVE LaunchInv
  OBVIOUS
<1>1. PICK setting \in Settings : no_vm = setting[1] /\ number_of_involved_host = setting[2]
  BY DEF LaunchInit
<1>2. Arguments = setting /\ no_vm \in Nat \ {0} /\ number_of_involved_host \in Nat \ {0}
  BY <1>1, SettingAssumption DEF Arguments
<1>3. LaunchTypeOK
  <2>1. \A h \in Hosts : <<>> \in Seq(0 .. no_vm - 1)
    OBVIOUS
  <2>. QED  BY <1>2, <2>1 DEF LaunchInit, LaunchTypeOK
<1>4. First(0) = 0
  BY <1>3, FirstTypes
<1>5. LoopKept
  BY <1>2, <1>4 DEF LaunchInit, LoopKept, Upto
<1>6. ListsKept
  <2>. SUFFICES ASSUME NEW h \in Hosts
                PROVE  /\ Len(vms_index[h]) = Placed(h)
                       /\ \A k \in 1 .. Len(vms_index[h]) :
                             vms_index[h][k] = First(h) + k - 1
    BY DEF ListsKept
  <2>1. Len(vms_index[h]) = 0
    BY DEF LaunchInit
  <2>2. Placed(h) = 0
    BY <1>2 DEF LaunchInit, Placed, Hosts
  <2>. QED  BY <2>1, <2>2
<1>. QED  BY <1>3, <1>5, <1>6 DEF LaunchInv

(* The arguments never change, so neither does the closed form.            *)
LEMMA NextHostKeepsInv ==
    ASSUME LaunchInv, NextHost PROVE LaunchInv'
<1>0. /\ LaunchTypeOK /\ LoopKept /\ ListsKept
      /\ no_vm \in Nat \ {0} /\ number_of_involved_host \in Nat \ {0}
      /\ j \in Nat /\ i \in Nat
  BY ArgumentTypes DEF LaunchInv, LaunchTypeOK
<1>1. /\ pc = "host" /\ j < number_of_involved_host /\ pc' = "vm"
      /\ threshold' = i + Share(no_vm, number_of_involved_host, j)
      /\ UNCHANGED <<no_vm, number_of_involved_host, j, i, vms_index>>
  BY DEF NextHost, Arguments
<1>2. /\ First(j) \in Nat /\ Share(no_vm, number_of_involved_host, j) \in Nat
      /\ First(j + 1) = First(j) + Share(no_vm, number_of_involved_host, j)
  BY <1>0, FirstTypes
<1>3. \A h : First(h)' = First(h)
  BY <1>1 DEF First
<1>4. \A n : Upto(n)' = Upto(n)
  BY <1>1 DEF Upto
<1>5. LaunchTypeOK'
  BY <1>0, <1>1, <1>2 DEF LaunchTypeOK, Arguments, Hosts
<1>6. i = Upto(First(j))
  BY <1>0, <1>1 DEF LoopKept
<1>7. LoopKept'
  <2>1. Upto(First(j)) <= Upto(First(j + 1))
    BY <1>0, <1>2 DEF Upto
  <2>2. threshold' = First(j + 1) \/ i = no_vm
    BY <1>0, <1>1, <1>2, <1>6 DEF Upto
  <2>3. Upto(First(j)) <= i
    BY <1>0, <1>6
  <2>. QED  BY <1>1, <1>3, <1>4, <1>6, <2>1, <2>2, <2>3 DEF LoopKept
<1>8. \A h \in Hosts : Placed(h)' = Placed(h)
  BY <1>0, <1>1, <1>3, <1>4, <1>6 DEF Placed
<1>9. ListsKept'
  BY <1>0, <1>1, <1>3, <1>8 DEF ListsKept, Hosts
<1>. QED  BY <1>5, <1>7, <1>9 DEF LaunchInv

(* A VM is appended to the list of the PM that is being filled.            *)
LEMMA CreateVmKeepsInv ==
    ASSUME LaunchInv, CreateVm PROVE LaunchInv'
<1>0. /\ LaunchTypeOK /\ LoopKept /\ ListsKept
      /\ no_vm \in Nat \ {0} /\ number_of_involved_host \in Nat \ {0}
      /\ j \in Nat /\ i \in Nat /\ threshold \in Nat
      /\ vms_index \in [Hosts -> Seq(0 .. no_vm - 1)]
  BY ArgumentTypes DEF LaunchInv, LaunchTypeOK
<1>1. /\ pc = "vm" /\ i < threshold /\ i < no_vm
      /\ vms_index' = [vms_index EXCEPT ![j] = Append(@, i)]
      /\ i' = i + 1
      /\ UNCHANGED <<no_vm, number_of_involved_host, j, threshold, pc>>
  BY DEF CreateVm, Arguments
<1>2. /\ j < number_of_involved_host
      /\ Upto(First(j)) <= i /\ i <= Upto(First(j + 1))
      /\ threshold = First(j + 1)
  BY <1>0, <1>1 DEF LoopKept
<1>3. /\ \A h : First(h)' = First(h)
      /\ \A n : Upto(n)' = Upto(n)
      /\ Hosts' = Hosts
  BY <1>1 DEF First, Upto, Hosts
<1>4. First(j) \in Nat /\ First(j + 1) \in Nat
  BY <1>0, FirstTypes
<1>5. j \in Hosts /\ i \in 0 .. no_vm - 1
  BY <1>0, <1>1, <1>2 DEF Hosts
<1>6. Upto(First(j)) = First(j)
  BY <1>0, <1>1, <1>2, <1>4 DEF Upto
<1>7. LaunchTypeOK'
  <2>1. vms_index' \in [Hosts -> Seq(0 .. no_vm - 1)]
    <3>1. Append(vms_index[j], i) \in Seq(0 .. no_vm - 1)
      BY <1>0, <1>5
    <3>. QED  BY <1>0, <1>1, <3>1
  <2>2. i' \in 0 .. no_vm
    BY <1>0, <1>1
  <2>. QED  BY <1>0, <1>1, <1>3, <2>1, <2>2 DEF LaunchTypeOK, Arguments
<1>8. LoopKept'
  <2>1. i + 1 <= Upto(First(j + 1)) /\ Upto(First(j)) <= i + 1
    BY <1>0, <1>1, <1>2, <1>4, <1>6 DEF Upto
  <2>. QED  BY <1>1, <1>2, <1>3, <2>1 DEF LoopKept
<1>9. ListsKept'
  <2>. SUFFICES ASSUME NEW h \in Hosts
                PROVE  /\ Len(vms_index'[h]) = Placed(h)'
                       /\ \A k \in 1 .. Len(vms_index'[h]) :
                             vms_index'[h][k] = First(h) + k - 1
    BY <1>3 DEF ListsKept
  <2>1. h \in Nat /\ vms_index[h] \in Seq(0 .. no_vm - 1)
    BY <1>0 DEF Hosts
  <2>2. /\ Len(vms_index[h]) = Placed(h)
        /\ \A k \in 1 .. Len(vms_index[h]) : vms_index[h][k] = First(h) + k - 1
    BY <1>0 DEF ListsKept
  <2>3. CASE h = j
    <3>1. vms_index'[h] = Append(vms_index[h], i)
      BY <1>0, <1>1, <2>3
    <3>2. Placed(h) = i - First(j) /\ Placed(h)' = (i + 1) - First(j)
      <4>1. ~(h < j)
        BY <1>0, <2>3
      <4>2. Placed(h) = i - Upto(First(j))
        BY <1>1, <2>3, <4>1 DEF Placed
      <4>3. Placed(h)' = (i + 1) - Upto(First(j))
        <5>1. h = j' /\ ~(h < j') /\ pc' = "vm" /\ i' = i + 1
          BY <1>1, <2>3, <4>1
        <5>2. Placed(h)' = i' - Upto(First(h))'
          BY <5>1 DEF Placed
        <5>3. Upto(First(h))' = Upto(First(h))
          BY <1>1 DEF First, Upto
        <5>. QED  BY <2>3, <5>1, <5>2, <5>3
      <4>. QED  BY <1>6, <4>2, <4>3
    <3>3. Len(vms_index'[h]) = Len(vms_index[h]) + 1
      BY <2>1, <3>1, <1>5
    <3>4. Len(vms_index[h]) = i - First(h)
      BY <2>2, <2>3, <3>2
    <3>5. vms_index'[h][Len(vms_index[h]) + 1] = i
      BY <2>1, <3>1, <1>5
    <3>6. \A k \in 1 .. Len(vms_index[h]) : vms_index'[h][k] = vms_index[h][k]
      BY <2>1, <3>1, <1>5
    <3>7. ASSUME NEW k \in 1 .. Len(vms_index'[h])
          PROVE  vms_index'[h][k] = First(h) + k - 1
      <4>1. Len(vms_index[h]) \in Nat
        BY <2>1
      <4>2. CASE k = Len(vms_index[h]) + 1
        BY <1>0, <1>4, <2>3, <3>4, <3>5, <4>2
      <4>3. CASE k \in 1 .. Len(vms_index[h])
        BY <2>2, <3>6, <4>3
      <4>. QED  BY <3>3, <4>1, <4>2, <4>3
    <3>8. Len(vms_index'[h]) = Placed(h)'
      BY <1>0, <1>4, <2>3, <3>2, <3>3, <3>4
    <3>. QED  BY <3>7, <3>8
  <2>4. CASE h # j
    <3>1. vms_index'[h] = vms_index[h]
      BY <1>0, <1>1, <2>4
    <3>2. Placed(h)' = Placed(h)
      BY <1>1, <1>3, <2>4 DEF Placed
    <3>. QED  BY <2>2, <3>1, <3>2
  <2>. QED  BY <2>3, <2>4
<1>. QED  BY <1>7, <1>8, <1>9 DEF LaunchInv

(* A PM is full when it has its share, or no VM is left.                   *)
LEMMA HostFilledKeepsInv ==
    ASSUME LaunchInv, HostFilled PROVE LaunchInv'
<1>0. /\ LaunchTypeOK /\ LoopKept /\ ListsKept
      /\ no_vm \in Nat \ {0} /\ number_of_involved_host \in Nat \ {0}
      /\ j \in Nat /\ i \in 0 .. no_vm /\ threshold \in Nat
  BY ArgumentTypes DEF LaunchInv, LaunchTypeOK
<1>1. /\ pc = "vm" /\ pc' = "host" /\ j' = j + 1
      /\ i >= threshold \/ i >= no_vm
      /\ UNCHANGED <<no_vm, number_of_involved_host, i, threshold, vms_index>>
  BY DEF HostFilled, Arguments
<1>2. /\ j < number_of_involved_host
      /\ Upto(First(j)) <= i /\ i <= Upto(First(j + 1))
      /\ threshold = First(j + 1) \/ i = no_vm
  BY <1>0, <1>1 DEF LoopKept
<1>3. /\ \A h : First(h)' = First(h)
      /\ \A n : Upto(n)' = Upto(n)
      /\ Hosts' = Hosts
  BY <1>1 DEF First, Upto, Hosts
<1>4. First(j) \in Nat /\ First(j + 1) \in Nat
  BY <1>0, FirstTypes
<1>5. i = Upto(First(j + 1))
  BY <1>0, <1>1, <1>2, <1>4 DEF Upto
<1>6. LaunchTypeOK'
  <2>1. j' \in 0 .. number_of_involved_host
    BY <1>0, <1>1, <1>2
  <2>. QED  BY <1>0, <1>1, <1>3, <2>1 DEF LaunchTypeOK, Arguments
<1>7. LoopKept'
  <2>1. First(j)' = First(j + 1)
    BY <1>1 DEF First
  <2>2. i' = Upto(First(j)')
    BY <1>1, <1>5, <2>1
  <2>. QED  BY <1>1, <1>3, <2>2 DEF LoopKept
<1>8. ASSUME NEW h \in Hosts PROVE Placed(h)' = Placed(h)
  <2>1. h \in Nat
    BY <1>0 DEF Hosts
  <2>2. CASE h < j
    BY <1>0, <1>1, <1>3, <2>1, <2>2 DEF Placed
  <2>3. CASE h = j
    BY <1>0, <1>1, <1>3, <1>5, <2>3 DEF Placed
  <2>4. CASE h > j
    BY <1>0, <1>1, <2>1, <2>4 DEF Placed
  <2>. QED  BY <1>0, <2>1, <2>2, <2>3, <2>4
<1>9. ListsKept'
  BY <1>0, <1>1, <1>3, <1>8 DEF ListsKept
<1>. QED  BY <1>6, <1>7, <1>9 DEF LaunchInv

(* So every step of the loop keeps the invariant.                          *)
LEMMA LaunchInvInductive == LaunchInv /\ [LaunchNext]_launchVars => LaunchInv'
<1>. SUFFICES ASSUME LaunchInv, [LaunchNext]_launchVars PROVE LaunchInv'
  OBVIOUS
<1>1. CASE LaunchDone
  <2>1. /\ j = number_of_involved_host /\ pc = "host" /\ pc' = "done"
        /\ UNCHANGED <<no_vm, number_of_involved_host, j, i, threshold, vms_index>>
    BY <1>1 DEF LaunchDone, Arguments
  <2>2. \A h : First(h)' = First(h) /\ Upto(h)' = Upto(h)
    BY <2>1 DEF First, Upto
  <2>3. \A h : Placed(h)' = Placed(h)
    BY <2>1, <2>2 DEF Placed, First, Upto
  <2>. QED  BY <2>1, <2>2, <2>3 DEF LaunchInv, LaunchTypeOK, LoopKept, ListsKept,
            Arguments, Hosts, First, Upto
<1>2. CASE UNCHANGED launchVars
  <2>1. UNCHANGED <<no_vm, number_of_involved_host, j, i, threshold, vms_index, pc>>
    BY <1>2 DEF launchVars
  <2>. QED  BY <2>1 DEF LaunchInv, LaunchTypeOK, LoopKept, ListsKept,
            Placed, Arguments, Hosts, First, Upto
<1>. QED  BY <1>1, <1>2, NextHostKeepsInv, CreateVmKeepsInv, HostFilledKeepsInv
          DEF LaunchNext

-----------------------------------------------------------------------------
(* Theorems                                                                *)

(* The invariant of the loop, from which the rest follows.                 *)
THEOREM LaunchInvariant == LaunchSpec => []LaunchInv
  BY LaunchInitially, LaunchInvInductive, PTL DEF LaunchSpec

(* The loop's variables keep their types.                                  *)
THEOREM LaunchTypeCorrect == LaunchSpec => []LaunchTypeOK
<1>1. LaunchInv => LaunchTypeOK
  BY DEF LaunchInv
<1>. QED  BY <1>1, LaunchInvariant, PTL

(* When the loop is through, every PM has the VMs the closed form gives    *)
(* it, in order.                                                           *)
THEOREM FollowsLayoutAlways == LaunchSpec => []FollowsLayout
<1>1. LaunchInv => FollowsLayout
  <2>. SUFFICES ASSUME LaunchInv, pc = "done", NEW h \in Hosts
                PROVE  /\ {vms_index[h][k] : k \in DOMAIN vms_index[h]}
                            = LaunchedOn(no_vm, number_of_involved_host, h)
                       /\ \A k \in 1 .. Len(vms_index[h]) - 1 :
                             vms_index[h][k + 1] = vms_index[h][k] + 1
    BY DEF FollowsLayout
  <2>1. /\ no_vm \in Nat \ {0} /\ number_of_involved_host \in Nat \ {0}
        /\ j = number_of_involved_host
        /\ vms_index[h] \in Seq(0 .. no_vm - 1)
        /\ Len(vms_index[h]) = Placed(h)
        /\ \A k \in 1 .. Len(vms_index[h]) : vms_index[h][k] = First(h) + k - 1
    BY ArgumentTypes DEF LaunchInv, LaunchTypeOK, LoopKept, ListsKept
  <2>2. h \in Nat /\ h < j
    BY <2>1 DEF Hosts
  <2>3. /\ First(h) \in Nat /\ First(h + 1) \in Nat
        /\ First(h + 1) = First(h) + Share(no_vm, number_of_involved_host, h)
        /\ Share(no_vm, number_of_involved_host, h) \in Nat
    BY <2>2, FirstTypes DEF LaunchInv
  <2>4. Len(vms_index[h]) = Upto(First(h + 1)) - Upto(First(h))
    BY <2>1, <2>2 DEF Placed
  <2>5. DOMAIN vms_index[h] = 1 .. Len(vms_index[h]) /\ Len(vms_index[h]) \in Nat
    BY <2>1
  <2>6. \A w : w \in LaunchedOn(no_vm, number_of_involved_host, h) <=>
              w \in 0 .. no_vm - 1 /\ First(h) <= w /\ w < First(h + 1)
    BY <2>3 DEF LaunchedOn, First
  <2>7. ASSUME NEW k \in DOMAIN vms_index[h]
        PROVE  vms_index[h][k] \in LaunchedOn(no_vm, number_of_involved_host, h)
    <3>1. k \in 1 .. Len(vms_index[h]) /\ vms_index[h][k] = First(h) + k - 1
      BY <2>1, <2>5
    <3>2. First(h) + k - 1 < Upto(First(h + 1))
      BY <2>1, <2>3, <2>4, <3>1 DEF Upto
    <3>3. First(h) + k - 1 \in 0 .. no_vm - 1 /\ First(h) + k - 1 < First(h + 1)
      BY <2>1, <2>3, <3>1, <3>2 DEF Upto
    <3>. QED  BY <2>3, <2>6, <3>1, <3>3
  <2>8. ASSUME NEW w \in LaunchedOn(no_vm, number_of_involved_host, h)
        PROVE  w \in {vms_index[h][k] : k \in DOMAIN vms_index[h]}
    <3>1. w \in 0 .. no_vm - 1 /\ First(h) <= w /\ w < First(h + 1)
      BY <2>6
    <3>2. w - First(h) + 1 \in 1 .. Len(vms_index[h])
      BY <2>1, <2>3, <2>4, <3>1 DEF Upto
    <3>3. vms_index[h][w - First(h) + 1] = w
      BY <2>1, <2>3, <3>1, <3>2
    <3>. QED  BY <2>5, <3>2, <3>3
  <2>9. \A k \in 1 .. Len(vms_index[h]) - 1 :
              vms_index[h][k + 1] = vms_index[h][k] + 1
    <3>. SUFFICES ASSUME NEW k \in 1 .. Len(vms_index[h]) - 1
                  PROVE  vms_index[h][k + 1] = vms_index[h][k] + 1
      OBVIOUS
    <3>1. k \in 1 .. Len(vms_index[h]) /\ k + 1 \in 1 .. Len(vms_index[h])
      BY <2>5
    <3>2. /\ vms_index[h][k] = First(h) + k - 1
          /\ vms_index[h][k + 1] = First(h) + (k + 1) - 1
      BY <2>1, <3>1
    <3>. QED  BY <2>3, <3>2
  <2>. QED  BY <2>7, <2>8, <2>9
<1>. QED  BY <1>1, LaunchInvariant, PTL

(* Every VM is created when what the division leaves over fits on the odd  *)
(* PMs.                                                                    *)
THEOREM AccommodatedAreLaunchedAlways == LaunchSpec => []AccommodatedAreLaunched
<1>1. LaunchInv => AccommodatedAreLaunched
  <2>. SUFFICES ASSUME LaunchInv, pc = "done",
                       Accommodates(no_vm, number_of_involved_host)
                PROVE  i = no_vm
    BY DEF AccommodatedAreLaunched
  <2>. DEFINE n == no_vm
              hosts == number_of_involved_host
              q == vm_to_host(no_vm, hosts)
              d == vm_placement_method(no_vm, hosts)
  <2>1. n \in Nat \ {0} /\ hosts \in Nat \ {0} /\ i = Upto(First(hosts))
    BY ArgumentTypes DEF LaunchInv, LoopKept
  <2>2. First(hosts) \in Nat
    BY <2>1, FirstTypes DEF LaunchInv
  <2>3. n % hosts <= hosts \div 2 /\ n % hosts \in Nat /\ hosts \div 2 \in Nat
    BY <2>1 DEF Accommodates
  <2>4. n = hosts * q + (n % hosts)
    <3>1. n % hosts = n - (n \div hosts) * hosts
      BY <2>1, Z3
    <3>2. (n \div hosts) * hosts = hosts * (n \div hosts) /\ hosts * (n \div hosts) \in Int
      BY <2>1
    <3>3. q = n \div hosts /\ n \in Int /\ hosts * q \in Int
      BY <2>1, <3>2 DEF vm_to_host
    <3>4. n % hosts = n - hosts * q
      BY <3>1, <3>2, <3>3
    <3>. HIDE DEF q
    <3>. QED  BY <3>3, <3>4
  <2>5. First(hosts) = hosts * q + d * (hosts \div 2)
    BY DEF First, FirstVm
  <2>6. hosts * q \in Nat
    BY <2>1 DEF vm_to_host
  <2>7. d * (hosts \div 2) >= n % hosts
    <3>1. CASE n % hosts = 0
      <4>1. d = 0
        BY <3>1 DEF vm_placement_method
      <4>. QED  BY <2>3, <3>1, <4>1
    <3>2. CASE n % hosts # 0
      <4>1. d = 1
        BY <3>2 DEF vm_placement_method
      <4>. QED  BY <2>3, <4>1
    <3>. QED  BY <3>1, <3>2
  <2>8. d * (hosts \div 2) \in Nat
    BY <2>3 DEF vm_placement_method
  <2>9. First(hosts) >= n
    <3>. HIDE DEF q, d
    <3>. QED  BY <2>1, <2>3, <2>4, <2>5, <2>6, <2>7, <2>8
  <2>. QED  BY <2>1, <2>2, <2>9 DEF Upto
<1>. QED  BY <1>1, LaunchInvariant, PTL
==============================================================================
