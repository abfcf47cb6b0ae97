--------------------------- MODULE SimulationProofs ---------------------------
(***************************************************************************)
(* Proofs, for every number of VMs, PMs and slots, that the organizer      *)
(* keeps its record of the placement well formed; and that the whole       *)
(* simulation implements its two components, so that what is proved of     *)
(* them holds of it, and that get_finalize closes a mailbox only when      *)
(* every task is through and has given its use back.                       *)
(***************************************************************************)
EXTENDS Simulation, GuestLoadBalanceProofs

-----------------------------------------------------------------------------
(* The organizer's record                                                  *)

(* The inductive invariant.                                                *)
RecordInv ==
    /\ OrganizerTypeOK
    /\ RecordedAtMostOnce
    /\ RecordedAtLeastOnce
    /\ RecordWithinCapacity
    /\ RecordIsActual

-----------------------------------------------------------------------------
(* Division                                                                *)

(* VM h * b + k sits on host h ...                                         *)
LEMMA DivisionOfSlot ==
    ASSUME NEW b \in Nat \ {0}, NEW h \in Nat, NEW k \in 0 .. b - 1
    PROVE  (h * b + k) \div b = h
  OBVIOUS

(* ... and every VM of 0 .. n * b - 1 is of that form for a host of        *)
(* 0 .. n - 1.                                                             *)
LEMMA SlotOfDivision ==
    ASSUME NEW b \in Nat \ {0}, NEW n \in Nat, NEW v \in 0 .. n * b - 1
    PROVE  /\ v \div b \in 0 .. n - 1
           /\ v - (v \div b) * b \in 0 .. b - 1
  OBVIOUS
-----------------------------------------------------------------------------
(* The array operations of migrate_vm                                      *)

(* Removing the entry at index leaves the others, in order.                *)
LEMMA RemoveProperties ==
    ASSUME NEW S, NEW s \in Seq(S), NEW index \in 1 .. Len(s)
    PROVE  /\ RemoveItemFromArray(index, s) \in Seq(S)
           /\ Len(RemoveItemFromArray(index, s)) = Len(s) - 1
           /\ \A k \in 1 .. Len(s) - 1 :
                 RemoveItemFromArray(index, s)[k] =
                     IF k < index THEN s[k] ELSE s[k + 1]
<1>. DEFINE r == RemoveItemFromArray(index, s)
<1>1. r = [k \in 1 .. Len(s) - 1 |-> IF k < index THEN s[k] ELSE s[k + 1]]
  BY DEF RemoveItemFromArray
<1>2. \A k \in 1 .. Len(s) - 1 : (IF k < index THEN s[k] ELSE s[k + 1]) \in S
  OBVIOUS
<1>3. r \in [1 .. Len(s) - 1 -> S]
  BY <1>1, <1>2
<1>4. Len(s) - 1 \in Nat
  OBVIOUS
<1>5. r \in Seq(S) /\ Len(r) = Len(s) - 1
  BY <1>3, <1>4
<1>. QED  BY <1>1, <1>5

(* On a list without repetition, Without removes the one entry that holds  *)
(* the VM.                                                                 *)
LEMMA WithoutIsRemove ==
    ASSUME NEW S, NEW s \in Seq(S), NEW v, NEW j \in DOMAIN s, s[j] = v,
           \A i, k \in DOMAIN s : s[i] = s[k] => i = k
    PROVE  Without(v, s) = RemoveItemFromArray(j, s)
<1>1. FirstIndexOf(v, s) = j
  <2>1. \A k \in 1 .. j - 1 : s[k] # v
    OBVIOUS
  <2>2. \A i \in DOMAIN s : s[i] = v => i = j
    OBVIOUS
  <2>. QED  BY <2>1, <2>2 DEF FirstIndexOf
<1>. QED  BY <1>1 DEF Without

-----------------------------------------------------------------------------
(* The effect of migrate_vm on the record                                  *)

(* rest is the record between the two halves of migrate_vm: every VM but v *)
(* is on it, once, where it runs, and no list is longer than before; the   *)
(* step then appends v to the list of p.                                   *)
IsRest(rest, v, p) ==
    /\ pms' = [rest EXCEPT ![p] = Append(@, v)]
    /\ \A q \in PM : Len(rest[q]) <= Len(pms[q])
    /\ \A q, r \in PM : \A i \in DOMAIN rest[q], k \in DOMAIN rest[r] :
          rest[q][i] = rest[r][k] => q = r /\ i = k
    /\ \A q \in PM : \A i \in DOMAIN rest[q] :
          rest[q][i] # v /\ q = loc[rest[q][i]]
    /\ \A w \in VM \ {v} : \E q \in PM : \E i \in DOMAIN rest[q] :
          rest[q][i] = w

(* A migration appends the VM to what is left of the record without it.    *)
LEMMA BeginMigrationEffect ==
    ASSUME RecordInv, NEW v \in VM, NEW p \in PM, BeginMigration(v, p)
    PROVE  \E rest \in [PM -> Seq(VM)] : IsRest(rest, v, p)
<1>. DEFINE src == loc[v]
            old == pms[src]
            rest == RecordRemoved(v)
<1>1. /\ src \in PM
      /\ old \in Seq(VM)
      /\ phase = "asleep"
  BY DEF RecordInv, OrganizerTypeOK, BeginMigration
<1>2. PICK j \in DOMAIN old : old[j] = v
  BY <1>1 DEF RecordInv, RecordedAtLeastOnce, RecordIsActual
<1>3. Without(v, old) = RemoveItemFromArray(j, old)
  <2>1. \A i, k \in DOMAIN old : old[i] = old[k] => i = k
    BY <1>1 DEF RecordInv, RecordedAtMostOnce
  <2>. HIDE DEF old
  <2>. QED  BY <1>1, <1>2, <2>1, WithoutIsRemove
<1>. DEFINE new == RemoveItemFromArray(j, old)
<1>4. /\ new \in Seq(VM)
      /\ Len(new) = Len(old) - 1
      /\ \A k \in 1 .. Len(old) - 1 :
            new[k] = IF k < j THEN old[k] ELSE old[k + 1]
  <2>. HIDE DEF old
  <2>. QED  BY <1>1, <1>2, RemoveProperties
<1>5. rest = [pms EXCEPT ![src] = new]
  BY <1>3 DEF RecordRemoved
<1>. HIDE DEF new, rest
<1>6. rest \in [PM -> Seq(VM)]
  BY <1>1, <1>4, <1>5 DEF RecordInv, OrganizerTypeOK
<1>7. /\ rest[src] = new
      /\ \A q \in PM : q # src => rest[q] = pms[q]
  BY <1>1, <1>5 DEF RecordInv, OrganizerTypeOK
<1>8. pms' = [rest EXCEPT ![p] = Append(@, v)]
  BY DEF BeginMigration, rest
\* Every entry of rest is an entry of pms, other than the one of v.
<1>9. \A q \in PM : \A i \in DOMAIN rest[q] :
         \E k \in DOMAIN pms[q] :
            /\ rest[q][i] = pms[q][k]
            /\ k = IF q = src /\ i >= j THEN i + 1 ELSE i
            /\ ~(q = src /\ k = j)
  <2>. SUFFICES ASSUME NEW q \in PM, NEW i \in DOMAIN rest[q]
                PROVE  \E k \in DOMAIN pms[q] :
                          /\ rest[q][i] = pms[q][k]
                          /\ k = IF q = src /\ i >= j THEN i + 1 ELSE i
                          /\ ~(q = src /\ k = j)
    OBVIOUS
  <2>1. CASE q = src
    BY <2>1, <1>1, <1>2, <1>4, <1>7
  <2>2. CASE q # src
    BY <2>2, <1>7
  <2>. QED  BY <2>1, <2>2
<1>10. \A q, r \in PM : \A i \in DOMAIN rest[q], k \in DOMAIN rest[r] :
          rest[q][i] = rest[r][k] => q = r /\ i = k
  <2>. SUFFICES ASSUME NEW q \in PM, NEW r \in PM,
                       NEW i \in DOMAIN rest[q], NEW k \in DOMAIN rest[r],
                       rest[q][i] = rest[r][k]
                PROVE  q = r /\ i = k
    OBVIOUS
  <2>1. PICK a \in DOMAIN pms[q] :
           /\ rest[q][i] = pms[q][a]
           /\ a = IF q = src /\ i >= j THEN i + 1 ELSE i
    BY <1>9
  <2>2. PICK b \in DOMAIN pms[r] :
           /\ rest[r][k] = pms[r][b]
           /\ b = IF r = src /\ k >= j THEN k + 1 ELSE k
    BY <1>9
  <2>. pms[q][a] = pms[r][b]
    BY <2>1, <2>2
  <2>3. q = r /\ a = b
    BY DEF RecordInv, RecordedAtMostOnce
  <2>4. i \in Int /\ k \in Int /\ j \in Int
    BY <1>1, <1>2, <1>6
  <2>. QED  BY <2>1, <2>2, <2>3, <2>4
<1>11. \A q \in PM : \A i \in DOMAIN rest[q] :
          rest[q][i] # v /\ q = loc[rest[q][i]]
  <2>. SUFFICES ASSUME NEW q \in PM, NEW i \in DOMAIN rest[q]
                PROVE  rest[q][i] # v /\ q = loc[rest[q][i]]
    OBVIOUS
  <2>1. PICK k \in DOMAIN pms[q] :
           rest[q][i] = pms[q][k] /\ ~(q = src /\ k = j)
    BY <1>9
  <2>2. pms[q][k] # v
    BY <2>1, <1>1, <1>2 DEF RecordInv, RecordedAtMostOnce
  <2>3. q = loc[pms[q][k]]
    BY <2>1, <1>1 DEF RecordInv, RecordIsActual
  <2>. QED  BY <2>1, <2>2, <2>3
<1>12. \A w \in VM \ {v} : \E q \in PM : \E i \in DOMAIN rest[q] :
          rest[q][i] = w
  <2>. SUFFICES ASSUME NEW w \in VM \ {v}
                PROVE  \E q \in PM : \E i \in DOMAIN rest[q] : rest[q][i] = w
    OBVIOUS
  <2>0. PICK q \in PM : \E k \in DOMAIN pms[q] : pms[q][k] = w
    BY DEF RecordInv, RecordedAtLeastOnce
  <2>1. PICK k \in DOMAIN pms[q] : pms[q][k] = w
    BY <2>0
  <2>2. CASE q = src
    <3>1. k # j /\ k \in 1 .. Len(old) /\ j \in 1 .. Len(old)
      BY <2>1, <2>2, <1>1, <1>2
    <3>2. CASE k < j
      <4>1. k \in DOMAIN rest[src] /\ rest[src][k] = w
        BY <3>1, <3>2, <2>1, <2>2, <1>1, <1>4, <1>7
      <4>. QED  BY <4>1, <1>1
    <3>3. CASE k > j
      <4>1. k - 1 \in DOMAIN rest[src] /\ rest[src][k - 1] = w
        BY <3>1, <3>3, <2>1, <2>2, <1>1, <1>4, <1>7
      <4>. QED  BY <4>1, <1>1
    <3>. QED  BY <3>1, <3>2, <3>3
  <2>3. CASE q # src
    BY <2>1, <2>3, <1>7
  <2>. QED  BY <2>2, <2>3
<1>13. \A q \in PM : Len(rest[q]) <= Len(pms[q])
  <2>. SUFFICES ASSUME NEW q \in PM
                PROVE  Len(rest[q]) <= Len(pms[q])
    OBVIOUS
  <2>1. pms[q] \in Seq(VM)
    BY DEF RecordInv, OrganizerTypeOK
  <2>2. Len(pms[q]) \in Nat
    BY <2>1
  <2>3. CASE q = src
    BY <2>2, <2>3, <1>4, <1>7
  <2>4. CASE q # src
    BY <2>2, <2>4, <1>7
  <2>. QED  BY <2>3, <2>4
<1>. QED  BY <1>6, <1>8, <1>10, <1>11, <1>12, <1>13 DEF IsRest

-----------------------------------------------------------------------------
(* launch_master establishes the invariant                                 *)

(* The entries launch_master writes for PM p are VMs it creates on PM p.   *)
LEMMA LaunchSlot ==
    ASSUME NEW p \in PM, NEW k \in 1 .. VMsPerHost
    PROVE  /\ p * VMsPerHost + k - 1 \in VM
           /\ LaunchHost(p * VMsPerHost + k - 1) = p
<1>. DEFINE b == VMsPerHost
            n == NUMBER_OF_INVOLVED_HOST
<1>1. b \in Nat \ {0} /\ n \in Nat /\ NUMBER_OF_VMS = n * b
  BY ClusterAssumption
<1>2. p \in 0 .. n - 1 /\ k \in 1 .. b
  BY DEF PM
<1>. HIDE DEF b, n
<1>3. n * b >= (p + 1) * b
  BY <1>1, <1>2
<1>4. (p + 1) * b = p * b + b /\ p * b \in Nat
  BY <1>1, <1>2
<1>5. p * b + k - 1 \in 0 .. n * b - 1
  BY <1>1, <1>2, <1>3, <1>4
<1>6. (p * b + (k - 1)) \div b = p
  BY <1>1, <1>2, DivisionOfSlot
<1>7. p * b + (k - 1) = p * b + k - 1
  BY <1>2, <1>4
<1>. QED  BY <1>1, <1>5, <1>6, <1>7 DEF VM, LaunchHost, b

(* Every VM is created on a PM, and has a slot in the list of that PM.     *)
LEMMA LaunchHostType ==
    ASSUME NEW v \in VM
    PROVE  /\ LaunchHost(v) \in PM
           /\ v - LaunchHost(v) * VMsPerHost + 1 \in 1 .. VMsPerHost
<1>. DEFINE b == VMsPerHost
            n == NUMBER_OF_INVOLVED_HOST
<1>1. b \in Nat \ {0} /\ n \in Nat /\ NUMBER_OF_VMS = n * b
  BY ClusterAssumption
<1>2. v \in 0 .. n * b - 1
  BY <1>1 DEF VM
<1>3. v \div b \in 0 .. n - 1 /\ v - (v \div b) * b \in 0 .. b - 1
  BY <1>1, <1>2, SlotOfDivision
<1>. QED  BY <1>1, <1>3 DEF LaunchHost, PM

(* The layout of launch_master satisfies the invariant.                    *)
LEMMA RecordInitially == OrganizerInit => RecordInv
<1>. SUFFICES ASSUME OrganizerInit PROVE RecordInv
  OBVIOUS
<1>. USE DEF OrganizerInit
<1>1. VMsPerHost \in 1 .. PM_CAPACITY /\ PM_CAPACITY \in Nat
  BY ClusterAssumption
<1>2. \A p \in PM : /\ pms[p] = LaunchList(p)
                    /\ LaunchList(p) \in [1 .. VMsPerHost -> VM]
                    /\ LaunchList(p) \in Seq(VM)
                    /\ Len(LaunchList(p)) = VMsPerHost
  BY <1>1, LaunchSlot DEF LaunchList
<1>3. \A p \in PM : \A i \in DOMAIN pms[p] : LaunchHost(pms[p][i]) = p
  BY <1>1, <1>2, LaunchSlot DEF LaunchList
<1>4. OrganizerTypeOK
  <2>1. NUMBER_OF_INVOLVED_HOST \in Nat \ {0}
    BY ClusterAssumption
  <2>2. 0 \in PM
    BY <2>1 DEF PM
  <2>3. 0 * VMsPerHost + 1 - 1 \in VM
    BY <1>1, <2>2, LaunchSlot
  <2>4. 0 \in VM
    BY <1>1, <2>3
  <2>5. pms \in [PM -> Seq(VM)]
    BY <1>2
  <2>6. loc \in [VM -> PM]
    BY LaunchHostType
  <2>. QED  BY <2>2, <2>4, <2>5, <2>6 DEF OrganizerTypeOK, Phases
<1>5. RecordedAtMostOnce
  <2>. SUFFICES ASSUME NEW p \in PM, NEW q \in PM,
                       NEW i \in DOMAIN pms[p], NEW j \in DOMAIN pms[q],
                       pms[p][i] = pms[q][j]
                PROVE  p = q /\ i = j
    BY DEF RecordedAtMostOnce
  <2>1. p = q
    BY <1>3
  <2>2. i \in Int /\ j \in Int /\ p * VMsPerHost \in Int
    BY <1>1, <1>2 DEF PM
  <2>3. pms[p][i] = p * VMsPerHost + i - 1 /\ pms[q][j] = q * VMsPerHost + j - 1
    BY <1>2 DEF LaunchList
  <2>4. p * VMsPerHost + i - 1 = p * VMsPerHost + j - 1
    BY <2>1, <2>3
  <2>5. \A a, x, y \in Int : a + x - 1 = a + y - 1 => x = y
    OBVIOUS
  <2>. QED  BY <2>1, <2>2, <2>4, <2>5
<1>6. RecordedAtLeastOnce
  <2>. SUFFICES ASSUME NEW v \in VM
                PROVE  \E p \in PM : \E i \in DOMAIN pms[p] : pms[p][i] = v
    BY DEF RecordedAtLeastOnce
  <2>. DEFINE p == LaunchHost(v)
              i == v - p * VMsPerHost + 1
  <2>1. p \in PM /\ i \in 1 .. VMsPerHost
    BY LaunchHostType
  <2>2. pms[p][i] = p * VMsPerHost + i - 1
    BY <2>1, <1>2 DEF LaunchList
  <2>3. v \in Int /\ p * VMsPerHost \in Int
    BY <2>1, <1>1 DEF VM, PM
  <2>4. pms[p][i] = v
    BY <2>2, <2>3
  <2>. QED  BY <2>1, <2>4, <1>2
<1>7. RecordWithinCapacity
  BY <1>1, <1>2 DEF RecordWithinCapacity
<1>8. RecordIsActual
  BY <1>2, <1>3 DEF RecordIsActual
<1>. QED  BY <1>4, <1>5, <1>6, <1>7, <1>8 DEF RecordInv

-----------------------------------------------------------------------------
(* Every step keeps it                                                     *)

(* A migration puts the VM back, at the end of the list of its target,     *)
(* into a record that misses only that VM.                                 *)
LEMMA BeginMigrationKeepsInv ==
    ASSUME RecordInv, NEW v \in VM, NEW p \in PM, BeginMigration(v, p)
    PROVE  RecordInv'
<1>0. PICK rest \in [PM -> Seq(VM)] : IsRest(rest, v, p)
  BY BeginMigrationEffect
<1>1. /\ pms' = [rest EXCEPT ![p] = Append(@, v)]
      /\ \A q \in PM : Len(rest[q]) <= Len(pms[q])
      /\ \A q, r \in PM : \A i \in DOMAIN rest[q], k \in DOMAIN rest[r] :
            rest[q][i] = rest[r][k] => q = r /\ i = k
      /\ \A q \in PM : \A i \in DOMAIN rest[q] :
            rest[q][i] # v /\ q = loc[rest[q][i]]
      /\ \A w \in VM \ {v} : \E q \in PM : \E i \in DOMAIN rest[q] :
            rest[q][i] = w
  BY <1>0 DEF IsRest
<1>2. /\ phase' = "migrating" /\ candidate' = v /\ target' = p
      /\ loc' = loc /\ lastCandidateVMIndex' = v
  BY DEF BeginMigration
<1>3. /\ Len(pms[p]) < PM_CAPACITY
      /\ \A q \in PM : Len(pms[q]) \in Nat /\ Len(pms[q]) <= PM_CAPACITY
      /\ PM_CAPACITY \in Nat
  BY ClusterAssumption DEF BeginMigration, IsTarget, HasRoom, RecordInv,
     OrganizerTypeOK, RecordWithinCapacity
<1>4. \A q \in PM : /\ rest[q] \in Seq(VM)
                    /\ q # p => pms'[q] = rest[q]
                    /\ q = p => pms'[q] = Append(rest[p], v)
  BY <1>1
<1>5. \A q \in PM : \A i \in DOMAIN pms'[q] :
         \/ i \in DOMAIN rest[q] /\ pms'[q][i] = rest[q][i]
         \/ q = p /\ i = Len(rest[p]) + 1 /\ pms'[q][i] = v
  BY <1>4
<1>6. OrganizerTypeOK'
  BY <1>1, <1>2, <1>4 DEF OrganizerTypeOK, RecordInv, Phases
<1>7. RecordedAtMostOnce'
  <2>. SUFFICES ASSUME NEW q \in PM, NEW r \in PM,
                       NEW i \in DOMAIN pms'[q], NEW k \in DOMAIN pms'[r],
                       pms'[q][i] = pms'[r][k]
                PROVE  q = r /\ i = k
    BY DEF RecordedAtMostOnce
  <2>. QED  BY <1>1, <1>5
<1>8. RecordedAtLeastOnce'
  <2>. SUFFICES ASSUME NEW w \in VM
                PROVE  \E q \in PM : \E i \in DOMAIN pms'[q] : pms'[q][i] = w
    BY DEF RecordedAtLeastOnce
  <2>1. CASE w = v
    <3>1. /\ Len(rest[p]) + 1 \in DOMAIN pms'[p]
          /\ pms'[p][Len(rest[p]) + 1] = v
      BY <1>4
    <3>. QED  BY <2>1, <3>1
  <2>2. CASE w # v
    <3>1. PICK q \in PM : \E i \in DOMAIN rest[q] : rest[q][i] = w
      BY <2>2, <1>1
    <3>2. PICK i \in DOMAIN rest[q] : rest[q][i] = w
      BY <3>1
    <3>3. i \in DOMAIN pms'[q] /\ pms'[q][i] = w
      BY <3>2, <1>4
    <3>. QED  BY <3>3
  <2>. QED  BY <2>1, <2>2
<1>9. RecordWithinCapacity'
  <2>. SUFFICES ASSUME NEW q \in PM PROVE Len(pms'[q]) <= PM_CAPACITY
    BY DEF RecordWithinCapacity
  <2>1. Len(rest[q]) \in Nat /\ Len(rest[q]) <= Len(pms[q])
    BY <1>1, <1>4
  <2>2. CASE q # p
    BY <2>1, <2>2, <1>3, <1>4
  <2>3. CASE q = p
    <3>1. Len(pms'[q]) = Len(rest[q]) + 1
      BY <2>3, <1>4
    <3>. QED  BY <2>1, <2>3, <3>1, <1>3
  <2>. QED  BY <2>2, <2>3
<1>10. RecordIsActual'
  <2>. SUFFICES ASSUME NEW q \in PM, NEW i \in DOMAIN pms'[q]
                PROVE  q = IF pms'[q][i] = v THEN p ELSE loc[pms'[q][i]]
    BY <1>2 DEF RecordIsActual
  <2>. QED  BY <1>1, <1>5
<1>. QED  BY <1>6, <1>7, <1>8, <1>9, <1>10 DEF RecordInv

(* So every step of the organizer keeps the invariant.                     *)
LEMMA RecordInvInductive ==
    RecordInv /\ [OrganizerNext]_organizerVars => RecordInv'
<1>. SUFFICES ASSUME RecordInv, [OrganizerNext]_organizerVars
              PROVE  RecordInv'
  OBVIOUS
<1>. USE DEF RecordInv
<1>1. CASE Start
  <2>1. OrganizerTypeOK'
    BY <1>1 DEF Start, OrganizerTypeOK, Phases
  <2>2. RecordedAtMostOnce' /\ RecordedAtLeastOnce' /\ RecordWithinCapacity'
    BY <1>1 DEF Start, RecordedAtMostOnce, RecordedAtLeastOnce, RecordWithinCapacity
  <2>3. RecordIsActual'
    BY <1>1 DEF Start, RecordIsActual
  <2>. QED  BY <2>1, <2>2, <2>3
<1>2. ASSUME NEW v \in VM, NEW p \in PM, BeginMigration(v, p)
      PROVE  RecordInv'
  BY <1>2, BeginMigrationKeepsInv
<1>3. CASE VmMigrated
  <2>1. OrganizerTypeOK'
    BY <1>3 DEF VmMigrated, OrganizerTypeOK, Phases
  <2>2. RecordedAtMostOnce' /\ RecordedAtLeastOnce' /\ RecordWithinCapacity'
    BY <1>3 DEF VmMigrated, RecordedAtMostOnce, RecordedAtLeastOnce,
       RecordWithinCapacity
  <2>3. RecordIsActual'
    <3>. SUFFICES ASSUME NEW p \in PM, NEW i \in DOMAIN pms[p]
                  PROVE  p = loc'[pms[p][i]]
      BY <1>3 DEF VmMigrated, RecordIsActual
    <3>1. pms[p][i] \in VM
      BY DEF OrganizerTypeOK
    <3>. QED  BY <1>3, <3>1 DEF VmMigrated, RecordIsActual, OrganizerTypeOK
  <2>. QED  BY <2>1, <2>2, <2>3
<1>4. CASE ImageSent
  <2>1. OrganizerTypeOK'
    BY <1>4 DEF ImageSent, OrganizerTypeOK, Phases
  <2>2. RecordedAtMostOnce' /\ RecordedAtLeastOnce' /\ RecordWithinCapacity'
    BY <1>4 DEF ImageSent, RecordedAtMostOnce, RecordedAtLeastOnce, RecordWithinCapacity
  <2>3. RecordIsActual'
    BY <1>4 DEF ImageSent, RecordIsActual
  <2>. QED  BY <2>1, <2>2, <2>3
<1>5. CASE KillOrganizer
  <2>1. OrganizerTypeOK'
    BY <1>5 DEF KillOrganizer, OrganizerTypeOK, Phases
  <2>2. RecordedAtMostOnce' /\ RecordedAtLeastOnce' /\ RecordWithinCapacity'
    BY <1>5 DEF KillOrganizer, RecordedAtMostOnce, RecordedAtLeastOnce,
       RecordWithinCapacity
  <2>3. RecordIsActual'
    BY <1>5 DEF KillOrganizer, RecordIsActual
  <2>. QED  BY <2>1, <2>2, <2>3
<1>6. CASE UNCHANGED organizerVars
  <2>1. OrganizerTypeOK'
    BY <1>6 DEF organizerVars, OrganizerTypeOK
  <2>2. RecordedAtMostOnce'
    BY <1>6 DEF organizerVars, RecordedAtMostOnce
  <2>3. RecordedAtLeastOnce' /\ RecordWithinCapacity'
    BY <1>6 DEF organizerVars, RecordedAtLeastOnce, RecordWithinCapacity
  <2>4. RecordIsActual'
    BY <1>6 DEF organizerVars, RecordIsActual
  <2>. QED  BY <2>1, <2>2, <2>3, <2>4
<1>. QED  BY <1>1, <1>2, <1>3, <1>4, <1>5, <1>6 DEF OrganizerNext

(* The inductive invariant of the record holds in every run.               *)
THEOREM RecordInvariant == OrganizerSpec => []RecordInv
<1>. QED  BY RecordInitially, RecordInvInductive, PTL DEF OrganizerSpec

(* The variables of the organizer keep their types: the lists hold VMs     *)
(* only.                                                                   *)
THEOREM OrganizerTypeCorrect == OrganizerSpec => []OrganizerTypeOK
<1>1. RecordInv => OrganizerTypeOK
  BY DEF RecordInv
<1>. QED  BY <1>1, RecordInvariant, PTL

(* Whatever migrations migrate_vm makes, every VM stays on exactly one     *)
(* list of dataOfPMs, once.                                                *)
THEOREM RecordedOnceAlways == OrganizerSpec => []RecordedOnce
<1>1. RecordInv => RecordedOnce
  BY DEF RecordInv, RecordedOnce
<1>. QED  BY <1>1, RecordInvariant, PTL

(* numberOfVMs of a PM never exceeds the slots of DATA_OF_PM.VMs.          *)
THEOREM CapacityAlways == OrganizerSpec => []RecordWithinCapacity
<1>1. RecordInv => RecordWithinCapacity
  BY DEF RecordInv
<1>. QED  BY <1>1, RecordInvariant, PTL

(* Until the organizer is killed each VM is listed where it runs, or where *)
(* it is on its way to.                                                    *)
THEOREM RecordIsActualAlways == OrganizerSpec => []RecordIsActual
<1>1. RecordInv => RecordIsActual
  BY DEF RecordInv
<1>. QED  BY <1>1, RecordInvariant, PTL

-----------------------------------------------------------------------------
(* No VM moves twice in a row                                              *)

(* A candidate chosen by default has score 0, and no score nextH is below  *)
(* 0: the gain is never reached, so the candidate was eligible.            *)
THEOREM NeverTwiceInARowAlways == OrganizerSpec => NeverTwiceInARow
<1>1. [OrganizerNext]_organizerVars =>
         [phase = "asleep" /\ phase' = "migrating"
            => lastCandidateVMIndex' # lastCandidateVMIndex]_organizerVars
  <2>. SUFFICES ASSUME OrganizerNext, phase = "asleep", phase' = "migrating"
                PROVE  lastCandidateVMIndex' # lastCandidateVMIndex
    OBVIOUS
  <2>1. PICK v \in VM, p \in PM : BeginMigration(v, p)
    BY DEF OrganizerNext, Start, VmMigrated, ImageSent, KillOrganizer
  <2>2. PICK H \in [VM -> Scores], nextH \in [PM -> Scores] :
           IsCandidate(H, v) /\ IsTarget(CurrentH(H, v), nextH, p)
    BY <2>1 DEF BeginMigration
  <2>3. Eligible(H) # {}
    <3>1. nextH[p] \in Nat /\ GAIN \in Nat
      BY <2>2, ScoreAssumption
    <3>2. CurrentH(H, v) - nextH[p] > GAIN
      BY <2>2 DEF IsTarget
    <3>. QED  BY <3>1, <3>2 DEF CurrentH
  <2>4. v # lastCandidateVMIndex
    BY <2>2, <2>3 DEF IsCandidate, Eligible
  <2>. QED  BY <2>1, <2>4 DEF BeginMigration
<1>. QED  BY <1>1, PTL DEF OrganizerSpec, NeverTwiceInARow

-----------------------------------------------------------------------------
(* Capacity of the PMs themselves                                          *)

(* Where every VM is listed on its PM, a PM holds no more VMs than its     *)
(* list has entries.                                                       *)
LEMMA Occupancy ==
    ASSUME OrganizerTypeOK, RecordedAtLeastOnce, NEW l \in [VM -> PM],
           \A q \in PM : \A i \in DOMAIN pms[q] : q = l[pms[q][i]],
           NEW p \in PM
    PROVE  /\ Cardinality({v \in VM : l[v] = p}) \in Nat
           /\ Cardinality({v \in VM : l[v] = p}) <= Len(pms[p])
<1>. DEFINE held == {v \in VM : l[v] = p}
            n == Len(pms[p])
            f == [i \in 1 .. n |-> pms[p][i]]
<1>1. pms[p] \in Seq(VM) /\ n \in Nat /\ DOMAIN pms[p] = 1 .. n
  BY DEF OrganizerTypeOK
<1>2. \A v \in held : \E i \in 1 .. n : pms[p][i] = v
  <2>. SUFFICES ASSUME NEW v \in held PROVE \E i \in 1 .. n : pms[p][i] = v
    OBVIOUS
  <2>1. PICK q \in PM : \E i \in DOMAIN pms[q] : pms[q][i] = v
    BY DEF RecordedAtLeastOnce
  <2>2. q = p
    BY <2>1
  <2>. QED  BY <2>1, <2>2, <1>1
<1>3. \A i \in 1 .. n : pms[p][i] \in held
  BY <1>1
<1>4. f \in Surjection(1 .. n, held)
  <2>1. f \in [1 .. n -> held]
    BY <1>3
  <2>2. \A v \in held : \E i \in 1 .. n : f[i] = v
    BY <1>2
  <2>. HIDE DEF f, held, n
  <2>. QED  BY <2>1, <2>2 DEF Surjection
<1>5. ExistsSurjection(1 .. n, held)
  BY <1>4 DEF ExistsSurjection
<1>. HIDE DEF held, n
<1>6. Cardinality(held) <= n
  BY <1>1, <1>5, FS_SurjCardinalityBound
<1>7. IsFiniteSet(held)
  BY <1>1, <1>5, FS_NatSurjection
<1>8. Cardinality(held) \in Nat
  BY <1>7, FS_CardinalityType
<1>. QED  BY <1>6, <1>8 DEF held, n

(* The same where it is bounded by the slots.                              *)
LEMMA OccupancyWithinCapacity ==
    ASSUME RecordInv, NEW l \in [VM -> PM],
           \A q \in PM : \A i \in DOMAIN pms[q] : q = l[pms[q][i]],
           NEW p \in PM
    PROVE  Cardinality({v \in VM : l[v] = p}) <= PM_CAPACITY
<1>1. /\ Cardinality({v \in VM : l[v] = p}) \in Nat
      /\ Cardinality({v \in VM : l[v] = p}) <= Len(pms[p])
  BY Occupancy DEF RecordInv
<1>2. Len(pms[p]) <= PM_CAPACITY /\ Len(pms[p]) \in Nat /\ PM_CAPACITY \in Nat
  BY ClusterAssumption DEF RecordInv, RecordWithinCapacity, OrganizerTypeOK
<1>. QED  BY <1>1, <1>2

(* The moved VM is already listed at its target, so its arrival there      *)
(* keeps the bound, whether the organizer lives to see it or not.          *)
THEOREM HostsWithinCapacityAlways == OrganizerSpec => []HostsWithinCapacity
<1>. DEFINE moved == [loc EXCEPT ![candidate] = target]
<1>1. RecordInv /\ phase = "migrating" =>
         \A p \in PM : Cardinality({v \in VM : moved[v] = p}) <= PM_CAPACITY
  <2>. SUFFICES ASSUME RecordInv, phase = "migrating", NEW p \in PM
                PROVE  Cardinality({v \in VM : moved[v] = p}) <= PM_CAPACITY
    OBVIOUS
  <2>1. moved \in [VM -> PM]
    BY DEF RecordInv, OrganizerTypeOK
  <2>2. \A q \in PM : \A i \in DOMAIN pms[q] : q = moved[pms[q][i]]
    <3>. SUFFICES ASSUME NEW q \in PM, NEW i \in DOMAIN pms[q]
                  PROVE  q = moved[pms[q][i]]
      OBVIOUS
    <3>1. pms[q][i] \in VM
      BY DEF RecordInv, OrganizerTypeOK
    <3>. QED  BY <3>1 DEF RecordInv, RecordIsActual, OrganizerTypeOK
  <2>. HIDE DEF moved
  <2>. QED  BY <2>1, <2>2, OccupancyWithinCapacity
<1>2. OrganizerInit => HostsWithinCapacity
  <2>. SUFFICES ASSUME OrganizerInit, NEW p \in PM
                PROVE  Cardinality({v \in VM : loc[v] = p}) <= PM_CAPACITY
    BY DEF HostsWithinCapacity
  <2>1. RecordInv
    BY RecordInitially
  <2>2. loc \in [VM -> PM]
    BY <2>1 DEF RecordInv, OrganizerTypeOK
  <2>3. \A q \in PM : \A i \in DOMAIN pms[q] : q = loc[pms[q][i]]
    BY <2>1 DEF RecordInv, RecordIsActual, OrganizerInit
  <2>. QED  BY <2>1, <2>2, <2>3, OccupancyWithinCapacity
<1>3. RecordInv /\ HostsWithinCapacity /\ [OrganizerNext]_organizerVars
         => HostsWithinCapacity'
  <2>. SUFFICES ASSUME RecordInv, HostsWithinCapacity,
                       [OrganizerNext]_organizerVars
                PROVE  HostsWithinCapacity'
    OBVIOUS
  <2>1. CASE loc' = loc
    BY <2>1 DEF HostsWithinCapacity
  <2>2. CASE phase = "migrating" /\ loc' = moved
    BY <2>2, <1>1 DEF HostsWithinCapacity
  <2>3. loc' = loc \/ (phase = "migrating" /\ loc' = moved)
    BY DEF OrganizerNext, Start, BeginMigration, VmMigrated, ImageSent,
       KillOrganizer, organizerVars
  <2>. QED  BY <2>1, <2>2, <2>3
<1>. QED  BY <1>2, <1>3, RecordInvariant, PTL DEF OrganizerSpec

-----------------------------------------------------------------------------
(* The organizer implements the abstract placement                         *)

(* The PM that lists a VM is its recorded place.                           *)
PlaceIsListed ==
    /\ RecordedPlace \in [VM -> PM]
    /\ \A v \in VM, p \in PM :
          RecordedPlace[v] = p <=> \E i \in DOMAIN pms[p] : pms[p][i] = v

(* Under the invariant the abstract place of a VM is the one PM that lists *)
(* it.                                                                     *)
LEMMA RecordedPlaceIs == RecordInv => PlaceIsListed
<1>. SUFFICES ASSUME RecordInv PROVE PlaceIsListed
  OBVIOUS
<1>1. \A v \in VM : \E q \in PM : \E i \in DOMAIN pms[q] : pms[q][i] = v
  BY DEF RecordInv, RecordedAtLeastOnce
<1>2. ASSUME NEW v \in VM, NEW p \in PM
      PROVE  /\ RecordedPlace[v] \in PM
             /\ RecordedPlace[v] = p <=> \E i \in DOMAIN pms[p] : pms[p][i] = v
  <2>1. PICK q \in PM : \E i \in DOMAIN pms[q] : pms[q][i] = v
    BY <1>1
  <2>2. \A r \in PM : (\E i \in DOMAIN pms[r] : pms[r][i] = v) => r = q
    BY <2>1 DEF RecordInv, RecordedAtMostOnce
  <2>3. RecordedPlace[v] = q
    BY <2>1, <2>2 DEF RecordedPlace
  <2>. QED  BY <2>1, <2>2, <2>3
<1>3. \A v \in VM : RecordedPlace[v] \in PM
  <2>1. PM # {}
    <3>1. 0 \in PM
      BY ClusterAssumption DEF PM
    <3>. QED  BY <3>1
  <2>. QED  BY <1>2, <2>1
<1>. QED  BY <1>2, <1>3 DEF PlaceIsListed, RecordedPlace

(* A migration is a legal move of the abstract placement: it changes the   *)
(* place of one VM, to a PM that held fewer VMs than it has slots.         *)
LEMMA BeginMigrationIsMove ==
    ASSUME RecordInv, PlaceIsListed, PlaceIsListed', NEW v \in VM, NEW p \in PM,
           BeginMigration(v, p)
    PROVE  Abstract!Move(v, p)
<1>1. Cardinality({w \in VM : RecordedPlace[w] = p}) < PM_CAPACITY
  <2>1. \A q \in PM : \A i \in DOMAIN pms[q] : q = RecordedPlace[pms[q][i]]
    <3>. SUFFICES ASSUME NEW q \in PM, NEW i \in DOMAIN pms[q]
                  PROVE  q = RecordedPlace[pms[q][i]]
      OBVIOUS
    <3>1. pms[q][i] \in VM
      BY DEF RecordInv, OrganizerTypeOK
    <3>. QED  BY <3>1 DEF PlaceIsListed
  <2>2. /\ Cardinality({w \in VM : RecordedPlace[w] = p}) \in Nat
        /\ Cardinality({w \in VM : RecordedPlace[w] = p}) <= Len(pms[p])
    <3>1. RecordedPlace \in [VM -> PM] /\ OrganizerTypeOK /\ RecordedAtLeastOnce
      BY DEF PlaceIsListed, RecordInv
    <3>. HIDE DEF RecordedPlace
    <3>. QED  BY <2>1, <3>1, Occupancy
  <2>3. Len(pms[p]) < PM_CAPACITY /\ Len(pms[p]) \in Nat /\ PM_CAPACITY \in Nat
    BY ClusterAssumption DEF BeginMigration, IsTarget, HasRoom, RecordInv,
       OrganizerTypeOK
  <2>. QED  BY <2>2, <2>3
<1>2. PICK rest \in [PM -> Seq(VM)] : IsRest(rest, v, p)
  BY BeginMigrationEffect
<1>3. \A q \in PM : /\ rest[q] \in Seq(VM)
                    /\ q # p => pms'[q] = rest[q]
                    /\ q = p => pms'[q] = Append(rest[p], v)
  BY <1>2 DEF IsRest
<1>4. RecordedPlace'[v] = p
  <2>1. Len(rest[p]) + 1 \in DOMAIN pms'[p] /\ pms'[p][Len(rest[p]) + 1] = v
    BY <1>3
  <2>. QED  BY <2>1 DEF PlaceIsListed
<1>5. ASSUME NEW w \in VM \ {v}
      PROVE  RecordedPlace'[w] = RecordedPlace[w]
  <2>1. PICK q \in PM : \E i \in DOMAIN rest[q] : rest[q][i] = w
    BY <1>2 DEF IsRest
  <2>2. PICK i \in DOMAIN rest[q] : rest[q][i] = w
    BY <2>1
  <2>3. q = loc[w]
    BY <2>2, <1>2 DEF IsRest
  <2>4. i \in DOMAIN pms'[q] /\ pms'[q][i] = w
    BY <2>2, <1>3
  <2>5. RecordedPlace'[w] = q
    BY <2>4 DEF PlaceIsListed
  <2>6. PICK r \in PM : \E k \in DOMAIN pms[r] : pms[r][k] = w
    BY DEF RecordInv, RecordedAtLeastOnce
  <2>7. r = loc[w]
    BY <2>6 DEF BeginMigration, RecordInv, RecordIsActual
  <2>8. RecordedPlace[w] = r
    BY <2>6 DEF PlaceIsListed
  <2>. QED  BY <2>3, <2>5, <2>7, <2>8
<1>6. RecordedPlace' = [RecordedPlace EXCEPT ![v] = p]
  <2>1. RecordedPlace \in [VM -> PM] /\ RecordedPlace' \in [VM -> PM]
    BY DEF PlaceIsListed
  <2>. HIDE DEF RecordedPlace
  <2>. QED  BY <1>4, <1>5, <2>1
<1>7. Abstract!Cardinality(Abstract!On(p)) = Cardinality({w \in VM : RecordedPlace[w] = p})
  BY DEF Abstract!Cardinality, Cardinality, Abstract!On, Abstract!VM, VM
<1>. QED  BY <1>1, <1>6, <1>7 DEF Abstract!Move

(* The record of dataOfPMs is an implementation of the abstract placement. *)
THEOREM OrganizerImplementsPlacement == OrganizerSpec => ImplementsPlacement
<1>1. OrganizerInit => Abstract!Init
  <2>. SUFFICES ASSUME OrganizerInit PROVE Abstract!Init
    OBVIOUS
  <2>1. RecordInv /\ PlaceIsListed
    BY RecordInitially, RecordedPlaceIs
  <2>2. ASSUME NEW v \in VM PROVE RecordedPlace[v] = LaunchHost(v)
    <3>1. PICK p \in PM : \E i \in DOMAIN pms[p] : pms[p][i] = v
      BY <2>1 DEF RecordInv, RecordedAtLeastOnce
    <3>2. p = loc[v]
      BY <2>1, <3>1 DEF RecordInv, RecordIsActual, OrganizerInit
    <3>3. RecordedPlace[v] = p
      BY <2>1, <3>1 DEF PlaceIsListed
    <3>. QED  BY <3>2, <3>3 DEF OrganizerInit
  <2>3. RecordedPlace = [v \in VM |-> LaunchHost(v)]
    BY <2>2 DEF RecordedPlace
  <2>. QED  BY <2>3 DEF Abstract!Init, Abstract!VM, VM, Abstract!LaunchHost,
               LaunchHost, Abstract!VMsPerHost, VMsPerHost
<1>2. RecordInv /\ PlaceIsListed /\ PlaceIsListed'
         /\ [OrganizerNext]_organizerVars => [Abstract!Next]_RecordedPlace
  <2>. SUFFICES ASSUME RecordInv, PlaceIsListed, PlaceIsListed',
                       [OrganizerNext]_organizerVars
                PROVE  [Abstract!Next]_RecordedPlace
    OBVIOUS
  <2>1. CASE pms' = pms
    BY <2>1 DEF RecordedPlace
  <2>2. ASSUME NEW v \in VM, NEW p \in PM, BeginMigration(v, p)
        PROVE  Abstract!Next
    <3>1. Abstract!Move(v, p)
      BY <2>2, BeginMigrationIsMove
    <3>. QED  BY <3>1 DEF Abstract!Next, Abstract!VM, Abstract!PM, VM, PM
  <2>3. \/ pms' = pms
        \/ \E v \in VM, p \in PM : BeginMigration(v, p)
    BY DEF OrganizerNext, Start, VmMigrated, ImageSent, KillOrganizer,
       organizerVars
  <2>. QED  BY <2>1, <2>2, <2>3
<1>. QED  BY <1>1, <1>2, RecordInvariant, RecordedPlaceIs, PTL
          DEF OrganizerSpec, ImplementsPlacement, Abstract!Spec

-----------------------------------------------------------------------------
(* The whole simulation                                                    *)

Reported == {t \in Task : task[t] \in {"leaving", "gone"}}

(* get_finalize counts the tasks that reported; it leaves the counting     *)
(* loop when it has them all, and closes no mailbox before.                *)
FinalizeInv ==
    /\ fins = Cardinality(Reported)
    /\ finalizer # "collecting" => fins = NUMBER_OF_PROCESS
    /\ \A v \in VM : mailbox[v] = "exited" => finalizer # "collecting"
    /\ \A t \in Task : activity[t] = "sending" => sent[t] < COMM_TASK_SIZE

(* The inductive invariant of the simulation.                              *)
SimulationInv == TypeOK /\ RecordInv /\ BalanceInv /\ FinalizeInv

-----------------------------------------------------------------------------
(* Every step of the simulation is a step of the organizer, or leaves it   *)
(* alone.                                                                  *)
LEMMA StepOfOrganizer == [Next]_vars => [OrganizerNext]_organizerVars
<1>. SUFFICES ASSUME [Next]_vars PROVE [OrganizerNext]_organizerVars
  OBVIOUS
<1>1. CASE Organizing
  BY <1>1 DEF Organizing, OrganizerNext
<1>2. CASE DeliverImage
  BY <1>2 DEF DeliverImage, OrganizerNext
<1>3. CASE Finish
  BY <1>3 DEF Finish, OrganizerNext
<1>4. CASE UNCHANGED organizerVars
  BY <1>4
<1>. QED  BY <1>1, <1>2, <1>3, <1>4 DEF Next, Balancing, Post, Deliver, PostFin,
          TakeFin, Return, AllFinsTaken, Settled, FinishMailbox,
          FinishBalancer, vars

(* The simulation implements the organizer's specification: its placement  *)
(* theorems hold of the whole simulation.                                  *)
THEOREM SimulationImplementsOrganizer == Spec => OrganizerSpec
<1>1. Init => OrganizerInit
  BY DEF Init
<1>. QED  BY <1>1, StepOfOrganizer, PTL DEF Spec, OrganizerSpec

(* In the whole simulation, shutdown included, every VM is on exactly one  *)
(* list of dataOfPMs, once.                                                *)
THEOREM RecordedOnceInSimulation == Spec => []RecordedOnce
<1>. QED  BY SimulationImplementsOrganizer, RecordedOnceAlways, PTL

-----------------------------------------------------------------------------
(* All tasks have reported when get_finalize has counted them all.         *)

(* There are NUMBER_OF_PROCESS tasks.                                      *)
LEMMA TaskCount == IsFiniteSet(Task) /\ Cardinality(Task) = NUMBER_OF_PROCESS
<1>1. NUMBER_OF_PROCESS \in Nat \ {0}
  BY TaskAssumption
<1>2. /\ IsFiniteSet(0 .. NUMBER_OF_PROCESS - 1)
      /\ Cardinality(0 .. NUMBER_OF_PROCESS - 1) =
            IF 0 > NUMBER_OF_PROCESS - 1 THEN 0 ELSE NUMBER_OF_PROCESS - 1 - 0 + 1
  BY <1>1, FS_Interval
<1>. QED  BY <1>1, <1>2 DEF Task

(* When get_finalize has left its counting loop, every task has reported   *)
(* its end.                                                                *)
LEMMA AllReportedWhenCounted ==
    ASSUME FinalizeInv, finalizer # "collecting"
    PROVE  AllReported
<1>1. Reported \in SUBSET Task
  BY DEF Reported
<1>2. Cardinality(Task) = Cardinality(Reported)
  BY TaskCount DEF FinalizeInv
<1>3. Reported = Task
  BY <1>1, <1>2, TaskCount, FS_Subset
<1>. QED  BY <1>3 DEF AllReported, Reported

(* Every step of the simulation is a step of GuestLoadBalance, whose       *)
(* assumption on get_finalize it meets, or leaves it alone.                *)
LEMMA StepOfBalance ==
    TypeOK /\ FinalizeInv /\ [Next]_vars => [BalanceNext]_balanceVars
<1>. SUFFICES ASSUME TypeOK, FinalizeInv, [Next]_vars
              PROVE  [BalanceNext]_balanceVars
  OBVIOUS
<1>1. CASE Balancing
  BY <1>1 DEF Balancing, BalanceNext
<1>2. ASSUME NEW t \in Task, TakeFin(t) PROVE BalanceNext
  BY <1>2 DEF TakeFin, BalanceNext
<1>3. ASSUME NEW t \in Task, Return(t) PROVE BalanceNext
  BY <1>3 DEF Return, BalanceNext
<1>4. CASE FinishMailbox
  <2>1. AllReported
    BY <1>4, AllReportedWhenCounted DEF FinishMailbox
  <2>2. closed \in VM
    BY <1>4, ClusterAssumption DEF FinishMailbox, TypeOK, VM
  <2>. QED  BY <1>4, <2>1, <2>2 DEF FinishMailbox, BalanceNext
<1>5. CASE FinishBalancer
  <2>1. AllReported
    BY <1>5, AllReportedWhenCounted DEF FinishBalancer
  <2>. QED  BY <1>5, <2>1 DEF FinishBalancer, BalanceNext
<1>6. CASE UNCHANGED balanceVars
  BY <1>6
<1>. QED  BY <1>1, <1>2, <1>3, <1>4, <1>5, <1>6 DEF Next, Organizing,
          DeliverImage, Post, Deliver, PostFin, AllFinsTaken, Settled, Finish,
          vars

-----------------------------------------------------------------------------
(* The invariant of the simulation                                         *)

(* The simulation starts in the invariants of its components.              *)
LEMMA SimulationInitially == Init => SimulationInv
<1>. SUFFICES ASSUME Init PROVE SimulationInv
  OBVIOUS
<1>1. RecordInv /\ OrganizerTypeOK /\ BalanceInv
  BY RecordInitially, BalanceInitially DEF Init, RecordInv
<1>2. 0 \in VM
  BY <1>1 DEF Init, BalanceInit, BalanceInv, BalanceTypeOK
<1>3. TypeOK
  BY <1>1, <1>2, TaskAssumption, MessageAssumption, ClusterAssumption, VmAssumption
     DEF Init, TypeOK, BalanceInv
<1>4. FinalizeInv
  <2>1. Reported = {}
    BY DEF Reported, Init, BalanceInit
  <2>. QED  BY <2>1, FS_EmptySet DEF FinalizeInv, Init, BalanceInit
<1>. QED  BY <1>1, <1>3, <1>4 DEF SimulationInv

(* The types of what the simulation adds to its components.                *)
LEMMA MessageTypesKept ==
    ASSUME TypeOK, FinalizeInv, [Next]_vars
    PROVE  /\ activity' \in [Task -> {"computing", "sending", "reporting"}]
           /\ sent' \in [Task -> 0 .. COMM_TASK_SIZE]
           /\ dest' \in [Task -> VM]
           /\ \A t \in Task : activity'[t] = "sending" => sent'[t] < COMM_TASK_SIZE
<1>. USE DEF TypeOK
<1>0. COMM_TASK_SIZE \in Nat
  BY MessageAssumption
<1>1. ASSUME NEW t \in Task, NEW v \in VM, Post(t, v)
      PROVE  /\ activity' \in [Task -> {"computing", "sending", "reporting"}]
             /\ sent' \in [Task -> 0 .. COMM_TASK_SIZE]
             /\ dest' \in [Task -> VM]
             /\ \A u \in Task : activity'[u] = "sending" => sent'[u] < COMM_TASK_SIZE
  BY <1>1 DEF Post, FinalizeInv
<1>2. ASSUME NEW t \in Task, Deliver(t)
      PROVE  /\ activity' \in [Task -> {"computing", "sending", "reporting"}]
             /\ sent' \in [Task -> 0 .. COMM_TASK_SIZE]
             /\ dest' \in [Task -> VM]
             /\ \A u \in Task : activity'[u] = "sending" => sent'[u] < COMM_TASK_SIZE
  <2>1. sent[t] + 1 \in 0 .. COMM_TASK_SIZE
    BY <1>0, <1>2 DEF Deliver, FinalizeInv
  <2>. QED  BY <1>2, <2>1 DEF Deliver, FinalizeInv
<1>3. ASSUME NEW t \in Task, PostFin(t)
      PROVE  /\ activity' \in [Task -> {"computing", "sending", "reporting"}]
             /\ sent' \in [Task -> 0 .. COMM_TASK_SIZE]
             /\ dest' \in [Task -> VM]
             /\ \A u \in Task : activity'[u] = "sending" => sent'[u] < COMM_TASK_SIZE
  BY <1>3 DEF PostFin, FinalizeInv
<1>4. CASE UNCHANGED messageVars
  BY <1>4 DEF messageVars, FinalizeInv
<1>. QED  BY <1>1, <1>2, <1>3, <1>4 DEF Next, Balancing, Organizing, DeliverImage,
          TakeFin, Return, AllFinsTaken, Settled, FinishMailbox,
          FinishBalancer, Finish, vars

(* get_finalize counts exactly the tasks that report.                      *)
LEMMA FinalizeKept ==
    ASSUME TypeOK, BalanceInv, FinalizeInv, [Next]_vars
    PROVE  /\ fins' = Cardinality(Reported')
           /\ fins' \in 0 .. NUMBER_OF_PROCESS
           /\ finalizer' # "collecting" => fins' = NUMBER_OF_PROCESS
           /\ \A v \in VM : mailbox'[v] = "exited" => finalizer' # "collecting"
<1>. USE DEF TypeOK, BalanceInv, FinalizeInv
<1>0. NUMBER_OF_PROCESS \in Nat
  BY TaskAssumption
<1>1. ASSUME NEW t \in Task, TakeFin(t)
      PROVE  /\ fins' = Cardinality(Reported')
             /\ fins' \in 0 .. NUMBER_OF_PROCESS
             /\ finalizer' = "collecting"
             /\ mailbox' = mailbox
  <2>1. Reported' = Reported \cup {t} /\ t \notin Reported
    BY <1>1 DEF TakeFin, ReportFin, Reported, BalanceTypeOK
  <2>2. IsFiniteSet(Reported)
    BY TaskCount, FS_Subset DEF Reported
  <2>3. Cardinality(Reported') = Cardinality(Reported) + 1
    BY <2>1, <2>2, FS_AddElement
  <2>. QED  BY <1>0, <1>1, <2>3 DEF TakeFin, ReportFin
<1>2. CASE /\ Reported' = Reported /\ fins' = fins
           /\ \A v \in VM : mailbox'[v] = "exited" =>
                    mailbox[v] = "exited" \/ finalizer' # "collecting"
           /\ \/ finalizer' = finalizer
              \/ finalizer' # "collecting" /\ fins = NUMBER_OF_PROCESS
  BY <1>2
<1>3. ASSUME NEW t \in Task, Return(t)
      PROVE  /\ Reported' = Reported /\ mailbox' = mailbox
             /\ fins' = fins /\ finalizer' = finalizer
  BY <1>3 DEF Return, Leave, Reported, BalanceTypeOK, finalizeVars
<1>4. CASE Balancing
  <2>1. CASE CreateTask
    <3>0. created \in Task
      BY <1>0, <2>1 DEF CreateTask, TurnsKept, Task, BalanceTypeOK
    <3>1. task[created] = "none"
      <4>1. created >= created
        BY <1>0 DEF BalanceTypeOK
      <4>. QED  BY <3>0, <4>1 DEF TurnsKept
    <3>2. Reported' = Reported
      BY <2>1, <3>1 DEF CreateTask, Reported, BalanceTypeOK
    <3>. QED  BY <1>2, <1>4, <2>1, <3>2 DEF Balancing, CreateTask, finalizeVars
  <2>2. CASE CreateMailboxes
    BY <1>2, <1>4, <2>2 DEF Balancing, CreateMailboxes, Reported, finalizeVars
  <2>3. ASSUME task' = task, mailbox' = mailbox, UNCHANGED finalizeVars
        PROVE  /\ fins' = Cardinality(Reported')
               /\ fins' \in 0 .. NUMBER_OF_PROCESS
               /\ finalizer' # "collecting" => fins' = NUMBER_OF_PROCESS
               /\ \A v \in VM : mailbox'[v] = "exited" => finalizer' # "collecting"
    BY <1>2, <2>3 DEF Reported, finalizeVars
  <2>. QED  BY <1>4, <2>1, <2>2, <2>3 DEF Balancing, Arrive, Decide
<1>5. CASE AllFinsTaken \/ Settled \/ FinishMailbox \/ FinishBalancer \/ Finish
  <2>1. Reported' = Reported /\ fins' = fins
    BY <1>5 DEF AllFinsTaken, Settled, FinishMailbox, FinishBalancer, Finish,
       CloseMailbox, StopBalancer, balanceVars, Reported
  <2>2. \A v \in VM : mailbox'[v] = "exited" =>
                    mailbox[v] = "exited" \/ finalizer' # "collecting"
    BY <1>5 DEF AllFinsTaken, Settled, FinishMailbox, FinishBalancer, Finish,
       CloseMailbox, StopBalancer, balanceVars
  <2>3. finalizer' # "collecting" /\ fins = NUMBER_OF_PROCESS
    BY <1>5 DEF AllFinsTaken, Settled, FinishMailbox, FinishBalancer, Finish
  <2>. QED  BY <1>2, <2>1, <2>2, <2>3
<1>6. CASE UNCHANGED <<balanceVars, finalizeVars>>
  BY <1>2, <1>6 DEF Reported, balanceVars, finalizeVars
<1>7. \/ \E t \in Task : TakeFin(t)
      \/ \E t \in Task : Return(t)
      \/ Balancing
      \/ AllFinsTaken \/ Settled \/ FinishMailbox \/ FinishBalancer \/ Finish
      \/ UNCHANGED <<balanceVars, finalizeVars>>
  BY DEF Next, Organizing, DeliverImage, Post, Deliver, PostFin, vars
<1>8. ASSUME NEW t \in Task, TakeFin(t) \/ Return(t)
      PROVE  /\ fins' = Cardinality(Reported')
             /\ fins' \in 0 .. NUMBER_OF_PROCESS
             /\ finalizer' # "collecting" => fins' = NUMBER_OF_PROCESS
             /\ \A v \in VM : mailbox'[v] = "exited" => finalizer' # "collecting"
  <2>1. CASE TakeFin(t)
    <3>1. finalizer = "collecting"
      BY <2>1 DEF TakeFin
    <3>. QED  BY <2>1, <3>1, <1>1
  <2>2. CASE Return(t)
    BY <2>2, <1>2, <1>3
  <2>. QED  BY <1>8, <2>1, <2>2
<1>. QED  BY <1>4, <1>5, <1>6, <1>7, <1>8

(* So every step of the simulation keeps the invariant.                    *)
LEMMA SimulationInvInductive == SimulationInv /\ [Next]_vars => SimulationInv'
<1>. SUFFICES ASSUME SimulationInv, [Next]_vars PROVE SimulationInv'
  OBVIOUS
<1>0. TypeOK /\ RecordInv /\ BalanceInv /\ FinalizeInv
  BY DEF SimulationInv
<1>1. RecordInv'
  BY <1>0, StepOfOrganizer, RecordInvInductive
<1>2. BalanceInv'
  BY <1>0, StepOfBalance, BalanceInvInductive
<1>3. /\ activity' \in [Task -> {"computing", "sending", "reporting"}]
      /\ sent' \in [Task -> 0 .. COMM_TASK_SIZE]
      /\ dest' \in [Task -> VM]
      /\ \A t \in Task : activity'[t] = "sending" => sent'[t] < COMM_TASK_SIZE
  BY <1>0, MessageTypesKept
<1>4. /\ fins' = Cardinality(Reported')
      /\ fins' \in 0 .. NUMBER_OF_PROCESS
      /\ finalizer' # "collecting" => fins' = NUMBER_OF_PROCESS
      /\ \A v \in VM : mailbox'[v] = "exited" => finalizer' # "collecting"
  BY <1>0, FinalizeKept
<1>5. /\ finalizer' \in {"collecting", "settling", "closing", "lingering", "done"}
      /\ closed' \in 0 .. NUMBER_OF_VMS
  BY <1>0, ClusterAssumption DEF TypeOK, Next, Balancing, Organizing, DeliverImage,
     Post, Deliver, PostFin, TakeFin, Return, AllFinsTaken, Settled,
     FinishMailbox, FinishBalancer, Finish, finalizeVars, vars
<1>6. TypeOK'
  BY <1>1, <1>2, <1>3, <1>4, <1>5 DEF TypeOK, RecordInv, BalanceInv
<1>7. FinalizeInv'
  BY <1>3, <1>4 DEF FinalizeInv
<1>. QED  BY <1>1, <1>2, <1>6, <1>7 DEF SimulationInv

(* The invariant of the simulation, from which the next theorems follow.   *)
THEOREM SimulationInvariant == Spec => []SimulationInv
<1>. QED  BY SimulationInitially, SimulationInvInductive, PTL DEF Spec

(* The variables of the simulation keep their types.                       *)
THEOREM SimulationTypeCorrect == Spec => []TypeOK
<1>1. SimulationInv => TypeOK
  BY DEF SimulationInv
<1>. QED  BY <1>1, SimulationInvariant, PTL

(* get_finalize sends "finish" and request 2 only when every task has      *)
(* reported its end, so create_tasks, the balancer and the mailboxes of    *)
(* the simulation behave as GuestLoadBalance says.                         *)
THEOREM SimulationImplementsBalance == Spec => ImplementsBalance
<1>1. Init => BalanceInit
  BY DEF Init
<1>2. SimulationInv /\ [Next]_vars => [BalanceNext]_balanceVars
  BY StepOfBalance DEF SimulationInv
<1>. QED  BY <1>1, <1>2, SimulationInvariant, PTL
          DEF Spec, ImplementsBalance, BalanceSpec

(* No task is ever left sending to the mailbox of a VM whose mailbox       *)
(* process has returned.                                                   *)
THEOREM NoTaskSendsToClosedMailboxAlways == Spec => []NoTaskSendsToClosedMailbox
<1>1. SimulationInv => NoTaskSendsToClosedMailbox
  <2>. SUFFICES ASSUME SimulationInv, NEW v \in VM, mailbox[v] = "exited",
                       NEW t \in Task
                PROVE  task[t] # "running"
    BY DEF NoTaskSendsToClosedMailbox
  <2>1. FinalizeInv /\ finalizer # "collecting"
    BY DEF SimulationInv, FinalizeInv
  <2>2. AllReported
    BY <2>1, AllReportedWhenCounted
  <2>. QED  BY <2>2 DEF AllReported
<1>. QED  BY <1>1, SimulationInvariant, PTL
-----------------------------------------------------------------------------
(* What the VMs still hold when get_finalize closes                        *)

(* The ten seconds of sleep end only when the last task has returned.      *)
GoneKept ==
    finalizer \in {"closing", "lingering", "done"}
        => \A t \in Task : task[t] = "gone"

(* The invariant of the simulation, with what it says of the VMs' use.     *)
HeldInv == SimulationInv /\ UseIsAccounted /\ GoneKept

(* get_finalize goes on to close when every task has reported its end and  *)
(* none can run; no step brings a task back.                               *)
LEMMA GoneStep ==
    ASSUME HeldInv, [Next]_vars PROVE GoneKept'
<1>0. TypeOK /\ BalanceInv /\ FinalizeInv /\ GoneKept
  BY DEF HeldInv, SimulationInv
<1>1. CASE Settled
  <2>1. AllReported
    BY <1>0, <1>1, AllReportedWhenCounted DEF Settled
  <2>2. \A t \in Task : task[t] = "gone"
    BY <1>1, <2>1 DEF Settled, NobodyRunnable, AllReported
  <2>. QED  BY <1>1, <2>2 DEF Settled, balanceVars, GoneKept
<1>2. CASE /\ finalizer' \in {"closing", "lingering", "done"}
              => finalizer \in {"closing", "lingering", "done"}
  <2>1. [BalanceNext]_balanceVars
    BY <1>0, StepOfBalance
  <2>2. (\A t \in Task : task[t] = "gone") => \A t \in Task : task'[t] = "gone"
    BY <1>0, <2>1, GoneForGood
  <2>. QED  BY <1>0, <1>2, <2>2 DEF GoneKept
<1>. QED  BY <1>1, <1>2 DEF Next, Balancing, Organizing, DeliverImage, Post,
          Deliver, PostFin, TakeFin, Return, AllFinsTaken, FinishMailbox,
          FinishBalancer, Finish, finalizeVars, vars

(* What each VM is charged with stays accounted for in the simulation.     *)
LEMMA HeldInvInductive == HeldInv /\ [Next]_vars => HeldInv'
<1>. SUFFICES ASSUME HeldInv, [Next]_vars PROVE HeldInv'
  OBVIOUS
<1>1. SimulationInv'
  BY SimulationInvInductive DEF HeldInv
<1>2. UseIsAccounted'
  BY StepOfBalance, UseKept DEF HeldInv, SimulationInv
<1>3. GoneKept'
  BY GoneStep
<1>. QED  BY <1>1, <1>2, <1>3 DEF HeldInv

(* When get_finalize starts to close, no VM holds memory, network use or a *)
(* task any more.                                                          *)
THEOREM NothingHeldAtShutdownAlways == Spec => []NothingHeldAtShutdown
<1>1. Init => HeldInv
  BY SimulationInitially, UseInitially DEF Init, HeldInv, GoneKept
<1>2. HeldInv => NothingHeldAtShutdown
  <2>. SUFFICES ASSUME HeldInv, finalizer \in {"closing", "lingering", "done"},
                       NEW v \in VM
                PROVE  mem[v] = 0 /\ net[v] = 0 /\ JobsOn(v) = {}
    BY DEF NothingHeldAtShutdown
  <2>1. BalanceTypeOK
    BY DEF HeldInv, SimulationInv, BalanceInv
  <2>2. /\ mem[v] \in -Residue(v) .. Residue(v)
        /\ net[v] \in -Residue(v) .. Residue(v)
        /\ JobsOn(v) = {}
    BY <2>1, NothingUsed DEF HeldInv, GoneKept
  <2>3. Residue(v) = 0
    BY IntegerDraws, ResidueType DEF Residue
  <2>. QED  BY <2>2, <2>3
<1>. QED  BY <1>1, <1>2, HeldInvInductive, PTL DEF Spec

(* In the whole simulation, too, equal tasks are dealt out evenly.         *)
THEOREM EvenlyDealtInSimulation == Spec => []EvenlyDealt
<1>. QED  BY SimulationImplementsBalance, EvenlyDealtAlways, PTL
          DEF ImplementsBalance
===============================================================================
