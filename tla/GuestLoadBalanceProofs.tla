------------------------ MODULE GuestLoadBalanceProofs ------------------------
(***************************************************************************)
(* Proofs, for every number of VMs and tasks, that max_guest_job bounds    *)
(* the processes of every VM, and is itself bounded by the tasks created;  *)
(* that the memory and network use of a VM is that of the tasks on it; and *)
(* that equal tasks are dealt out evenly.                                  *)
(***************************************************************************)
EXTENDS GuestLoadBalance, FiniteSetTheorems, WellFoundedInduction, TLAPS

(* create_tasks and the balancer take turns, and a task exists only once   *)
(* it was created.                                                         *)
TurnsKept ==
    /\ creator = "waiting" <=> balancer = "responding"
    /\ creator = "boot" => created = 0
    /\ creator \in {"boot", "arriving", "asking", "waiting"}
          => created < NUMBER_OF_PROCESS
    /\ \A t \in Task : t >= created => task[t] = "none"

(* The inductive invariant.                                                *)
BalanceInv ==
    /\ BalanceTypeOK
    /\ TurnsKept
    /\ JobsWithinMaximum
    /\ MaximumFollowsJobs

(* The needs of a task are numbers and its home is a VM.                   *)
LEMMA NeedType ==
    ASSUME BalanceTypeOK, NEW t \in Task
    PROVE  need[t].memory \in Nat /\ need[t].net \in Nat /\ home[t] \in VM
<1>1. \A n \in Need \cup {NoNeed} : n.memory \in Nat /\ n.net \in Nat
  <2>1. MemoryNeeds \subseteq Nat /\ NetNeeds \subseteq Nat
    BY TaskAssumption
  <2>2. \A n \in Need : n.memory \in Nat /\ n.net \in Nat
    BY <2>1 DEF Need
  <2>3. NoNeed.memory \in Nat /\ NoNeed.net \in Nat
    BY DEF NoNeed
  <2>. QED  BY <2>2, <2>3
<1>2. need[t] \in Need \cup {NoNeed} /\ home[t] \in VM
  BY DEF BalanceTypeOK
<1>. QED  BY <1>1, <1>2

(* What a task computes its needs to be is off by no more than Rounding.   *)
LEMMA RecomputedType ==
    ASSUME BalanceTypeOK, NEW t \in Task, NEW n \in Recomputed(need[t])
    PROVE  /\ n.memory \in Int /\ n.net \in Int
           /\ n.memory - need[t].memory \in -Rounding .. Rounding
           /\ n.net - need[t].net \in -Rounding .. Rounding
<1>1. need[t].memory \in Nat /\ need[t].net \in Nat /\ Rounding \in Nat
  BY NeedType, TaskAssumption
<1>2. /\ n.memory \in need[t].memory - Rounding .. need[t].memory + Rounding
      /\ n.net \in need[t].net - Rounding .. need[t].net + Rounding
  BY DEF Recomputed
<1>. QED  BY <1>1, <1>2

-----------------------------------------------------------------------------
(* Counting the processes of a VM                                          *)

(* No VM has more tasks than were created.                                 *)
LEMMA JobsCount ==
    ASSUME BalanceTypeOK, TurnsKept, NEW v \in VM
    PROVE  /\ IsFiniteSet(JobsOn(v))
           /\ Cardinality(JobsOn(v)) \in Nat
           /\ Cardinality(JobsOn(v)) <= created
<1>1. created \in Nat /\ NUMBER_OF_PROCESS \in Nat
  BY TaskAssumption DEF BalanceTypeOK
<1>2. JobsOn(v) \subseteq 0 .. created - 1
  BY <1>1 DEF JobsOn, Task, TurnsKept
<1>3. /\ IsFiniteSet(0 .. created - 1)
      /\ Cardinality(0 .. created - 1) = created
  <2>1. /\ IsFiniteSet(0 .. created - 1)
        /\ Cardinality(0 .. created - 1) =
              IF 0 > created - 1 THEN 0 ELSE created - 1 - 0 + 1
    BY <1>1, FS_Interval
  <2>. QED  BY <1>1, <2>1
<1>4. /\ IsFiniteSet(JobsOn(v))
      /\ Cardinality(JobsOn(v)) <= Cardinality(0 .. created - 1)
  BY <1>2, <1>3, FS_Subset
<1>. QED  BY <1>3, <1>4, FS_CardinalityType

(* vm_load is a number: at most the tasks created and the mailbox process. *)
LEMMA LoadType ==
    ASSUME BalanceTypeOK, TurnsKept, NEW v \in VM
    PROVE  vm_load(v) \in Nat /\ vm_load(v) <= created + 1
<1>1. created \in Nat
  BY DEF BalanceTypeOK
<1>. QED  BY <1>1, JobsCount DEF vm_load

(* When the tasks of a VM become fewer or stay, and its mailbox process    *)
(* does too, so does its load.                                             *)
LEMMA LoadShrinks ==
    ASSUME BalanceTypeOK, TurnsKept, NEW v \in VM,
           JobsOn(v)' \subseteq JobsOn(v),
           mailbox'[v] = "listening" => mailbox[v] = "listening"
    PROVE  vm_load(v)' \in Nat /\ vm_load(v)' <= vm_load(v)
<1>1. IsFiniteSet(JobsOn(v)) /\ Cardinality(JobsOn(v)) \in Nat
  BY JobsCount
<1>2. /\ IsFiniteSet(JobsOn(v)')
      /\ Cardinality(JobsOn(v)') <= Cardinality(JobsOn(v))
  BY <1>1, FS_Subset
<1>3. Cardinality(JobsOn(v)') \in Nat
  BY <1>2, FS_CardinalityType
<1>. QED  BY <1>1, <1>2, <1>3 DEF vm_load

-----------------------------------------------------------------------------
(* The invariant holds at the start ...                                    *)

(* Before the first task no VM runs anything, and the maximum is 1.        *)
LEMMA BalanceInitially == BalanceInit => BalanceInv
<1>. SUFFICES ASSUME BalanceInit PROVE BalanceInv
  OBVIOUS
<1>. USE DEF BalanceInit
<1>1. 0 \in VM
  BY VmAssumption DEF VM
<1>2. BalanceTypeOK
  BY <1>1, TaskAssumption DEF BalanceTypeOK
<1>3. TurnsKept
  BY TaskAssumption DEF TurnsKept
<1>4. \A v \in VM : vm_load(v) = 0 /\ Pending(v) = 0
  <2>1. \A v \in VM : JobsOn(v) = {}
    BY DEF JobsOn
  <2>. QED  BY <2>1, FS_EmptySet DEF vm_load, Pending
<1>5. JobsWithinMaximum
  BY <1>4 DEF JobsWithinMaximum
<1>6. MaximumFollowsJobs
  BY DEF MaximumFollowsJobs
<1>. QED  BY <1>2, <1>3, <1>5, <1>6 DEF BalanceInv

-----------------------------------------------------------------------------
(* ... and every step keeps it                                             *)

(* The mailbox process of a VM is its first process, and the maximum is 1. *)
LEMMA CreateMailboxesKeepsInv ==
    ASSUME BalanceInv, CreateMailboxes PROVE BalanceInv'
<1>. USE DEF BalanceInv, CreateMailboxes
<1>1. BalanceTypeOK'
  BY DEF BalanceTypeOK
<1>2. TurnsKept'
  BY DEF TurnsKept, BalanceTypeOK
<1>3. \A v \in VM : vm_load(v)' = 1
  <2>1. \A v \in VM : JobsOn(v)' = {}
    BY DEF JobsOn, TurnsKept, Task
  <2>2. \A v \in VM : mailbox'[v] = "listening"
    OBVIOUS
  <2>. QED  BY <2>1, <2>2, FS_EmptySet DEF vm_load
<1>4. JobsWithinMaximum'
  BY <1>3 DEF JobsWithinMaximum, Pending, TurnsKept, BalanceTypeOK
<1>5. MaximumFollowsJobs'
  BY DEF MaximumFollowsJobs
<1>. QED  BY <1>1, <1>2, <1>4, <1>5

(* The arrival of a task changes nothing the load depends on.              *)
LEMMA ArriveKeepsInv ==
    ASSUME BalanceInv, NEW n \in Need, Arrive(n) PROVE BalanceInv'
<1>. USE DEF BalanceInv, Arrive
<1>1. BalanceTypeOK'
  BY DEF BalanceTypeOK
<1>2. TurnsKept'
  BY DEF TurnsKept
<1>3. JobsWithinMaximum'
  BY DEF JobsWithinMaximum, Pending, vm_load, JobsOn
<1>4. MaximumFollowsJobs'
  BY DEF MaximumFollowsJobs
<1>. QED  BY <1>1, <1>2, <1>3, <1>4

(* The new job, decided on but not created yet, fits: if it reached the    *)
(* maximum, the maximum has doubled.                                       *)
LEMMA DecideKeepsInv ==
    ASSUME BalanceInv, NEW v \in VM, Decide(v) PROVE BalanceInv'
<1>. USE DEF BalanceInv, Decide
<1>1. max_guest_job \in Nat \ {0} /\ created \in Nat
  BY DEF BalanceTypeOK
<1>2. vm_load(v) \in Nat /\ vm_load(v) <= created + 1 /\ vm_load(v) <= max_guest_job
  BY LoadType DEF JobsWithinMaximum, Pending
<1>3. /\ max_guest_job' \in Nat \ {0}
      /\ max_guest_job' >= max_guest_job
      /\ vm_load(v) + 1 <= max_guest_job'
  BY <1>1, <1>2 DEF NextMaximum
<1>4. BalanceTypeOK'
  BY <1>3 DEF BalanceTypeOK
<1>5. TurnsKept'
  BY DEF TurnsKept
<1>6. JobsWithinMaximum'
  <2>. SUFFICES ASSUME NEW w \in VM
                PROVE  vm_load(w)' + Pending(w)' <= max_guest_job'
    BY DEF JobsWithinMaximum
  <2>1. vm_load(w)' = vm_load(w)
    BY DEF vm_load, JobsOn
  <2>2. vm_load(w) \in Nat /\ vm_load(w) <= max_guest_job
    BY LoadType DEF JobsWithinMaximum, Pending
  <2>3. Pending(w)' = IF w = v THEN 1 ELSE 0
    BY DEF Pending
  <2>. QED  BY <1>1, <1>3, <2>1, <2>2, <2>3
<1>7. MaximumFollowsJobs'
  <2>1. max_guest_job <= 2 * (1 + created)
    BY <1>1 DEF MaximumFollowsJobs
  <2>2. max_guest_job' <= 2 * (2 + created)
    BY <1>1, <1>2, <2>1 DEF NextMaximum
  <2>. QED  BY <1>1, <2>2 DEF MaximumFollowsJobs
<1>. QED  BY <1>4, <1>5, <1>6, <1>7

(* The creation of a task turns the pending job of its VM into a real one. *)
LEMMA CreateTaskKeepsInv ==
    ASSUME BalanceInv, CreateTask PROVE BalanceInv'
<1>. USE DEF BalanceInv, CreateTask
<1>1. /\ created \in Task /\ created \in Nat /\ created < NUMBER_OF_PROCESS
      /\ NUMBER_OF_PROCESS \in Nat
      /\ task[created] = "none"
  BY TaskAssumption DEF BalanceTypeOK, TurnsKept, Task
<1>2. BalanceTypeOK'
  <2>1. created' \in 0 .. NUMBER_OF_PROCESS
    BY <1>1
  <2>2. task' \in [Task -> {"none", "running", "leaving", "gone"}]
    BY <1>1 DEF BalanceTypeOK
  <2>3. home' \in [Task -> VM]
    BY <1>1 DEF BalanceTypeOK
  <2>4. need[created].memory \in Nat /\ need[created].net \in Nat
    BY <1>1, NeedType
  <2>5. mem' \in [VM -> Int] /\ net' \in [VM -> Int]
    BY <2>4 DEF BalanceTypeOK
  <2>6. creator' \in {"boot", "arriving", "asking", "waiting", "done"}
    OBVIOUS
  <2>7. balancer' \in {"receiving", "responding", "exited"}
    OBVIOUS
  <2>. QED  BY <2>1, <2>2, <2>3, <2>5, <2>6, <2>7 DEF BalanceTypeOK
<1>3. TurnsKept'
  BY <1>1 DEF TurnsKept, BalanceTypeOK, Task
<1>4. JobsWithinMaximum'
  <2>. SUFFICES ASSUME NEW w \in VM
                PROVE  vm_load(w)' + Pending(w)' <= max_guest_job
    BY DEF JobsWithinMaximum
  <2>1. vm_load(w) + Pending(w) <= max_guest_job /\ max_guest_job \in Nat
    BY DEF JobsWithinMaximum, BalanceTypeOK
  <2>2. IsFiniteSet(JobsOn(w)) /\ Cardinality(JobsOn(w)) \in Nat
    BY JobsCount
  <2>3. Pending(w)' = 0
    BY DEF Pending
  <2>4. CASE w = selected_vm_number
    <3>1. JobsOn(w)' = JobsOn(w) \cup {created} /\ created \notin JobsOn(w)
      BY <1>1, <2>4 DEF JobsOn, BalanceTypeOK
    <3>2. Cardinality(JobsOn(w)') = Cardinality(JobsOn(w)) + 1
      BY <2>2, <3>1, FS_AddElement
    <3>3. Pending(w) = 1
      BY <2>4 DEF Pending
    <3>. QED  BY <2>1, <2>2, <2>3, <3>2, <3>3 DEF vm_load
  <2>5. CASE w # selected_vm_number
    <3>1. JobsOn(w)' = JobsOn(w)
      BY <1>1, <2>5 DEF JobsOn, BalanceTypeOK
    <3>2. Pending(w) = 0
      BY <2>5 DEF Pending
    <3>. QED  BY <2>1, <2>2, <2>3, <3>1, <3>2 DEF vm_load
  <2>. QED  BY <2>4, <2>5
<1>5. MaximumFollowsJobs'
  BY <1>1 DEF MaximumFollowsJobs, BalanceTypeOK
<1>. QED  BY <1>2, <1>3, <1>4, <1>5

(* The steps that end a task or a mailbox process, and the balancer's.     *)
LEMMA EndingKeepsInv ==
    ASSUME BalanceInv,
           \/ \E t \in Task : ReportFin(t) \/ Leave(t)
           \/ \E v \in VM : CloseMailbox(v)
           \/ StopBalancer
    PROVE  BalanceInv'
<1>. USE DEF BalanceInv
<1>1. BalanceTypeOK'
  <2>1. ASSUME NEW t \in Task, ReportFin(t) PROVE BalanceTypeOK'
    BY <2>1 DEF ReportFin, BalanceTypeOK
  <2>2. ASSUME NEW t \in Task, Leave(t) PROVE BalanceTypeOK'
    <3>1. PICK n \in Recomputed(need[t]) :
             /\ mem' = [mem EXCEPT ![home[t]] = @ - n.memory]
             /\ net' = [net EXCEPT ![home[t]] = @ - n.net]
      BY <2>2 DEF Leave
    <3>2. n.memory \in Int /\ n.net \in Int
      BY RecomputedType
    <3>3. mem' \in [VM -> Int] /\ net' \in [VM -> Int]
      BY <3>1, <3>2 DEF BalanceTypeOK
    <3>. QED  BY <2>2, <3>3 DEF Leave, BalanceTypeOK
  <2>3. ASSUME NEW v \in VM, CloseMailbox(v) PROVE BalanceTypeOK'
    BY <2>3 DEF CloseMailbox, BalanceTypeOK
  <2>4. CASE StopBalancer
    BY <2>4 DEF StopBalancer, BalanceTypeOK
  <2>. QED  BY <2>1, <2>2, <2>3, <2>4
<1>2. /\ created' = created /\ creator' = creator
      /\ selected_vm_number' = selected_vm_number
      /\ max_guest_job' = max_guest_job
      /\ home' = home
      /\ \A t \in Task : task'[t] = task[t] \/ task[t] \in {"running", "leaving"}
      /\ \A t \in Task : task'[t] \in {"running", "leaving"}
                           => task[t] \in {"running", "leaving"}
      /\ \A v \in VM : mailbox'[v] = "listening" => mailbox[v] = "listening"
      /\ balancer' = "responding" <=> balancer = "responding"
  BY DEF ReportFin, Leave, CloseMailbox, StopBalancer, BalanceTypeOK
<1>3. TurnsKept'
  BY <1>2 DEF TurnsKept
<1>4. JobsWithinMaximum'
  <2>. SUFFICES ASSUME NEW v \in VM
                PROVE  vm_load(v)' + Pending(v)' <= max_guest_job
    BY <1>2 DEF JobsWithinMaximum
  <2>1. JobsOn(v)' \subseteq JobsOn(v)
    BY <1>2 DEF JobsOn
  <2>2. vm_load(v)' \in Nat /\ vm_load(v)' <= vm_load(v)
    BY <1>2, <2>1, LoadShrinks
  <2>3. Pending(v)' = Pending(v) /\ Pending(v) \in Nat
    BY <1>2 DEF Pending
  <2>4. vm_load(v) \in Nat
    BY LoadType
  <2>5. vm_load(v) + Pending(v) <= max_guest_job /\ max_guest_job \in Nat
    BY DEF JobsWithinMaximum, BalanceTypeOK
  <2>. QED  BY <2>2, <2>3, <2>4, <2>5
<1>5. MaximumFollowsJobs'
  BY <1>2 DEF MaximumFollowsJobs
<1>. QED  BY <1>1, <1>3, <1>4, <1>5

(* So every step of create_tasks, the balancer and the tasks keeps the     *)
(* invariant.                                                              *)
LEMMA BalanceInvInductive == BalanceInv /\ [BalanceNext]_balanceVars => BalanceInv'
<1>. SUFFICES ASSUME BalanceInv, [BalanceNext]_balanceVars
              PROVE  BalanceInv'
  OBVIOUS
<1>1. CASE CreateMailboxes
  BY <1>1, CreateMailboxesKeepsInv
<1>2. ASSUME NEW n \in Need, Arrive(n) PROVE BalanceInv'
  BY <1>2, ArriveKeepsInv
<1>3. ASSUME NEW v \in VM, Decide(v) PROVE BalanceInv'
  BY <1>3, DecideKeepsInv
<1>4. CASE CreateTask
  BY <1>4, CreateTaskKeepsInv
<1>5. CASE \/ \E t \in Task : ReportFin(t) \/ Leave(t)
           \/ \E v \in VM : CloseMailbox(v)
           \/ StopBalancer
  BY <1>5, EndingKeepsInv
<1>6. CASE UNCHANGED balanceVars
  BY <1>6 DEF balanceVars, BalanceInv, BalanceTypeOK, TurnsKept,
     JobsWithinMaximum, MaximumFollowsJobs, vm_load, JobsOn, Pending
<1>. QED  BY <1>1, <1>2, <1>3, <1>4, <1>5, <1>6 DEF BalanceNext

(* The inductive invariant holds of every behaviour of the balancer and    *)
(* create_tasks.                                                           *)
THEOREM BalanceInvariant == BalanceSpec => []BalanceInv
<1>. QED  BY BalanceInitially, BalanceInvInductive, PTL DEF BalanceSpec

(* The variables of the balancer and create_tasks keep their types.        *)
THEOREM BalanceTypeCorrect == BalanceSpec => []BalanceTypeOK
<1>1. BalanceInv => BalanceTypeOK
  BY DEF BalanceInv
<1>. QED  BY <1>1, BalanceInvariant, PTL

(* However many tasks are created and end, and wherever they are put, no   *)
(* VM ever runs more processes than max_guest_job.                         *)
THEOREM JobsWithinMaximumAlways == BalanceSpec => []JobsWithinMaximum
<1>1. BalanceInv => JobsWithinMaximum
  BY DEF BalanceInv
<1>. QED  BY <1>1, BalanceInvariant, PTL

(* max_guest_job stays below twice the number of tasks created, and so     *)
(* within an int.                                                          *)
THEOREM MaximumFollowsJobsAlways == BalanceSpec => []MaximumFollowsJobs
<1>1. BalanceInv => MaximumFollowsJobs
  BY DEF BalanceInv
<1>. QED  BY <1>1, BalanceInvariant, PTL
-----------------------------------------------------------------------------
(* Sums over sets                                                          *)

(* The element of a set that a fold takes first.                           *)
Pick(s) == CHOOSE x \in s : TRUE

(* g has the sums of f over all subsets of s, as a fold computes them.     *)
Sums(g, f, s) ==
    g = [r \in SUBSET s |->
            IF r = {} THEN 0 ELSE f[Pick(r)] + g[r \ {Pick(r)}]]

(* A collection of finite sets has a least one.                            *)
LEMMA LeastSet ==
    ASSUME NEW S, IsFiniteSet(S), NEW C \in SUBSET (SUBSET S), C # {}
    PROVE  \E s \in C : \A r \in C : r \subseteq s => r = s
<1>1. IsWellFoundedOn(StrictSubsetOrdering(S), SUBSET S)
  BY FS_StrictSubsetOrderingWellFounded, FS_FiniteSubsetsOfFinite
<1>2. PICK s \in C : \A r \in C : <<r, s>> \notin StrictSubsetOrdering(S)
  BY <1>1, WFMin
<1>. QED  BY <1>2 DEF StrictSubsetOrdering

(* One step of a fold.                                                     *)
LEMMA SumsStep ==
    ASSUME NEW g, NEW f, NEW s, Sums(g, f, s), NEW r \in SUBSET s
    PROVE  g[r] = IF r = {} THEN 0 ELSE f[Pick(r)] + g[r \ {Pick(r)}]
BY DEF Sums

(* Folds over different sets agree on what both have.                      *)
LEMMA SumsAgree ==
    ASSUME NEW S, IsFiniteSet(S), NEW f, NEW s, NEW r, NEW g, NEW h,
           Sums(g, f, S), Sums(h, f, s), r \subseteq S, r \subseteq s
    PROVE  g[r] = h[r]
<1>. DEFINE C == {c \in SUBSET S : c \subseteq s /\ g[c] # h[c]}
<1>. SUFFICES ASSUME C # {} PROVE FALSE
  OBVIOUS
<1>1. PICK c \in C : \A d \in C : d \subseteq c => d = c
  <2>1. C \in SUBSET (SUBSET S)
    OBVIOUS
  <2>. HIDE DEF C
  <2>. QED  BY <2>1, LeastSet
<1>2. c # {}
  BY SumsStep
<1>3. Pick(c) \in c
  BY <1>2 DEF Pick
<1>4. c \ {Pick(c)} \notin C
  BY <1>1, <1>3
<1>5. g[c \ {Pick(c)}] = h[c \ {Pick(c)}]
  BY <1>4
<1>. QED  BY <1>2, <1>5, SumsStep

(* Every finite set has a fold.                                            *)
LEMMA SumsExist ==
    ASSUME NEW S, IsFiniteSet(S), NEW f
    PROVE  \E g : Sums(g, f, S)
<1>. DEFINE C == {c \in SUBSET S : ~ \E g : Sums(g, f, c)}
<1>. SUFFICES ASSUME C # {} PROVE FALSE
  OBVIOUS
<1>1. PICK s \in C : \A d \in C : d \subseteq s => d = s
  <2>1. C \in SUBSET (SUBSET S)
    OBVIOUS
  <2>. HIDE DEF C
  <2>. QED  BY <2>1, LeastSet
<1>. DEFINE G(x) == CHOOSE g : Sums(g, f, s \ {x})
<1>2. \A x \in s : Sums(G(x), f, s \ {x})
  <2>. TAKE x \in s
  <2>1. s \ {x} \notin C
    BY <1>1
  <2>. QED  BY <2>1
<1>. DEFINE h == [r \in SUBSET s |->
                    IF r = {} THEN 0 ELSE f[Pick(r)] + G(Pick(r))[r \ {Pick(r)}]]
<1>. HIDE DEF G
<1>3. ASSUME NEW r \in SUBSET s, r # {}
      PROVE  h[r \ {Pick(r)}] = G(Pick(r))[r \ {Pick(r)}]
  <2>. DEFINE p == Pick(r)
              d == r \ {p}
  <2>1. p \in r
    BY <1>3 DEF Pick
  <2>2. Sums(G(p), f, s \ {p}) /\ d \subseteq s \ {p} /\ d \subseteq s
    BY <1>2, <2>1
  <2>3. CASE d = {}
    <3>1. G(p)[d] = 0
      BY <2>2, <2>3, SumsStep
    <3>. QED  BY <2>2, <2>3, <3>1
  <2>4. CASE d # {}
    <3>. DEFINE q == Pick(d)
    <3>1. q \in d
      BY <2>4 DEF Pick
    <3>2. Sums(G(q), f, s \ {q}) /\ d \ {q} \subseteq s \ {q}
      BY <1>2, <2>2, <3>1
    <3>3. IsFiniteSet(s \ {p})
      BY FS_Subset
    <3>4. d \ {q} \subseteq s \ {p}
      BY <2>2
    <3>. HIDE DEF p, q, d, h
    <3>5. G(p)[d \ {q}] = G(q)[d \ {q}]
      BY <2>2, <3>2, <3>3, <3>4, SumsAgree
    <3>6. G(p)[d] = f[q] + G(p)[d \ {q}]
      BY <2>2, <2>4, SumsStep DEF q
    <3>7. h[d] = f[q] + G(q)[d \ {q}]
      BY <2>2, <2>4 DEF h, q
    <3>8. h[d] = G(p)[d]
      BY <3>5, <3>6, <3>7
    <3>. QED  BY <3>8 DEF p, d
  <2>. QED  BY <2>3, <2>4
<1>4. Sums(h, f, s)
  <2>1. \A r \in SUBSET s : h[r] = IF r = {} THEN 0 ELSE f[Pick(r)] + h[r \ {Pick(r)}]
    BY <1>3
  <2>. HIDE DEF h
  <2>2. h = [r \in SUBSET s |-> h[r]]
    BY DEF h
  <2>. QED  BY <2>1, <2>2 DEF Sums
<1>. HIDE DEF h
<1>. QED  BY <1>1, <1>4

(* The sum over a set is what its fold computes.                           *)
LEMMA SumIsFold ==
    ASSUME NEW S, IsFiniteSet(S), NEW f
    PROVE  \E g : Sums(g, f, S) /\ SumFunctionOnSet(f, S) = g[S]
<1>. DEFINE E(g) == [r \in SUBSET S |->
            IF r = {} THEN 0 ELSE f[Pick(r)] + g[r \ {Pick(r)}]]
            g == CHOOSE g : g = E(g)
<1>1. SumFunctionOnSet(f, S) = g[S]
  BY DEF SumFunctionOnSet, FoldFunctionOnSet, MapThenFoldSet, Pick
<1>2. \E h : h = E(h)
  <2>1. PICK h : Sums(h, f, S)
    BY SumsExist
  <2>2. h = E(h)
    BY <2>1 DEF Sums
  <2>. QED  BY <2>2
<1>. HIDE DEF E
<1>3. g = E(g)
  BY <1>2
<1>4. Sums(g, f, S)
  BY <1>3 DEF E, Sums
<1>. HIDE DEF g
<1>. QED  BY <1>1, <1>4

(* The first element of a sum.                                             *)
LEMMA SumFirst ==
    ASSUME NEW S, IsFiniteSet(S), NEW f
    PROVE  /\ SumFunctionOnSet(f, {}) = 0
           /\ S # {} => /\ Pick(S) \in S
                        /\ SumFunctionOnSet(f, S) = f[Pick(S)] + SumFunctionOnSet(f, S \ {Pick(S)})
<1>1. SumFunctionOnSet(f, {}) = 0
  <2>1. PICK g : Sums(g, f, {}) /\ SumFunctionOnSet(f, {}) = g[{}]
    BY SumIsFold, FS_EmptySet
  <2>. QED  BY <2>1, SumsStep
<1>2. ASSUME S # {}
      PROVE  SumFunctionOnSet(f, S) = f[Pick(S)] + SumFunctionOnSet(f, S \ {Pick(S)})
  <2>. DEFINE d == S \ {Pick(S)}
  <2>1. PICK g : Sums(g, f, S) /\ SumFunctionOnSet(f, S) = g[S]
    BY SumIsFold
  <2>2. IsFiniteSet(d)
    BY FS_Subset
  <2>3. PICK h : Sums(h, f, d) /\ SumFunctionOnSet(f, d) = h[d]
    BY <2>2, SumIsFold
  <2>4. g[d] = h[d]
    BY <2>1, <2>3, SumsAgree
  <2>5. g[S] = f[Pick(S)] + g[d]
    BY <1>2, <2>1, SumsStep
  <2>. QED  BY <2>1, <2>3, <2>4, <2>5
<1>. QED  BY <1>1, <1>2 DEF Pick

(* Sums of numbers are numbers.                                            *)
LEMMA SumType ==
    ASSUME NEW S, IsFiniteSet(S), NEW f, \A x \in S : f[x] \in Nat
    PROVE  SumFunctionOnSet(f, S) \in Nat
<1>. DEFINE C == {c \in SUBSET S : SumFunctionOnSet(f, c) \notin Nat}
<1>. SUFFICES ASSUME C # {} PROVE FALSE
  OBVIOUS
<1>1. PICK s \in C : \A d \in C : d \subseteq s => d = s
  <2>1. C \in SUBSET (SUBSET S)
    OBVIOUS
  <2>. HIDE DEF C
  <2>. QED  BY <2>1, LeastSet
<1>2. IsFiniteSet(s)
  BY FS_Subset
<1>3. s # {} /\ Pick(s) \in s
        /\ SumFunctionOnSet(f, s) = f[Pick(s)] + SumFunctionOnSet(f, s \ {Pick(s)})
  <2>0. SumFunctionOnSet(f, {}) = 0
    BY <1>2, SumFirst
  <2>1. s # {}
    <3>1. SumFunctionOnSet(f, s) \notin Nat
      BY <1>1
    <3>2. SumFunctionOnSet(f, {}) \in Nat
      BY <2>0
    <3>. QED  BY <3>1, <3>2
  <2>. QED  BY <2>1, SumFirst, <1>2
<1>4. SumFunctionOnSet(f, s \ {Pick(s)}) \in Nat
  BY <1>1, <1>3
<1>. QED  BY <1>3, <1>4

(* Any element of a sum may be taken first.                                *)
LEMMA SumRemove ==
    ASSUME NEW S, IsFiniteSet(S), NEW f, \A x \in S : f[x] \in Nat, NEW x \in S
    PROVE  SumFunctionOnSet(f, S) = f[x] + SumFunctionOnSet(f, S \ {x})
<1>. DEFINE Sum(s) == SumFunctionOnSet(f, s)
            C == {c \in SUBSET S : \E y \in c : Sum(c) # f[y] + Sum(c \ {y})}
<1>0. \A s \in SUBSET S :
         /\ IsFiniteSet(s) /\ Sum(s) \in Nat
         /\ s # {} => Pick(s) \in s /\ Sum(s) = f[Pick(s)] + Sum(s \ {Pick(s)})
  BY FS_Subset, SumType, SumFirst
<1>. HIDE DEF Sum
<1>. SUFFICES ASSUME C # {} PROVE FALSE
  BY DEF Sum
<1>1. PICK s \in C : \A d \in C : d \subseteq s => d = s
  <2>1. C \in SUBSET (SUBSET S)
    OBVIOUS
  <2>. HIDE DEF C
  <2>. QED  BY <2>1, LeastSet
<1>2. PICK y \in s : Sum(s) # f[y] + Sum(s \ {y})
  OBVIOUS
<1>. DEFINE p == Pick(s)
<1>3. p \in s /\ Sum(s) = f[p] + Sum(s \ {p}) /\ p # y
  BY <1>0, <1>2
<1>. HIDE DEF p
<1>4. s \ {p} \notin C /\ s \ {y} \notin C
  BY <1>1, <1>2, <1>3
<1>5. Sum(s \ {p}) = f[y] + Sum((s \ {p}) \ {y})
  BY <1>2, <1>3, <1>4
<1>6. Sum(s \ {y}) = f[p] + Sum((s \ {y}) \ {p})
  BY <1>2, <1>3, <1>4
<1>7. (s \ {p}) \ {y} = (s \ {y}) \ {p}
  OBVIOUS
<1>8. f[p] \in Nat /\ f[y] \in Nat /\ Sum((s \ {p}) \ {y}) \in Nat
  BY <1>0, <1>2, <1>3
<1>. QED  BY <1>2, <1>3, <1>5, <1>6, <1>7, <1>8

(* A sum depends on the values at its elements only.                       *)
LEMMA SumSame ==
    ASSUME NEW S, IsFiniteSet(S), NEW f, NEW g, \A x \in S : f[x] = g[x]
    PROVE  SumFunctionOnSet(f, S) = SumFunctionOnSet(g, S)
<1>. DEFINE C == {c \in SUBSET S : SumFunctionOnSet(f, c) # SumFunctionOnSet(g, c)}
<1>. SUFFICES ASSUME C # {} PROVE FALSE
  OBVIOUS
<1>1. PICK s \in C : \A d \in C : d \subseteq s => d = s
  <2>1. C \in SUBSET (SUBSET S)
    OBVIOUS
  <2>. HIDE DEF C
  <2>. QED  BY <2>1, LeastSet
<1>2. IsFiniteSet(s)
  BY FS_Subset
<1>3. s # {}
  BY SumFirst, <1>2
<1>4. /\ Pick(s) \in s
      /\ SumFunctionOnSet(f, s) = f[Pick(s)] + SumFunctionOnSet(f, s \ {Pick(s)})
      /\ SumFunctionOnSet(g, s) = g[Pick(s)] + SumFunctionOnSet(g, s \ {Pick(s)})
  BY <1>2, <1>3, SumFirst
<1>5. s \ {Pick(s)} \notin C
  BY <1>1, <1>4
<1>. QED  BY <1>1, <1>4, <1>5

(* The sum of equal values grows with the number of elements.              *)
LEMMA SumOfEqual ==
    ASSUME NEW S, IsFiniteSet(S), NEW f, NEW n \in Nat, \A x \in S : f[x] = n
    PROVE  SumFunctionOnSet(f, S) = n * Cardinality(S)
<1>. DEFINE C == {c \in SUBSET S : SumFunctionOnSet(f, c) # n * Cardinality(c)}
<1>. SUFFICES ASSUME C # {} PROVE FALSE
  OBVIOUS
<1>1. PICK s \in C : \A d \in C : d \subseteq s => d = s
  <2>1. C \in SUBSET (SUBSET S)
    OBVIOUS
  <2>. HIDE DEF C
  <2>. QED  BY <2>1, LeastSet
<1>2. IsFiniteSet(s)
  BY FS_Subset
<1>3. s # {}
  BY SumFirst, <1>2, FS_EmptySet
<1>. DEFINE p == Pick(s)
            k == Cardinality(s \ {p})
<1>4. p \in s /\ SumFunctionOnSet(f, s) = f[p] + SumFunctionOnSet(f, s \ {p})
  BY <1>2, <1>3, SumFirst
<1>. HIDE DEF p
<1>5. s \ {p} \notin C
  BY <1>1, <1>4
<1>6. IsFiniteSet(s \ {p}) /\ k \in Nat /\ Cardinality(s) = k + 1
  <2>1. IsFiniteSet(s \ {p}) /\ k = Cardinality(s) - 1
    BY <1>2, <1>4, FS_RemoveElement
  <2>2. Cardinality(s) \in Nat /\ k \in Nat
    BY <1>2, <2>1, FS_CardinalityType
  <2>. QED  BY <2>1, <2>2
<1>7. SumFunctionOnSet(f, s) = n + n * k
  BY <1>4, <1>5
<1>. HIDE DEF k
<1>8. n + n * k = n * (k + 1)
  BY <1>6
<1>. QED  BY <1>1, <1>6, <1>7, <1>8

-----------------------------------------------------------------------------
(* The use of a VM                                                         *)

MemoryOf == [t \in Task |-> need[t].memory]
NetOf == [t \in Task |-> need[t].net]

(* The use of VM v is what the tasks on it need, up to the residue.        *)
Accounted(v) ==
    /\ mem[v] - SumFunctionOnSet(MemoryOf, JobsOn(v)) \in -Residue(v) .. Residue(v)
    /\ net[v] - SumFunctionOnSet(NetOf, JobsOn(v)) \in -Residue(v) .. Residue(v)

(* The residue is a number, and there is none before a task has left.      *)
LEMMA ResidueType ==
    ASSUME NEW v \in VM
    PROVE  /\ IsFiniteSet(GoneFrom(v)) /\ Cardinality(GoneFrom(v)) \in Nat
           /\ Residue(v) \in Nat
           /\ GoneFrom(v) = {} => Residue(v) = 0
<1>1. Rounding \in Nat /\ NUMBER_OF_PROCESS \in Nat
  BY TaskAssumption
<1>2. IsFiniteSet(Task)
  BY <1>1, FS_Interval DEF Task
<1>3. IsFiniteSet(GoneFrom(v)) /\ Cardinality(GoneFrom(v)) \in Nat
  BY <1>2, FS_Subset, FS_CardinalityType DEF GoneFrom
<1>4. \A k \in Nat : Rounding * k \in Nat
  BY <1>1
<1>5. Rounding * 0 = 0
  BY <1>1
<1>. QED  BY <1>3, <1>4, <1>5, FS_EmptySet DEF Residue

(* The next task to leave a VM adds once to its residue.                   *)
LEMMA ResidueGrows ==
    ASSUME NEW v \in VM, NEW t, t \notin GoneFrom(v),
           GoneFrom(v)' = GoneFrom(v) \cup {t}
    PROVE  Residue(v)' = Residue(v) + Rounding
<1>. DEFINE k == Cardinality(GoneFrom(v))
<1>1. k \in Nat /\ Cardinality(GoneFrom(v)') = k + 1
  BY ResidueType, FS_AddElement
<1>2. Rounding \in Nat
  BY TaskAssumption
<1>3. Residue(v)' = Rounding * (k + 1) /\ Residue(v) = Rounding * k
  BY <1>1 DEF Residue
<1>. HIDE DEF k
<1>. QED  BY <1>1, <1>2, <1>3

(* What the tasks of a VM need are numbers.                                *)
LEMMA UseType ==
    ASSUME BalanceTypeOK, TurnsKept, NEW v \in VM
    PROVE  /\ IsFiniteSet(JobsOn(v)) /\ JobsOn(v) \subseteq Task
           /\ \A t \in Task : MemoryOf[t] = need[t].memory /\ MemoryOf[t] \in Nat
                              /\ NetOf[t] = need[t].net /\ NetOf[t] \in Nat
BY JobsCount, NeedType DEF MemoryOf, NetOf, JobsOn

(* The use of a VM stays accounted for while its tasks and their needs     *)
(* stay as they are.                                                       *)
LEMMA UseUntouched ==
    ASSUME BalanceTypeOK, TurnsKept, NEW v \in VM, Accounted(v),
           JobsOn(v)' = JobsOn(v), mem'[v] = mem[v], net'[v] = net[v],
           GoneFrom(v)' = GoneFrom(v),
           \A t \in JobsOn(v) : need'[t] = need[t]
    PROVE  Accounted(v)'
<1>1. /\ IsFiniteSet(JobsOn(v))
      /\ \A t \in JobsOn(v) : MemoryOf'[t] = MemoryOf[t] /\ NetOf'[t] = NetOf[t]
  BY UseType DEF MemoryOf, NetOf
<1>2. /\ SumFunctionOnSet(MemoryOf', JobsOn(v)) = SumFunctionOnSet(MemoryOf, JobsOn(v))
      /\ SumFunctionOnSet(NetOf', JobsOn(v)) = SumFunctionOnSet(NetOf, JobsOn(v))
  BY <1>1, SumSame
<1>3. Residue(v)' = Residue(v)
  BY DEF Residue
<1>. QED  BY <1>2, <1>3 DEF Accounted

(* A new task adds its needs to the use of its VM ...                      *)
LEMMA UseGrows ==
    ASSUME BalanceInv, NEW v \in VM, Accounted(v), CreateTask
    PROVE  Accounted(v)'
<1>. DEFINE c == created
<1>0. BalanceTypeOK /\ TurnsKept /\ BalanceInv'
  BY CreateTaskKeepsInv DEF BalanceInv
<1>1. /\ c \in Task /\ task[c] = "none" /\ need' = need
      /\ task' = [task EXCEPT ![c] = "running"]
      /\ home' = [home EXCEPT ![c] = selected_vm_number]
  BY <1>0, TaskAssumption DEF CreateTask, BalanceTypeOK, TurnsKept, Task
<1>. HIDE DEF c
<1>4. GoneFrom(v)' = GoneFrom(v)
  BY <1>0, <1>1 DEF GoneFrom, BalanceTypeOK
<1>5. Residue(v)' = Residue(v) /\ Residue(v) \in Nat
  BY <1>4, ResidueType DEF Residue
<1>2. CASE v # selected_vm_number
  <2>1. JobsOn(v)' = JobsOn(v)
    BY <1>0, <1>1, <1>2 DEF JobsOn, BalanceTypeOK
  <2>2. mem'[v] = mem[v] /\ net'[v] = net[v]
    BY <1>0, <1>2 DEF CreateTask, BalanceTypeOK
  <2>. QED  BY <1>0, <1>1, <1>4, <2>1, <2>2, UseUntouched
<1>3. CASE v = selected_vm_number
  <2>1. JobsOn(v)' = JobsOn(v) \cup {c} /\ c \notin JobsOn(v)
    BY <1>0, <1>1, <1>3 DEF JobsOn, BalanceTypeOK
  <2>2. mem'[v] = mem[v] + need[c].memory /\ net'[v] = net[v] + need[c].net
    BY <1>0, <1>3 DEF CreateTask, BalanceTypeOK, c
  <2>3. MemoryOf' = MemoryOf /\ NetOf' = NetOf
    BY <1>1 DEF MemoryOf, NetOf
  <2>4. /\ IsFiniteSet(JobsOn(v)')
        /\ \A t \in JobsOn(v)' : MemoryOf[t] \in Nat /\ NetOf[t] \in Nat
        /\ MemoryOf[c] = need[c].memory /\ NetOf[c] = need[c].net
    <3>1. IsFiniteSet(JobsOn(v)) /\ JobsOn(v)' \subseteq Task
      BY <1>0, <1>1, <2>1, UseType
    <3>2. IsFiniteSet(JobsOn(v)')
      BY <3>1, <2>1, FS_AddElement
    <3>. QED  BY <1>0, <1>1, <3>1, <3>2, UseType
  <2>5. c \in JobsOn(v)' /\ JobsOn(v)' \ {c} = JobsOn(v)
    BY <2>1
  <2>6. /\ SumFunctionOnSet(MemoryOf, JobsOn(v)')
              = MemoryOf[c] + SumFunctionOnSet(MemoryOf, JobsOn(v))
        /\ SumFunctionOnSet(NetOf, JobsOn(v)')
              = NetOf[c] + SumFunctionOnSet(NetOf, JobsOn(v))
    BY <2>4, <2>5, SumRemove
  <2>7. mem[v] \in Int /\ net[v] \in Int /\ need[c].memory \in Nat /\ need[c].net \in Nat
    BY <1>0, <1>1, NeedType DEF BalanceTypeOK
  <2>8. /\ SumFunctionOnSet(MemoryOf, JobsOn(v)) \in Nat
        /\ SumFunctionOnSet(NetOf, JobsOn(v)) \in Nat
    BY <1>0, UseType, SumType
  <2>9. /\ mem'[v] - SumFunctionOnSet(MemoryOf', JobsOn(v)')
              = mem[v] - SumFunctionOnSet(MemoryOf, JobsOn(v))
        /\ net'[v] - SumFunctionOnSet(NetOf', JobsOn(v)')
              = net[v] - SumFunctionOnSet(NetOf, JobsOn(v))
    BY <2>2, <2>3, <2>4, <2>6, <2>7, <2>8
  <2>. QED  BY <1>5, <2>9 DEF Accounted
<1>. QED  BY <1>2, <1>3

(* ... and takes them back, up to rounding, when it leaves.                *)
LEMMA UseShrinks ==
    ASSUME BalanceInv, NEW v \in VM, Accounted(v), NEW t \in Task, Leave(t)
    PROVE  Accounted(v)'
<1>0. /\ BalanceTypeOK /\ TurnsKept
      /\ task[t] = "leaving" /\ need' = need /\ home' = home
      /\ task' = [task EXCEPT ![t] = "gone"]
  BY DEF BalanceInv, Leave
<1>1. CASE v # home[t]
  <2>1. JobsOn(v)' = JobsOn(v) /\ GoneFrom(v)' = GoneFrom(v)
    BY <1>0, <1>1 DEF JobsOn, GoneFrom, BalanceTypeOK
  <2>2. mem'[v] = mem[v] /\ net'[v] = net[v]
    BY <1>0, <1>1 DEF Leave, BalanceTypeOK
  <2>. QED  BY <1>0, <2>1, <2>2, UseUntouched
<1>2. CASE v = home[t]
  <2>1. t \in JobsOn(v) /\ JobsOn(v)' = JobsOn(v) \ {t}
    BY <1>0, <1>2 DEF JobsOn, BalanceTypeOK
  <2>2. PICK n \in Recomputed(need[t]) :
           mem'[v] = mem[v] - n.memory /\ net'[v] = net[v] - n.net
    BY <1>0, <1>2 DEF Leave, BalanceTypeOK
  <2>3. MemoryOf' = MemoryOf /\ NetOf' = NetOf
    BY <1>0 DEF MemoryOf, NetOf
  <2>4. /\ SumFunctionOnSet(MemoryOf, JobsOn(v))
              = MemoryOf[t] + SumFunctionOnSet(MemoryOf, JobsOn(v)')
        /\ SumFunctionOnSet(NetOf, JobsOn(v))
              = NetOf[t] + SumFunctionOnSet(NetOf, JobsOn(v)')
    BY <1>0, <2>1, UseType, SumRemove
  <2>5. /\ SumFunctionOnSet(MemoryOf, JobsOn(v)') \in Nat
        /\ SumFunctionOnSet(NetOf, JobsOn(v)') \in Nat
    <3>1. /\ IsFiniteSet(JobsOn(v)')
          /\ \A u \in JobsOn(v)' : MemoryOf[u] \in Nat /\ NetOf[u] \in Nat
      BY <1>0, <2>1, UseType, FS_Subset
    <3>. QED  BY <3>1, SumType
  <2>6. /\ need[t].memory \in Nat /\ MemoryOf[t] = need[t].memory
        /\ need[t].net \in Nat /\ NetOf[t] = need[t].net
    BY <1>0, UseType, NeedType
  <2>7. /\ n.memory \in Int /\ n.memory - need[t].memory \in -Rounding .. Rounding
        /\ n.net \in Int /\ n.net - need[t].net \in -Rounding .. Rounding
    BY <1>0, RecomputedType
  <2>8. mem[v] \in Int /\ net[v] \in Int /\ Residue(v) \in Nat /\ Rounding \in Nat
    BY <1>0, ResidueType, TaskAssumption DEF BalanceTypeOK
  <2>9. Residue(v)' = Residue(v) + Rounding
    <3>1. t \notin GoneFrom(v) /\ GoneFrom(v)' = GoneFrom(v) \cup {t}
      BY <1>0, <1>2 DEF GoneFrom, BalanceTypeOK
    <3>. QED  BY <3>1, ResidueGrows
  <2>10. mem'[v] - SumFunctionOnSet(MemoryOf', JobsOn(v)') \in -Residue(v)' .. Residue(v)'
    <3>1. mem[v] - SumFunctionOnSet(MemoryOf, JobsOn(v)) \in -Residue(v) .. Residue(v)
      BY DEF Accounted
    <3>. QED  BY <2>2, <2>3, <2>4, <2>5, <2>6, <2>7, <2>8, <2>9, <3>1
  <2>11. net'[v] - SumFunctionOnSet(NetOf', JobsOn(v)') \in -Residue(v)' .. Residue(v)'
    <3>1. net[v] - SumFunctionOnSet(NetOf, JobsOn(v)) \in -Residue(v) .. Residue(v)
      BY DEF Accounted
    <3>. QED  BY <2>2, <2>3, <2>4, <2>5, <2>6, <2>7, <2>8, <2>9, <3>1
  <2>. QED  BY <2>10, <2>11 DEF Accounted
<1>. QED  BY <1>1, <1>2

(* So every step keeps the use of every VM accounted for.                  *)
LEMMA UseKept ==
    BalanceInv /\ UseIsAccounted /\ [BalanceNext]_balanceVars => UseIsAccounted'
<1>. SUFFICES ASSUME BalanceInv, UseIsAccounted, [BalanceNext]_balanceVars,
                     NEW v \in VM
              PROVE  Accounted(v)'
  BY DEF UseIsAccounted, Accounted, MemoryOf, NetOf
<1>0. BalanceTypeOK /\ TurnsKept /\ Accounted(v)
  BY DEF BalanceInv, UseIsAccounted, Accounted, MemoryOf, NetOf
<1>1. CASE CreateTask
  BY <1>0, <1>1, UseGrows
<1>2. ASSUME NEW t \in Task, Leave(t) PROVE Accounted(v)'
  BY <1>0, <1>2, UseShrinks
<1>3. ASSUME NEW n \in Need, Arrive(n) PROVE Accounted(v)'
  <2>1. JobsOn(v)' = JobsOn(v) /\ GoneFrom(v)' = GoneFrom(v) /\ UNCHANGED <<mem, net>>
    BY <1>3 DEF Arrive, JobsOn, GoneFrom
  <2>2. \A t \in JobsOn(v) : t # created
    BY <1>0 DEF JobsOn, TurnsKept, BalanceTypeOK, Task
  <2>3. \A t \in JobsOn(v) : need'[t] = need[t]
    BY <1>0, <1>3, <2>2 DEF Arrive, BalanceTypeOK, JobsOn
  <2>. QED  BY <1>0, <2>1, <2>3, UseUntouched
<1>4. ASSUME NEW t \in Task, ReportFin(t) PROVE Accounted(v)'
  <2>1. /\ JobsOn(v)' = JobsOn(v) /\ GoneFrom(v)' = GoneFrom(v)
        /\ UNCHANGED <<mem, net, need>>
    BY <1>0, <1>4 DEF ReportFin, JobsOn, GoneFrom, BalanceTypeOK
  <2>. QED  BY <1>0, <2>1, UseUntouched
<1>5. CASE UNCHANGED <<task, home, need, mem, net>>
  <2>1. JobsOn(v)' = JobsOn(v) /\ GoneFrom(v)' = GoneFrom(v)
    BY <1>5 DEF JobsOn, GoneFrom
  <2>. QED  BY <1>0, <1>5, <2>1, UseUntouched
<1>. QED  BY <1>1, <1>2, <1>3, <1>4, <1>5 DEF BalanceNext, CreateMailboxes, Decide,
          StopBalancer, CloseMailbox, balanceVars

(* Nothing is used at the start.                                           *)
LEMMA UseInitially == BalanceInit => UseIsAccounted
<1>. SUFFICES ASSUME BalanceInit, NEW v \in VM PROVE Accounted(v)
  BY DEF UseIsAccounted, Accounted, MemoryOf, NetOf
<1>1. JobsOn(v) = {} /\ GoneFrom(v) = {} /\ mem[v] = 0 /\ net[v] = 0
  BY DEF BalanceInit, JobsOn, GoneFrom
<1>2. SumFunctionOnSet(MemoryOf, {}) = 0 /\ SumFunctionOnSet(NetOf, {}) = 0
  BY SumFirst, FS_EmptySet
<1>3. Residue(v) = 0
  BY <1>1, ResidueType
<1>. QED  BY <1>1, <1>2, <1>3 DEF Accounted

(* When every task is gone, every VM has got its use back, up to the       *)
(* residue, ...                                                            *)
LEMMA NothingUsed ==
    ASSUME BalanceTypeOK, UseIsAccounted, \A t \in Task : task[t] = "gone",
           NEW v \in VM
    PROVE  /\ mem[v] \in -Residue(v) .. Residue(v)
           /\ net[v] \in -Residue(v) .. Residue(v)
           /\ JobsOn(v) = {}
<1>1. JobsOn(v) = {}
  BY DEF JobsOn
<1>2. SumFunctionOnSet(MemoryOf, {}) = 0 /\ SumFunctionOnSet(NetOf, {}) = 0
  BY SumFirst, FS_EmptySet
<1>3. Accounted(v)
  BY DEF UseIsAccounted, Accounted, MemoryOf, NetOf
<1>4. mem[v] \in Int /\ net[v] \in Int
  BY DEF BalanceTypeOK
<1>. QED  BY <1>1, <1>2, <1>3, <1>4 DEF Accounted

(* ... and a task that is gone never comes back.                           *)
LEMMA GoneForGood ==
    ASSUME BalanceInv, [BalanceNext]_balanceVars, \A t \in Task : task[t] = "gone"
    PROVE  \A t \in Task : task'[t] = "gone"
<1>0. BalanceTypeOK /\ TurnsKept
  BY DEF BalanceInv
<1>1. CASE CreateTask
  <2>1. created \in Task /\ task[created] = "none"
    BY <1>0, <1>1, TaskAssumption DEF CreateTask, BalanceTypeOK, TurnsKept, Task
  <2>. QED  BY <2>1
<1>2. ASSUME NEW t \in Task, ReportFin(t) \/ Leave(t) PROVE FALSE
  BY <1>2 DEF ReportFin, Leave
<1>3. CASE UNCHANGED task
  BY <1>3
<1>. QED  BY <1>1, <1>2, <1>3 DEF BalanceNext, CreateMailboxes, Arrive, Decide,
          StopBalancer, CloseMailbox, balanceVars

(* The properties "mem" and "net" of a VM are the needs of the tasks on    *)
(* it: what was charged is given back, once, up to rounding.               *)
THEOREM UseIsAccountedAlways == BalanceSpec => []UseIsAccounted
<1>. QED  BY UseInitially, UseKept, BalanceInvariant, PTL DEF BalanceSpec
-----------------------------------------------------------------------------
(* Dealing out equal tasks                                                 *)

JobCount(v) == Cardinality(JobsOn(v))

(* No task has ended, and all that run need the same.                      *)
Alike ==
    /\ \A t \in Task : task[t] \in {"none", "running"}
    /\ \A t, u \in Task : task[t] = "running" /\ task[u] = "running"
                            => need[t] = need[u]

(* The mailbox processes of all VMs listen while tasks are outstanding.    *)
MailboxesKept ==
    creator # "boot" /\ ~AllReported => \A v \in VM : mailbox[v] = "listening"

(* The VM a decision is for has the fewest tasks until its task is there.  *)
DealKept ==
    Alike /\ balancer = "responding"
        => \A w \in VM : JobCount(selected_vm_number) <= JobCount(w)

(* The invariant from which the even deal follows.                         *)
EvenInv ==
    /\ BalanceInv /\ UseIsAccounted /\ MailboxesKept
    /\ DealKept
    /\ EvenlyDealt

(* Counting equal needs.                                                   *)
LEMMA MoreNeedMore ==
    ASSUME NEW m \in Nat, NEW a \in Nat, NEW b \in Nat, a <= b
    PROVE  m * a <= m * b
<1>1. b - a \in Nat /\ b = a + (b - a)
  OBVIOUS
<1>2. m * b = m * a + m * (b - a)
  BY <1>1
<1>3. m * (b - a) \in Nat /\ m * a \in Nat
  BY <1>1
<1>. QED  BY <1>2, <1>3

(* The VM that the balancer decides for has the fewest tasks: one with     *)
(* fewer would be used less in every respect.                              *)
LEMMA SelectionHasFewest ==
    ASSUME BalanceInv, UseIsAccounted, MailboxesKept, Alike, creator = "asking",
           NEW v \in VM, IsSelection(v), NEW w \in VM
    PROVE  JobCount(v) <= JobCount(w)
<1>0. BalanceTypeOK /\ TurnsKept
  BY DEF BalanceInv
<1>1. JobCount(v) \in Nat /\ JobCount(w) \in Nat
  BY <1>0, JobsCount DEF JobCount
<1>. SUFFICES ASSUME JobCount(w) < JobCount(v) PROVE FALSE
  BY <1>1
<1>2. mailbox[v] = "listening" /\ mailbox[w] = "listening"
  <2>1. created \in Task /\ task[created] = "none"
    BY <1>0, TaskAssumption DEF BalanceTypeOK, TurnsKept, Task
  <2>. QED  BY <2>1 DEF MailboxesKept, AllReported
<1>3. PICK t \in JobsOn(v) : TRUE
  <2>1. JobsOn(v) # {}
    BY <1>1, FS_EmptySet DEF JobCount
  <2>. QED  BY <2>1
<1>4. \A u \in JobsOn(v) \cup JobsOn(w) :
         u \in Task /\ need[u] = need[t]
  BY <1>3 DEF JobsOn, Alike
<1>5. /\ t \in Task /\ need[t].memory \in Nat /\ need[t].net \in Nat
      /\ \A u \in JobsOn(v) \cup JobsOn(w) :
            MemoryOf[u] = need[t].memory /\ NetOf[u] = need[t].net
  <2>1. t \in Task
    BY <1>3 DEF JobsOn
  <2>. QED  BY <1>0, <1>4, <2>1, NeedType DEF MemoryOf, NetOf
<1>6. /\ mem[v] = need[t].memory * JobCount(v)
      /\ mem[w] = need[t].memory * JobCount(w)
      /\ net[v] = need[t].net * JobCount(v)
      /\ net[w] = need[t].net * JobCount(w)
  <2>1. IsFiniteSet(JobsOn(v)) /\ IsFiniteSet(JobsOn(w))
    BY <1>0, JobsCount
  <2>2. /\ mem[v] = SumFunctionOnSet(MemoryOf, JobsOn(v))
        /\ net[v] = SumFunctionOnSet(NetOf, JobsOn(v))
        /\ mem[w] = SumFunctionOnSet(MemoryOf, JobsOn(w))
        /\ net[w] = SumFunctionOnSet(NetOf, JobsOn(w))
    <3>1. ASSUME NEW u \in VM
          PROVE  /\ mem[u] = SumFunctionOnSet(MemoryOf, JobsOn(u))
                 /\ net[u] = SumFunctionOnSet(NetOf, JobsOn(u))
      <4>1. Accounted(u)
        BY DEF UseIsAccounted, Accounted, MemoryOf, NetOf
      <4>2. GoneFrom(u) = {}
        BY DEF Alike, GoneFrom
      <4>3. Residue(u) = 0
        BY <4>2, ResidueType
      <4>4. /\ SumFunctionOnSet(MemoryOf, JobsOn(u)) \in Nat
            /\ SumFunctionOnSet(NetOf, JobsOn(u)) \in Nat
        BY <1>0, UseType, SumType
      <4>5. mem[u] \in Int /\ net[u] \in Int
        BY <1>0 DEF BalanceTypeOK
      <4>. QED  BY <4>1, <4>3, <4>4, <4>5 DEF Accounted
    <3>. QED  BY <3>1
  <2>3. /\ SumFunctionOnSet(MemoryOf, JobsOn(v)) = need[t].memory * JobCount(v)
        /\ SumFunctionOnSet(NetOf, JobsOn(v)) = need[t].net * JobCount(v)
    BY <1>5, <2>1, SumOfEqual DEF JobCount
  <2>4. /\ SumFunctionOnSet(MemoryOf, JobsOn(w)) = need[t].memory * JobCount(w)
        /\ SumFunctionOnSet(NetOf, JobsOn(w)) = need[t].net * JobCount(w)
    BY <1>5, <2>1, SumOfEqual DEF JobCount
  <2>. QED  BY <2>2, <2>3, <2>4
<1>7. mem[w] <= mem[v] /\ net[w] <= net[v]
  BY <1>1, <1>5, <1>6, MoreNeedMore
<1>8. vm_load(w) < vm_load(v)
  BY <1>1, <1>2 DEF vm_load, JobCount
<1>9. vm_load(w) <= vm_load(v)
  BY <1>0, <1>8, LoadType
<1>10. w # v
  BY <1>1
<1>. QED  BY <1>7, <1>8, <1>9, <1>10 DEF IsSelection, Preferred

(* What ended stays ended, and closes mailboxes only when all has ended.   *)
LEMMA MailboxesStep ==
    ASSUME BalanceInv, MailboxesKept, [BalanceNext]_balanceVars
    PROVE  MailboxesKept'
<1>0. BalanceTypeOK /\ TurnsKept
  BY DEF BalanceInv
<1>1. CASE CreateMailboxes
  BY <1>1 DEF CreateMailboxes, MailboxesKept
<1>2. CASE CreateTask
  <2>1. created \in Task /\ task[created] = "none"
    BY <1>0, <1>2, TaskAssumption DEF CreateTask, BalanceTypeOK, TurnsKept, Task
  <2>2. ~AllReported /\ creator # "boot"
    BY <1>2, <2>1 DEF AllReported, CreateTask
  <2>. QED  BY <1>2, <2>2 DEF CreateTask, MailboxesKept
<1>3. ASSUME NEW t \in Task, ReportFin(t) \/ Leave(t) PROVE MailboxesKept'
  BY <1>0, <1>3 DEF ReportFin, Leave, MailboxesKept, AllReported, BalanceTypeOK
<1>4. ASSUME AllReported, NEW v \in VM, CloseMailbox(v) PROVE MailboxesKept'
  BY <1>4 DEF CloseMailbox, MailboxesKept, AllReported
<1>5. ASSUME UNCHANGED <<task, mailbox>>, creator = "boot" => creator' = "boot"
      PROVE  MailboxesKept'
  BY <1>5 DEF MailboxesKept, AllReported
<1>. QED  BY <1>1, <1>2, <1>3, <1>4, <1>5 DEF BalanceNext, Arrive, Decide,
          StopBalancer, balanceVars

(* No step makes tasks alike that were not.                                *)
LEMMA AlikeBefore ==
    ASSUME BalanceInv, [BalanceNext]_balanceVars, Alike'
    PROVE  Alike /\ \A t \in Task : ~ReportFin(t) /\ ~Leave(t)
<1>0. BalanceTypeOK /\ TurnsKept
  BY DEF BalanceInv
<1>1. ASSUME NEW t \in Task, ReportFin(t) \/ Leave(t) PROVE FALSE
  BY <1>0, <1>1 DEF ReportFin, Leave, Alike, BalanceTypeOK
<1>2. CASE CreateTask
  <2>1. created \in Task /\ task[created] = "none"
    BY <1>0, <1>2, TaskAssumption DEF CreateTask, BalanceTypeOK, TurnsKept, Task
  <2>2. /\ need' = need
        /\ \A t \in Task : task'[t] = IF t = created THEN "running" ELSE task[t]
    BY <1>0, <1>2, <2>1 DEF CreateTask, BalanceTypeOK
  <2>. QED  BY <1>1, <2>1, <2>2 DEF Alike
<1>3. ASSUME NEW n \in Need, Arrive(n) PROVE Alike
  <2>1. created \in Task /\ task[created] = "none" /\ task' = task
    BY <1>0, <1>3, TaskAssumption DEF Arrive, BalanceTypeOK, TurnsKept, Task
  <2>2. \A t \in Task : task[t] = "running" => need'[t] = need[t]
    BY <1>0, <1>3, <2>1 DEF Arrive, BalanceTypeOK
  <2>. QED  BY <2>1, <2>2 DEF Alike
<1>4. ASSUME UNCHANGED <<task, need>> PROVE Alike
  BY <1>4 DEF Alike
<1>. QED  BY <1>1, <1>2, <1>3, <1>4 DEF BalanceNext, CreateMailboxes, Decide,
          StopBalancer, CloseMailbox, balanceVars

(* A step of create_tasks or the balancer deals evenly.                    *)
LEMMA DealStep ==
    ASSUME EvenInv, [BalanceNext]_balanceVars
    PROVE  DealKept' /\ EvenlyDealt'
<1>. SUFFICES ASSUME Alike'
              PROVE  /\ balancer' = "responding" =>
                           \A w \in VM : JobCount(selected_vm_number)' <= JobCount(w)'
                     /\ \A v, w \in VM : JobCount(v)' <= JobCount(w)' + 1
  BY DEF DealKept, EvenlyDealt, Alike, JobCount
<1>0. BalanceInv /\ BalanceTypeOK /\ TurnsKept /\ UseIsAccounted /\ MailboxesKept
  BY DEF EvenInv, BalanceInv
<1>1. Alike /\ \A t \in Task : ~ReportFin(t) /\ ~Leave(t)
  BY <1>0, AlikeBefore
<1>2. /\ balancer = "responding" =>
             \A w \in VM : JobCount(selected_vm_number) <= JobCount(w)
      /\ \A v, w \in VM : JobCount(v) <= JobCount(w) + 1
  BY <1>1 DEF EvenInv, DealKept, EvenlyDealt, Alike, JobCount
<1>3. \A v \in VM : JobCount(v) \in Nat /\ IsFiniteSet(JobsOn(v))
  BY <1>0, JobsCount DEF JobCount
<1>4. ASSUME NEW v \in VM, Decide(v)
      PROVE  /\ \A w \in VM : JobCount(selected_vm_number)' <= JobCount(w)'
             /\ \A u, w \in VM : JobCount(u)' <= JobCount(w)' + 1
  <2>1. \A w \in VM : JobCount(v) <= JobCount(w)
    BY <1>0, <1>1, <1>4, SelectionHasFewest DEF Decide
  <2>2. \A w \in VM : JobCount(w)' = JobCount(w)
    BY <1>4 DEF Decide, JobCount, JobsOn
  <2>3. selected_vm_number' = v
    BY <1>4 DEF Decide
  <2>4. JobCount(selected_vm_number)' = JobCount(v)
    BY <1>4, <2>3 DEF Decide, JobCount, JobsOn
  <2>. QED  BY <1>2, <2>1, <2>2, <2>4
<1>5. CASE CreateTask
  <2>. DEFINE s == selected_vm_number
  <2>0. s \in VM /\ balancer = "responding" /\ balancer' = "receiving"
    BY <1>0, <1>5 DEF CreateTask, BalanceTypeOK
  <2>1. created \in Task /\ task[created] = "none"
    BY <1>0, <1>5, TaskAssumption DEF CreateTask, BalanceTypeOK, TurnsKept, Task
  <2>2. /\ JobsOn(s)' = JobsOn(s) \cup {created} /\ created \notin JobsOn(s)
        /\ \A v \in VM \ {s} : JobsOn(v)' = JobsOn(v)
    <3>1. /\ \A t \in Task : task'[t] = IF t = created THEN "running" ELSE task[t]
          /\ \A t \in Task : home'[t] = IF t = created THEN s ELSE home[t]
      BY <1>0, <1>5, <2>1 DEF CreateTask, BalanceTypeOK
    <3>2. s' = s
      BY <1>5 DEF CreateTask
    <3>. QED  BY <2>1, <3>1, <3>2 DEF JobsOn
  <2>3. JobCount(s)' = JobCount(s) + 1
    <3>1. Cardinality(JobsOn(s)') = Cardinality(JobsOn(s)) + 1
      BY <1>3, <2>0, <2>2, FS_AddElement
    <3>. QED  BY <3>1 DEF JobCount
  <2>4. \A v \in VM \ {s} : JobCount(v)' = JobCount(v)
    BY <2>2 DEF JobCount
  <2>5. \A w \in VM : JobCount(s) <= JobCount(w)
    BY <1>2, <2>0
  <2>6. s' = s
    BY <1>5 DEF CreateTask
  <2>. HIDE DEF s
  <2>7. \A v \in VM : JobCount(v)' = IF v = s THEN JobCount(v) + 1 ELSE JobCount(v)
    BY <2>3, <2>4, <2>6
  <2>8. \A v, w \in VM : JobCount(v)' <= JobCount(w)' + 1
    BY <1>2, <1>3, <2>0, <2>5, <2>7
  <2>. QED  BY <2>0, <2>8
<1>6. CASE /\ UNCHANGED <<task, home, selected_vm_number>>
           /\ balancer' = "responding" => balancer = "responding"
  <2>1. /\ \A v \in VM : JobCount(v)' = JobCount(v)
        /\ JobCount(selected_vm_number)' = JobCount(selected_vm_number)
    BY <1>6 DEF JobCount, JobsOn
  <2>. QED  BY <1>2, <1>6, <2>1
<1>. QED  BY <1>1, <1>4, <1>5, <1>6 DEF BalanceNext, CreateMailboxes, Arrive,
          StopBalancer, CloseMailbox, balanceVars

(* So every step keeps the invariant of the deal ...                       *)
LEMMA EvenInvInductive == EvenInv /\ [BalanceNext]_balanceVars => EvenInv'
<1>. QED  BY BalanceInvInductive, UseKept, MailboxesStep, DealStep DEF EvenInv

(* ... which holds before the first task.                                  *)
LEMMA EvenInitially == BalanceInit => EvenInv
<1>. SUFFICES ASSUME BalanceInit PROVE EvenInv
  OBVIOUS
<1>1. \A v \in VM : JobsOn(v) = {}
  BY DEF BalanceInit, JobsOn
<1>2. EvenlyDealt
  BY <1>1, FS_EmptySet DEF EvenlyDealt
<1>3. MailboxesKept /\ DealKept
  BY DEF BalanceInit, MailboxesKept, DealKept
<1>. QED  BY <1>2, <1>3, BalanceInitially, UseInitially DEF EvenInv

(* While no task has ended and all need the same, no VM has two tasks more *)
(* than another: equal tasks make the marginal cost follow their number,   *)
(* and the VM with the fewest keeps that place until its task is created.  *)
THEOREM EvenlyDealtAlways == BalanceSpec => []EvenlyDealt
<1>1. EvenInv => EvenlyDealt
  BY DEF EvenInv
<1>. QED  BY <1>1, EvenInitially, EvenInvInductive, PTL DEF BalanceSpec
==============================================================================
