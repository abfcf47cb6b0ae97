---------------------------- MODULE TaskLoopProofs ----------------------------
(***************************************************************************)
(* Proofs about module TaskLoop: for any number of VMs and any sequence    *)
(* numbers, a task makes the computations and messages it is configured    *)
(* to, and its loop never gets stuck, under the conditions the sizes must  *)
(* meet.                                                                   *)
(***************************************************************************)
EXTENDS TaskLoop, TLAPS

(* No more computations than rounds of a computation and a message: the    *)
(* rounds alternate, so the iterations would be used up before.            *)
RoundsSuffice ==
    \A s \in Settings : 2 * CompSize(s[1], s[2]) <= Iterations(s[1]) + 1

(* The message that the ratio below 1 costs is made up by a computation.   *)
ComputesIfWanted ==
    \A s \in Settings :
        Iterations(s[1]) = 0 \/ s[2] = 0 \/ CompSize(s[1], s[2]) > 0

-----------------------------------------------------------------------------
(* The sizes are what they need to be: a message less than the iterations, *)
(* at most.                                                                *)
LEMMA Sizes ==
    ASSUME NEW v \in Nat, NEW r \in 0 .. 99
    PROVE  /\ Iterations(v) \in Nat /\ CompSize(v, r) \in Nat /\ CommSize(v, r) \in Nat
           /\ CommSize(v, r) <= Iterations(v)
           /\ CommSize(v, r) >= Iterations(v) - 1
           /\ r = 0 => CompSize(v, r) = 0 /\ CommSize(v, r) = Iterations(v)
<1>1. Iterations(v) \in Nat
  BY DEF Iterations
<1>2. CompSize(v, r) \in Nat /\ (r = 0 => CompSize(v, r) = 0)
  <2>1. r * Iterations(v) \in Nat /\ (r = 0 => r * Iterations(v) = 0)
    BY <1>1
  <2>2. \A x \in Nat : x \div 100 \in Nat /\ (x = 0 => x \div 100 = 0)
    OBVIOUS
  <2>. QED  BY <2>1, <2>2 DEF CompSize
<1>. QED  BY <1>1, <1>2 DEF CommSize

(* Up to half of the iterations may be computations.                       *)
LEMMA HalfSuffices ==
    ASSUME NEW v \in Nat, NEW r \in 0 .. 50
    PROVE  2 * CompSize(v, r) <= Iterations(v)
<1>. DEFINE k == Iterations(v)
<1>1. k \in Nat
  BY DEF Iterations
<1>. HIDE DEF k
<1>2. r * k <= 50 * k /\ r * k \in Nat
  BY <1>1
<1>3. \A x \in Nat : x <= 50 * k => 2 * (x \div 100) <= k
  BY <1>1
<1>4. 2 * ((r * k) \div 100) <= k
  BY <1>2, <1>3
<1>. QED  BY <1>4 DEF CompSize, k

-----------------------------------------------------------------------------
(* The iterations are the computations and the messages, and as long as    *)
(* computations are left each is followed by at most one message.          *)
LoopInv ==
    /\ LoopTypeOK
    /\ i = n + p
    /\ p < COMP_TASK_SIZE => n <= p
    /\ pc = "comm" => n < p
    /\ pc = "done" => i = ITERATION_PER_PROCESS

LEMMA SizesNow ==
    ASSUME LoopTypeOK
    PROVE  /\ ITERATION_PER_PROCESS \in Nat /\ COMP_TASK_SIZE \in Nat /\ COMM_TASK_SIZE \in Nat
           /\ COMM_TASK_SIZE <= ITERATION_PER_PROCESS
           /\ COMM_TASK_SIZE >= ITERATION_PER_PROCESS - 1
           /\ ratio = 0 => COMM_TASK_SIZE = ITERATION_PER_PROCESS
           /\ vms \in Nat /\ vms > 0
<1>1. vms \in Nat /\ vms > 0 /\ ratio \in 0 .. 99
  BY SettingAssumption DEF LoopTypeOK
<1>. QED  BY <1>1, Sizes DEF ITERATION_PER_PROCESS, COMP_TASK_SIZE, COMM_TASK_SIZE

LEMMA LoopInitially == LoopInit => LoopInv
<1>. SUFFICES ASSUME LoopInit PROVE LoopInv
  OBVIOUS
<1>1. PICK setting \in Settings : vms = setting[1] /\ ratio = setting[2]
  BY DEF LoopInit
<1>2. /\ setting = <<vms, ratio>> /\ vms \in Nat /\ vms > 0 /\ ratio \in 0 .. 99
  BY <1>1, SettingAssumption
<1>3. /\ ITERATION_PER_PROCESS \in Nat /\ COMP_TASK_SIZE \in Nat /\ COMM_TASK_SIZE \in Nat
  BY <1>2, Sizes DEF ITERATION_PER_PROCESS, COMP_TASK_SIZE, COMM_TASK_SIZE
<1>4. LoopTypeOK
  BY <1>2, <1>3 DEF LoopInit, LoopTypeOK
<1>. QED  BY <1>3, <1>4 DEF LoopInit, LoopInv

LEMMA LoopStep == LoopInv /\ [LoopNext]_loopVars => LoopInv'
<1>. SUFFICES ASSUME LoopInv, [LoopNext]_loopVars PROVE LoopInv'
  OBVIOUS
<1>. DEFINE I == ITERATION_PER_PROCESS
            C == COMP_TASK_SIZE
            M == COMM_TASK_SIZE
<1>0. /\ LoopTypeOK
      /\ vms' = vms /\ ratio' = ratio /\ process_sequence' = process_sequence
  BY DEF LoopInv, LoopNext, loopVars, Compute, Communicate, SkipCommunication, LeaveLoop,
     Unchanging
<1>1. /\ I \in Nat /\ C \in Nat /\ M \in Nat
      /\ I' = I /\ C' = C /\ M' = M
      /\ i \in Nat /\ n \in Nat /\ p \in Nat /\ i <= I /\ n <= M /\ p <= C
      /\ i = n + p /\ (p < C => n <= p) /\ (pc = "comm" => n < p)
      /\ (pc = "done" => i = I)
  BY <1>0, SizesNow DEF LoopInv, LoopTypeOK, ITERATION_PER_PROCESS, COMP_TASK_SIZE,
     COMM_TASK_SIZE
<1>2. target_mailbox' \in 0 .. vms - 1
  <2>1. CASE Communicate
    <3>1. process_sequence * n \in Nat
      BY <1>0, <1>1, SettingAssumption DEF LoopTypeOK
    <3>2. vms \in Nat /\ vms > 0 /\ target_mailbox \in 0 .. vms - 1
      BY <1>0, SizesNow DEF LoopTypeOK
    <3>3. GetNextTargetMailBox(target_mailbox, process_sequence * n, vms) \in 0 .. vms - 1
      BY <3>1, <3>2 DEF GetNextTargetMailBox
    <3>. QED  BY <2>1, <3>2, <3>3 DEF Communicate
  <2>2. CASE target_mailbox' = target_mailbox
    BY <1>0, <2>2 DEF LoopTypeOK
  <2>. QED  BY <2>1, <2>2 DEF LoopNext, loopVars, Compute, SkipCommunication, LeaveLoop
<1>. HIDE DEF I, C, M
<1>3. /\ i' \in Nat /\ n' \in Nat /\ p' \in Nat /\ i' <= I /\ n' <= M /\ p' <= C
      /\ i' = n' + p' /\ (p' < C => n' <= p') /\ (pc' = "comm" => n' < p')
      /\ (pc' = "done" => i' = I) /\ pc' \in {"loop", "comm", "done"}
  <2>1. CASE Compute
    BY <1>1, <2>1 DEF Compute, I, C
  <2>2. CASE Communicate
    <3>1. /\ i' = i + 1 /\ n' = n + 1 /\ p' = p /\ pc' = "loop"
          /\ n < M /\ i < I
          /\ pc = "comm" \/ p >= C
      BY <2>2 DEF Communicate, BehindCompute, I, C, M
    <3>. QED  BY <1>1, <3>1
  <2>3. CASE SkipCommunication
    BY <1>1, <2>3 DEF SkipCommunication
  <2>4. CASE LeaveLoop
    <3>1. UNCHANGED <<i, n, p>> /\ pc' = "done" /\ i >= I
      BY <2>4 DEF LeaveLoop, I
    <3>. QED  BY <1>1, <3>1
  <2>5. CASE UNCHANGED loopVars
    BY <1>0, <1>1, <2>5 DEF loopVars, LoopTypeOK
  <2>. QED  BY <2>1, <2>2, <2>3, <2>4, <2>5 DEF LoopNext
<1>4. i' \in 0 .. I /\ n' \in 0 .. M /\ p' \in 0 .. C
  <2>1. \A x, b \in Nat : x <= b => x \in 0 .. b
    OBVIOUS
  <2>2. I \in Nat /\ C \in Nat /\ M \in Nat
    BY <1>1
  <2>3. /\ i' \in Nat /\ n' \in Nat /\ p' \in Nat
        /\ i' <= I /\ n' <= M /\ p' <= C
    BY <1>3
  <2>. QED  BY <2>1, <2>2, <2>3, Zenon
<1>5. /\ i' \in 0 .. ITERATION_PER_PROCESS' /\ n' \in 0 .. COMM_TASK_SIZE'
      /\ p' \in 0 .. COMP_TASK_SIZE'
  BY <1>1, <1>4 DEF I, C, M
<1>6. LoopTypeOK'
  BY <1>0, <1>2, <1>3, <1>5 DEF LoopTypeOK
<1>7. (p' < COMP_TASK_SIZE' => n' <= p') /\ (pc' = "done" => i' = ITERATION_PER_PROCESS')
  BY <1>1, <1>3 DEF I, C, M
<1>. QED  BY <1>3, <1>6, <1>7 DEF LoopInv

(* Type correctness: the counters stay within the sizes main computed.     *)
THEOREM LoopTypeCorrect == LoopSpec => []LoopTypeOK
<1>1. LoopInv => LoopTypeOK
  BY DEF LoopInv
<1>. QED  BY <1>1, LoopInitially, LoopStep, PTL DEF LoopSpec

(* A task that gets through its loop made the computations and the         *)
(* messages it was configured to, for any number of VMs and any task       *)
(* number, where the rounds suffice for the computations.                  *)
THEOREM SharesAsConfiguredAlways == RoundsSuffice /\ LoopSpec => []SharesAsConfigured
<1>. SUFFICES ASSUME RoundsSuffice PROVE LoopSpec => []SharesAsConfigured
  OBVIOUS
<1>1. LoopInv => SharesAsConfigured
  <2>. SUFFICES ASSUME LoopInv, pc = "done"
                PROVE  p = COMP_TASK_SIZE /\ n = ITERATION_PER_PROCESS - COMP_TASK_SIZE
    BY DEF SharesAsConfigured
  <2>1. 2 * COMP_TASK_SIZE <= ITERATION_PER_PROCESS + 1
    BY DEF RoundsSuffice, LoopInv, LoopTypeOK, ITERATION_PER_PROCESS, COMP_TASK_SIZE
  <2>2. /\ ITERATION_PER_PROCESS \in Nat /\ COMP_TASK_SIZE \in Nat
        /\ n \in Nat /\ p \in Nat /\ p <= COMP_TASK_SIZE
        /\ n + p = ITERATION_PER_PROCESS /\ (p < COMP_TASK_SIZE => n <= p)
    BY SizesNow DEF LoopInv, LoopTypeOK
  <2>. QED  BY <2>1, <2>2
<1>. QED  BY <1>1, LoopInitially, LoopStep, PTL DEF LoopSpec

(* The shares are right for every number of VMs when no more than half of  *)
(* the iterations are computations, as the default ratio of 0.2 says.      *)
THEOREM HalfComputesAsConfigured ==
    Settings \subseteq (Nat \ {0}) \X (0 .. 50) /\ LoopSpec => []SharesAsConfigured
<1>. SUFFICES ASSUME Settings \subseteq (Nat \ {0}) \X (0 .. 50)
              PROVE  LoopSpec => []SharesAsConfigured
  OBVIOUS
<1>1. RoundsSuffice
  <2>. SUFFICES ASSUME NEW s \in Settings
                PROVE  2 * CompSize(s[1], s[2]) <= Iterations(s[1]) + 1
    BY DEF RoundsSuffice
  <2>1. s[1] \in Nat /\ s[2] \in 0 .. 50 /\ s[2] \in 0 .. 99
    OBVIOUS
  <2>2. 2 * CompSize(s[1], s[2]) <= Iterations(s[1])
    BY <2>1, HalfSuffices
  <2>3. CompSize(s[1], s[2]) \in Nat /\ Iterations(s[1]) \in Nat
    BY <2>1, Sizes
  <2>. QED  BY <2>2, <2>3
<1>. QED  BY <1>1, SharesAsConfiguredAlways, PTL

(* The loop never repeats with nothing left to do, for any number of VMs,  *)
(* where a task that is to compute has a computation at all.               *)
THEOREM NeverSpinsAlways == ComputesIfWanted /\ LoopSpec => []NeverSpins
<1>. SUFFICES ASSUME ComputesIfWanted PROVE LoopSpec => []NeverSpins
  OBVIOUS
<1>1. LoopInv => NeverSpins
  <2>. SUFFICES ASSUME LoopInv, i < ITERATION_PER_PROCESS,
                       ~(p < COMP_TASK_SIZE), ~(n < COMM_TASK_SIZE)
                PROVE  FALSE
    BY DEF NeverSpins
  <2>1. ITERATION_PER_PROCESS = 0 \/ ratio = 0 \/ COMP_TASK_SIZE > 0
    BY DEF ComputesIfWanted, LoopInv, LoopTypeOK, ITERATION_PER_PROCESS, COMP_TASK_SIZE
  <2>2. /\ ITERATION_PER_PROCESS \in Nat /\ COMP_TASK_SIZE \in Nat /\ COMM_TASK_SIZE \in Nat
        /\ COMM_TASK_SIZE >= ITERATION_PER_PROCESS - 1
        /\ ratio = 0 => COMM_TASK_SIZE = ITERATION_PER_PROCESS
        /\ n \in Nat /\ p \in Nat /\ i = n + p
    BY SizesNow DEF LoopInv, LoopTypeOK
  <2>. QED  BY <2>1, <2>2
<1>. QED  BY <1>1, LoopInitially, LoopStep, PTL DEF LoopSpec
===============================================================================
