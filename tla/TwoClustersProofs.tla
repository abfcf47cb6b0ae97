-------------------------- MODULE TwoClustersProofs --------------------------
(***************************************************************************)
(* Proofs, for every number of VMs and tasks, about the shutdown of the    *)
(* older simulation: get_finalize counts the processes of both clusters,   *)
(* closes no mailbox that is still needed, and sets finish behind          *)
(* everything else.                                                        *)
(***************************************************************************)
EXTENDS TwoClusters, GuestLoadBalanceProofs

Over == {p \in Process : activity[p] = "over"}

(* The processes of a task in both clusters start together; the one in     *)
(* cluster 0 is the one GuestLoadBalance knows.                            *)
ProcessesKept ==
    \A t \in Task :
        /\ activity[<<0, t>>] = "absent" <=> task[t] = "none"
        /\ activity[<<1, t>>] = "absent" <=> task[t] = "none"
        /\ activity[<<0, t>>] = "over" <=> task[t] \in {"leaving", "gone"}

(* get_finalize counts the processes that ended, and leaves the counting   *)
(* loop when it has them all.                                              *)
FinsKept ==
    /\ fins = Cardinality(Over)
    /\ shutdown # "collecting" => fins = 2 * NUMBER_OF_PROCESS

(* What get_finalize has closed, wherever it is.                           *)
ClosingKept ==
    /\ \A v \in VM : mailbox[v] = "exited" \/ other_mailbox[v] = "exited"
                        => shutdown # "collecting"
    /\ shutdown \in {"collecting", "settling"} => closed = 0
    /\ shutdown = "closing other" => closed < NUMBER_OF_VMS
    /\ \A v \in VM : shutdown = "closing" /\ v < closed => mailbox[v] = "exited"
    /\ shutdown \in {"closing other", "lingering", "over"}
          => balancer = "exited" /\ \A v \in VM : mailbox[v] = "exited"
    /\ \A v \in VM : shutdown = "closing other" /\ v < closed
                        => other_mailbox[v] = "exited"
    /\ shutdown \in {"lingering", "over"}
          => \A v \in VM : other_mailbox[v] = "exited"

(* get_finalize asks for finish when it is through.                        *)
EndKept ==
    /\ finalizer # "working" => shutdown = "over"
    /\ finish => finalizer = "done"

(* The inductive invariant.                                                *)
ClustersInv ==
    /\ TypeOK /\ BalanceInv
    /\ ProcessesKept /\ FinsKept /\ ClosingKept /\ EndKept

-----------------------------------------------------------------------------
(* Rounds                                                                  *)

(* Every step is one of Rounds, or leaves it alone.                        *)
LEMMA StepOfRounds == [Next]_vars => [RoundsNext]_roundsVars
<1>. SUFFICES ASSUME [Next]_vars PROVE [RoundsNext]_roundsVars
  OBVIOUS
<1>1. CASE Finish
  BY <1>1 DEF Finish, RoundsNext
<1>2. CASE HostBalancing
  BY <1>2 DEF HostBalancing, RoundsNext
<1>3. CASE UNCHANGED roundsVars
  BY <1>3
<1>. QED  BY <1>1, <1>2, <1>3 DEF Next, CreateAllMailboxes, Draw, Balance,
          CreateTasks, Post, Deliver, TakeFin, Return, AllFinsTaken, Settled,
          FinishMailbox, FinishBalancer, FinishOtherMailbox, vars

(* The variables of Rounds keep their types.                               *)
LEMMA RoundsTypesKept ==
    ASSUME RoundsTypeOK, [RoundsNext]_roundsVars PROVE RoundsTypeOK'
<1>. QED  BY DEF RoundsTypeOK, RoundsNext, RequestFinish, SetFinish, BeginRound,
          EndRound, Abort, roundsVars

(* The two clusters and the host load balancer pass finish_sem on as       *)
(* Rounds says.                                                            *)
THEOREM ClustersImplementRounds == Spec => RoundsSpec
<1>1. Init => RoundsInit
  BY DEF Init
<1>. QED  BY <1>1, StepOfRounds, PTL DEF Spec, RoundsSpec

-----------------------------------------------------------------------------
(* All processes have ended when get_finalize has counted them all.        *)

(* Every task has a process in either cluster.                             *)
LEMMA ProcessCount ==
    IsFiniteSet(Process) /\ Cardinality(Process) = 2 * NUMBER_OF_PROCESS
<1>1. NUMBER_OF_PROCESS \in Nat \ {0}
  BY TaskAssumption
<1>2. IsFiniteSet(Task) /\ Cardinality(Task) = NUMBER_OF_PROCESS
  <2>1. /\ IsFiniteSet(0 .. NUMBER_OF_PROCESS - 1)
        /\ Cardinality(0 .. NUMBER_OF_PROCESS - 1) =
              IF 0 > NUMBER_OF_PROCESS - 1 THEN 0 ELSE NUMBER_OF_PROCESS - 1 - 0 + 1
    BY <1>1, FS_Interval
  <2>. QED  BY <1>1, <2>1 DEF Task
<1>3. IsFiniteSet(Cluster) /\ Cardinality(Cluster) = 2
  <2>1. IsFiniteSet({0}) /\ Cardinality({0}) = 1
    BY FS_Singleton
  <2>2. IsFiniteSet({0} \cup {1}) /\ Cardinality({0} \cup {1}) = 1 + 1
    BY <2>1, FS_AddElement
  <2>3. Cluster = {0} \cup {1}
    BY DEF Cluster
  <2>. QED  BY <2>2, <2>3
<1>4. /\ IsFiniteSet(Cluster \X Task)
      /\ Cardinality(Cluster \X Task) = Cardinality(Cluster) * Cardinality(Task)
  BY <1>2, <1>3, FS_Product
<1>. QED  BY <1>1, <1>2, <1>3, <1>4 DEF Process

(* When get_finalize has left its counting loop, every process of both     *)
(* clusters has reported its end.                                          *)
LEMMA AllOverWhenCounted ==
    ASSUME ProcessesKept, FinsKept, shutdown # "collecting"
    PROVE  (\A p \in Process : activity[p] = "over") /\ AllReported
<1>1. Over \in SUBSET Process
  BY DEF Over
<1>2. Cardinality(Process) = Cardinality(Over)
  BY ProcessCount DEF FinsKept
<1>3. Over = Process
  BY <1>1, <1>2, ProcessCount, FS_Subset
<1>4. \A p \in Process : activity[p] = "over"
  BY <1>3 DEF Over
<1>5. \A t \in Task : <<0, t>> \in Process
  BY DEF Process, Cluster
<1>6. \A t \in Task : activity[<<0, t>>] = "over"
  BY <1>4, <1>5
<1>. QED  BY <1>4, <1>6 DEF AllReported, ProcessesKept

(* Until create_tasks has created the mailboxes, get_finalize counts.      *)
LEMMA BootIsEarly ==
    ASSUME ClustersInv, creator = "boot"
    PROVE  shutdown = "collecting"
<1>. SUFFICES ASSUME shutdown # "collecting" PROVE FALSE
  OBVIOUS
<1>1. AllReported
  BY AllOverWhenCounted DEF ClustersInv
<1>2. 0 \in Task /\ 0 >= created
  BY TaskAssumption DEF Task, ClustersInv, BalanceInv, TurnsKept
<1>3. task[0] = "none"
  BY <1>2 DEF ClustersInv, BalanceInv, TurnsKept
<1>. QED  BY <1>1, <1>2, <1>3 DEF AllReported

(* Every step is one of GuestLoadBalance, whose assumption on get_finalize *)
(* it meets, or leaves it alone.                                           *)
LEMMA StepOfBalance ==
    ClustersInv /\ [Next]_vars => [BalanceNext]_balanceVars
<1>. SUFFICES ASSUME ClustersInv, [Next]_vars PROVE [BalanceNext]_balanceVars
  OBVIOUS
<1>. USE DEF BalanceNext
<1>1. CASE CreateAllMailboxes
  BY <1>1 DEF CreateAllMailboxes
<1>2. ASSUME NEW n \in Need, NEW v \in VM, Draw(n, v) PROVE BalanceNext
  BY <1>2 DEF Draw
<1>3. ASSUME NEW v \in VM, Balance(v) PROVE BalanceNext
  BY <1>3 DEF Balance
<1>4. CASE CreateTasks
  BY <1>4 DEF CreateTasks
<1>5. ASSUME NEW c \in Cluster, NEW t \in Task, TakeFin(c, t)
      PROVE  BalanceNext \/ UNCHANGED balanceVars
  BY <1>5 DEF TakeFin
<1>6. ASSUME NEW t \in Task, Return(t) PROVE BalanceNext
  BY <1>6 DEF Return
<1>7. CASE FinishMailbox
  <2>1. AllReported
    BY <1>7, AllOverWhenCounted DEF FinishMailbox, ClustersInv
  <2>2. closed \in VM
    BY <1>7, VmAssumption DEF FinishMailbox, ClustersInv, TypeOK, VM
  <2>. QED  BY <1>7, <2>1, <2>2 DEF FinishMailbox
<1>8. CASE FinishBalancer
  <2>1. AllReported
    BY <1>8, AllOverWhenCounted DEF FinishBalancer, ClustersInv
  <2>. QED  BY <1>8, <2>1 DEF FinishBalancer
<1>9. CASE UNCHANGED balanceVars
  BY <1>9
<1>. QED  BY <1>1, <1>2, <1>3, <1>4, <1>5, <1>6, <1>7, <1>8, <1>9 DEF Next, Post,
          Deliver, AllFinsTaken, Settled, FinishOtherMailbox, Finish,
          HostBalancing, vars

-----------------------------------------------------------------------------
(* The invariant                                                           *)

(* The older simulation starts in the invariant.                           *)
LEMMA ClustersInitially == Init => ClustersInv
<1>. SUFFICES ASSUME Init PROVE ClustersInv
  OBVIOUS
<1>1. BalanceInv
  BY BalanceInitially DEF Init
<1>2. 0 \in VM
  BY VmAssumption DEF VM
<1>3. TypeOK
  <2>1. RoundsTypeOK
    BY DEF Init, RoundsInit, RoundsTypeOK
  <2>2. 0 \in 0 .. 2 * NUMBER_OF_PROCESS /\ 0 \in 0 .. NUMBER_OF_VMS
    BY TaskAssumption, VmAssumption
  <2>3. /\ target \in [Task -> VM]
        /\ activity \in
              [Process -> {"absent", "computing", "sending", "reporting", "over"}]
        /\ other_mailbox \in [VM -> {"absent", "listening", "exited"}]
    BY <1>2 DEF Init
  <2>. QED  BY <1>1, <2>1, <2>2, <2>3 DEF Init, TypeOK, BalanceInv
<1>4. Over = {}
  BY DEF Over, Init
<1>5. FinsKept
  BY <1>4, FS_EmptySet DEF FinsKept, Init
<1>6. ProcessesKept
  BY DEF ProcessesKept, Init, BalanceInit, Process, Cluster
<1>7. ClosingKept /\ EndKept
  BY DEF ClosingKept, EndKept, Init, BalanceInit, RoundsInit
<1>. QED  BY <1>1, <1>3, <1>5, <1>6, <1>7 DEF ClustersInv

(* The processes of a task.                                                *)
LEMMA ProcessesOf ==
    ASSUME NEW t \in Task
    PROVE  /\ <<0, t>> \in Process /\ <<1, t>> \in Process
           /\ \A u \in Task : u # t => <<0, u>> # <<0, t>> /\ <<1, u>> # <<1, t>>
           /\ \A u \in Task : <<0, u>> # <<1, t>>
<1>. QED  BY DEF Process, Cluster

(* The steps that neither start a process nor end one.                     *)
LEMMA ProcessesUntouched ==
    ASSUME ProcessesKept, task' = task,
           \A p \in Process :
               /\ activity'[p] = "absent" <=> activity[p] = "absent"
               /\ activity'[p] = "over" <=> activity[p] = "over"
    PROVE  ProcessesKept'
<1>. QED  BY ProcessesOf DEF ProcessesKept

(* The steps that change the processes of one task.                        *)
LEMMA ProcessesOfOneChanged ==
    ASSUME ProcessesKept, NEW t \in Task,
           \A u \in Task : u # t => /\ task'[u] = task[u]
                                   /\ activity'[<<0, u>>] = activity[<<0, u>>]
                                   /\ activity'[<<1, u>>] = activity[<<1, u>>],
           activity'[<<0, t>>] = "absent" <=> task'[t] = "none",
           activity'[<<1, t>>] = "absent" <=> task'[t] = "none",
           activity'[<<0, t>>] = "over" <=> task'[t] \in {"leaving", "gone"}
    PROVE  ProcessesKept'
<1>. SUFFICES ASSUME NEW u \in Task
              PROVE  /\ activity'[<<0, u>>] = "absent" <=> task'[u] = "none"
                     /\ activity'[<<1, u>>] = "absent" <=> task'[u] = "none"
                     /\ activity'[<<0, u>>] = "over" <=> task'[u] \in {"leaving", "gone"}
  BY DEF ProcessesKept
<1>1. CASE u = t
  BY <1>1
<1>2. CASE u # t
  BY <1>2 DEF ProcessesKept
<1>. QED  BY <1>1, <1>2

(* The steps that neither end a process nor count one.                     *)
LEMMA FinsUntouched ==
    ASSUME FinsKept, Over' = Over, fins' = fins,
           shutdown' # "collecting" => shutdown # "collecting" \/ AllFinsTaken
    PROVE  FinsKept'
<1>. QED  BY DEF FinsKept, AllFinsTaken

(* The task create_tasks waits to create has not been created before.      *)
LEMMA NextTask ==
    ASSUME BalanceInv, creator = "waiting"
    PROVE  created \in Task /\ task[created] = "none"
<1>1. created < NUMBER_OF_PROCESS /\ created \in 0 .. NUMBER_OF_PROCESS
  BY DEF BalanceInv, BalanceTypeOK, TurnsKept
<1>2. created \in Task /\ created >= created
  BY <1>1, TaskAssumption DEF Task
<1>. QED  BY <1>2 DEF BalanceInv, TurnsKept

(* What a step does to the processes of the tasks.                         *)
LEMMA ProcessesStep ==
    ASSUME ClustersInv, [Next]_vars
    PROVE  /\ activity' \in [Process ->
                 {"absent", "computing", "sending", "reporting", "over"}]
           /\ target' \in [Task -> VM]
           /\ fins' \in 0 .. 2 * NUMBER_OF_PROCESS
           /\ ProcessesKept' /\ FinsKept'
<1>. DEFINE Kept == /\ activity' \in [Process ->
                          {"absent", "computing", "sending", "reporting", "over"}]
                    /\ fins' \in 0 .. 2 * NUMBER_OF_PROCESS
                    /\ ProcessesKept' /\ FinsKept'
<1>. USE DEF ClustersInv, TypeOK
<1>0. NUMBER_OF_PROCESS \in Nat /\ IsFiniteSet(Over)
  BY TaskAssumption, ProcessCount, FS_Subset DEF Over
<1>1. target' \in [Task -> VM]
  BY DEF Next, CreateAllMailboxes, Draw, Balance, CreateTasks, Post, Deliver,
     TakeFin, Return, AllFinsTaken, Settled, FinishMailbox, FinishBalancer,
     FinishOtherMailbox, Finish, HostBalancing, taskVars, vars
<1>2. ASSUME activity' = activity, fins' = fins,
             \A t \in Task : \/ task'[t] = task[t]
                             \/ task[t] = "leaving" /\ task'[t] = "gone",
             shutdown' # "collecting" => shutdown # "collecting" \/ AllFinsTaken
      PROVE  Kept
  <2>1. Over' = Over
    BY <1>2 DEF Over
  <2>2. ProcessesKept'
    BY <1>2, ProcessesOf DEF ProcessesKept
  <2>. QED  BY <1>2, <2>1, <2>2, FinsUntouched
<1>3. ASSUME NEW p \in Process, Post(p) PROVE Kept
  <2>1. Over' = Over
    BY <1>3 DEF Over, Post
  <2>2. ProcessesKept'
    <3>1. /\ task' = task
          /\ \A q \in Process : activity'[q] = IF q = p THEN "sending" ELSE activity[q]
      BY <1>3 DEF Post, balanceVars
    <3>2. activity[p] = "computing"
      BY <1>3 DEF Post
    <3>. QED  BY <3>1, <3>2, ProcessesUntouched
  <2>. QED  BY <1>3, <2>1, <2>2, FinsUntouched DEF Post, shutdownVars
<1>4. ASSUME NEW c \in Cluster, NEW t \in Task, Deliver(c, t) PROVE Kept
  <2>0. <<c, t>> \in Process
    BY DEF Process
  <2>1. Over' = Over
    BY <1>4, <2>0 DEF Over, Deliver
  <2>2. ProcessesKept'
    <3>1. /\ task' = task
          /\ \A q \in Process :
                activity'[q] = IF q = <<c, t>> THEN "reporting" ELSE activity[q]
      BY <1>4, <2>0 DEF Deliver, balanceVars
    <3>2. activity[<<c, t>>] = "sending"
      BY <1>4 DEF Deliver
    <3>. QED  BY <3>1, <3>2, ProcessesUntouched
  <2>. QED  BY <1>4, <2>0, <2>1, <2>2, FinsUntouched DEF Deliver, shutdownVars
<1>5. ASSUME NEW c \in Cluster, NEW t \in Task, TakeFin(c, t) PROVE Kept
  <2>0. <<c, t>> \in Process
    BY DEF Process
  <2>1. Over' = Over \cup {<<c, t>>} /\ <<c, t>> \notin Over
    BY <1>5, <2>0 DEF Over, TakeFin
  <2>2. Cardinality(Over') = Cardinality(Over) + 1
    BY <1>0, <2>1, FS_AddElement
  <2>3. FinsKept'
    BY <1>5, <2>2 DEF FinsKept, TakeFin
  <2>4. ProcessesKept'
    <3>0. /\ \A q \in Process :
                activity'[q] = IF q = <<c, t>> THEN "over" ELSE activity[q]
          /\ activity[<<c, t>>] = "reporting"
      BY <1>5, <2>0 DEF TakeFin
    <3>1. CASE c = 0
      <4>1. task[t] = "running" /\ task' = [task EXCEPT ![t] = "leaving"]
        BY <1>5, <3>1 DEF TakeFin, ReportFin
      <4>2. \A u \in Task : task'[u] = IF u = t THEN "leaving" ELSE task[u]
        BY <4>1 DEF BalanceTypeOK
      <4>3. \A u \in Task : /\ activity'[<<1, u>>] = activity[<<1, u>>]
                            /\ activity'[<<0, u>>] =
                                  IF u = t THEN "over" ELSE activity[<<0, u>>]
        BY <3>0, <3>1, ProcessesOf
      <4>4. activity[<<1, t>>] # "absent" /\ task'[t] = "leaving"
        BY <4>1, <4>2 DEF ProcessesKept
      <4>. QED  BY <4>2, <4>3, <4>4, ProcessesOfOneChanged
    <3>2. CASE c = 1
      <4>1. task' = task
        BY <1>5, <3>2 DEF TakeFin, balanceVars
      <4>2. \A u \in Task : /\ activity'[<<0, u>>] = activity[<<0, u>>]
                            /\ activity'[<<1, u>>] =
                                  IF u = t THEN "over" ELSE activity[<<1, u>>]
        BY <3>0, <3>2, ProcessesOf
      <4>3. activity[<<1, t>>] = "reporting"
        BY <3>0, <3>2
      <4>4. task[t] # "none"
        BY <4>3 DEF ProcessesKept
      <4>5. activity[<<0, t>>] # "absent" /\ activity'[<<1, t>>] = "over"
        BY <4>2, <4>4 DEF ProcessesKept
      <4>6. activity[<<0, t>>] = "over" <=> task[t] \in {"leaving", "gone"}
        BY DEF ProcessesKept
      <4>. QED  BY <4>1, <4>2, <4>4, <4>5, <4>6, ProcessesOfOneChanged
    <3>. QED  BY <3>1, <3>2 DEF Cluster
  <2>. QED  BY <1>0, <1>5, <2>0, <2>3, <2>4 DEF TakeFin
<1>6. ASSUME CreateTasks PROVE Kept
  <2>0. creator = "waiting"
    BY <1>6 DEF CreateTasks, CreateTask
  <2>1. created \in Task /\ task[created] = "none"
    BY <2>0, NextTask
  <2>2. <<0, created>> \in Process /\ <<1, created>> \in Process
    BY <2>1 DEF Process, Cluster
  <2>3. activity[<<0, created>>] = "absent" /\ activity[<<1, created>>] = "absent"
    BY <2>1 DEF ProcessesKept
  <2>4. Over' = Over
    BY <1>6, <2>2, <2>3 DEF Over, CreateTasks
  <2>5. ProcessesKept'
    <3>1. \A q \in Process : activity'[q] =
              IF q \in {<<0, created>>, <<1, created>>} THEN "computing"
                                                       ELSE activity[q]
      BY <1>6, <2>2 DEF CreateTasks
    <3>2. \A u \in Task : task'[u] = IF u = created THEN "running" ELSE task[u]
      BY <1>6 DEF CreateTasks, CreateTask, BalanceTypeOK
    <3>3. \A u \in Task :
             /\ activity'[<<0, u>>] = IF u = created THEN "computing"
                                                     ELSE activity[<<0, u>>]
             /\ activity'[<<1, u>>] = IF u = created THEN "computing"
                                                     ELSE activity[<<1, u>>]
      BY <2>1, <3>1, ProcessesOf
    <3>4. task'[created] = "running"
      BY <2>1, <3>2
    <3>. QED  BY <2>1, <3>2, <3>3, <3>4, ProcessesOfOneChanged
  <2>. QED  BY <1>6, <2>2, <2>4, <2>5, FinsUntouched DEF CreateTasks, shutdownVars
<1>7. ASSUME CreateAllMailboxes PROVE Kept
  BY <1>7, <1>2 DEF CreateAllMailboxes, CreateMailboxes, taskVars
<1>8. ASSUME NEW n \in Need, NEW v \in VM, Draw(n, v) PROVE Kept
  BY <1>8, <1>2 DEF Draw, Arrive, shutdownVars
<1>9. ASSUME NEW v \in VM, Balance(v) PROVE Kept
  BY <1>9, <1>2 DEF Balance, Decide, taskVars, shutdownVars
<1>10. ASSUME NEW t \in Task, Return(t) PROVE Kept
  BY <1>10, <1>2 DEF Return, Leave, BalanceTypeOK, taskVars, shutdownVars
<1>11. ASSUME \/ AllFinsTaken \/ Settled \/ FinishMailbox \/ FinishBalancer
              \/ FinishOtherMailbox \/ Finish \/ HostBalancing
       PROVE  Kept
  <2>1. /\ UNCHANGED <<activity, fins, task>>
        /\ shutdown' # "collecting" => shutdown # "collecting" \/ AllFinsTaken
    BY <1>11 DEF AllFinsTaken, Settled, FinishMailbox, CloseMailbox,
       FinishBalancer, StopBalancer, FinishOtherMailbox, Finish, HostBalancing,
       balanceVars, taskVars, shutdownVars
  <2>. QED  BY <2>1, <1>2
<1>12. ASSUME UNCHANGED vars PROVE Kept
  BY <1>12, <1>2 DEF vars, balanceVars, taskVars, shutdownVars
<1>13. Kept
  BY <1>3, <1>4, <1>5, <1>6, <1>7, <1>8, <1>9, <1>10, <1>11, <1>12 DEF Next
<1>. QED  BY <1>1, <1>13

(* get_finalize closes the mailboxes in order, cluster by cluster, and     *)
(* nothing else does.                                                      *)
LEMMA ClosingStep ==
    ASSUME ClustersInv, [Next]_vars
    PROVE  /\ other_mailbox' \in [VM -> {"absent", "listening", "exited"}]
           /\ shutdown' \in {"collecting", "settling", "closing", "closing other",
                             "lingering", "over"}
           /\ closed' \in 0 .. NUMBER_OF_VMS
           /\ ClosingKept'
<1>. DEFINE Kept == /\ other_mailbox' \in [VM -> {"absent", "listening", "exited"}]
                    /\ shutdown' \in {"collecting", "settling", "closing",
                                      "closing other", "lingering", "over"}
                    /\ closed' \in 0 .. NUMBER_OF_VMS
                    /\ ClosingKept'
<1>0. /\ ClosingKept /\ NUMBER_OF_VMS \in Nat \ {0}
      /\ other_mailbox \in [VM -> {"absent", "listening", "exited"}]
      /\ shutdown \in {"collecting", "settling", "closing", "closing other",
                       "lingering", "over"}
      /\ closed \in 0 .. NUMBER_OF_VMS
      /\ mailbox \in [VM -> {"absent", "listening", "exited"}]
  BY VmAssumption DEF ClustersInv, TypeOK, BalanceTypeOK
<1>a. NUMBER_OF_VMS \in Nat \ {0} /\ closed \in 0 .. NUMBER_OF_VMS
  BY <1>0
<1>b. \A v \in VM : v \in Int /\ 0 <= v /\ v < NUMBER_OF_VMS
  BY <1>a DEF VM
<1>1. ASSUME CreateAllMailboxes PROVE Kept
  <2>1. creator = "boot"
    BY <1>1 DEF CreateAllMailboxes, CreateMailboxes
  <2>2. shutdown = "collecting"
    BY <2>1, BootIsEarly
  <2>3. /\ mailbox' = [v \in VM |-> "listening"]
        /\ other_mailbox' = [v \in VM |-> "listening"]
        /\ UNCHANGED <<shutdown, closed>>
    BY <1>1 DEF CreateAllMailboxes, CreateMailboxes
  <2>. QED  BY <1>0, <2>2, <2>3 DEF ClosingKept
<1>2. ASSUME UNCHANGED <<mailbox, other_mailbox, shutdown, closed>>,
             balancer = "exited" => balancer' = "exited"
      PROVE  Kept
  BY <1>0, <1>2 DEF ClosingKept
<1>3. ASSUME AllFinsTaken \/ Settled PROVE Kept
  <2>1. /\ UNCHANGED <<mailbox, other_mailbox, closed>>
        /\ shutdown \in {"collecting", "settling"}
        /\ shutdown' \in {"settling", "closing"}
        /\ closed = 0
    BY <1>0, <1>3 DEF AllFinsTaken, Settled, balanceVars, ClosingKept
  <2>2. \A v \in VM : ~(v < closed')
    <3>1. closed' = 0
      BY <2>1
    <3>. QED  BY <1>b, <3>1
  <2>. QED  BY <1>0, <2>1, <2>2 DEF ClosingKept
<1>4. ASSUME FinishMailbox PROVE Kept
  <2>1. /\ shutdown = "closing" /\ closed < NUMBER_OF_VMS
        /\ closed' = closed + 1
        /\ UNCHANGED <<shutdown, other_mailbox>>
        /\ mailbox' = [mailbox EXCEPT ![closed] = "exited"]
    BY <1>4 DEF FinishMailbox, CloseMailbox
  <2>2. \A v \in VM : v < closed' => v < closed \/ v = closed
    BY <1>0, <2>1 DEF VM
  <2>3. \A v \in VM : v < closed' => mailbox'[v] = "exited"
    BY <1>0, <2>1, <2>2 DEF ClosingKept
  <2>4. closed' \in 0 .. NUMBER_OF_VMS
    BY <1>0, <2>1
  <2>. QED  BY <1>0, <2>1, <2>3, <2>4 DEF ClosingKept
<1>5. ASSUME FinishBalancer PROVE Kept
  <2>1. /\ shutdown = "closing" /\ closed = NUMBER_OF_VMS
        /\ shutdown' = "closing other" /\ closed' = 0
        /\ balancer' = "exited" /\ UNCHANGED <<mailbox, other_mailbox>>
    BY <1>5 DEF FinishBalancer, StopBalancer
  <2>2. \A v \in VM : v < closed /\ ~(v < closed')
    <3>1. closed = NUMBER_OF_VMS /\ closed' = 0
      BY <2>1
    <3>. QED  BY <1>b, <3>1
  <2>3. \A v \in VM : mailbox[v] = "exited"
    BY <1>0, <2>1, <2>2 DEF ClosingKept
  <2>4. closed' \in 0 .. NUMBER_OF_VMS /\ closed' < NUMBER_OF_VMS
    <3>1. closed' = 0
      BY <2>1
    <3>. QED  BY <1>a, <3>1
  <2>. QED  BY <1>0, <2>1, <2>2, <2>3, <2>4 DEF ClosingKept
<1>6. ASSUME FinishOtherMailbox PROVE Kept
  <2>1. /\ shutdown = "closing other"
        /\ UNCHANGED <<balancer, mailbox>>
        /\ other_mailbox' = [other_mailbox EXCEPT ![closed] = "exited"]
        /\ shutdown' = IF closed' = NUMBER_OF_VMS THEN "lingering" ELSE shutdown
    BY <1>6 DEF FinishOtherMailbox, balanceVars
  <2>a. closed < NUMBER_OF_VMS /\ closed' = closed + 1
    BY <1>0, <1>6 DEF FinishOtherMailbox, ClosingKept
  <2>2. \A v \in VM : v < closed' => v < closed \/ v = closed
    BY <1>a, <1>b, <2>a
  <2>3. \A v \in VM : v < closed' => other_mailbox'[v] = "exited"
    BY <1>0, <2>1, <2>2 DEF ClosingKept
  <2>4. closed' \in 0 .. NUMBER_OF_VMS
    BY <1>a, <2>a
  <2>b. closed' # NUMBER_OF_VMS => closed' < NUMBER_OF_VMS
    BY <1>a, <2>4
  <2>5. shutdown' = "closing other" => closed' < NUMBER_OF_VMS
    BY <2>1, <2>b
  <2>c. closed' = NUMBER_OF_VMS => \A v \in VM : v < closed'
    BY <1>b
  <2>6. shutdown' = "lingering" => \A v \in VM : other_mailbox'[v] = "exited"
    BY <2>1, <2>3, <2>c
  <2>7. balancer = "exited" /\ \A v \in VM : mailbox[v] = "exited"
    BY <1>0, <2>1 DEF ClosingKept
  <2>8. shutdown' \in {"closing other", "lingering"}
    BY <2>1
  <2>9. other_mailbox' \in [VM -> {"absent", "listening", "exited"}]
    BY <1>0, <2>1
  <2>. QED  BY <2>1, <2>3, <2>4, <2>5, <2>6, <2>7, <2>8, <2>9 DEF ClosingKept
<1>7. ASSUME Finish PROVE Kept
  <2>1. /\ UNCHANGED <<balancer, mailbox, other_mailbox, closed>>
        /\ shutdown = "lingering" /\ shutdown' = "over"
    BY <1>7 DEF Finish, balanceVars
  <2>. QED  BY <1>0, <2>1 DEF ClosingKept
<1>8. ASSUME NEW n \in Need, NEW v \in VM, Draw(n, v) PROVE Kept
  BY <1>8, <1>2 DEF Draw, Arrive, shutdownVars
<1>9. ASSUME NEW v \in VM, Balance(v) PROVE Kept
  BY <1>9, <1>2 DEF Balance, Decide, shutdownVars
<1>10. ASSUME CreateTasks PROVE Kept
  BY <1>10, <1>2 DEF CreateTasks, CreateTask, shutdownVars
<1>11. ASSUME NEW c \in Cluster, NEW t \in Task, TakeFin(c, t) PROVE Kept
  BY <1>11, <1>2 DEF TakeFin, ReportFin, balanceVars
<1>12. ASSUME NEW t \in Task, Return(t) PROVE Kept
  BY <1>12, <1>2 DEF Return, Leave, shutdownVars
<1>13. ASSUME \/ \E p \in Process : Post(p)
              \/ \E c \in Cluster, t \in Task : Deliver(c, t)
              \/ HostBalancing \/ UNCHANGED vars
       PROVE  Kept
  BY <1>13, <1>2 DEF Post, Deliver, HostBalancing, balanceVars, shutdownVars, vars
<1>14. Kept
  BY <1>1, <1>3, <1>4, <1>5, <1>6, <1>7, <1>8, <1>9, <1>10, <1>11, <1>12, <1>13
     DEF Next
<1>. QED  BY <1>14

(* Nothing but the end of get_finalize asks for finish.                    *)
LEMMA EndStep ==
    ASSUME ClustersInv, [Next]_vars PROVE EndKept'
<1>0. EndKept
  BY DEF ClustersInv
<1>1. CASE Finish
  BY <1>0, <1>1 DEF EndKept, Finish, RequestFinish
<1>2. CASE HostBalancing
  BY <1>0, <1>2 DEF EndKept, HostBalancing, SetFinish, BeginRound, EndRound,
     Abort, shutdownVars
<1>3. ASSUME UNCHANGED roundsVars, shutdown = "over" => shutdown' = "over"
      PROVE  EndKept'
  BY <1>0, <1>3 DEF EndKept, roundsVars
<1>. QED  BY <1>1, <1>2, <1>3 DEF Next, CreateAllMailboxes, Draw, Balance,
          CreateTasks, Post, Deliver, TakeFin, Return, AllFinsTaken, Settled,
          FinishMailbox, FinishBalancer, FinishOtherMailbox, shutdownVars, vars

(* So every step of the older simulation keeps the invariant.              *)
LEMMA ClustersInvInductive == ClustersInv /\ [Next]_vars => ClustersInv'
<1>. SUFFICES ASSUME ClustersInv, [Next]_vars PROVE ClustersInv'
  OBVIOUS
<1>1. BalanceInv'
  BY StepOfBalance, BalanceInvInductive DEF ClustersInv
<1>2. RoundsTypeOK'
  BY StepOfRounds, RoundsTypesKept DEF ClustersInv, TypeOK
<1>3. TypeOK'
  BY <1>1, <1>2, ProcessesStep, ClosingStep DEF TypeOK, BalanceInv
<1>. QED  BY <1>1, <1>3, ProcessesStep, ClosingStep, EndStep DEF ClustersInv

-----------------------------------------------------------------------------
(* Theorems                                                                *)

(* The invariant of the older simulation, from which the rest follows.     *)
THEOREM ClustersInvariant == Spec => []ClustersInv
<1>. QED  BY ClustersInitially, ClustersInvInductive, PTL DEF Spec

(* The variables of the older simulation keep their types.                 *)
THEOREM ClustersTypeCorrect == Spec => []TypeOK
<1>1. ClustersInv => TypeOK
  BY DEF ClustersInv
<1>. QED  BY <1>1, ClustersInvariant, PTL

(* Cluster 0 behaves as GuestLoadBalance says, although the fins of        *)
(* cluster 1 are counted with its own.                                     *)
THEOREM ClustersImplementBalance == Spec => ImplementsBalance
<1>1. Init => BalanceInit
  BY DEF Init
<1>. QED  BY <1>1, StepOfBalance, ClustersInvariant, PTL
          DEF Spec, ImplementsBalance, BalanceSpec

(* max_guest_job bounds the processes of every VM of cluster 0.            *)
THEOREM JobsWithinMaximumInClusters == Spec => []JobsWithinMaximum
<1>1. ClustersInv => JobsWithinMaximum
  BY DEF ClustersInv, BalanceInv
<1>. QED  BY <1>1, ClustersInvariant, PTL

(* No task of either cluster is left sending to a mailbox whose process    *)
(* has returned.                                                           *)
THEOREM NoTaskSendsToClosedMailboxAlways == Spec => []NoTaskSendsToClosedMailbox
<1>1. ClustersInv => NoTaskSendsToClosedMailbox
  <2>. SUFFICES ASSUME ClustersInv, NEW c \in Cluster, NEW t \in Task,
                       activity[<<c, t>>] \in {"computing", "sending"},
                       (IF c = 0 THEN mailbox ELSE other_mailbox)[target[t]] = "exited"
                PROVE  FALSE
    BY DEF NoTaskSendsToClosedMailbox
  <2>1. target[t] \in VM
    BY DEF ClustersInv, TypeOK
  <2>2. mailbox[target[t]] = "exited" \/ other_mailbox[target[t]] = "exited"
    OBVIOUS
  <2>3. shutdown # "collecting"
    BY <2>1, <2>2 DEF ClustersInv, ClosingKept
  <2>4. \A p \in Process : activity[p] = "over"
    BY <2>3, AllOverWhenCounted DEF ClustersInv
  <2>5. <<c, t>> \in Process
    BY DEF Process
  <2>. QED  BY <2>4, <2>5
<1>. QED  BY <1>1, ClustersInvariant, PTL

(* finish is set behind everything else: all processes of both clusters,   *)
(* all mailboxes and the guest load balancer have returned by then.        *)
THEOREM FinishComesLastAlways == Spec => []FinishComesLast
<1>1. ClustersInv => FinishComesLast
  <2>. SUFFICES ASSUME ClustersInv, finish PROVE FinishComesLast
    BY DEF FinishComesLast
  <2>1. shutdown = "over"
    BY DEF ClustersInv, EndKept
  <2>2. \A p \in Process : activity[p] = "over"
    BY <2>1, AllOverWhenCounted DEF ClustersInv
  <2>. QED  BY <2>1, <2>2 DEF FinishComesLast, ClustersInv, ClosingKept
<1>. QED  BY <1>1, ClustersInvariant, PTL
-----------------------------------------------------------------------------
(* What the VMs still hold when get_finalize closes                        *)

(* The ten seconds of sleep end only when the last task of cluster 0 has   *)
(* returned.                                                               *)
GoneKept ==
    shutdown \notin {"collecting", "settling"} => \A t \in Task : task[t] = "gone"

(* The invariant of both clusters, with what it says of the VMs' use.      *)
HeldInv == ClustersInv /\ UseIsAccounted /\ GoneKept

(* get_finalize goes on to close when the processes of every task have     *)
(* ended and none can run; no step brings a task back.                     *)
LEMMA GoneStep ==
    ASSUME HeldInv, [Next]_vars PROVE GoneKept'
<1>0. ClustersInv /\ GoneKept
  BY DEF HeldInv
<1>1. CASE Settled
  <2>1. \A p \in Process : activity[p] = "over"
    BY <1>0, <1>1, AllOverWhenCounted DEF Settled, ClustersInv
  <2>2. \A t \in Task : <<0, t>> \in Process
    BY DEF Process, Cluster
  <2>3. \A t \in Task : task[t] = "gone"
    BY <1>0, <1>1, <2>1, <2>2 DEF Settled, NobodyRunnable, ClustersInv, ProcessesKept
  <2>. QED  BY <1>1, <2>3 DEF Settled, balanceVars, GoneKept
<1>2. CASE shutdown' \notin {"collecting", "settling"}
              => shutdown \notin {"collecting", "settling"}
  <2>1. [BalanceNext]_balanceVars
    BY <1>0, StepOfBalance
  <2>2. (\A t \in Task : task[t] = "gone") => \A t \in Task : task'[t] = "gone"
    BY <1>0, <2>1, GoneForGood DEF ClustersInv
  <2>. QED  BY <1>0, <1>2, <2>2 DEF GoneKept
<1>. QED  BY <1>1, <1>2 DEF Next, CreateAllMailboxes, Draw, Balance, CreateTasks,
          Post, Deliver, TakeFin, Return, AllFinsTaken, FinishMailbox,
          FinishBalancer, FinishOtherMailbox, Finish, HostBalancing,
          shutdownVars, vars

(* What each VM of cluster 0 is charged with stays accounted for.          *)
LEMMA HeldInvInductive == HeldInv /\ [Next]_vars => HeldInv'
<1>. SUFFICES ASSUME HeldInv, [Next]_vars PROVE HeldInv'
  OBVIOUS
<1>1. ClustersInv'
  BY ClustersInvInductive DEF HeldInv
<1>2. UseIsAccounted'
  BY StepOfBalance, UseKept DEF HeldInv, ClustersInv
<1>3. GoneKept'
  BY GoneStep
<1>. QED  BY <1>1, <1>2, <1>3 DEF HeldInv

(* When get_finalize starts to close, no VM of cluster 0 holds a task any  *)
(* more, nor memory or network use beyond what rounding left of each that  *)
(* ran on it, and all processes of both clusters have recorded their times.*)
THEOREM OnlyRoundingHeldAtShutdownAlways == Spec => []OnlyRoundingHeldAtShutdown
<1>1. Init => HeldInv
  BY ClustersInitially, UseInitially DEF Init, HeldInv, GoneKept
<1>2. HeldInv => OnlyRoundingHeldAtShutdown
  BY NothingUsed, AllOverWhenCounted
     DEF HeldInv, ClustersInv, TypeOK, GoneKept, OnlyRoundingHeldAtShutdown
<1>. QED  BY <1>1, <1>2, HeldInvInductive, PTL DEF Spec

(* In cluster 0 every VM is charged with the needs of the tasks on it, up  *)
(* to what rounding left of those that ran on it.                          *)
THEOREM UseIsAccountedInClusters == Spec => []UseIsAccounted
<1>. QED  BY ClustersImplementBalance, UseIsAccountedAlways, PTL
          DEF ImplementsBalance
==============================================================================
