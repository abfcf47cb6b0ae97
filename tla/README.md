# A verification project for HPvC

HPvC places and moves virtual machines (VMs) on physical machines (PMs). The
repository holds two SimGrid simulations of the placement policies
(`src/simgrid/organizer`, `src/simgrid/simgrid-project`) and a C prototype of
the real system (`src/c`: an executer per host, a monitor, a command line).
This directory holds TLA+ modules for the parts below, TLC configurations that
check them on small instances, and theorems TLAPS proves for every size.

## 1. Inventory

### The organizer simulation (`src/simgrid/organizer/hpvc.c`, 1400 lines)

SimGrid processes are cooperative: a process runs alone until it blocks in a
sleep, a message, a computation or a migration. Messages are a rendezvous:
`MSG_task_send` blocks until a receiver has the message.

| part | state | operations | talks to |
|---|---|---|---|
| `launch_master` | `vm_list`, `dataOfPMs`, properties `mem`, `net` | creates the VMs and the load balancer | everything, before the start |
| `create_tasks` | loop counter, drawn needs | sleep, ask, create, charge | balancer (request, response), VMs (properties) |
| `guest_load_balance` | `selected_vm_number`, `max_guest_job` | decide for a VM, stop | `create_tasks`, `get_finalize` |
| `process_task` | `i`, `n`, `p`, `target_mailbox` | compute, send, report, give back | mailbox processes, `get_finalize` |
| `process_mailbox` | none | receive, return on "finish" | tasks, organizer, `get_finalize` |
| `organization_manager`, `migrate_vm` | `dataOfPMs`, `lastCandidateVMIndex`, traffic matrices | score, choose, record, migrate, send the image | mailbox of the migrated VM |
| `get_finalize` | loop counters | count fins, sleep, close mailboxes, stop the balancer, kill the organizer | all |

Hard here: the record is written before the migration blocks; the organizer
may be killed inside a migration or be blocked for ever on a closed mailbox;
the balancer decides on loads that are stale when its decision is used; tasks
give back what they use only after they reported their end; the shutdown is
correct only in its order; sizes are truncated floats.

What makes it correct: every VM recorded once and where it runs; capacity
never exceeded; the divisor of the balancer's exponents never below the load;
what is charged is what runs; nobody blocked for ever; the program ends.

### The older simulation (`src/simgrid/simgrid-project/hpvc.c`, 1213 lines)

The same processes, with a host load balancer in place of the organizer, and
every task twice: once in each of two clusters, so that balancing (cluster 0)
is compared with taking turns (cluster 1).

| part | state | operations | talks to |
|---|---|---|---|
| `launch_master` | `vm_list`, `host_vm_info`, properties | creates VMs, balancers of cluster 0 | everything, before the start |
| `create_tasks` | loop counter | ask for cluster 0, create in both, charge cluster 0 | guest balancer, VMs |
| `guest_load_balance` | `selected_vm_number`, `max_guest_job[0]` | as above | `create_tasks`, `get_finalize` |
| `process_task`, `process_mailbox` | times | compute, one message, report, give back (cluster 0) | each other, `get_finalize` |
| `policy_func_inhab_mig` | `m`, `z`, `finish_sem` | every 180 s a round over the PMs, holding `finish_sem` | `place_vm` |
| `place_vm` | `host_vm_info` (the list of VMs of a PM), `max_pm_vm` | migrate, rewrite two lists | VMs |
| `get_finalize` | loop counters, `finish` | count the fins of both clusters, close mailboxes 0, balancer, mailboxes 1, take `finish_sem` to set `finish` | all |

Hard here: `place_vm` tests and copies before it blocks and writes afterwards;
it stores the wrong number in the list, moves bytes for entries, so that numbers
of VMs may be mixed and a round abort on one, and reads a
structure it may have freed; rounds start anywhere and wrap around; the end is
requested in the middle of a round; the division of VMs over PMs has a rest;
the fins of both clusters are counted by one counter; tasks are charged draws as
drawn and give back needs computed from six decimals of them; the host balancer
goes on long after the rest has ended.

What makes it correct: counts equal to what runs, slots never exceeded, rounds
complete and undisturbed, the policy ends; neither cluster is closed before its
tasks are over, everything is given back but for rounding, `finish` comes last.

### The prototype (`src/c`)

* `executer/executer.c` (584 lines), one per host: the main thread serves a
  command line (start a VM, teleport a VM) and an actor thread teleports VMs to
  and from other executers in a conversation of four messages. State:
  `metadatas` (name, home, history, session of each VM), the actor's `sender`,
  `vm_name`, `target_ip`. Hard: two threads, two nodes, a REQ/REP conversation
  that new commands and second sources disturb.
* `monitor/monitor.c` (439 lines), one per host: queries VirtualBox, sleeps six
  seconds, sends the host and its machines over a PUSH socket that it closes at
  once.
* `monitor/server.c` (258 lines): lists hosts and their machines as reports come
  over a PULL socket, and answers requests over a REP socket, in one thread.
* `monitor/interface.c`: a client's request and its wait for the answer.
  Hard in these three: reports are late or lost, machines move meanwhile, the
  list only grows, and a request without an answer blocks the REP socket. What
  makes them correct: hosts get listed, clients answered, the server stays alive.
* `organizer/organizer.c`: reads commands and sends them to the executer.
* `utils`: message formats, helpers.

`java` holds one line of text. Scripts, plots and results are data.

## 2. Modules

| module | models | kind |
|---|---|---|
| `VirtualMachines` | the numbering of VMs both simulations share | data |
| `Cluster` | VMs, PMs, and the layout of `launch_master` (organizer) | data |
| `Journeys` | what the executers promise careful users: machines on one host, moved in one step, with their way recorded | abstract specification |
| `Placement` | what the organizer promises: VMs in places, moved one at a time | abstract specification |
| `Organizer` | `organization_manager`, `migrate_vm`; refines `Placement` | component |
| `GuestLoadBalance` | `create_tasks`, `guest_load_balance`, mailboxes, ends of tasks (both simulations) | component |
| `Simulation` | `Organizer` and `GuestLoadBalance` with the messages of the tasks and `get_finalize`; refines both | composition |
| `TaskLoop` | the loop of `process_task` with the sizes of `main` | algorithm |
| `Layout` | the placement of `launch_master` (simgrid-project), in closed form | data |
| `Launch` | the loop that makes it | algorithm |
| `Rounds` | what rounds and the setting of `finish` promise each other | abstract specification |
| `HostLoadBalance` | `policy_func_inhab_mig`, `place_vm`, end of `get_finalize`; refines `Rounds` | component |
| `TwoClusters` | the older simulation: `GuestLoadBalance` and `Rounds` with the tasks of both clusters and `get_finalize` | composition |
| `Teleport` | the executers (`main` and `comm_actor`), their conversation, and the command lines; refines `Journeys` | component |
| `Monitor` | the daemons, the server and its clients | component |
| `GuestLoadBalanceProofs`, `SimulationProofs` (of `Organizer` too), `TaskLoopProofs`, `HostLoadBalanceProofs`, `TwoClustersProofs`, `LaunchProofs`, `TeleportProofs`, `MonitorProofs` | | theorems |
| `MC...` | the instances of the runs | |

Variables have the names of the code's variables. A process has a variable that
says where it is blocked (`phase`, `creator`, `balancer`, `finalizer`,
`policy`); an action is the code from one blocking call to the next. A
definition with an underscore and a suffix (`HasRoom_OffByOne`) is a faulty
variant of the one after it; no specification uses it, and exchanging it for
the original must break the property it stands for.

### Correspondence and abstractions

* **Organizer.** `BeginMigration(v, p)` is a period of the loop at lines
  1006-1216 that moves VM `v` to PM `p`, up to `MSG_vm_migrate` in
  `migrate_vm`: choice, `lastCandidateVMIndex`, removal from one list, entry in
  another. The scores `H` and `nextH` are any values of `Scores`; the choice
  they lead to is as coded (greatest positive `H`, first of equals, last one
  left out, VM 0 by default; lowest `nextH`, stable sort, first PM with a slot,
  gain above `GAIN`). A negative period argument makes `Start` return.
* **GuestLoadBalance.** The marginal cost of a VM is a difference of exponentials
  in its load, memory and network use. The model keeps what follows whatever the
  numbers are: a VM nowhere worse than another and better somewhere, or visited
  earlier, is not passed over. How a cost in one is traded for another is left
  open. `vm_load` counts the mailbox process, as the process list of the VM does.
  Needs of memory and network are drawn from small sets of whole units. The charge
  and the request use the draw; a task gives back what it computes from the
  strings it was passed (`Recomputed`), which may differ by `Rounding`. In the
  organizer the draws are integers and arrive as they are, so `Simulation` assumes
  `Rounding = 0` (`IntegerDraws`). In the older program they are doubles printed
  with `%f` (lines 816-824). There memory and network depend on one draw each,
  both clamped at 0.1 (lines 114-145), so half a unit of the sixth decimal makes
  at most a fixed difference per task, which `Rounding` stands for. The rounding
  of double sums is left out: it is smaller by many orders of magnitude. The older
  `create_tasks` asks with `request->net = need.memory` (line 768), which changes
  only how costs are traded.
* **Simulation.** A message is taken in one step by sender and receiver, when
  both are there. Sleeps that order processes (`Settled`, `Finish`) need that
  nobody can run at the present time, as in SimGrid. Sends and receives do not
  fail: the program sets no timeout and no host goes down.
* **TaskLoop.** Float products are truncated percentages. Where the code would
  spin without an effect no action is enabled.
* **HostLoadBalance.** Which VM pays for a migration depends on loads and is
  open, with the inhabitancy and migration costs; what `place_vm` does with the
  lists is exact, bytes of `memmove` and the freed structure included: a number is
  an int of `IntSize` bytes of `Byte` values, little-endian, and `Removed` mixes the
  bytes of two where the code does (`Overwritten`). A round that reads a number
  that is no VM's aborts the program in the bound check of `xbt_dynar_get_ptr`
  (`Abort`). It models cluster 0: the other cluster has no
  balancer.
* **Rounds, TwoClusters.** `Rounds` keeps of the host balancer where it is and who
  has `finish_sem`; `HostLoadBalance` implements it, so `TwoClusters` can use it
  in place of the migrations, which nothing else in that program reads. A round
  that aborts stops every process (`Running`). The rest of `TwoClusters` is
  `GuestLoadBalance` for cluster 0, the mailboxes of cluster 1, a process per task
  and cluster, and `get_finalize` step by step. A task of cluster 1 needs no VM of
  its own in the model: nothing there is charged or counted. One cluster's
  mailboxes are closed in order, then the balancer, then the other's.
* **Teleport.** An executer has two threads: `MainThread` and `ActorThread` are
  their steps from one blocking call to the next, `actor` says in which call the
  actor is. A conversation (`conv`) is the pair of sockets `zsock_new_req` makes
  with the target's listener: at most one request and one answer wait in it.
  ZeroMQ is external: a REP socket that has not answered receives nothing, a
  poller returns the first ready socket in its order, requests of several sources
  are received in any order. VirtualBox is external: a machine in use is not
  launched, a teleport moves the machine if the target waits for it, and may fail.
  A target saves `TeleporterEnabled` in a machine before it launches it, and only
  a launch by an actor turns it off again (`teleporter`). So a machine that has
  come to a host once and is started there by main waits to be teleported to, and
  main waits with it for good (`MainWaits`); meanwhile it has the port every
  target needs. `Arrive` is the step both executers see. Undefined behaviour: a
  freed name matches anything or nothing (`Found`), an element added by both
  threads at once may lose one (`AddStarted`), null, released and unset pointers
  end the process (`Crashes`), as when a teleport fails at once and its progress
  is read (`FailAtOnce`; `Fail` is the teleport that fails on its way), a history
  moved by `realloc` may end it (`Moves`, for glibc's block sizes). `err_exit` in
  the actor waits for the actor itself: the process stays, with VirtualBox
  released (`Halts`). Not modelled: the bytes of messages, the move of `metadatas`
  at every fifth element, and unknown VM names.
* **Monitor.** A report is a host and the machine found on it; a request is an
  address. The optional numbers of the messages are left out, and so are they by
  the program: protobuf packs an optional number only when its `has_` flag is set,
  which nobody does, so that averages stay 0 and `is_host` never arrives (every
  request is answered as one for a machine). All machines have the address
  127.0.0.1 (monitor.c:311). `Send` is `_send_host_metrics` with `_get_metrics`: a
  second machine on a host resets the entry of the first, and the daemon ends at
  the next comparison (`Crowded`; with two machines, the case of one metric only
  is left out). `AppendMachine` is lines 179-192: the copy is dropped and the new
  machine written behind the old array; glibc's smallest block has room for some,
  and the machine has no name to compare with next time, so the server may end
  (`MaxJunk` bounds how many such entries survive). `MissMachine` sends a reply
  that was never initialised: refused, sent, or fatal. `Lose` is the loss of a
  report by closing the socket behind the send.

### Assumptions

`VmAssumption` (there is a VM), `TaskAssumption` (there is a task, and needs are
positive), `ClusterAssumption` (VMs divide over the PMs, and fit),
`HostAssumption` (a slot for every VM launched): outside them the program aborts or
writes outside its arrays before the behaviour modelled begins. They are named
where the code should have checked. `HostAssumption` bounds neither the number of
VMs nor that of PMs, and does not ask that every VM be launched. `ByteAssumption`
says that the numbers of VMs are ints, and repeats for the prover two facts of
arithmetic about powers. `IntegerDraws` (`Simulation`) says that the organizer's
draws are integers. `TwoClusters` also relies on the deployment file giving
`get_finalize` and `create_tasks` the numbers of VMs and tasks that `main` has.
`TeleportAssumption`, `NoneIsNoCommand`, `MonitorAssumption` and `NoneIsNoEntry`
say that the words for "nothing" name no host, machine, command or record.
`SettingAssumption` bounds the ratio of a task's computations by 0.99.

`Careful` in `Teleport` is an assumption on users: a command is typed when the
last one is done, on the host the VM runs on, or on any host when it runs
nowhere. The executers do not check it.

## 3. Runs

| run | instance | shows |
|---|---|---|
| `organizer` | 4 VMs, 2 PMs, 3 slots, 3 scores | record right, capacity kept, refinement of `Placement`, with kills everywhere |
| `simulation` | 2 VMs, 2 PMs, 3 tasks, 1 message each | bound on the load, even deal; shutdown: nobody blocked, nothing charged, refinement of `GuestLoadBalance`, everything ends |
| `two_clusters` | 2 VMs, 2 tasks in 2 clusters, 2 memory needs, 1 network need, rounding by 1 unit | use accounted and given back up to rounding; one shutdown for both clusters, `finish` last, refinement of `GuestLoadBalance`, everything ends or a round aborts |
| `task_loop` | 2-30 VMs, ratios 0-0.7 | loop ends with the configured shares |
| `task_loop_few_vms` | 8 VMs, ratio 0.2 | violation: the loop does not end |
| `launch` | 50-60 VMs on 12-17 PMs | loop equals closed form; nothing left over when the rest fits |
| `host_load_balance` | 8 VMs, 3 PMs, 3 slots, ints of 2 bytes of 5 values | counts, slots, rounds, `finish`, end, refinement of `Rounds` |
| `host_load_balance_lists` | same | violation: lists name the wrong VMs |
| `teleport_any` | 3 hosts, 2 VMs, 4 commands typed at any time, failures | histories are journeys, sessions held are of VMs that run, the search finds what runs; executers may block, exit and crash |
| `teleport_careful` | 3 hosts, 2 VMs that only teleports launch, 3 commands, each after the last one's end | a VM runs on one host, the session used is alive, refinement of `Journeys`; teleports and returns home complete |
| `teleport_incoming` | 3 hosts, 1 VM, 2 commands | violation: a host receives one VM in its life |
| `monitor` | 2 hosts, 2 machines, 1 client, 2 moves, 1 surviving entry | undisturbed, the server serves; answers agree; hosts get listed, clients answered |

**Why these bounds are enough.** `organizer`: 2 PMs with 3 slots make a full
target, an empty source, a migration to the PM a VM is on, and a tie of scores
possible; three scores allow a gain, no gain and equality. `simulation`: three
tasks on two VMs double the maximum, let tasks end between decision and creation,
and make every order of reports, give-backs and closings. `two_clusters`: two
tasks let either cluster be ahead of the other by both, two needs tell a charge
from another, and a rounding of one unit can leave or take up to two. `task_loop`:
the settings have a computation per task or a ratio of 0, and no more computations
than rounds. Without a computation the loop may not end (`task_loop_few_vms`);
with more computations than rounds a task makes fewer of them than configured,
since lines 190-230 alternate. `launch`: rests of 0 up to more than half of the
PMs; `main` divides by `argv[3] / 50`, so 50 VMs are the fewest.
`host_load_balance`: fewer VMs than `main` accepts, but the policy only compares
numbers of one PM with another's, and the theorems hold for every number; 8 VMs on
3 PMs with 3 slots give an uneven layout, a full PM with another one to fill, and
numbers of PMs that are numbers of VMs elsewhere. With bytes of 5 values some VMs
have numbers of two bytes, and a list of 3 that loses its first entry moves 3
bytes of its two ints: numbers of VMs get mixed, and rounds abort, as they do with
256 values, ints of four bytes and lists of five (see below). `MaximumBound` caps
the doubling of `max_pm_vm` where freed memory decides it. `teleport_any`: three
hosts and four commands make a journey that returns and goes on, two sources at
one target, two conversations of one source, two executers that wait for each
other, a start in the middle of a teleport, a start of a VM that once came, a
history that is moved by `realloc`. `teleport_careful`: three commands make a
journey of two hops and the way home. Starts by main and failures are left out,
since after them a teleport need not complete; the theorems about careful users
have both. `MaxCommands` bounds the conversations. `monitor`: with two moves a
host is empty, crowded, or has exchanged its machine, before and after it is
listed. The theorems hold for any number of everything.

**Deadlock** is not checked: every one of the simulations ends, and users of the
prototype stop typing. That they end
where they should is a liveness property (`SimulationEnds`, `BalancerEnds`,
`TaskTerminates`). In `monitor` the daemons go on for ever, or the server is dead.

**Fairness.** Weak fairness of each process's next step: SimGrid runs every
process that can run, and simulated time passes. `Simulation` assumes nothing of
the organizer but that it starts: the simulation must end even if a migration
never completes. `HostLoadBalance` needs no strong fairness for the semaphore,
since `MSG_sem_release` hands it to the waiting process. `Teleport` assumes that
each thread of an executer that can go on does, and nothing of the users: a thread
of an operating system runs, and VirtualBox ends a launch. `Rounds` assumes that a
round ends or aborts, as `HostLoadBalance` shows; once it has aborted no fairness
of another process applies. `Monitor` assumes that daemons and the server go round
their loops (each iteration of the server looks at both sockets), and strong
fairness of taking a host's report: reports may be lost, but a host that goes on
reporting gets one through in the end. Moves, losses and requests are not fair.

### Findings

* The loop of a task does not end for few VMs, though its comment says its
  sizes avoid that (`task_loop_few_vms`): `hpvc.c:1363` subtracts the ratio
  where `COMP_TASK_SIZE` is meant.
* `place_vm` stores the number of the PM for that of the VM
  (`host_load_balance_lists`). What survives is stated and proved below.
* An executer's listener receives one VM in its life, since it never answers the
  metadata, though a comment speaks of "multiple incoming" (`teleport_incoming`).

Further observations, for a maintainer: an element of a VM that was teleported
away still counts as up in the search of `executer.c:270-281`, and a second
teleport of it from the same host uses its released session, which is why
`UpIsRunning`, `OneHost` and `ImplementsJourneys` are claimed for careful users
only. The monitor's server does not survive a host that reports a machine after
none or another than before, nor a request for something that is not listed:
`UndisturbedServes` says exactly when it does.

Two more limits show in the conditions of properties: the README's command (480 VMs
on the 300 PMs of `cluster.xml`) asks for more than `AccommodatedAreLaunched`
allows, so 450 are created; and a VM started by main may not be found by its
executer, because its name was freed, which is why the properties of `teleport_any`
make an exception of it.

Of the older simulation two more. With more than 256 VMs a list of five entries
that loses its first one gets 5 bytes moved: one number whole, and the lowest byte
of the next, whose other bytes stay. The mixed number may be that of no VM
launched (450 of 480, say), and the next round that reads the list aborts. Up to
256 VMs, with no more PMs than VMs, that cannot happen (`NeverAbortsWithinByte`).
And a VM of cluster 0 that has run tasks keeps a residue of memory and network at
the end, since a task gives back what it computes from six decimals
(`OnlyRoundingHeldAtShutdown`).

Of the prototype: `TeleporterEnabled` is turned off only when an actor launches a
machine (`executer.c:294`), so a start by main of a machine that once came to the
host never returns; and the progress of a teleport that fails at once is read
although it was never set (`executer.c:348-357`).

Some hazards of the prototype do bite in this code: the properties about it are
conditions under which they do not, and catch none of them. They are a machine the
server appends behind its array (`server.c:186`) and a request it cannot answer
(`server.c:114`), from which `UndisturbedServes` and `ClientsAreAnswered` start;
the daemon of a host two machines meet on (`monitor.c:300`), an escape of
`HostsGetListed`; an answer with a machine that has moved (`monitor.c:311`), which
`AnswersAgree` does not judge; executers that wait for each other
(`executer.c:447`), which careful users avoid; a history printed after it was
moved (`executer.c:260`), which changes no record; and a machine whose name is
freed or not yet recorded (`executer.c:116`, `106`), which `NotUpIsStopped`
excepts and only `HeldRuns` bears.

## 4. Theorems

All are about the specification for every value of the constants.

* **SimulationProofs** (`Organizer`). `RecordInv` = types, each VM listed at most
  once, at least once, lists within capacity, lists right about `loc` (the VM in
  flight at its target). None is inductive alone: that the removal in `migrate_vm`
  finds the VM needs that the list of the PM it runs on has it, which is
  `RecordIsActual`; that the list grows by at most one needs the removal.
  `HostsWithinCapacity` follows by counting: the VMs on a PM inject into its list.
  `NeverTwiceInARow` needs no invariant but the choice. The refinement of
  `Placement` maps each VM to the PM that lists it, which exists and is unique by
  `RecordInv`.
* **GuestLoadBalanceProofs.** `BalanceInv` = types, the turns of the two
  processes, `JobsWithinMaximum` with the pending job counted, and a bound on the
  growth of the maximum. The pending job is what makes it inductive: the decision
  is charged when made, and its creation changes nothing. `UseIsAccounted`
  compares counters with sums over the jobs of a VM: what a sum gains when a job
  enters its set is shown by a least counterexample among the subsets, as the
  library's induction takes an operator; that a task gives back what it took, up
  to `Rounding`, needs that it keeps its VM, and each task that leaves widens the
  residue allowed there by one `Rounding`. `EvenlyDealt` adds that the VM selected
  has the fewest jobs while no job has ended and all need the same.
* **SimulationProofs** (`Simulation`). The simulation implements `Organizer` (so
  its theorems hold of it) and `GuestLoadBalance`: `FinalizeInv` ties the loop
  counter of `get_finalize` to the tasks that have reported, so it stops the
  balancer only after all did, and no task is left sending to a closed mailbox. At
  the end no memory or network is held: all tasks are gone before the sleep of
  `get_finalize` is over and stay so, the sums over no jobs are 0, and so is the
  residue of integers (`IntegerDraws`).
* **HostLoadBalanceProofs.** `HostInv` = types, `CountIsActual`, lists within
  slots and within `max_pm_vm`, who holds the semaphore, which PMs the round
  has visited (an interval that may wrap around), and that the slot tested is
  still there when the migration returns. The counts are right because each
  migration adds an entry where the VM arrives and drops one, the right one or
  not, where it came from; with the slot kept, that bounds the lists. None of it
  needs to know what numbers the lists hold, and so it holds however many VMs there
  are and however their bytes are mixed: a VM about to migrate is one because the
  round looked at its number first (`Looking`). `NeverAbortsWithinByte` adds, for
  numbers of one byte, that every entry is a VM's: `memmove` then replaces an entry
  as a whole or leaves it (`OverwrittenWhole`).
* **TwoClustersProofs.** The same argument with one counter for two clusters:
  `fins` equals the number of processes, of either cluster, that are over, so when
  it reaches the number of all of them no task of the other cluster is left
  behind. `finish` is last because `get_finalize` asks for the semaphore only when
  all mailboxes and the balancer are closed, and stays so while it waits.
  `OnlyRoundingHeldAtShutdown` goes as above, for the tasks of cluster 0, with the
  residue of those that have left.
* **LaunchProofs.** The invariant of `launch_master`'s loop: its counter is the
  first number of the PM it has come to in `Layout`'s closed form, capped by the
  number of VMs; the closed form is monotone and steps by the size of a PM.
* **MonitorProofs.** Undisturbed, every host sends one and the same report, so
  its machine is the one listed and nothing is ever appended; whoever asks found
  something listed, and the list never forgets (`ListStays`). Answers agree
  because the first machine found in the list stays the first.
* **TeleportProofs.** `ProtocolInv` = types, what an actor is about to use was
  set, and its conversation goes to the host it teleports to. `TeleportInv` adds
  three parts to make `HistoryIsJourney` inductive: what every element says
  (`ElementsKept`), what the element a source is about to send says
  (`SessionKept`), and what the one under way says, whose target waits for it and
  for no other (`MetadataKept`). Without the last two nothing connects the record
  a target makes to the one its source keeps. A search that ends early, elements
  lost between threads, and histories freed by `realloc` are all in the steps;
  hosts where main has started a machine are excepted, as in the property.
  `RunsInv` is per host: the sessions held there are of machines that run there,
  one each, and what main is starting, the actor has found or a target is
  bringing up is none of these yet. `HeldRuns` is one of its parts;
  `RunningIsFound` needs that a machine with a live session has it in its last
  element, so that a search ends there though stale elements are left before it.

* **TeleportProofs** (careful users). `OneHost`, `UpIsRunning` and
  `ImplementsJourneys` need `Careful`, for users who do not wait do break them.
  `CarefulInv` says where the command in progress may be: typed, in the pipe, in
  main's hands, about to launch or teleport, or in a conversation; it is at one
  of these places at most (`OnePlace`), and wherever it is, the machine it is
  about runs at most on the host it was typed at (`AloneAt`). `OneEach` follows:
  a start or a launch finds the machine nowhere else, and an arrival takes it
  from its only host. `UpInv` adds that a machine ever recorded runs somewhere,
  so one that is found by its name on the host where the command was typed runs
  there, and its last element has its session (`LiveSession`). `StoryInv` joins
  `CarefulInv` and `TeleportInv` and adds that of each machine that runs exactly
  one story is told (`Told`): by the element with its session, by main, which is
  about to record a machine it started, or by the metadata under way to the host
  where it has come. That main's two halves of `add_metadata` are not divided by
  the actor (`NoRace`) is what careful users are needed for there. Each step
  changes the story of one machine at most, and by one hop: it is a step of
  `Journeys`, or none. Failures, crashes, and commands that come to nothing are
  in the steps.
* **TaskLoopProofs.** `LoopInv`: `i` counts both kinds of iterations, and while
  computations are left there are no more messages than computations, since each
  round makes a computation before a message. Were computations left at the end,
  the iterations would be at most twice the computations made, which
  `RoundsSuffice` (twice the computations wanted are at most one more than the
  iterations) excludes. `HalfComputesAsConfigured` shows that it does for any
  number of VMs at any ratio up to 0.5. `NeverSpins` needs that a computation
  makes up for the message `hpvc.c:1363` takes away (`ComputesIfWanted`);
  `task_loop_few_vms` is what happens where it does not. The comparison of two
  truncated quotients is a lemma about `div` (`HalfSuffices`).

Only model-checked: liveness (`SimulationEnds`, `BalancerEnds`, `TaskTerminates`,
`TeleportCompletes`, `HomeIsReached`, `HostsGetListed`, `ClientsAreAnswered`, the
fairness part of `ImplementsRounds`), which the prover does not reach. Of
`TaskTerminates` the safety part, that the loop never repeats without a step, is
proved (`NeverSpins`). Every invariant a passing run checks is proved.

## 5. Not modelled

* The traffic matrices of the organizer (`send_task`, hpvc.c 1277-1322, and the
  scores computed from them, 1010-1055 and 1075-1117). They are running averages
  in floating point that decide which VM moves where and nothing else. `Organizer`
  leaves that choice open over every score, so what is shown holds for every
  content of the matrices; that a good VM is chosen is not shown.
* `destroy_master` of both simulations: sums and averages printed after `MSG_main`
  returned, alone.
* Numbers read by the monitor daemon, its yaml file, the start of VirtualBox, and
  the helpers and message formats of `utils`: conversions without state.
* Scripts, plots and results.
